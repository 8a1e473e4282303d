SPECIFICATION FairSpec
CONSTANTS
  Words = {x, y, z}
  MaxStores = 3
PROPERTIES EvenFetchIsCurrent FetchEnds
