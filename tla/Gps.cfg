SPECIFICATION FairSpec
CONSTANTS
  Bauds <- SearchOrder
  Target = "115200"
  RxBauds <- Starts
  NmeaMsgOff <- Sentences
  Refusable = {"SBAS", "GNSS"}
  Limit = 1
  MaxRestarts = 1
INVARIANT TypeOK
INVARIANT IndexInBounds
INVARIANT SetUpWhenReceiving
INVARIANT ErrorHasCause
INVARIANT FixIsCurrent
PROPERTY SetUpEnds
