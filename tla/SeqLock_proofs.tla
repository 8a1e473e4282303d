--------------------------- MODULE SeqLock_proofs ---------------------------
(***************************************************************************)
(* SeqLock for any number of words and of stores: its types, and that a    *)
(* fetch that returns on an even counter returns the last completed store. *)
(***************************************************************************)
EXTENDS SeqLock, TLAPS

\* What the writer guarantees: outside a section the counter is even and all
\* words are the last store's; inside it the counter is odd and every word is
\* the old store's or the new one's, as it has been written or not.
WriterInv ==
  /\ writer = "idle" => ~Odd(counter) /\ data = [w \in Words |-> counter]
  /\ writer = "open" =>
       /\ ~Odd(curr) /\ counter = curr + 1
       /\ \A w \in Words : data[w] = IF w \in toWrite THEN curr ELSE curr + 2

\* What the reader relies on: while the counter is the one it loaded, what it
\* has copied is that store's.
ReaderInv ==
  reader = "copy" =>
    /\ ~Odd(seqBefore) /\ seqBefore <= counter
    /\ counter = seqBefore =>
         \A w \in Words \ toCopy : copy[w] = seqBefore

IInv == TypeOK /\ WriterInv /\ ReaderInv

LEMMA Parity ==
  ASSUME NEW n \in Nat, ~Odd(n)
  PROVE  Odd(n + 1) /\ ~Odd(n + 2)
BY DEF Odd

LEMMA InitIInv == Init => IInv
BY SMT DEF Init, IInv, TypeOK, WriterInv, ReaderInv, Odd

\* Every step keeps the variables in their types.
LEMMA TypeStep == TypeOK /\ [Next]_vars => TypeOK'
<1> SUFFICES ASSUME TypeOK, [Next]_vars PROVE TypeOK'
  OBVIOUS
<1> USE DEF TypeOK
<1>1. CASE Open BY <1>1 DEF Open, fetchVars
<1>2. CASE \E w \in Words : WriteWord(w) BY <1>2 DEF WriteWord, fetchVars
<1>3. CASE Close BY <1>3 DEF Close, fetchVars
<1>4. CASE BeginFetch BY <1>4 DEF BeginFetch, storeVars
<1>5. CASE LoadEven BY <1>5 DEF LoadEven, storeVars
<1>6. CASE LoadOdd BY <1>6 DEF LoadOdd, storeVars
<1>7. CASE \E w \in Words : CopyWord(w) BY <1>7 DEF CopyWord, storeVars
<1>8. CASE LoadAfter BY <1>8 DEF LoadAfter, storeVars
<1>9. CASE UNCHANGED vars BY <1>9 DEF vars
<1> QED BY <1>1, <1>2, <1>3, <1>4, <1>5, <1>6, <1>7, <1>8, <1>9
        DEF Next, FinishStore, FinishFetch

\* A fetch does not disturb the writer; each step of a store keeps its part.
LEMMA WriterStep == IInv /\ [Next]_vars => WriterInv'
<1> SUFFICES ASSUME IInv, [Next]_vars PROVE WriterInv'
  OBVIOUS
<1> USE DEF IInv, TypeOK
<1>1. CASE Open
  BY <1>1 DEF Open, WriterInv, fetchVars
<1>2. ASSUME NEW w \in Words, WriteWord(w) PROVE WriterInv'
  <2>1. writer' = "open" /\ counter' = curr' + 1 /\ ~Odd(curr')
    BY <1>2 DEF WriteWord, WriterInv, fetchVars
  <2>2. ASSUME NEW v \in Words
        PROVE  data'[v] = IF v \in toWrite' THEN curr' ELSE curr' + 2
    BY <1>2 DEF WriteWord, WriterInv, fetchVars
  <2> QED BY <2>1, <2>2 DEF WriterInv
<1>3. CASE Close
  <2>1. writer' = "idle" /\ counter' = curr + 2 /\ data' = data
    BY <1>3 DEF Close, fetchVars
  <2>2. ~Odd(counter')
    BY <1>3, <2>1, Parity DEF Close, WriterInv
  <2>3. data' = [w \in Words |-> counter']
    BY <1>3, <2>1 DEF Close, WriterInv
  <2> QED BY <2>1, <2>2, <2>3 DEF WriterInv
<1>4. CASE BeginFetch \/ FinishFetch \/ UNCHANGED vars
  <2>1. UNCHANGED <<counter, data, storeVars>>
    BY <1>4 DEF BeginFetch, FinishFetch, LoadEven, LoadOdd, CopyWord, LoadAfter, vars, storeVars
  <2> QED BY <2>1 DEF WriterInv, storeVars
<1> QED BY <1>1, <1>2, <1>3, <1>4 DEF Next, FinishStore

\* A store moves the counter past the one the reader loaded before it changes
\* a word, so a word copied under an unchanged counter is that store's.
LEMMA ReaderStep == IInv /\ [Next]_vars => ReaderInv'
<1> SUFFICES ASSUME IInv, [Next]_vars PROVE ReaderInv'
  OBVIOUS
<1> USE DEF IInv, TypeOK
<1>1. CASE Open
  BY <1>1 DEF Open, ReaderInv, fetchVars
<1>2. CASE \E w \in Words : WriteWord(w)
  BY <1>2 DEF WriteWord, ReaderInv, fetchVars
<1>3. CASE Close
  BY <1>3 DEF Close, ReaderInv, WriterInv, fetchVars
<1>4. CASE BeginFetch
  BY <1>4 DEF BeginFetch, ReaderInv
<1>5. CASE LoadEven
  BY <1>5 DEF LoadEven, ReaderInv
<1>6. CASE LoadOdd
  BY <1>6 DEF LoadOdd, ReaderInv
<1>7. ASSUME NEW w \in Words, CopyWord(w) PROVE ReaderInv'
  <2>1. reader = "copy" /\ reader' = "copy" /\ seqBefore' = seqBefore /\ counter' = counter
    BY <1>7 DEF CopyWord
  <2>2. ASSUME counter = seqBefore PROVE data[w] = seqBefore
    <3>1. writer = "idle"
      BY <2>1, <2>2, Parity DEF WriterInv, ReaderInv
    <3> QED BY <2>2, <3>1 DEF WriterInv
  <2>3. ASSUME counter = seqBefore, NEW v \in Words \ toCopy'
        PROVE  copy'[v] = seqBefore
    BY <1>7, <2>1, <2>2, <2>3 DEF CopyWord, ReaderInv
  <2> QED BY <2>1, <2>3 DEF ReaderInv
<1>8. CASE LoadAfter
  BY <1>8 DEF LoadAfter, ReaderInv
<1>9. CASE UNCHANGED vars
  BY <1>9 DEF vars, ReaderInv
<1> QED BY <1>1, <1>2, <1>3, <1>4, <1>5, <1>6, <1>7, <1>8, <1>9
        DEF Next, FinishStore, FinishFetch

\* What the writer guarantees and the reader relies on holds in every
\* reachable state of store and fetch.
THEOREM Invariance == Spec => []IInv
<1>1. IInv /\ [Next]_vars => IInv'
  BY TypeStep, WriterStep, ReaderStep DEF IInv
<1> QED BY InitIInv, <1>1, PTL DEF Spec

\* A fetch that returns on an even counter returns the last completed store,
\* whole, for every number of words and of stores.
THEOREM EvenFetch == Spec => EvenFetchIsCurrent
<1>1. ASSUME IInv, [Next]_vars, reader = "copy", reader' = "idle"
      PROVE  writer = "idle" /\ copy' = [w \in Words |-> counter]
  <2> USE DEF IInv, TypeOK
  <2>1. LoadAfter
    BY <1>1 DEF Next, Open, FinishStore, WriteWord, Close, BeginFetch, FinishFetch,
                LoadEven, LoadOdd, CopyWord, fetchVars, vars
  <2>2. counter = seqBefore /\ toCopy = {} /\ copy' = copy
    BY <1>1, <2>1 DEF LoadAfter
  <2>3. writer = "idle"
    BY <1>1, <2>2, Parity DEF WriterInv, ReaderInv
  <2>4. \A w \in Words : copy[w] = counter
    BY <1>1, <2>2 DEF ReaderInv
  <2> QED BY <1>1, <2>2, <2>3, <2>4
<1>2. IInv /\ [Next]_vars
        => [reader = "copy" /\ reader' = "idle"
              => writer = "idle" /\ copy' = [w \in Words |-> counter]]_vars
  BY <1>1
<1> QED BY <1>2, Invariance, PTL DEF Spec, EvenFetchIsCurrent
=============================================================================
