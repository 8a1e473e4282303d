------------------------------ MODULE SeqLock ------------------------------
(***************************************************************************)
(* SeqLockWrapper: one task stores a value of several words, another       *)
(* fetches it, with a counter that is odd while a store is in progress.    *)
(*                                                                         *)
(* A word is written and copied at once, the words of a value in any order *)
(* and with any step of the other task in between; the fences keep the     *)
(* words between the counter's loads and stores.  The content of a word is *)
(* abstracted to the store it comes from, named by the counter with which  *)
(* that store closes its section (0: the value of the constructor).        *)
(***************************************************************************)
EXTENDS Naturals

CONSTANTS
  Words,     \* the words of T
  MaxStores  \* bound of the model: how many stores happen

ASSUME StoresAssumption == MaxStores \in Nat

VARIABLES
  counter, data,      \* _counter and _data
  writer,             \* "idle" or "open"
  curr, toWrite,      \* store: the counter it found, the words it has yet to write
  reader,             \* "idle", "load" (top of the loop) or "copy"
  seqBefore, seqAfter, copy, toCopy  \* fetch: its locals, the words it has yet to copy

vars == <<counter, data, writer, curr, toWrite,
          reader, seqBefore, seqAfter, copy, toCopy>>

storeVars == <<writer, curr, toWrite>>
fetchVars == <<reader, seqBefore, seqAfter, copy, toCopy>>

Odd(n) == n % 2 = 1

Init ==
  /\ counter = 0 /\ data = [w \in Words |-> 0]
  /\ writer = "idle" /\ curr = 0 /\ toWrite = {}
  /\ reader = "idle" /\ seqBefore = 0 /\ seqAfter = 0
  /\ copy = [w \in Words |-> 0] /\ toCopy = {}

\* --- store -----------------------------------------------------------------

\* Mutant: the section opens without making the counter odd.
OpenQuietly ==
  /\ writer = "idle"
  /\ counter < 2 * MaxStores
  /\ writer' = "open" /\ curr' = counter /\ toWrite' = Words
  /\ UNCHANGED <<counter, data, fetchVars>>

Open ==
  /\ writer = "idle"
  /\ counter < 2 * MaxStores
  /\ writer' = "open" /\ curr' = counter /\ toWrite' = Words
  /\ counter' = counter + 1
  /\ UNCHANGED <<data, fetchVars>>

WriteWord(w) ==
  /\ writer = "open" /\ w \in toWrite
  /\ data' = [data EXCEPT ![w] = curr + 2]
  /\ toWrite' = toWrite \ {w}
  /\ UNCHANGED <<counter, writer, curr, fetchVars>>

\* Mutant: the section closes with the counter still odd.
CloseOdd ==
  /\ writer = "open" /\ toWrite = {}
  /\ counter' = curr + 1
  /\ writer' = "idle"
  /\ UNCHANGED <<data, curr, toWrite, fetchVars>>

Close ==
  /\ writer = "open" /\ toWrite = {}
  /\ counter' = curr + 2
  /\ writer' = "idle"
  /\ UNCHANGED <<data, curr, toWrite, fetchVars>>

\* --- fetch -----------------------------------------------------------------

BeginFetch ==
  /\ reader = "idle"
  /\ reader' = "load"
  /\ seqBefore' = 0 /\ seqAfter' = 0
  /\ copy' = [w \in Words |-> 0]
  /\ UNCHANGED <<counter, data, storeVars, toCopy>>

LoadEven ==
  /\ reader = "load" /\ ~Odd(counter)
  /\ seqBefore' = counter
  /\ reader' = "copy" /\ toCopy' = Words
  /\ UNCHANGED <<counter, data, storeVars, seqAfter, copy>>

\* A write is in progress: the continue jumps to the loop's condition, which
\* compares with the seqAfter of an earlier iteration.
LoadOdd ==
  /\ reader = "load" /\ Odd(counter)
  /\ seqBefore' = counter
  /\ reader' = IF counter = seqAfter THEN "idle" ELSE "load"
  /\ UNCHANGED <<counter, data, storeVars, seqAfter, copy, toCopy>>

CopyWord(w) ==
  /\ reader = "copy" /\ w \in toCopy
  /\ copy' = [copy EXCEPT ![w] = data[w]]
  /\ toCopy' = toCopy \ {w}
  /\ UNCHANGED <<counter, data, storeVars, reader, seqBefore, seqAfter>>

LoadAfter ==
  /\ reader = "copy" /\ toCopy = {}
  /\ seqAfter' = counter
  /\ reader' = IF counter = seqBefore THEN "idle" ELSE "load"
  /\ UNCHANGED <<counter, data, storeVars, seqBefore, copy, toCopy>>

\* --- the two tasks ----------------------------------------------------------

FinishStore == (\E w \in Words : WriteWord(w)) \/ Close

FinishFetch == LoadEven \/ LoadOdd \/ (\E w \in Words : CopyWord(w)) \/ LoadAfter

Next == Open \/ FinishStore \/ BeginFetch \/ FinishFetch

Spec == Init /\ [][Next]_vars

\* A call that has begun keeps running; neither task need call again.
FairSpec == Spec /\ WF_vars(FinishStore) /\ WF_vars(FinishFetch)

-----------------------------------------------------------------------------

TypeOK ==
  /\ counter \in Nat /\ data \in [Words -> Nat]
  /\ writer \in {"idle", "open"} /\ curr \in Nat /\ toWrite \in SUBSET Words
  /\ reader \in {"idle", "load", "copy"}
  /\ seqBefore \in Nat /\ seqAfter \in Nat
  /\ copy \in [Words -> Nat] /\ toCopy \in SUBSET Words

\* A fetch that returns after comparing two loads of an even counter returns
\* every word of the last completed store, none of an older or an unfinished one.
EvenFetchIsCurrent ==
  [][reader = "copy" /\ reader' = "idle"
       => writer = "idle" /\ copy' = [w \in Words |-> counter]]_vars

\* Once the stores stop, a fetch in progress returns.
FetchEnds == (reader # "idle") ~> (reader = "idle")
=============================================================================
