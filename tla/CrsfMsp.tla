------------------------------- MODULE CrsfMsp -------------------------------
(***************************************************************************)
(* MSP requests over a CRSF link (Crsf::decodeMsp, InputCRSF::applyMspReq):*)
(* a request is cut into fragments, one to a CRSF frame, with a cyclic     *)
(* sequence number, and the first of them carries the MSP header.  The     *)
(* decoder puts them together in _msg, which lives as long as the receiver.*)
(***************************************************************************)
EXTENDS Integers, Sequences

CONSTANTS
  SeqMod,   \* the cycle of the sequence numbers (16)
  DataMax   \* MSP_BUF_SIZE, in the units of data one fragment carries

ASSUME FragmentAssumption == SeqMod \in Nat \ {0, 1} /\ DataMax \in Nat \ {0}

VARIABLES
  msg,      \* _msg
  executed  \* history: whether the last byte made applyMspReq run a command

\* A request has a number and so many units of data.
Units(r) == [i \in 1..r.total |-> [id |-> r.id, unit |-> i]]

NoRequest == [id |-> 0, total |-> 0]

\* cmd stands for the whole header the start fragment has brought; buf is what
\* msg.received counts.
EmptyMsg ==
  [received |-> FALSE, cmd |-> NoRequest, expected |-> 0, buf |-> <<>>,
   sequence |-> 0]

Prefix(s, n) == IF Len(s) <= n THEN s ELSE SubSeq(s, 1, n)

\* fillMessage, with the cut of MspMessage::append
Start(m, f) ==
  LET data == Prefix(f.data, IF f.req.total < DataMax THEN f.req.total ELSE DataMax)
  IN  [m EXCEPT !.received = (Len(data) = f.req.total), !.cmd = f.req,
                !.expected = f.req.total, !.buf = data]

\* Mutant: the sequence number is not looked at.
ExpectsAny(m, f) == TRUE

Expects(m, f) == f.seq = (m.sequence + 1) % SeqMod

\* A chunk that does not fit is left out; one of nothing completes a request of
\* which nothing is missing.
Continue(m, f) ==
  LET all == m.buf \o Prefix(f.data, m.expected - Len(m.buf))
  IN  IF Len(all) > DataMax THEN m
      ELSE [m EXCEPT !.buf = all, !.received = (@ \/ Len(all) = m.expected)]

Mismatch(m) == [m EXCEPT !.received = FALSE, !.expected = 0, !.buf = <<>>]

DecodeMsp(m, f) ==
  LET n == CASE f.start -> Start(m, f)
             [] ~f.start /\ Expects(m, f) -> Continue(m, f)
             [] OTHER -> Mismatch(m)
  IN  [n EXCEPT !.sequence = f.seq]

\* applyMspReq: a message that is complete is run, and stays in _msg.
ApplyMspReq(f) ==
  /\ msg' = DecodeMsp(msg, f)
  /\ executed' = msg'.received

ApplyNoMsp == UNCHANGED msg /\ executed' = FALSE
=============================================================================
