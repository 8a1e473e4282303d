----------------------------- MODULE SerialLine -----------------------------
(***************************************************************************)
(* A decoder at the end of a bad line.  The environment sends frames byte  *)
(* by byte; a byte may be lost or altered, others may come in between, and *)
(* each may be late, because the line was silent or because the loop did   *)
(* not read it in time.  The other way round, a loop that stalls may hide  *)
(* the gap between two frames.  A CRSF line also carries MSP requests in   *)
(* fragments.                                                              *)
(***************************************************************************)
EXTENDS LineDecoders, CrsfMsp

CONSTANTS
  Protocols,     \* whose lines are tried
  Payloads,      \* payload sizes of the MSP frames sent
  FragmentSize,  \* size field of the CRSF frames that carry a fragment
  OtherType, OtherSize,  \* a CRSF frame the decoder is not interested in
  Totals,        \* units of data of the requests sent over CRSF
  MaxFragments,  \* bound: fragments sent
  MaxMissed      \* bound: fragments lost in a row

ASSUME LineAssumption ==
  /\ Protocols \subseteq {"IBUS", "SBUS", "CRSF", "MSP"}
  /\ Payloads \subseteq Nat /\ Totals \subseteq Nat
  /\ {FragmentSize, OtherSize} \subseteq 3..(CrsfMax - 2)
  /\ FragmentSize >= MspMin
  /\ ~CrsfKnown(OtherType, OtherSize)
  /\ MaxFragments \in Nat
  /\ MaxMissed \in Nat /\ MaxMissed < SeqMod

VARIABLES
  frame,    \* the frame being sent
  pos,      \* how many of its bytes have been sent
  clean,    \* these have arrived, unaltered and nothing in between
  visible,  \* they have, and the decoder could see where the first one began
  blurred,  \* since the last gap the decoder saw, another frame was begun, or a
            \* byte came that was not sent so
  applied,  \* what the decoder made of the last byte: nothing, a frame that was
            \* sent, or something else
  request,  \* the request that is sent over CRSF, and how many fragments of it
  sentNo,   \* how many fragments were sent
  heardNo   \* how many of them when the decoder last had one

lineVars == <<frame, pos, clean, visible, blurred>>
senderVars == <<request, sentNo, heardNo>>
vars == <<protocol, dec, msg, executed, lineVars, applied, senderVars>>

\* --- the frames ----------------------------------------------------------------

\* A frame begins with the bytes head, has len bytes, and is wanted or not.  The
\* bytes after the head may have any value, those of a head included.
Shape(head, len, wanted) ==
  [head |-> head, len |-> len, wanted |-> wanted, part |-> <<>>]

Crsf(type, size, wanted) == Shape(<<CrsfSync, size, type>>, size + 2, wanted)

MspV1(n, dir) == Shape(<<Dollar, CharM, dir, n>>, 6 + n, n <= MspBuf)

MspV2(n, dir) ==
  Shape(<<Dollar, CharX, dir, 0, 0, 0, n % Base, n \div Base>>, 9 + n, n <= MspBuf)

Shapes ==
  CASE protocol = "IBUS" -> {Shape(<<IbusSize, IbusCommand>>, IbusSize, TRUE)}
    [] protocol = "SBUS" -> {Shape(<<SbusStart>>, SbusSize, TRUE)}
    [] protocol = "CRSF" -> {Crsf(RcType, RcSize, TRUE), Crsf(LinkType, LinkSize, TRUE),
                             Crsf(OtherType, OtherSize, FALSE)}
    [] protocol = "MSP" -> {MspV1(n, d) : n \in Payloads \cap Byte, d \in Directions}
                             \cup {MspV2(n, d) : n \in Payloads, d \in Directions}

\* The fragments of a request: the first one brings the header and the first
\* unit of data, each of the others one unit.
Fragments(r) == IF r.total = 0 THEN 1 ELSE r.total

Part(r, k) ==
  [req |-> r, start |-> (k = 1), seq |-> sentNo % SeqMod,
   data |-> IF k <= r.total THEN <<Units(r)[k]>> ELSE <<>>]

FragmentFrame(r, k) ==
  [Crsf(MspType, FragmentSize, TRUE) EXCEPT !.part = <<Part(r, k)>>]

CarriesPart == frame.part # <<>>

\* the values byte i of the frame may have
ByteAt(i) == IF i <= Len(frame.head) THEN {frame.head[i]} ELSE Byte

\* --- what the decoder does with a byte -------------------------------------------

\* The checksum is right: the decoder's frame is the one sent, from its first byte
\* to its last.
SumOk(d) == clean' /\ pos' = frame.len /\ Consumed(d) = pos'

Take(c, late) ==
  LET d == Timed(late)
  IN  /\ dec' = Parse(d, c)
      /\ applied' = CASE ~Applies(d, SumOk(d)) -> "nothing"
                      [] Applies(d, SumOk(d)) /\ SumOk(d) -> "sent"
                      [] OTHER -> "mixture"
      /\ IF applied' = "sent" /\ CarriesPart
         THEN ApplyMspReq(frame.part[1]) /\ heardNo' = sentNo
         ELSE ApplyNoMsp /\ UNCHANGED heardNo
      /\ UNCHANGED <<protocol, frame, request, sentNo>>

\* The decoder can tell a first byte that follows a gap, or finds it at the start.
StartSeen(late) == dec = Fresh \/ (late /\ protocol # "MSP")

\* the next byte, as it was sent
Arrive(c, late) ==
  /\ pos < frame.len
  /\ c \in ByteAt(pos + 1)
  /\ pos' = pos + 1
  /\ clean' = (clean \/ pos = 0)
  /\ visible' = IF pos = 0 THEN StartSeen(late) ELSE visible /\ (~late \/ protocol = "MSP")
  /\ blurred' = (blurred /\ ~late)
  /\ Take(c, late)

\* The direction of an MSP frame is not under its checksum.
Unchecked(c) == protocol = "MSP" /\ pos' = 3 /\ c \in Directions

\* the next byte, altered
Alter(c, late) ==
  /\ pos < frame.len
  /\ pos < Len(frame.head) => c \notin ByteAt(pos + 1)
  /\ pos' = pos + 1
  /\ clean' = (clean /\ Unchecked(c))
  /\ visible' = FALSE
  /\ blurred' = TRUE
  /\ Take(c, late)

\* a byte that was not sent
Insert(c, late) ==
  /\ pos < frame.len
  /\ clean' = FALSE /\ visible' = FALSE
  /\ blurred' = TRUE
  /\ UNCHANGED pos
  /\ Take(c, late)

\* the next byte is lost
Lose ==
  /\ pos < frame.len
  /\ pos' = pos + 1
  /\ clean' = FALSE /\ visible' = FALSE
  /\ applied' = "nothing" /\ executed' = FALSE
  /\ UNCHANGED <<protocol, dec, msg, frame, blurred, senderVars>>

\* --- the sender --------------------------------------------------------------------

Begin(f) ==
  /\ pos = frame.len
  /\ frame' = f
  /\ pos' = 0 /\ clean' = FALSE /\ visible' = FALSE
  /\ blurred' = TRUE
  /\ applied' = "nothing" /\ executed' = FALSE
  /\ UNCHANGED <<protocol, dec, msg, heardNo>>

NextFrame == \E f \in Shapes : Begin(f) /\ UNCHANGED <<request, sentNo>>

\* the next fragment of the request, or the first one of another
NextFragment ==
  /\ protocol = "CRSF"
  /\ sentNo < MaxFragments
  /\ sentNo - heardNo <= MaxMissed
  /\ \E r \in [id : {request.req.id, request.req.id + 1}, total : Totals] :
       /\ IF request.sent < Fragments(request.req)
          THEN r = request.req /\ request' = [request EXCEPT !.sent = @ + 1]
          ELSE r.id = request.req.id + 1 /\ request' = [req |-> r, sent |-> 1]
       /\ Begin(FragmentFrame(r, request'.sent))
  /\ sentNo' = sentNo + 1

Init ==
  /\ protocol \in Protocols
  /\ dec = Fresh
  /\ msg = EmptyMsg /\ executed = FALSE
  /\ frame \in Shapes /\ pos = 0
  /\ clean = FALSE /\ visible = FALSE /\ blurred = FALSE
  /\ applied = "nothing"
  /\ request = [req |-> NoRequest, sent |-> 1]
  /\ sentNo = 0 /\ heardNo = 0

Next ==
  \/ \E c \in Byte, late \in BOOLEAN :
       Arrive(c, late) \/ Alter(c, late) \/ Insert(c, late)
  \/ Lose
  \/ NextFrame
  \/ NextFragment

Spec == Init /\ [][Next]_vars

\* The sender goes on sending, and the loop reading.
FairSpec ==
  /\ Spec
  /\ WF_vars(\E c \in Byte, late \in BOOLEAN : Arrive(c, late))
  /\ WF_vars(NextFrame)

-------------------------------------------------------------------------------

\* No byte is stored outside the buffer, whatever arrives when: SBUS, MSP and the
\* first two states of CRSF store without looking at the index.
IndexInBounds == Storing => dec.idx < Room

\* A frame that arrives whole, its beginning seen by the decoder, is taken,
\* whatever came before: a truncated or corrupt frame, or noise, cannot keep a
\* decoder shifted into the next one.
WholeFrameTaken == visible /\ pos = frame.len /\ frame.wanted => applied = "sent"

\* What is taken was sent.  SBUS, without a checksum, takes something else only if
\* since the gap it saw last a byte was not as sent or a gap was not seen: bytes
\* that are lost cannot make it do so.
TakenWasSent == applied = "mixture" => protocol = "SBUS" /\ blurred

\* From some point on all bytes arrive as they were sent, the loop reads in time,
\* and none but the first byte of a frame looks like one.
LineRestored ==
  <>[][\/ pos = frame.len
       \/ \E c \in Byte, late \in BOOLEAN :
            /\ Arrive(c, late)
            /\ pos = 0 \/ (~late /\ c # frame.head[1])]_vars

\* Then a decoder finds the frames again, even if it never sees a gap.
FindsFrames ==
  LineRestored => <>[](pos = frame.len /\ frame.wanted => applied = "sent")

\* Over CRSF no request is run with half of its data, or with data of two.
DataNeverMixed == executed => msg.buf \in {<<>>, Units(msg.cmd)}

\* Crsf.cpp: on a sequence mismatch the message is reset.  A request is run with all
\* of its data.
RunsWhole == executed => msg.buf = Units(msg.cmd)
=============================================================================
