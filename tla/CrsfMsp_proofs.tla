---------------------------- MODULE CrsfMsp_proofs ----------------------------
(***************************************************************************)
(* For every cycle of sequence numbers, every request and every size of    *)
(* buffer: what is run has all of its data or none.  The invariant says    *)
(* what _msg holds of the request that is being sent, as long as no        *)
(* fragment of it is missing.                                              *)
(***************************************************************************)
EXTENDS SerialLine, SequenceTheorems, TLAPS

\* --- the invariant ----------------------------------------------------------------

Request == [id : Nat, total : Nat]

Unit == [id : Nat, unit : Nat]

Message ==
  [received : BOOLEAN, cmd : Request, expected : Nat, buf : Seq(Unit), sequence : Nat]

Least(m, n) == IF m < n THEN m ELSE n

SenderInv ==
  /\ request \in [req : Request, sent : Nat \ {0}]
  /\ request.sent <= Fragments(request.req)
  /\ sentNo \in Nat /\ heardNo \in Nat
  /\ heardNo <= sentNo /\ sentNo <= heardNo + MaxMissed + 1

\* Fragment p is the last one that was sent.
Last(p) ==
  /\ p.req = request.req
  /\ p.start <=> request.sent = 1
  /\ p.seq = (sentNo - 1) % SeqMod
  /\ p.data = IF request.sent <= request.req.total
              THEN <<[id |-> request.req.id, unit |-> request.sent]>> ELSE <<>>

\* The fragment on the line is the last one sent, and it is heard once.
CarriedInv ==
  CarriesPart =>
    /\ frame.len \in Nat
    /\ sentNo > 0 /\ Last(frame.part[1])
    /\ pos < frame.len => heardNo < sentNo

\* buf holds the first units of the request.
BufInv(m) ==
  /\ m \in Message
  /\ m.expected \in {0, m.cmd.total}
  /\ Len(m.buf) <= m.expected /\ Len(m.buf) <= DataMax
  /\ \A i \in 1..Len(m.buf) : m.buf[i] = [id |-> m.cmd.id, unit |-> i]
  /\ m.received => Len(m.buf) = m.expected

\* The fragment that fits is the one after those in buf.
ContinuesInv ==
  /\ heardNo = 0 => msg.expected = 0
  /\ heardNo > 0 => msg.sequence = (heardNo - 1) % SeqMod
  /\ msg.expected # 0 /\ sentNo = heardNo =>
       msg.cmd = request.req /\ Len(msg.buf) = Least(request.sent, DataMax)
  /\ msg.expected # 0 /\ sentNo = heardNo + 1 /\ request.sent > 1 =>
       msg.cmd = request.req /\ Len(msg.buf) = Least(request.sent - 1, DataMax)

MsgInv ==
  /\ SenderInv
  /\ CarriedInv
  /\ BufInv(msg)
  /\ ContinuesInv
  /\ executed \in BOOLEAN /\ (executed => msg.received)

\* --- cyclic numbers ---------------------------------------------------------------

LEMMA ModSplit ==
  ASSUME NEW n \in Nat
  PROVE  /\ n % SeqMod \in 0..(SeqMod - 1) /\ n \div SeqMod \in Nat
         /\ n = SeqMod * (n \div SeqMod) + (n % SeqMod)
BY FragmentAssumption

LEMMA SameMultiple ==
  ASSUME NEW p \in Nat, NEW q \in Nat, SeqMod * p < SeqMod * q + SeqMod
  PROVE  p <= q
<1> SUFFICES ASSUME q < p
             PROVE  FALSE
  OBVIOUS
<1>1. SeqMod \in Nat /\ p - q - 1 \in Nat
  BY FragmentAssumption
<1>2. SeqMod * p = SeqMod * q + SeqMod + SeqMod * (p - q - 1)
  BY <1>1
<1>3. SeqMod * (p - q - 1) \in Nat /\ SeqMod * p \in Nat /\ SeqMod * q \in Nat
  BY <1>1
<1> QED BY <1>1, <1>2, <1>3

\* Quotient and remainder are unique.
LEMMA ModIs ==
  ASSUME NEW n \in Nat, NEW q \in Nat, NEW r \in 0..(SeqMod - 1), n = SeqMod * q + r
  PROVE  n % SeqMod = r
<1> DEFINE p == n \div SeqMod
           t == n % SeqMod
<1>1. t \in 0..(SeqMod - 1) /\ p \in Nat /\ n = SeqMod * p + t /\ SeqMod \in Nat
  BY ModSplit, FragmentAssumption
<1> HIDE DEF p, t
<1>2. SeqMod * p \in Nat /\ SeqMod * q \in Nat
  BY <1>1
<1>3. p <= q /\ q <= p
  <2>1. SeqMod * p < SeqMod * q + SeqMod
    BY <1>1, <1>2
  <2>2. SeqMod * q < SeqMod * p + SeqMod
    BY <1>1, <1>2
  <2> QED BY <1>1, <2>1, <2>2, SameMultiple
<1>4. p = q
  BY <1>1, <1>3
<1> QED BY <1>1, <1>2, <1>4 DEF t

LEMMA ModSame ==
  ASSUME NEW a \in Nat, NEW b \in Nat, a <= b, b < a + SeqMod, a % SeqMod = b % SeqMod
  PROVE  a = b
<1> DEFINE p == a \div SeqMod
           q == b \div SeqMod
           r == a % SeqMod
<1>1. /\ p \in Nat /\ q \in Nat /\ r \in 0..(SeqMod - 1) /\ SeqMod \in Nat
      /\ a = SeqMod * p + r /\ b = SeqMod * q + r
  BY ModSplit, FragmentAssumption
<1> HIDE DEF p, q, r
<1>2. SeqMod * p \in Nat /\ SeqMod * q \in Nat
  BY <1>1
<1>3. SeqMod * p <= SeqMod * q /\ SeqMod * q < SeqMod * p + SeqMod
  BY <1>1, <1>2
<1>4. p <= q /\ q <= p
  <2>1. SeqMod * p < SeqMod * q + SeqMod
    BY <1>1, <1>2, <1>3, FragmentAssumption
  <2> QED BY <1>1, <1>3, <2>1, SameMultiple
<1>5. p = q
  BY <1>1, <1>4
<1> QED BY <1>1, <1>5

LEMMA ModNext ==
  ASSUME NEW n \in Nat
  PROVE  ((n % SeqMod) + 1) % SeqMod = (n + 1) % SeqMod
<1> DEFINE q == n \div SeqMod
           r == n % SeqMod
<1>1. r \in 0..(SeqMod - 1) /\ q \in Nat /\ n = SeqMod * q + r /\ SeqMod \in Nat \ {0, 1}
  BY ModSplit, FragmentAssumption
<1> HIDE DEF q, r
<1>2. SeqMod * q \in Nat
  BY <1>1
<1>3. CASE r + 1 < SeqMod
  <2>1. r + 1 \in 0..(SeqMod - 1) /\ r + 1 \in Nat /\ n + 1 \in Nat
    BY <1>1, <1>3
  <2>2. n + 1 = SeqMod * q + (r + 1) /\ r + 1 = SeqMod * 0 + (r + 1)
    BY <1>1, <1>2, <2>1
  <2>3. (n + 1) % SeqMod = r + 1
    BY <1>1, <2>1, <2>2, ModIs
  <2>4. (r + 1) % SeqMod = r + 1
    BY <1>1, <2>1, <2>2, ModIs
  <2> QED BY <2>3, <2>4 DEF r
<1>4. CASE r + 1 = SeqMod
  <2>1. 0 \in 0..(SeqMod - 1) /\ r + 1 \in Nat /\ n + 1 \in Nat /\ q + 1 \in Nat
    BY <1>1
  <2>2. n + 1 = SeqMod * (q + 1) + 0 /\ r + 1 = SeqMod * 1 + 0
    <3>1. SeqMod * (q + 1) = SeqMod * q + SeqMod
      BY <1>1
    <3> QED BY <1>1, <1>2, <1>4, <3>1
  <2>3. (n + 1) % SeqMod = 0
    BY <2>1, <2>2, ModIs
  <2>4. (r + 1) % SeqMod = 0
    BY <2>1, <2>2, ModIs
  <2> QED BY <2>3, <2>4 DEF r
<1> QED BY <1>1, <1>3, <1>4

\* Of fewer fragments than the cycle has numbers, only the next one fits.
LEMMA OnlyNextFits ==
  ASSUME NEW h \in Nat, NEW s \in Nat, h > 0, h < s, s <= h + MaxMissed + 1,
         (((h - 1) % SeqMod) + 1) % SeqMod = (s - 1) % SeqMod
  PROVE  s = h + 1
<1>1. h - 1 \in Nat /\ s - 1 \in Nat /\ MaxMissed \in Nat /\ MaxMissed < SeqMod /\ SeqMod \in Nat
  BY LineAssumption, FragmentAssumption
<1>2. h % SeqMod = (s - 1) % SeqMod
  <2>1. (((h - 1) % SeqMod) + 1) % SeqMod = ((h - 1) + 1) % SeqMod
    BY <1>1, ModNext
  <2>2. (h - 1) + 1 = h
    OBVIOUS
  <2> QED BY <2>1, <2>2
<1>3. h <= s - 1 /\ s - 1 < h + SeqMod
  BY <1>1
<1>4. h = s - 1
  BY <1>1, <1>2, <1>3, ModSame
<1> QED BY <1>4

\* --- the decoder of the fragments -------------------------------------------------

\* What the last fragment that was sent looks like.
LEMMA LastFields ==
  ASSUME SenderInv, NEW f, Last(f)
  PROVE  /\ f.req \in Request /\ f.data \in Seq(Unit)
         /\ Len(f.data) = IF request.sent <= f.req.total THEN 1 ELSE 0
         /\ Len(f.data) = 1 => f.data[1] = [id |-> f.req.id, unit |-> request.sent]
         /\ f.req.total = 0 => request.sent = 1
<1>1. f.req \in Request /\ request.sent \in Nat /\ f.req.total \in Nat /\ f.req.id \in Nat
  BY DEF SenderInv, Last, Request
<1> DEFINE u == [id |-> f.req.id, unit |-> request.sent]
<1>2. u \in Unit
  BY <1>1 DEF Unit
<1>3. f.data = IF request.sent <= f.req.total THEN <<u>> ELSE <<>>
  BY DEF Last
<1>4. f.req.total = 0 => request.sent = 1
  BY <1>1 DEF SenderInv, Last, Fragments
<1> HIDE DEF u
<1>5. <<u>> \in Seq(Unit) /\ Len(<<u>>) = 1 /\ <<u>>[1] = u
  BY <1>2
<1>6. <<>> \in Seq(Unit) /\ Len(<<>>) = 0
  BY EmptySeq
<1> QED BY <1>1, <1>3, <1>4, <1>5, <1>6 DEF u

LEMMA SetSequence ==
  ASSUME NEW m, BufInv(m), NEW k \in Nat, NEW n, n = [m EXCEPT !.sequence = k]
  PROVE  /\ BufInv(n) /\ n.sequence = k
         /\ n.expected = m.expected /\ n.cmd = m.cmd /\ n.buf = m.buf
BY DEF BufInv, Message

\* The first fragment.
LEMMA StartHolds ==
  ASSUME SenderInv, NEW m, BufInv(m), NEW f, Last(f), request.sent = 1
  PROVE  /\ BufInv(Start(m, f))
         /\ Start(m, f).expected # 0 =>
              Start(m, f).cmd = request.req /\ Len(Start(m, f).buf) = 1
<1>1. /\ f.req \in Request /\ f.data \in Seq(Unit)
      /\ Len(f.data) = IF request.sent <= f.req.total THEN 1 ELSE 0
      /\ Len(f.data) = 1 => f.data[1] = [id |-> f.req.id, unit |-> 1]
  BY LastFields
<1>2. DataMax \in Nat \ {0} /\ f.req.total \in Nat /\ m \in Message
  BY <1>1, FragmentAssumption DEF BufInv, Request
<1>3. Len(f.data) <= Least(f.req.total, DataMax)
  BY <1>1, <1>2 DEF Least
<1>4. Prefix(f.data, IF f.req.total < DataMax THEN f.req.total ELSE DataMax) = f.data
  BY <1>3 DEF Prefix, Least
<1> DEFINE n == Start(m, f)
<1>5. n = [m EXCEPT !.received = (Len(f.data) = f.req.total), !.cmd = f.req,
                    !.expected = f.req.total, !.buf = f.data]
  BY <1>4 DEF Start
<1>6. /\ n \in Message /\ n.cmd = f.req /\ n.expected = f.req.total /\ n.buf = f.data
      /\ n.received <=> Len(f.data) = f.req.total
  BY <1>1, <1>2, <1>5 DEF Message
<1> HIDE DEF n
<1>7. Len(n.buf) <= n.expected /\ Len(n.buf) <= DataMax
  BY <1>1, <1>2, <1>6
<1>8. \A i \in 1..Len(n.buf) : n.buf[i] = [id |-> n.cmd.id, unit |-> i]
  BY <1>1, <1>2, <1>6
<1>9. BufInv(n)
  BY <1>6, <1>7, <1>8 DEF BufInv
<1>10. n.expected # 0 => n.cmd = request.req /\ Len(n.buf) = 1
  BY <1>1, <1>2, <1>6 DEF Last
<1> QED BY <1>9, <1>10 DEF n

\* A fragment that seems to continue a message that was reset.
LEMMA ContinueNothing ==
  ASSUME NEW m, BufInv(m), m.expected = 0, NEW f, f.data \in Seq(Unit)
  PROVE  BufInv(Continue(m, f)) /\ Continue(m, f).expected = 0
<1>1. m \in Message /\ m.buf \in Seq(Unit) /\ Len(m.buf) = 0 /\ DataMax \in Nat
  BY FragmentAssumption, LenProperties DEF BufInv, Message
<1>2. m.buf = <<>>
  BY <1>1, EmptySeq
<1>3. Prefix(f.data, m.expected - Len(m.buf)) = <<>>
  <2>1. Len(f.data) \in Nat
    BY LenProperties
  <2>2. Len(f.data) = 0 => f.data = <<>>
    BY EmptySeq
  <2>3. SubSeq(f.data, 1, 0) = <<>>
    BY SubSeqEmpty
  <2>4. m.expected - Len(m.buf) = 0
    BY <1>1
  <2> QED BY <2>1, <2>2, <2>3, <2>4 DEF Prefix
<1>4. m.buf \o Prefix(f.data, m.expected - Len(m.buf)) = <<>>
  BY <1>1, <1>2, <1>3, ConcatEmptySeq
<1> DEFINE n == Continue(m, f)
<1>5. n = [m EXCEPT !.buf = <<>>, !.received = (@ \/ Len(<<>>) = m.expected)]
  <2> DEFINE all == m.buf \o Prefix(f.data, m.expected - Len(m.buf))
  <2>1. n = IF Len(all) > DataMax THEN m
            ELSE [m EXCEPT !.buf = all, !.received = (@ \/ Len(all) = m.expected)]
    BY DEF Continue
  <2>2. all = <<>>
    BY <1>4
  <2> HIDE DEF all, n
  <2>3. ~(Len(all) > DataMax)
    BY <1>1, <2>2, EmptySeq
  <2> QED BY <2>1, <2>2, <2>3
<1>6. n \in Message /\ n.expected = 0 /\ n.buf = <<>> /\ n.cmd = m.cmd
  BY <1>1, <1>5, EmptySeq DEF Message
<1> HIDE DEF n
<1>7. Len(n.buf) = 0
  BY <1>6, EmptySeq
<1>8. BufInv(n)
  BY <1>1, <1>6, <1>7 DEF BufInv
<1> QED BY <1>6, <1>8 DEF n

\* The fragment that continues the message.
LEMMA ContinueNext ==
  ASSUME SenderInv, NEW m, BufInv(m), m.expected # 0, NEW f, Last(f),
         request.sent > 1, m.cmd = request.req,
         Len(m.buf) = Least(request.sent - 1, DataMax)
  PROVE  /\ BufInv(Continue(m, f))
         /\ Continue(m, f).cmd = request.req
         /\ Len(Continue(m, f).buf) = Least(request.sent, DataMax)
<1>1. /\ f.req = m.cmd /\ f.req \in Request /\ f.data \in Seq(Unit)
      /\ Len(f.data) = IF request.sent <= f.req.total THEN 1 ELSE 0
      /\ Len(f.data) = 1 => f.data[1] = [id |-> m.cmd.id, unit |-> request.sent]
  BY LastFields DEF Last
<1>2. /\ m \in Message /\ m.buf \in Seq(Unit) /\ Len(m.buf) \in Nat /\ DataMax \in Nat \ {0}
      /\ m.expected = m.cmd.total /\ m.expected \in Nat /\ request.sent \in Nat
  BY FragmentAssumption, LenProperties DEF BufInv, Message, SenderInv
<1>3. request.sent <= m.expected
  BY <1>2 DEF SenderInv, Fragments
<1>4. Len(f.data) = 1 /\ Len(m.buf) < m.expected
  BY <1>1, <1>2, <1>3 DEF Least
<1>5. Prefix(f.data, m.expected - Len(m.buf)) = f.data
  BY <1>2, <1>4 DEF Prefix
<1> DEFINE n == Continue(m, f)
           all == m.buf \o f.data
<1>6. /\ all \in Seq(Unit) /\ Len(all) = Len(m.buf) + 1
      /\ \A i \in 1..(Len(m.buf) + 1) :
           all[i] = IF i <= Len(m.buf) THEN m.buf[i] ELSE f.data[i - Len(m.buf)]
  <2> HIDE DEF all
  <2>1. /\ all \in Seq(Unit) /\ Len(all) = Len(m.buf) + Len(f.data)
        /\ \A i \in 1..(Len(m.buf) + Len(f.data)) :
             all[i] = IF i <= Len(m.buf) THEN m.buf[i] ELSE f.data[i - Len(m.buf)]
    BY <1>1, <1>2, ConcatProperties DEF all
  <2> QED BY <1>4, <2>1
<1>7. n = IF Len(all) > DataMax THEN m
          ELSE [m EXCEPT !.buf = all, !.received = (@ \/ Len(all) = m.expected)]
  BY <1>5 DEF Continue
<1> HIDE DEF n, all
<1>8. CASE Len(all) > DataMax
  <2>1. n = m
    BY <1>7, <1>8
  <2>2. Len(m.buf) = Least(request.sent, DataMax)
    BY <1>2, <1>6, <1>8 DEF Least
  <2> QED BY <2>1, <2>2 DEF n
<1>9. CASE Len(all) <= DataMax
  <2>1. n = [m EXCEPT !.buf = all, !.received = (@ \/ Len(all) = m.expected)]
    BY <1>2, <1>6, <1>7, <1>9
  <2>2. /\ n \in Message /\ n.cmd = m.cmd /\ n.expected = m.expected /\ n.buf = all
        /\ n.received => m.received \/ Len(all) = m.expected
    BY <1>2, <1>6, <2>1 DEF Message
  <2>3. ~m.received
    BY <1>2, <1>4 DEF BufInv
  <2>4. Len(m.buf) = request.sent - 1 /\ Len(all) = request.sent
    BY <1>2, <1>6, <1>9 DEF Least
  <2>5. \A i \in 1..Len(all) : all[i] = [id |-> m.cmd.id, unit |-> i]
    <3> SUFFICES ASSUME NEW i \in 1..Len(all)
                 PROVE  all[i] = [id |-> m.cmd.id, unit |-> i]
      OBVIOUS
    <3>1. /\ i \in 1..(Len(m.buf) + 1)
          /\ all[i] = IF i <= Len(m.buf) THEN m.buf[i] ELSE f.data[i - Len(m.buf)]
      BY <1>6
    <3>2. CASE i <= Len(m.buf)
      <4>1. i \in 1..Len(m.buf) /\ all[i] = m.buf[i]
        BY <1>2, <3>1, <3>2
      <4> QED BY <4>1 DEF BufInv
    <3>3. CASE i = Len(m.buf) + 1
      <4>1. i - Len(m.buf) = 1 /\ ~(i <= Len(m.buf)) /\ i = request.sent
        BY <1>2, <2>4, <3>3
      <4>2. all[i] = f.data[1]
        BY <3>1, <4>1
      <4> QED BY <1>1, <1>4, <4>1, <4>2
    <3> QED BY <1>2, <3>1, <3>2, <3>3
  <2>6. BufInv(n)
    BY <1>2, <1>3, <1>9, <2>2, <2>3, <2>4, <2>5 DEF BufInv
  <2>7. Len(n.buf) = Least(request.sent, DataMax)
    BY <1>2, <1>9, <2>2, <2>4 DEF Least
  <2> QED BY <2>2, <2>6, <2>7 DEF n
<1> QED BY <1>2, <1>6, <1>8, <1>9

LEMMA MismatchHolds ==
  ASSUME NEW m, BufInv(m)
  PROVE  BufInv(Mismatch(m)) /\ Mismatch(m).expected = 0
<1> DEFINE n == Mismatch(m)
<1>1. /\ n \in Message /\ n.cmd = m.cmd /\ n.expected = 0 /\ n.buf = <<>>
      /\ n.received = FALSE /\ DataMax \in Nat
  BY EmptySeq, FragmentAssumption DEF Mismatch, BufInv, Message
<1> HIDE DEF n
<1>2. Len(n.buf) = 0
  BY <1>1, EmptySeq
<1>3. BufInv(n)
  BY <1>1, <1>2 DEF BufInv
<1> QED BY <1>1, <1>3 DEF n

\* --- the steps ----------------------------------------------------------------------

\* A step that neither sends nor hears a fragment.
LEMMA QuietStep ==
  ASSUME MsgInv, UNCHANGED <<frame, msg, senderVars>>,
         executed' \in BOOLEAN, executed' => executed,
         pos' < frame.len => pos < frame.len
  PROVE  MsgInv'
<1>1. /\ frame' = frame /\ msg' = msg /\ request' = request
      /\ sentNo' = sentNo /\ heardNo' = heardNo
  BY DEF senderVars
<1>2. SenderInv'
  BY <1>1 DEF MsgInv, SenderInv, Fragments
<1>3. CarriedInv'
  BY <1>1 DEF MsgInv, CarriedInv, Last, CarriesPart
<1>4. BufInv(msg)' /\ ContinuesInv'
  BY <1>1 DEF MsgInv, BufInv, ContinuesInv
<1>5. executed' => msg'.received
  BY <1>1 DEF MsgInv
<1> QED BY <1>2, <1>3, <1>4, <1>5 DEF MsgInv

\* The decoder has a fragment.
LEMMA HearStep ==
  ASSUME MsgInv, CarriesPart, pos < frame.len, pos' = frame.len,
         ApplyMspReq(frame.part[1]), heardNo' = sentNo, UNCHANGED <<frame, request, sentNo>>
  PROVE  MsgInv'
<1> DEFINE f == frame.part[1]
           s == (sentNo - 1) % SeqMod
           m == CASE f.start -> Start(msg, f)
                  [] ~f.start /\ Expects(msg, f) -> Continue(msg, f)
                  [] OTHER -> Mismatch(msg)
<1>1. /\ SenderInv /\ BufInv(msg) /\ ContinuesInv
      /\ Last(f) /\ sentNo > 0 /\ heardNo < sentNo /\ frame.len \in Nat
  BY DEF MsgInv, CarriedInv
<1>2. /\ frame' = frame /\ request' = request /\ sentNo' = sentNo /\ heardNo' = sentNo
      /\ msg' = [m EXCEPT !.sequence = f.seq] /\ executed' = msg'.received
  BY DEF ApplyMspReq, DecodeMsp
<1>3. f.seq = s /\ (f.start <=> request.sent = 1)
  BY <1>1 DEF Last
<1>4. s \in Nat /\ sentNo \in Nat /\ heardNo \in Nat /\ request.sent \in Nat \ {0}
  <2>1. sentNo \in Nat /\ heardNo \in Nat /\ request.sent \in Nat \ {0} /\ sentNo - 1 \in Nat
    BY <1>1 DEF SenderInv
  <2> QED BY <2>1, ModSplit, FragmentAssumption
<1>5. f.data \in Seq(Unit)
  BY <1>1, LastFields
<1> HIDE DEF f, s
<1>6. /\ BufInv(m)
      /\ m.expected # 0 => m.cmd = request.req /\ Len(m.buf) = Least(request.sent, DataMax)
  <2>1. CASE request.sent = 1
    <3>1. m = Start(msg, f)
      BY <1>3, <2>1
    <3>2. Least(1, DataMax) = 1
      BY FragmentAssumption DEF Least
    <3> QED BY <1>1, <2>1, <3>1, <3>2, StartHolds
  <2>2. CASE request.sent # 1 /\ Expects(msg, f) /\ msg.expected = 0
    <3>1. m = Continue(msg, f)
      BY <1>3, <2>2
    <3> QED BY <1>1, <1>5, <2>2, <3>1, ContinueNothing
  <2>3. CASE request.sent # 1 /\ Expects(msg, f) /\ msg.expected # 0
    <3>1. m = Continue(msg, f)
      BY <1>3, <2>3
    <3>2. heardNo > 0 /\ msg.sequence = (heardNo - 1) % SeqMod
      BY <1>1, <1>4, <2>3 DEF ContinuesInv
    <3>3. s = (((heardNo - 1) % SeqMod) + 1) % SeqMod
      BY <1>3, <2>3, <3>2 DEF Expects
    <3>4. sentNo = heardNo + 1
      BY <1>1, <1>4, <3>2, <3>3, OnlyNextFits DEF s, SenderInv
    <3>5. request.sent > 1
      BY <1>4, <2>3
    <3>6. msg.cmd = request.req /\ Len(msg.buf) = Least(request.sent - 1, DataMax)
      BY <1>1, <2>3, <3>4, <3>5 DEF ContinuesInv
    <3> QED BY <1>1, <2>3, <3>1, <3>5, <3>6, ContinueNext
  <2>4. CASE request.sent # 1 /\ ~Expects(msg, f)
    <3>1. m = Mismatch(msg)
      BY <1>3, <2>4
    <3> QED BY <1>1, <3>1, MismatchHolds
  <2> QED BY <2>1, <2>2, <2>3, <2>4
<1> HIDE DEF m
<1>7. /\ BufInv(msg') /\ msg'.sequence = s
      /\ msg'.expected = m.expected /\ msg'.cmd = m.cmd /\ msg'.buf = m.buf
  BY <1>2, <1>3, <1>4, <1>6, SetSequence
<1>8. SenderInv'
  BY <1>1, <1>2, LineAssumption DEF SenderInv, Fragments
<1>9. CarriedInv'
  <2>1. Last(f)' /\ ~(pos' < frame'.len)
    BY <1>1, <1>2 DEF Last, f
  <2> QED BY <1>1, <1>2, <2>1 DEF CarriedInv, CarriesPart, f
<1>10. ContinuesInv'
  BY <1>1, <1>2, <1>4, <1>6, <1>7 DEF ContinuesInv, s
<1>11. BufInv(msg)' /\ executed' \in BOOLEAN
  BY <1>2, <1>7 DEF BufInv, Message
<1> QED BY <1>2, <1>8, <1>9, <1>10, <1>11 DEF MsgInv

\* What a byte does, as it was sent or not.
LEMMA ByteStep ==
  ASSUME MsgInv, NEW c, NEW late, Take(c, late), pos < frame.len
  PROVE  MsgInv'
<1> DEFINE d == Timed(late)
           ok == SumOk(d)
<1>1. /\ applied' = CASE ~Applies(d, ok) -> "nothing"
                      [] Applies(d, ok) /\ ok -> "sent"
                      [] OTHER -> "mixture"
      /\ IF applied' = "sent" /\ CarriesPart
         THEN ApplyMspReq(frame.part[1]) /\ heardNo' = sentNo
         ELSE ApplyNoMsp /\ UNCHANGED heardNo
      /\ UNCHANGED <<frame, request, sentNo>>
  BY DEF Take
<1> HIDE DEF ok
<1>2. CASE applied' = "sent" /\ CarriesPart
  <2>1. ok
    BY <1>1, <1>2
  <2>2. pos' = frame.len
    BY <1>1, <2>1 DEF ok, SumOk
  <2> QED BY <1>1, <1>2, <2>2, HearStep
<1>3. CASE ~(applied' = "sent" /\ CarriesPart)
  <2>1. UNCHANGED <<frame, msg, senderVars>> /\ executed' = FALSE
    BY <1>1, <1>3 DEF ApplyNoMsp, senderVars
  <2> QED BY <2>1, QuietStep
<1> QED BY <1>2, <1>3

\* The sender's frames other than fragments carry nothing.
LEMMA ShapesCarryNothing ==
  ASSUME NEW f \in Shapes, protocol \in {"IBUS", "SBUS", "CRSF", "MSP"}
  PROVE  f.part = <<>>
BY DEF Shapes, Shape, Crsf, MspV1, MspV2

LEMMA NextFrameStep ==
  ASSUME MsgInv, NextFrame, protocol \in {"IBUS", "SBUS", "CRSF", "MSP"}
  PROVE  MsgInv'
<1>1. PICK f \in Shapes : Begin(f) /\ UNCHANGED <<request, sentNo>>
  BY DEF NextFrame
<1>2. frame'.part = <<>>
  BY <1>1, ShapesCarryNothing DEF Begin
<1>3. /\ request' = request /\ sentNo' = sentNo /\ heardNo' = heardNo /\ msg' = msg
      /\ executed' = FALSE
  BY <1>1 DEF Begin
<1>4. SenderInv' /\ CarriedInv'
  BY <1>2, <1>3 DEF MsgInv, SenderInv, Fragments, CarriedInv, CarriesPart
<1>5. BufInv(msg)' /\ ContinuesInv'
  BY <1>3 DEF MsgInv, BufInv, ContinuesInv
<1> QED BY <1>3, <1>4, <1>5 DEF MsgInv

LEMMA PartFields ==
  ASSUME NEW r, NEW b, NEW n, NEW e, NEW p,
         p = [req |-> r, start |-> b, seq |-> n, data |-> e]
  PROVE  p.req = r /\ p.start = b /\ p.seq = n /\ p.data = e
OBVIOUS

LEMMA NextFragmentStep ==
  ASSUME MsgInv, NextFragment
  PROVE  MsgInv'
<1>1. SenderInv /\ BufInv(msg) /\ ContinuesInv /\ sentNo - heardNo <= MaxMissed
  BY DEF MsgInv, NextFragment
<1>2. PICK r \in [id : {request.req.id, request.req.id + 1}, total : Totals] :
        /\ IF request.sent < Fragments(request.req)
           THEN r = request.req /\ request' = [request EXCEPT !.sent = @ + 1]
           ELSE r.id = request.req.id + 1 /\ request' = [req |-> r, sent |-> 1]
        /\ Begin(FragmentFrame(r, request'.sent))
  BY DEF NextFragment
<1>3. /\ sentNo' = sentNo + 1 /\ heardNo' = heardNo /\ msg' = msg /\ executed' = FALSE
      /\ frame' = FragmentFrame(r, request'.sent)
  BY <1>2 DEF Begin, NextFragment
<1>4. /\ request \in [req : Request, sent : Nat \ {0}]
      /\ sentNo \in Nat /\ heardNo \in Nat /\ heardNo <= sentNo
  BY <1>1 DEF SenderInv
<1>5. r \in Request
  <2>1. request.req.id \in Nat /\ Totals \subseteq Nat
    BY <1>4, LineAssumption DEF Request
  <2>2. {request.req.id, request.req.id + 1} \subseteq Nat
    BY <2>1
  <2> QED BY <2>1, <2>2 DEF Request
<1>6. /\ request' \in [req : Request, sent : Nat \ {0}]
      /\ request'.req = r
      /\ request'.sent <= Fragments(r)
      /\ request'.sent > 1 => r = request.req /\ request'.sent = request.sent + 1
  <2>1. CASE request.sent < Fragments(request.req)
    <3>1. Fragments(request.req) \in Nat
      BY <1>4 DEF Fragments, Request
    <3> QED BY <1>2, <1>4, <2>1, <3>1
  <2>2. CASE ~(request.sent < Fragments(request.req))
    <3>1. Fragments(r) >= 1
      BY <1>5 DEF Fragments, Request
    <3>2. request' = [req |-> r, sent |-> 1]
      BY <1>2, <2>2
    <3> QED BY <1>5, <3>1, <3>2
  <2> QED BY <2>1, <2>2
<1>7. SenderInv'
  BY <1>1, <1>3, <1>4, <1>6, LineAssumption DEF SenderInv, Fragments
<1>8. CarriedInv'
  <2>1. frame'.part = <<Part(r, request'.sent)>>
    BY <1>3 DEF FragmentFrame, Crsf, Shape
  <2>2. frame'.part[1] = Part(r, request'.sent)
    BY <2>1
  <2>3. request'.sent <= r.total => Units(r)[request'.sent] = [id |-> r.id, unit |-> request'.sent]
    BY <1>5, <1>6 DEF Units, Request
  <2>4. (sentNo + 1) - 1 = sentNo
    BY <1>4
  <2>5. LET p == frame'.part[1]
        IN  /\ p.req = r /\ (p.start <=> request'.sent = 1) /\ p.seq = sentNo % SeqMod
            /\ p.data = IF request'.sent <= r.total
                        THEN <<[id |-> r.id, unit |-> request'.sent]>> ELSE <<>>
    <3> DEFINE k == request'.sent
               e == IF k <= r.total THEN <<Units(r)[k]>> ELSE <<>>
    <3>1. e = IF k <= r.total THEN <<[id |-> r.id, unit |-> k]>> ELSE <<>>
      BY <2>3
    <3>2. frame'.part[1] = [req |-> r, start |-> (k = 1), seq |-> sentNo % SeqMod, data |-> e]
      BY <2>2 DEF Part
    <3> HIDE DEF k, e
    <3>3. LET p == frame'.part[1]
          IN  p.req = r /\ p.start = (k = 1) /\ p.seq = sentNo % SeqMod /\ p.data = e
      BY <3>2, PartFields
    <3> QED BY <3>1, <3>3 DEF k
  <2>6. Last(frame.part[1])'
    <3> DEFINE p == frame'.part[1]
    <3>1. p.req = request'.req /\ p.seq = (sentNo' - 1) % SeqMod
      BY <1>3, <1>6, <2>4, <2>5
    <3>2. p.data = IF request'.sent <= request'.req.total
                   THEN <<[id |-> request'.req.id, unit |-> request'.sent]>> ELSE <<>>
      BY <1>6, <2>5
    <3>3. p.start <=> request'.sent = 1
      BY <2>5
    <3> QED BY <3>1, <3>2, <3>3 DEF Last
  <2>7. frame'.len \in Nat
    <3>1. FragmentSize \in Nat
      BY LineAssumption, SizeAssumption
    <3>2. FragmentFrame(r, request'.sent).len = FragmentSize + 2
      BY DEF FragmentFrame, Crsf, Shape
    <3> QED BY <1>3, <3>1, <3>2
  <2> QED BY <1>3, <1>4, <2>6, <2>7 DEF CarriedInv
<1>9. BufInv(msg)'
  BY <1>1, <1>3 DEF BufInv
<1>10. ContinuesInv'
  <2>1. sentNo' # heardNo' /\ (sentNo' = heardNo' + 1 => sentNo = heardNo)
    BY <1>3, <1>4
  <2>2. request'.sent > 1 => request'.sent - 1 = request.sent /\ request'.req = request.req
    BY <1>4, <1>6
  <2> QED BY <1>1, <1>3, <2>1, <2>2 DEF ContinuesInv
<1> QED BY <1>3, <1>7, <1>8, <1>9, <1>10 DEF MsgInv

\* --- the theorems -------------------------------------------------------------------

LEMMA ProtocolStays ==
  ASSUME protocol \in {"IBUS", "SBUS", "CRSF", "MSP"}, [Next]_vars
  PROVE  protocol' \in {"IBUS", "SBUS", "CRSF", "MSP"}
BY DEF Next, Arrive, Alter, Insert, Take, Lose, NextFrame, NextFragment, Begin, vars

\* The invariant of the request that is put together, for every cycle of sequence
\* numbers that is longer than the fragments lost in a row.
THEOREM MsgInvariance == Spec => []MsgInv
<1> DEFINE Known == protocol \in {"IBUS", "SBUS", "CRSF", "MSP"}
<1>1. Init => MsgInv /\ Known
  <2> SUFFICES ASSUME Init
               PROVE  MsgInv /\ Known
    OBVIOUS
  <2>1. Known
    BY LineAssumption DEF Init
  <2>2. /\ ~CarriesPart /\ request = [req |-> NoRequest, sent |-> 1]
        /\ sentNo = 0 /\ heardNo = 0 /\ msg = EmptyMsg /\ executed = FALSE
    BY <2>1, ShapesCarryNothing DEF Init, CarriesPart
  <2>3. SenderInv /\ CarriedInv
    BY <2>2, LineAssumption DEF SenderInv, CarriedInv, NoRequest, Request, Fragments
  <2>4. /\ msg \in Message /\ msg.expected = 0 /\ msg.buf = <<>> /\ msg.received = FALSE
    BY <2>2, EmptySeq DEF EmptyMsg, Message, NoRequest, Request
  <2>5. BufInv(msg) /\ ContinuesInv
    BY <2>2, <2>4, EmptySeq, FragmentAssumption DEF BufInv, ContinuesInv
  <2> QED BY <2>1, <2>2, <2>3, <2>5 DEF MsgInv
<1>2. MsgInv /\ Known /\ [Next]_vars => MsgInv' /\ Known'
  <2> SUFFICES ASSUME MsgInv, Known, [Next]_vars
               PROVE  MsgInv'
    BY ProtocolStays
  <2>1. CASE \E c \in Byte, late \in BOOLEAN :
               Arrive(c, late) \/ Alter(c, late) \/ Insert(c, late)
    BY <2>1, ByteStep DEF Arrive, Alter, Insert
  <2>2. CASE Lose
    BY <2>2, QuietStep DEF Lose
  <2>3. CASE NextFrame
    BY <2>3, NextFrameStep
  <2>4. CASE NextFragment
    BY <2>4, NextFragmentStep
  <2>5. CASE UNCHANGED vars
    BY <2>5, QuietStep DEF vars, lineVars, MsgInv
  <2> QED BY <2>1, <2>2, <2>3, <2>4, <2>5 DEF Next
<1> QED BY <1>1, <1>2, PTL DEF Spec

\* A request over CRSF is never run with part of its data, nor with that of another,
\* whatever fragments are lost.
THEOREM NeverMixed == Spec => []DataNeverMixed
<1>1. MsgInv => DataNeverMixed
  <2> SUFFICES ASSUME MsgInv, executed
               PROVE  msg.buf \in {<<>>, Units(msg.cmd)}
    BY DEF DataNeverMixed
  <2>1. BufInv(msg) /\ Len(msg.buf) = msg.expected
    BY DEF MsgInv, BufInv
  <2>2. /\ msg.buf \in Seq(Unit) /\ msg.cmd.total \in Nat /\ msg.cmd.id \in Nat
    BY <2>1 DEF BufInv, Message, Request
  <2>3. CASE msg.expected = 0
    BY <2>1, <2>2, <2>3, EmptySeq
  <2>4. CASE msg.expected = msg.cmd.total
    <3> DEFINE t == msg.cmd.total
    <3>1. msg.buf \in [1..t -> Unit]
      BY <2>1, <2>2, <2>4, LenProperties
    <3>2. \A i \in 1..t : msg.buf[i] = [id |-> msg.cmd.id, unit |-> i]
      BY <2>1, <2>4 DEF BufInv
    <3>3. msg.buf = [i \in 1..t |-> [id |-> msg.cmd.id, unit |-> i]]
      BY <3>1, <3>2
    <3> QED BY <3>3 DEF Units
  <2> QED BY <2>1, <2>3, <2>4 DEF BufInv
<1> QED BY <1>1, MsgInvariance, PTL
=============================================================================
