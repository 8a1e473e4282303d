-------------------------- MODULE SerialLine_proofs --------------------------
(***************************************************************************)
(* For every size of buffer, frame and payload: the decoders stay inside   *)
(* their buffers, a frame that arrives whole is taken, and what is taken   *)
(* was sent.  The invariant says which states of a decoder go with which   *)
(* index, and that a decoder that saw a frame begin is as far as the line. *)
(***************************************************************************)
EXTENDS SerialLine, TLAPS

\* --- the invariant ----------------------------------------------------------------

States ==
  {"LENGTH", "CMD", "DATA", "CRC_LO", "CRC_HI", "START", "END", "ADDR", "SIZE",
   "TYPE", "CRC", "IDLE", "HEADER_START", "DIRECTION", "HEADER", "PAYLOAD", "CHECKSUM"}

DecType(d) == d \in [state : States, idx : Nat, size : Nat, type : Nat]

IbusInv(d) ==
  \/ d.state = "LENGTH" /\ d.idx = 0
  \/ d.state = "CMD" /\ d.idx = 1
  \/ d.state = "DATA" /\ d.idx \in 2..(IbusSize - 3)
  \/ d.state = "CRC_LO" /\ d.idx = IbusSize - 2
  \/ d.state = "CRC_HI" /\ d.idx = IbusSize - 1

SbusInv(d) ==
  \/ d.state = "START" /\ d.idx = 0
  \/ d.state = "DATA" /\ d.idx \in 1..(SbusSize - 2)
  \/ d.state = "END" /\ d.idx = SbusSize - 1

CrsfInv(d) ==
  \/ d.state = "ADDR" /\ d.idx = 0
  \/ d.state = "SIZE" /\ d.idx = 1
  \/ /\ d.size \in 2..(CrsfMax - 2)
     /\ \/ d.state = "TYPE" /\ d.idx = 2
        \/ d.state = "DATA" /\ d.idx \in 3..d.size
        \/ d.state = "CRC" /\ d.idx = d.size + 1

MspInv(d) ==
  \/ d.state \in {"IDLE", "HEADER_START"}
  \/ /\ d.type \in {1, 2}
     /\ \/ d.state = "DIRECTION" /\ d.idx = 0
        \/ d.state = "HEADER" /\ d.idx < HeaderSize(d.type)
        \/ d.state = "PAYLOAD" /\ d.idx < d.size /\ d.size <= MspBuf
        \/ d.state = "CHECKSUM" /\ d.size <= MspBuf

DecInv(d) ==
  /\ DecType(d)
  /\ protocol = "IBUS" => IbusInv(d)
  /\ protocol = "SBUS" => SbusInv(d)
  /\ protocol = "CRSF" => CrsfInv(d)
  /\ protocol = "MSP" => MspInv(d)

\* --- the frame on the line --------------------------------------------------------

CrsfFrame(f) ==
  /\ f.len = f.head[2] + 2
  /\ Len(f.head) = 3 /\ f.head[1] = CrsfSync
  /\ f.head[2] \in 3..(CrsfMax - 2)
  /\ f.wanted => CrsfKnown(f.head[3], f.head[2])

\* an MSP frame of version v with n bytes of payload
MspFrame(f, v, n) ==
  /\ f.head[1] = Dollar
  /\ f.head[2] = IF v = 1 THEN CharM ELSE CharX
  /\ f.head[3] \in Directions
  /\ v = 1 => Len(f.head) = 4 /\ f.head[4] = n
  /\ v = 2 => Len(f.head) = 8 /\ f.head[7] = n % Base /\ f.head[8] = n \div Base
  /\ f.len = 4 + HeaderSize(v) + n
  /\ f.wanted => n <= MspBuf

FrameOf(f) ==
  /\ f.len \in Nat \ {0}
  /\ protocol = "IBUS" =>
       /\ Len(f.head) = 2 /\ f.head[1] = IbusSize /\ f.head[2] = IbusCommand
       /\ f.len = IbusSize
  /\ protocol = "SBUS" => Len(f.head) = 1 /\ f.head[1] = SbusStart /\ f.len = SbusSize
  /\ protocol = "CRSF" => CrsfFrame(f)
  /\ protocol = "MSP" => \E v \in {1, 2}, n \in Payloads : MspFrame(f, v, n)

FrameInv == FrameOf(frame)

\* Decoder d has taken the first k bytes of the frame, and wants more.
CrsfAt(d, k) == d.idx = k /\ (k >= 2 => d.size = frame.head[2])

MspAt(d, k, v, n) ==
  \/ k = 1 /\ d.state = "HEADER_START"
  \/ k = 2 /\ d.state = "DIRECTION" /\ d.type = v
  \/ /\ k \in 3..(2 + HeaderSize(v))
     /\ d.state = "HEADER" /\ d.type = v /\ d.idx = k - 3
     /\ v = 1 /\ d.idx = 1 => d.size = n
     /\ v = 2 /\ d.idx = 4 => d.size = n % Base
  \/ /\ k \in (3 + HeaderSize(v))..(2 + HeaderSize(v) + n)
     /\ d.state = "PAYLOAD" /\ d.type = v /\ d.size = n /\ d.idx = k - 3 - HeaderSize(v)
  \/ k = 3 + HeaderSize(v) + n /\ d.state = "CHECKSUM" /\ d.type = v /\ d.size = n

At(d, k) ==
  /\ protocol \in {"IBUS", "SBUS"} => d.idx = k
  /\ protocol = "CRSF" => CrsfAt(d, k)
  /\ protocol = "MSP" =>
       \A v \in {1, 2}, n \in Payloads : MspFrame(frame, v, n) => MspAt(d, k, v, n)

VisibleInv ==
  visible =>
    /\ pos > 0 /\ clean
    /\ frame.wanted /\ pos < frame.len => At(dec, pos)
    /\ frame.wanted /\ pos = frame.len => applied = "sent"

\* With SBUS, all the bytes since the gap that was seen last came from one frame.
SbusAligned ==
  protocol = "SBUS" /\ ~blurred => dec.idx <= pos /\ (dec.idx = pos /\ pos > 0 => clean)

LineInv ==
  /\ protocol \in {"IBUS", "SBUS", "CRSF", "MSP"}
  /\ pos \in Nat /\ pos <= frame.len
  /\ clean \in BOOLEAN /\ visible \in BOOLEAN /\ blurred \in BOOLEAN
  /\ DecInv(dec)
  /\ FrameInv
  /\ VisibleInv
  /\ SbusAligned
  /\ TakenWasSent

\* --- the decoders -------------------------------------------------------------------

LEMMA FreshFields ==
  ASSUME protocol \in {"IBUS", "SBUS", "CRSF", "MSP"}
  PROVE  /\ Fresh \in [state : States, idx : Nat, size : Nat, type : Nat]
         /\ Fresh.idx = 0 /\ Fresh.size = 0 /\ Fresh.type = 0
         /\ Fresh.state = First(protocol)
BY DEF Fresh, First, States

LEMMA FreshInv ==
  ASSUME protocol \in {"IBUS", "SBUS", "CRSF", "MSP"}
  PROVE  DecInv(Fresh)
BY FreshFields DEF DecInv, DecType, First, IbusInv, SbusInv, CrsfInv, MspInv

\* What assignments to one field, or to two, leave.
LEMMA SetState ==
  ASSUME NEW d, DecType(d), NEW s \in States, NEW e, e = [d EXCEPT !.state = s]
  PROVE  /\ DecType(e) /\ e.state = s
         /\ e.idx = d.idx /\ e.size = d.size /\ e.type = d.type
BY DEF DecType

LEMMA SetIdx ==
  ASSUME NEW d, DecType(d), NEW k \in Nat, NEW e, e = [d EXCEPT !.idx = k]
  PROVE  /\ DecType(e) /\ e.idx = k
         /\ e.state = d.state /\ e.size = d.size /\ e.type = d.type
BY DEF DecType

LEMMA SetSize ==
  ASSUME NEW d, DecType(d), NEW n \in Nat, NEW e, e = [d EXCEPT !.size = n]
  PROVE  /\ DecType(e) /\ e.size = n
         /\ e.state = d.state /\ e.idx = d.idx /\ e.type = d.type
BY DEF DecType

LEMMA SetType ==
  ASSUME NEW d, DecType(d), NEW t \in Nat, NEW e, e = [d EXCEPT !.type = t]
  PROVE  /\ DecType(e) /\ e.type = t
         /\ e.state = d.state /\ e.idx = d.idx /\ e.size = d.size
BY DEF DecType

LEMMA SetStateIdx ==
  ASSUME NEW d, DecType(d), NEW s \in States, NEW k \in Nat,
         NEW e, e = [d EXCEPT !.state = s, !.idx = k]
  PROVE  DecType(e) /\ e.state = s /\ e.idx = k /\ e.size = d.size /\ e.type = d.type
<1> DEFINE f == [d EXCEPT !.state = s]
<1>1. DecType(f) /\ f.state = s /\ f.size = d.size /\ f.type = d.type
  BY SetState
<1>2. e = [f EXCEPT !.idx = k]
  BY DEF DecType
<1> HIDE DEF f
<1> QED BY <1>1, <1>2 DEF DecType

LEMMA PushFields ==
  ASSUME NEW d, DecType(d), NEW s \in States
  PROVE  /\ DecType(Push(d, s))
         /\ Push(d, s).idx = d.idx + 1 /\ Push(d, s).state = s
         /\ Push(d, s).size = d.size /\ Push(d, s).type = d.type
<1>1. d.idx + 1 \in Nat
  BY DEF DecType
<1>2. Push(d, s) = [d EXCEPT !.state = s, !.idx = d.idx + 1]
  BY DEF Push
<1> DEFINE k == d.idx + 1
           e == Push(d, s)
<1>3. e = [d EXCEPT !.state = s, !.idx = k]
  BY <1>2
<1> HIDE DEF e, k
<1>4. k \in Nat
  BY <1>1 DEF k
<1>5. DecType(e) /\ e.state = s /\ e.idx = k /\ e.size = d.size /\ e.type = d.type
  BY <1>3, <1>4, SetStateIdx DEF DecType
<1> QED BY <1>5 DEF e, k

LEMMA IbusStep ==
  ASSUME NEW d, DecInv(d), NEW c, protocol = "IBUS"
  PROVE  DecInv(IbusParse(d, c))
<1>1. IbusSize \in Nat /\ IbusSize > 4
  BY SizeAssumption
<1>2. DecType(d) /\ IbusInv(d) /\ d.idx \in Nat
  BY DEF DecInv, DecType
<1>3. DecType(Fresh) /\ Fresh.idx = 0 /\ Fresh.state = "LENGTH"
  BY FreshFields DEF DecType, First
<1>4. \A e, s : DecType(e) /\ s \in States =>
        /\ DecType(Push(e, s)) /\ Push(e, s).idx = e.idx + 1 /\ Push(e, s).state = s
  BY PushFields
<1>5. {"CMD", "DATA", "CRC_LO", "CRC_HI"} \subseteq States
  BY DEF States
<1>6. DecType(IbusParse(d, c)) /\ IbusInv(IbusParse(d, c))
  <2>1. CASE d.state = "LENGTH"
    <3>1. IbusParse(d, c) \in {Push(Fresh, "CMD"), Fresh}
      BY <1>3, <2>1, Zenon DEF IbusParse, IbusPush
    <3> QED BY <1>3, <1>4, <1>5, <3>1 DEF IbusInv
  <2>2. CASE d.state = "CMD"
    <3>1. IbusParse(d, c) \in {Push(d, "DATA"), Fresh}
      BY <1>3, <2>2 DEF IbusParse, IbusPush
    <3> QED BY <1>1, <1>2, <1>3, <1>4, <1>5, <2>2, <3>1 DEF IbusInv
  <2>3. CASE d.state = "DATA"
    <3>1. d.idx \in 2..(IbusSize - 3)
      BY <1>2, <2>3 DEF IbusInv
    <3>2. IbusParse(d, c) = Push(d, IF d.idx + 1 >= IbusSize - 2 THEN "CRC_LO" ELSE "DATA")
      BY <1>1, <2>3, <3>1 DEF IbusParse, IbusPush
    <3> QED BY <1>1, <1>2, <1>4, <1>5, <3>1, <3>2 DEF IbusInv
  <2>4. CASE d.state \in {"CRC_LO", "CRC_HI"}
    <3>1. IbusParse(d, c) \in {Push(d, "CRC_HI"), Fresh} /\ (d.state = "CRC_HI" => IbusParse(d, c) = Fresh)
      BY <2>4 DEF IbusParse, IbusPush
    <3> QED BY <1>1, <1>2, <1>3, <1>4, <1>5, <2>4, <3>1 DEF IbusInv
  <2> QED BY <1>2, <2>1, <2>2, <2>3, <2>4 DEF IbusInv
<1> QED BY <1>6 DEF DecInv

LEMMA SbusStep ==
  ASSUME NEW d, DecInv(d), NEW c, protocol = "SBUS"
  PROVE  DecInv(SbusParse(d, c))
<1>1. SbusSize \in Nat /\ SbusSize > 2
  BY SizeAssumption
<1>2. DecType(d) /\ SbusInv(d) /\ d.idx \in Nat
  BY DEF DecInv, DecType
<1>3. DecType(Fresh) /\ Fresh.idx = 0 /\ Fresh.state = "START"
  BY FreshFields DEF DecType, First
<1>4. \A s \in States :
        DecType(Push(d, s)) /\ Push(d, s).idx = d.idx + 1 /\ Push(d, s).state = s
  BY <1>2, PushFields
<1>5. {"DATA", "END"} \subseteq States
  BY DEF States
<1>6. DecType(SbusParse(d, c)) /\ SbusInv(SbusParse(d, c))
  <2>1. CASE d.state = "START"
    <3>1. SbusParse(d, c) \in {Push(d, "DATA"), d}
      BY <2>1 DEF SbusParse
    <3> QED BY <1>1, <1>2, <1>4, <1>5, <2>1, <3>1 DEF SbusInv
  <2>2. CASE d.state = "DATA"
    <3>1. SbusParse(d, c) = Push(d, IF d.idx + 1 >= SbusSize - 1 THEN "END" ELSE "DATA")
      BY <2>2 DEF SbusParse
    <3> QED BY <1>1, <1>2, <1>4, <1>5, <2>2, <3>1 DEF SbusInv
  <2>3. CASE d.state = "END"
    <3>1. SbusParse(d, c) = Fresh
      BY <2>3 DEF SbusParse
    <3> QED BY <1>3, <3>1 DEF SbusInv
  <2> QED BY <1>2, <2>1, <2>2, <2>3 DEF SbusInv
<1> QED BY <1>6 DEF DecInv

LEMMA CrsfStep ==
  ASSUME NEW d, DecInv(d), NEW c \in Byte, protocol = "CRSF"
  PROVE  DecInv(CrsfParse(d, c))
<1>1. CrsfMax \in Nat /\ Base \in Nat /\ c \in Nat
  BY SizeAssumption DEF Byte
<1>2. DecType(d) /\ CrsfInv(d) /\ d.idx \in Nat /\ d.size \in Nat
  BY DEF DecInv, DecType
<1>3. DecType(Fresh) /\ Fresh.idx = 0 /\ Fresh.state = "ADDR"
  BY FreshFields DEF DecType, First
<1>4. \A s \in States :
        /\ DecType(Push(d, s)) /\ Push(d, s).idx = d.idx + 1 /\ Push(d, s).state = s
        /\ Push(d, s).size = d.size
  BY <1>2, PushFields
<1>5. {"SIZE", "TYPE", "DATA", "CRC"} \subseteq States
  BY DEF States
<1>6. DecType(CrsfParse(d, c)) /\ CrsfInv(CrsfParse(d, c))
  <2>1. CASE d.state = "ADDR"
    <3>1. CrsfParse(d, c) \in {Push(d, "SIZE"), d}
      BY <2>1 DEF CrsfParse
    <3> QED BY <1>2, <1>4, <1>5, <2>1, <3>1 DEF CrsfInv
  <2>2. CASE d.state = "SIZE"
    <3>1. CrsfParse(d, c) = IF c \in 2..(CrsfMax - 2) THEN [Push(d, "TYPE") EXCEPT !.size = c]
                                                    ELSE Fresh
      BY <2>2, Zenon DEF CrsfParse
    <3> DEFINE p == Push(d, "TYPE")
               q == [p EXCEPT !.size = c]
    <3>2. DecType(p) /\ p.state = "TYPE" /\ p.idx = d.idx + 1
      BY <1>4, <1>5
    <3> HIDE DEF p
    <3>3. DecType(q) /\ q.state = p.state /\ q.idx = p.idx /\ q.size = c
      BY <1>1, <3>2, SetSize
    <3>4. CrsfParse(d, c) = IF c \in 2..(CrsfMax - 2) THEN q ELSE Fresh
      BY <3>1 DEF p
    <3> HIDE DEF q
    <3> QED BY <1>1, <1>2, <1>3, <2>2, <3>2, <3>3, <3>4 DEF CrsfInv
  <2>3. CASE d.state = "TYPE"
    <3> DEFINE p == Push(d, IF d.size > 2 THEN "DATA" ELSE "CRC")
               q == [p EXCEPT !.type = c]
    <3>1. CrsfParse(d, c) = Fresh \/ CrsfParse(d, c) = q
      BY <2>3, Zenon DEF CrsfParse
    <3>2. /\ DecType(p) /\ p.idx = d.idx + 1 /\ p.size = d.size
          /\ p.state = IF d.size > 2 THEN "DATA" ELSE "CRC"
      BY <1>4, <1>5
    <3> HIDE DEF p
    <3>3. DecType(q) /\ q.state = p.state /\ q.idx = p.idx /\ q.size = p.size
      BY <1>1, <3>2, SetType
    <3> HIDE DEF q
    <3> QED BY <1>1, <1>2, <1>3, <2>3, <3>1, <3>2, <3>3 DEF CrsfInv
  <2>4. CASE d.state = "DATA"
    <3>1. CrsfParse(d, c) \in {Fresh, Push(d, IF d.idx + 1 > d.size THEN "CRC" ELSE "DATA")}
      BY <2>4 DEF CrsfParse
    <3> QED BY <1>1, <1>2, <1>3, <1>4, <1>5, <2>4, <3>1 DEF CrsfInv
  <2>5. CASE d.state = "CRC"
    <3>1. CrsfParse(d, c) = Fresh
      BY <2>5 DEF CrsfParse
    <3> QED BY <1>3, <3>1 DEF CrsfInv
  <2> QED BY <1>2, <2>1, <2>2, <2>3, <2>4, <2>5 DEF CrsfInv
<1> QED BY <1>6 DEF DecInv

LEMMA SizeFieldNat ==
  ASSUME NEW d, DecType(d), NEW c \in Byte
  PROVE  SizeField(d, c) \in Nat
<1>1. Base * c \in Nat /\ c \in Nat /\ d.size \in Nat
  BY SizeAssumption DEF Byte, DecType
<1> QED BY <1>1 DEF SizeField

\* One more byte of an MSP header: it is not complete, too large a payload is
\* announced, none, or one that fits.
LEMMA HeaderFields ==
  ASSUME NEW d, DecType(d), NEW c \in Byte, d.type \in {1, 2}, protocol = "MSP",
         NEW m, m = MspHeader(d, c), NEW z, z = SizeField(d, c)
  PROVE  /\ z \in Nat
         /\ \/ /\ d.idx + 1 # HeaderSize(d.type)
               /\ m.state = "HEADER" /\ m.idx = d.idx + 1 /\ m.size = z /\ m.type = d.type
               /\ DecType(m)
            \/ d.idx + 1 = HeaderSize(d.type) /\ z > MspBuf /\ m = Fresh
            \/ /\ d.idx + 1 = HeaderSize(d.type) /\ z <= MspBuf
               /\ m.state = IF z = 0 THEN "CHECKSUM" ELSE "PAYLOAD"
               /\ m.idx = 0 /\ m.size = z /\ m.type = d.type
               /\ DecType(m)
<1>1. z \in Nat /\ MspBuf \in Nat
  BY SizeFieldNat, SizeAssumption
<1> DEFINE p == Push(d, "HEADER")
           h == [p EXCEPT !.size = z]
<1>2. DecType(p) /\ p.state = "HEADER" /\ p.idx = d.idx + 1 /\ p.type = d.type
  BY PushFields DEF States
<1>3. m = IF h.idx = HeaderSize(d.type) THEN HeaderEnd(h) ELSE h
  BY Zenon DEF MspHeader
<1> HIDE DEF p
<1>4. DecType(h) /\ h.state = p.state /\ h.idx = p.idx /\ h.size = z /\ h.type = p.type
  BY <1>1, <1>2, SetSize
<1> HIDE DEF h
<1>5. CASE h.idx # HeaderSize(d.type)
  BY <1>1, <1>2, <1>3, <1>4, <1>5
<1>6. CASE h.idx = HeaderSize(d.type)
  <2> DEFINE s == IF z = 0 THEN "CHECKSUM" ELSE "PAYLOAD"
             e == [h EXCEPT !.state = s, !.idx = 0]
  <2>1. m = IF z > MspBuf THEN Fresh ELSE e
    <3>1. CASE z > MspBuf
      <4>1. z # 0
        BY <1>1, <3>1
      <4> QED BY <1>3, <1>4, <1>6, <3>1, <4>1, Zenon DEF HeaderEnd
    <3>2. CASE z = 0
      <4>1. ~(z > MspBuf)
        BY <1>1, <3>2
      <4>2. s = "CHECKSUM"
        BY <3>2
      <4> QED BY <1>3, <1>4, <1>6, <3>2, <4>1, <4>2, Zenon DEF HeaderEnd
    <3>3. CASE ~(z > MspBuf) /\ z # 0
      <4>1. s = "PAYLOAD"
        BY <3>3
      <4> QED BY <1>3, <1>4, <1>6, <3>3, <4>1, Zenon DEF HeaderEnd
    <3> QED BY <3>1, <3>2, <3>3
  <2>2. s \in States /\ 0 \in Nat
    BY DEF States
  <2> HIDE DEF s
  <2>3. DecType(e) /\ e.state = s /\ e.idx = 0 /\ e.size = z /\ e.type = h.type
    BY <1>4, <2>2, SetStateIdx DEF DecType
  <2> HIDE DEF e
  <2> QED BY <1>1, <1>2, <1>4, <1>6, <2>1, <2>3 DEF s
<1> QED BY <1>5, <1>6

\* The first bytes of an MSP frame.
LEMMA StartFields ==
  ASSUME NEW d, DecType(d), NEW c, protocol = "MSP", NEW m, m = MspParse(d, c),
         d.state \in {"IDLE", "HEADER_START", "DIRECTION"}
  PROVE  /\ DecType(m)
         /\ d.state = "IDLE" =>
              m.state = IF c = Dollar THEN "HEADER_START" ELSE "IDLE"
         /\ d.state = "HEADER_START" =>
              IF c \in {CharM, CharX}
              THEN m.state = "DIRECTION" /\ m.type = (IF c = CharM THEN 1 ELSE 2) /\ m.idx = 0
              ELSE m.state = "IDLE"
         /\ d.state = "DIRECTION" =>
              IF c \in Directions
              THEN m.state = "HEADER" /\ m.type = d.type /\ m.idx = d.idx
              ELSE m.state = "IDLE"
<1>1. DecType(Fresh) /\ Fresh.state = "IDLE" /\ Fresh.idx = 0
  BY FreshFields DEF DecType, First
<1>2. {"HEADER_START", "DIRECTION", "HEADER"} \subseteq States
  BY DEF States
<1>3. CASE d.state = "IDLE"
  <2> DEFINE e == [d EXCEPT !.state = "HEADER_START"]
  <2>1. m = IF c = Dollar THEN e ELSE d
    BY <1>3, Zenon DEF MspParse
  <2>2. DecType(e) /\ e.state = "HEADER_START"
    BY <1>2, SetState
  <2> HIDE DEF e
  <2> QED BY <1>3, <2>1, <2>2
<1>4. CASE d.state = "HEADER_START"
  <2> DEFINE t == IF c = CharM THEN 1 ELSE 2
             f == [Fresh EXCEPT !.state = "DIRECTION"]
             e == [Fresh EXCEPT !.state = "DIRECTION", !.type = t]
  <2>1. m = IF c \in {CharM, CharX} THEN e ELSE Fresh
    BY <1>4, Zenon DEF MspParse
  <2>2. DecType(f) /\ f.state = "DIRECTION" /\ f.idx = 0
    BY <1>1, <1>2, SetState
  <2>3. e = [f EXCEPT !.type = t]
    BY <1>1 DEF DecType
  <2>4. t \in Nat
    OBVIOUS
  <2> HIDE DEF f, t
  <2>5. DecType(e) /\ e.state = "DIRECTION" /\ e.idx = 0 /\ e.type = t
    BY <2>2, <2>3, <2>4 DEF DecType
  <2> HIDE DEF e
  <2> QED BY <1>1, <1>4, <2>1, <2>5 DEF t
<1>5. CASE d.state = "DIRECTION"
  <2> DEFINE e == [d EXCEPT !.state = "HEADER"]
  <2>1. m = IF c \in Directions THEN e ELSE Fresh
    BY <1>5, Zenon DEF MspParse
  <2>2. DecType(e) /\ e.state = "HEADER" /\ e.type = d.type /\ e.idx = d.idx
    BY <1>2, SetState
  <2> HIDE DEF e
  <2> QED BY <1>1, <1>5, <2>1, <2>2
<1> QED BY <1>3, <1>4, <1>5

LEMMA MspStep ==
  ASSUME NEW d, DecInv(d), NEW c \in Byte, protocol = "MSP"
  PROVE  DecInv(MspParse(d, c))
<1>1. DecType(d) /\ MspInv(d) /\ d.idx \in Nat /\ d.size \in Nat
  BY DEF DecInv, DecType
<1>2. MspBuf \in Nat /\ HeaderSize(1) = 2 /\ HeaderSize(2) = 5
  BY SizeAssumption DEF HeaderSize
<1>3. DecType(Fresh) /\ Fresh.state = "IDLE"
  BY FreshFields DEF DecType, First
<1> DEFINE m == MspParse(d, c)
<1>4. DecType(m) /\ MspInv(m)
  <2>1. CASE d.state \in {"IDLE", "HEADER_START", "DIRECTION"}
    <3>1. DecType(m)
      BY <1>1, <2>1, StartFields
    <3>2. CASE d.state = "IDLE"
      BY <1>1, <3>1, <3>2, StartFields DEF MspInv
    <3>3. CASE d.state = "HEADER_START"
      BY <1>1, <3>1, <3>3, StartFields DEF MspInv
    <3>4. CASE d.state = "DIRECTION"
      <4>1. IF c \in Directions
            THEN m.state = "HEADER" /\ m.type = d.type /\ m.idx = d.idx
            ELSE m.state = "IDLE"
        BY <1>1, <3>4, StartFields
      <4>2. d.type \in {1, 2} /\ d.idx = 0
        BY <1>1, <3>4 DEF MspInv
      <4> HIDE DEF m
      <4> QED BY <1>2, <3>1, <4>1, <4>2 DEF MspInv
    <3> QED BY <2>1, <3>2, <3>3, <3>4
  <2>2. CASE d.state = "HEADER"
    <3>1. m = MspHeader(d, c)
      BY <2>2 DEF MspParse
    <3>2. d.type \in {1, 2} /\ d.idx < HeaderSize(d.type)
      BY <1>1, <2>2 DEF MspInv
    <3> HIDE DEF m
    <3> QED BY <1>1, <1>2, <1>3, <3>1, <3>2, HeaderFields DEF MspInv
  <2>3. CASE d.state = "PAYLOAD"
    <3> DEFINE s == IF d.idx + 1 = d.size THEN "CHECKSUM" ELSE "PAYLOAD"
    <3>1. m = Push(d, s)
      BY <2>3 DEF MspParse
    <3>2. s \in States
      BY DEF States
    <3> HIDE DEF m, s
    <3>3. DecType(m) /\ m.idx = d.idx + 1 /\ m.state = s /\ m.size = d.size /\ m.type = d.type
      BY <1>1, <3>1, <3>2, PushFields
    <3> QED BY <1>1, <1>2, <2>3, <3>3 DEF s, MspInv
  <2>4. CASE d.state = "CHECKSUM"
    <3>1. m = Fresh
      BY <2>4 DEF MspParse
    <3> QED BY <1>3, <3>1 DEF MspInv
  <2> QED BY <1>1, <2>1, <2>2, <2>3, <2>4 DEF MspInv
<1> QED BY <1>4 DEF DecInv

LEMMA ParseInv ==
  ASSUME NEW d, DecInv(d), NEW c \in Byte, protocol \in {"IBUS", "SBUS", "CRSF", "MSP"}
  PROVE  DecInv(Parse(d, c))
BY IbusStep, SbusStep, CrsfStep, MspStep, Zenon DEF Parse

LEMMA TimedInv ==
  ASSUME NEW late \in BOOLEAN, DecInv(dec), protocol \in {"IBUS", "SBUS", "CRSF", "MSP"}
  PROVE  DecInv(Timed(late))
BY FreshInv DEF Timed

\* --- the decoder and the line -------------------------------------------------------

\* Decoder d has taken k bytes of a frame it wants, which is not complete: with the
\* next one as it was sent it has one more of them or, at the last, takes the frame.
Goes(d, k, c) ==
  LET e == Parse(d, c)
  IN  /\ k + 1 < frame.len => At(e, k + 1)
      /\ k + 1 = frame.len => Applies(d, TRUE) /\ Consumed(d) = frame.len

Ready(d, k) ==
  /\ k \in Nat /\ k < frame.len
  /\ IF k = 0 THEN d = Fresh ELSE At(d, k)

LEMMA IbusGoes ==
  ASSUME protocol = "IBUS", NEW d, DecInv(d), NEW k, Ready(d, k), NEW c \in Byte,
         FrameInv, c \in ByteAt(k + 1)
  PROVE  Goes(d, k, c)
<1>1. IbusSize \in Nat /\ IbusSize > 4
  BY SizeAssumption
<1>2. frame.len = IbusSize /\ k \in 0..(IbusSize - 1)
  BY <1>1 DEF FrameInv, FrameOf, Ready
<1>3. (k = 0 => c = IbusSize) /\ (k = 1 => c = IbusCommand)
  BY DEF FrameInv, FrameOf, ByteAt, Ready
<1>4. DecType(Fresh) /\ Fresh.idx = 0 /\ Fresh.state = "LENGTH"
  BY FreshFields DEF DecType, First
<1>5. DecType(d) /\ IbusInv(d) /\ d.idx = k
  BY <1>4 DEF DecInv, Ready, At
<1>6. /\ k = 0 => d.state = "LENGTH"
      /\ k = 1 => d.state = "CMD"
      /\ k \in 2..(IbusSize - 3) => d.state = "DATA"
      /\ k = IbusSize - 2 => d.state = "CRC_LO"
      /\ k = IbusSize - 1 => d.state = "CRC_HI"
  BY <1>1, <1>5 DEF IbusInv
<1>7. \A s \in States : Push(d, s).idx = k + 1 /\ Push(Fresh, s).idx = 1
  BY <1>4, <1>5, PushFields
<1>8. {"CMD", "DATA", "CRC_LO", "CRC_HI"} \subseteq States
  BY DEF States
<1>9. k + 1 < IbusSize => IbusParse(d, c).idx = k + 1
  <2>1. CASE k = 0
    <3>1. IbusParse(d, c) = Push(Fresh, "CMD")
      BY <1>1, <1>3, <1>4, <1>6, <2>1 DEF IbusParse, IbusPush
    <3> QED BY <1>7, <1>8, <2>1, <3>1
  <2>2. CASE k = 1
    <3>1. IbusParse(d, c) = Push(d, "DATA")
      BY <1>1, <1>3, <1>5, <1>6, <2>2 DEF IbusParse, IbusPush
    <3> QED BY <1>7, <1>8, <2>2, <3>1
  <2>3. CASE k \in 2..(IbusSize - 3)
    <3>1. IbusParse(d, c) = Push(d, IF d.idx + 1 >= IbusSize - 2 THEN "CRC_LO" ELSE "DATA")
      BY <1>1, <1>5, <1>6, <2>3 DEF IbusParse, IbusPush
    <3> QED BY <1>7, <1>8, <2>3, <3>1
  <2>4. CASE k = IbusSize - 2
    <3>1. IbusParse(d, c) = Push(d, "CRC_HI")
      BY <1>1, <1>5, <1>6, <2>4 DEF IbusParse, IbusPush
    <3> QED BY <1>7, <1>8, <2>4, <3>1
  <2> QED BY <1>1, <1>2, <2>1, <2>2, <2>3, <2>4
<1>10. k + 1 = IbusSize => IbusApplies(d, TRUE)
  BY <1>1, <1>2, <1>5, <1>6 DEF IbusApplies
<1> QED BY <1>1, <1>2, <1>5, <1>9, <1>10 DEF Goes, At, Parse, Applies, Consumed

LEMMA SbusGoes ==
  ASSUME protocol = "SBUS", NEW d, DecInv(d), NEW k, Ready(d, k), NEW c \in Byte,
         FrameInv, c \in ByteAt(k + 1)
  PROVE  Goes(d, k, c)
<1>1. SbusSize \in Nat /\ SbusSize > 2
  BY SizeAssumption
<1>2. frame.len = SbusSize /\ k \in 0..(SbusSize - 1)
  BY <1>1 DEF FrameInv, FrameOf, Ready
<1>3. k = 0 => c = SbusStart
  BY DEF FrameInv, FrameOf, ByteAt, Ready
<1>4. Fresh.idx = 0
  BY FreshFields
<1>5. DecType(d) /\ SbusInv(d) /\ d.idx = k
  BY <1>4 DEF DecInv, Ready, At
<1>6. /\ k = 0 => d.state = "START"
      /\ k \in 1..(SbusSize - 2) => d.state = "DATA"
      /\ k = SbusSize - 1 => d.state = "END"
  BY <1>1, <1>5 DEF SbusInv
<1>7. \A s \in States : Push(d, s).idx = k + 1
  BY <1>5, PushFields
<1>8. k + 1 < SbusSize => SbusParse(d, c).idx = k + 1
  BY <1>1, <1>2, <1>3, <1>6, <1>7 DEF SbusParse, States
<1>9. k + 1 = SbusSize => SbusApplies(d)
  BY <1>1, <1>2, <1>6 DEF SbusApplies
<1> QED BY <1>1, <1>2, <1>5, <1>8, <1>9 DEF Goes, At, Parse, Applies, Consumed

LEMMA CrsfGoes ==
  ASSUME protocol = "CRSF", NEW d, DecInv(d), NEW k, Ready(d, k), NEW c \in Byte,
         FrameInv, frame.wanted, c \in ByteAt(k + 1)
  PROVE  Goes(d, k, c)
<1>1. CrsfMax \in Nat /\ Base \in Nat /\ c \in Nat
  BY SizeAssumption DEF Byte
<1> DEFINE size == frame.head[2]
<1>2. /\ size \in 3..(CrsfMax - 2) /\ frame.len = size + 2 /\ k \in 0..(size + 1)
      /\ CrsfKnown(frame.head[3], size)
  BY <1>1 DEF FrameInv, FrameOf, CrsfFrame, Ready
<1>3. (k = 0 => c = CrsfSync) /\ (k = 1 => c = size) /\ (k = 2 => c = frame.head[3])
  BY <1>1, <1>2 DEF FrameInv, FrameOf, CrsfFrame, ByteAt
<1>4. Fresh.idx = 0
  BY FreshFields
<1>5. DecType(d) /\ CrsfInv(d) /\ d.idx = k /\ (k >= 2 => d.size = size)
  BY <1>4 DEF DecInv, Ready, At, CrsfAt
<1> HIDE DEF size
<1>6. /\ k = 0 => d.state = "ADDR"
      /\ k = 1 => d.state = "SIZE"
      /\ k = 2 => d.state = "TYPE"
      /\ k \in 3..size => d.state = "DATA"
      /\ k = size + 1 => d.state = "CRC"
  BY <1>1, <1>2, <1>5 DEF CrsfInv
<1>7. \A s \in States :
        DecType(Push(d, s)) /\ Push(d, s).idx = k + 1 /\ Push(d, s).size = d.size
  BY <1>5, PushFields
<1>8. {"SIZE", "TYPE", "DATA", "CRC"} \subseteq States
  BY DEF States
<1> DEFINE e == CrsfParse(d, c)
<1>9. k <= size => e.idx = k + 1 /\ (k >= 1 => e.size = size)
  <2>1. CASE k = 0
    <3>1. e = Push(d, "SIZE")
      BY <1>3, <1>6, <2>1 DEF CrsfParse
    <3> QED BY <1>7, <1>8, <2>1, <3>1
  <2>2. CASE k = 1
    <3> DEFINE p == Push(d, "TYPE")
               q == [p EXCEPT !.size = c]
    <3>1. c \in 2..(CrsfMax - 2)
      BY <1>1, <1>2, <1>3, <2>2
    <3>2. e = q
      BY <1>6, <2>2, <3>1, Zenon DEF CrsfParse
    <3>3. DecType(p) /\ p.idx = k + 1
      BY <1>7, <1>8
    <3> HIDE DEF e, p
    <3>4. q.idx = k + 1 /\ q.size = c
      BY <1>1, <3>3, SetSize
    <3> QED BY <1>3, <2>2, <3>2, <3>4
  <2>3. CASE k = 2
    <3> DEFINE p == Push(d, IF d.size > 2 THEN "DATA" ELSE "CRC")
               q == [p EXCEPT !.type = c]
    <3>1. CrsfKnown(c, d.size) /\ d.idx < CrsfMax
      BY <1>1, <1>2, <1>3, <1>5, <2>3
    <3>2. e = q
      BY <1>6, <2>3, <3>1, Zenon DEF CrsfParse
    <3>3. DecType(p) /\ p.idx = k + 1 /\ p.size = d.size
      BY <1>7, <1>8
    <3> HIDE DEF e, p
    <3>4. q.idx = k + 1 /\ q.size = d.size
      BY <1>1, <3>3, SetType
    <3> QED BY <1>5, <2>3, <3>2, <3>4
  <2>4. CASE k \in 3..size
    <3>1. e = Push(d, IF d.idx + 1 > d.size THEN "CRC" ELSE "DATA")
      BY <1>1, <1>2, <1>5, <1>6, <2>4 DEF CrsfParse
    <3> HIDE DEF e
    <3> QED BY <1>2, <1>5, <1>7, <1>8, <2>4, <3>1
  <2> QED BY <1>2, <2>1, <2>2, <2>3, <2>4
<1>10. k = size + 1 => CrsfApplies(d, TRUE)
  BY <1>1, <1>2, <1>5, <1>6 DEF CrsfApplies
<1>11. Parse(d, c) = e /\ (CrsfApplies(d, TRUE) => Applies(d, TRUE)) /\ Consumed(d) = d.idx + 1
  BY DEF Parse, Applies, Consumed
<1> HIDE DEF e
<1>12. k + 1 < frame.len => At(e, k + 1)
  <2> SUFFICES ASSUME k + 1 < frame.len PROVE At(e, k + 1)
    OBVIOUS
  <2>1. k <= size /\ k \in Nat
    BY <1>1, <1>2
  <2>2. e.idx = k + 1 /\ (k + 1 >= 2 => e.size = frame.head[2])
    BY <1>9, <2>1 DEF size
  <2> QED BY <2>2 DEF At, CrsfAt
<1>13. k + 1 = frame.len => CrsfApplies(d, TRUE) /\ d.idx + 1 = frame.len
  <2>1. size \in Nat /\ k \in Nat /\ frame.len = size + 2
    BY <1>1, <1>2
  <2> SUFFICES ASSUME k + 1 = frame.len PROVE CrsfApplies(d, TRUE) /\ d.idx + 1 = frame.len
    OBVIOUS
  <2>2. k = size + 1
    BY <2>1
  <2>3. CrsfApplies(d, TRUE)
    BY <1>10, <2>2
  <2>4. d.idx + 1 = frame.len
    BY <1>5
  <2> QED BY <2>3, <2>4
<1> QED BY <1>11, <1>12, <1>13, Zenon DEF Goes

LEMMA SizeSplit ==
  ASSUME NEW n \in Nat
  PROVE  (n % Base) + Base * (n \div Base) = n
BY SizeAssumption

\* The size is complete with the last byte of the header, and not before.
LEMMA SizeRead ==
  ASSUME NEW d, DecType(d), NEW k \in Nat, NEW v \in {1, 2}, NEW n \in Nat, NEW c,
         MspFrame(frame, v, n), d.type = v, d.idx = k - 3, k \in 3..(2 + HeaderSize(v)),
         v = 1 /\ d.idx = 1 => d.size = n,
         v = 2 /\ d.idx = 4 => d.size = n % Base,
         c \in ByteAt(k + 1)
  PROVE  /\ k = 2 + HeaderSize(v) => SizeField(d, c) = n
         /\ v = 1 => SizeField(d, c) = n
         /\ v = 2 /\ k = 6 => SizeField(d, c) = n % Base
<1>1. HeaderSize(1) = 2 /\ HeaderSize(2) = 5
  BY SizeAssumption DEF HeaderSize
<1>2. CASE v = 1
  <2>1. k \in {3, 4}
    BY <1>1, <1>2
  <2>2. k = 3 => c = n
    BY <1>2 DEF MspFrame, ByteAt
  <2> QED BY <1>1, <1>2, <2>1, <2>2 DEF SizeField
<1>3. CASE v = 2
  <2>1. k \in 3..7
    BY <1>1, <1>3
  <2>2. (k = 6 => c = n % Base) /\ (k = 7 => c = n \div Base)
    BY <1>3 DEF MspFrame, ByteAt
  <2>3. CASE k = 6
    <3>1. SizeField(d, c) = c
      BY <1>3, <2>3 DEF SizeField
    <3> QED BY <1>1, <1>3, <2>2, <2>3, <3>1
  <2>4. CASE k = 7
    <3>1. SizeField(d, c) = d.size + Base * c
      BY <1>3, <2>4 DEF SizeField
    <3> QED BY <1>1, <1>3, <2>2, <2>4, <3>1, SizeSplit
  <2> QED BY <1>1, <1>3, <2>1, <2>3, <2>4
<1> QED BY <1>2, <1>3

LEMMA MspGoes ==
  ASSUME protocol = "MSP", NEW d, DecInv(d), NEW k, Ready(d, k), NEW c \in Byte,
         FrameInv, frame.wanted, c \in ByteAt(k + 1)
  PROVE  Goes(d, k, c)
<1>1. /\ MspBuf \in Nat /\ CharM # CharX
      /\ HeaderSize(1) = 2 /\ HeaderSize(2) = 5 /\ Payloads \subseteq Nat
  BY SizeAssumption, LineAssumption DEF HeaderSize
<1>2. DecType(d) /\ MspInv(d) /\ d.idx \in Nat /\ d.size \in Nat /\ k \in Nat
  BY DEF DecInv, DecType, Ready
<1>3. Fresh.state = "IDLE"
  BY FreshFields DEF First
<1> DEFINE m == MspParse(d, c)
<1>4. ASSUME NEW v \in {1, 2}, NEW n \in Payloads, MspFrame(frame, v, n)
      PROVE  /\ k + 1 < frame.len => MspAt(m, k + 1, v, n)
             /\ k + 1 = frame.len => d.state = "CHECKSUM" /\ d.type = v /\ d.size = n
  <2>1. /\ n \in Nat /\ n <= MspBuf /\ frame.len = 4 + HeaderSize(v) + n
        /\ k \in 0..(3 + HeaderSize(v) + n) /\ HeaderSize(v) \in {2, 5}
    BY <1>1, <1>4 DEF MspFrame, Ready
  <2>2. /\ k = 0 => c = Dollar
        /\ k = 1 => c = IF v = 1 THEN CharM ELSE CharX
        /\ k = 2 => c \in Directions
    BY <1>4 DEF MspFrame, ByteAt
  <2>3. IF k = 0 THEN d.state = "IDLE" ELSE MspAt(d, k, v, n)
    BY <1>3, <1>4 DEF Ready, At
  <2>4. CASE k \in {0, 1, 2}
    <3>1. /\ k = 0 => d.state = "IDLE"
          /\ k = 1 => d.state = "HEADER_START"
          /\ k = 2 => d.state = "DIRECTION" /\ d.type = v /\ d.idx = 0
      BY <1>2, <2>1, <2>3, <2>4 DEF MspAt, MspInv
    <3>2. k = 0 => m.state = "HEADER_START"
      BY <1>2, <2>2, <3>1, StartFields
    <3>3. k = 1 => m.state = "DIRECTION" /\ m.type = v
      BY <1>1, <1>2, <2>2, <3>1, StartFields
    <3>4. k = 2 => m.state = "HEADER" /\ m.type = v /\ m.idx = 0
      BY <1>2, <2>2, <3>1, StartFields
    <3> HIDE DEF m
    <3> QED BY <2>1, <2>4, <3>2, <3>3, <3>4 DEF MspAt
  <2>5. CASE k \in 3..(2 + HeaderSize(v))
    <3>1. /\ d.state = "HEADER" /\ d.type = v /\ d.idx = k - 3
          /\ v = 1 /\ d.idx = 1 => d.size = n
          /\ v = 2 /\ d.idx = 4 => d.size = n % Base
      BY <2>1, <2>3, <2>5 DEF MspAt
    <3>2. m = MspHeader(d, c)
      BY <3>1 DEF MspParse
    <3> DEFINE z == SizeField(d, c)
    <3>3. /\ k = 2 + HeaderSize(v) => z = n
          /\ v = 1 => z = n
          /\ v = 2 /\ k = 6 => z = n % Base
      BY <1>2, <1>4, <2>1, <2>5, <3>1, SizeRead
    <3> HIDE DEF m, z
    <3>4. /\ k # 2 + HeaderSize(v) =>
               m.state = "HEADER" /\ m.idx = k - 2 /\ m.size = z /\ m.type = v
          /\ k = 2 + HeaderSize(v) =>
               /\ m.state = IF n = 0 THEN "CHECKSUM" ELSE "PAYLOAD"
               /\ m.idx = 0 /\ m.size = n /\ m.type = v
      BY <1>1, <1>2, <2>1, <3>1, <3>2, <3>3, HeaderFields DEF z
    <3>5. CASE k # 2 + HeaderSize(v)
      BY <1>1, <2>1, <2>5, <3>3, <3>4, <3>5 DEF MspAt
    <3>6. CASE k = 2 + HeaderSize(v)
      BY <2>1, <3>4, <3>6 DEF MspAt
    <3> QED BY <3>5, <3>6
  <2>6. CASE k \in (3 + HeaderSize(v))..(2 + HeaderSize(v) + n)
    <3>1. d.state = "PAYLOAD" /\ d.type = v /\ d.size = n /\ d.idx = k - 3 - HeaderSize(v)
      BY <2>1, <2>3, <2>6 DEF MspAt
    <3> DEFINE s == IF d.idx + 1 = d.size THEN "CHECKSUM" ELSE "PAYLOAD"
    <3>2. m = Push(d, s)
      BY <3>1 DEF MspParse
    <3>3. s \in States
      BY DEF States
    <3> HIDE DEF m, s
    <3>4. m.idx = d.idx + 1 /\ m.state = s /\ m.size = n /\ m.type = v
      BY <1>2, <3>1, <3>2, <3>3, PushFields
    <3> QED BY <2>1, <2>6, <3>1, <3>4 DEF MspAt, s
  <2>7. CASE k = 3 + HeaderSize(v) + n
    BY <2>1, <2>3, <2>7 DEF MspAt
  <2> QED BY <2>1, <2>4, <2>5, <2>6, <2>7
<1>5. Parse(d, c) = m
  BY DEF Parse
<1> HIDE DEF m
<1>6. k + 1 < frame.len => At(m, k + 1)
  BY <1>4 DEF At
<1>7. ASSUME k + 1 = frame.len
      PROVE  Applies(d, TRUE) /\ Consumed(d) = frame.len
  <2>1. PICK v \in {1, 2}, n \in Payloads : MspFrame(frame, v, n)
    BY DEF FrameInv, FrameOf
  <2>2. d.state = "CHECKSUM" /\ d.type = v /\ d.size = n
    BY <1>4, <1>7, <2>1
  <2>3. frame.len = 4 + HeaderSize(v) + n
    BY <2>1 DEF MspFrame
  <2> QED BY <2>2, <2>3 DEF Applies, MspApplies, Consumed
<1> QED BY <1>5, <1>6, <1>7 DEF Goes

LEMMA GoesOn ==
  ASSUME protocol \in {"IBUS", "SBUS", "CRSF", "MSP"}, NEW d, DecInv(d), NEW k,
         Ready(d, k), NEW c \in Byte, FrameInv, frame.wanted, c \in ByteAt(k + 1)
  PROVE  Goes(d, k, c)
BY IbusGoes, SbusGoes, CrsfGoes, MspGoes

LEMMA ShapesInv ==
  ASSUME NEW f \in Shapes, protocol \in {"IBUS", "SBUS", "CRSF", "MSP"}
  PROVE  FrameOf(f)
<1>1. CASE protocol = "IBUS"
  BY <1>1, SizeAssumption DEF Shapes, Shape, FrameOf
<1>2. CASE protocol = "SBUS"
  BY <1>2, SizeAssumption DEF Shapes, Shape, FrameOf
<1>3. CASE protocol = "CRSF"
  <2>1. /\ {RcSize, LinkSize, OtherSize} \subseteq 3..(CrsfMax - 2) /\ CrsfMax \in Nat
        /\ CrsfKnown(RcType, RcSize) /\ CrsfKnown(LinkType, LinkSize)
    BY SizeAssumption, LineAssumption DEF CrsfKnown
  <2> QED BY <1>3, <2>1 DEF Shapes, Shape, Crsf, FrameOf, CrsfFrame
<1>4. CASE protocol = "MSP"
  <2>1. HeaderSize(1) = 2 /\ HeaderSize(2) = 5 /\ Payloads \subseteq Nat /\ MspBuf \in Nat
    BY SizeAssumption, LineAssumption DEF HeaderSize
  <2>2. CASE \E n \in Payloads \cap Byte, dir \in Directions : f = MspV1(n, dir)
    <3>1. PICK n \in Payloads \cap Byte, dir \in Directions : f = MspV1(n, dir)
      BY <2>2
    <3> n \in Nat /\ n \in Payloads
      BY <2>1
    <3>2. /\ f.head = <<Dollar, CharM, dir, n>>
          /\ f.len = 6 + n /\ (f.wanted => n <= MspBuf)
      BY <3>1 DEF MspV1, Shape
    <3>3. MspFrame(f, 1, n)
      <4>1. f.head[1] = Dollar /\ f.head[2] = CharM /\ f.head[3] = dir
        BY <3>2
      <4>2. Len(f.head) = 4 /\ f.head[4] = n
        BY <3>2
      <4>3. f.len = 4 + HeaderSize(1) + n
        BY <2>1, <3>2
      <4> QED BY <3>1, <3>2, <4>1, <4>2, <4>3 DEF MspFrame
    <3>4. f.len \in Nat \ {0}
      BY <2>1, <3>2
    <3> QED BY <1>4, <3>3, <3>4 DEF FrameOf
  <2>3. CASE \E n \in Payloads, dir \in Directions : f = MspV2(n, dir)
    <3>1. PICK n \in Payloads, dir \in Directions : f = MspV2(n, dir)
      BY <2>3
    <3> n \in Nat /\ n \in Payloads
      BY <2>1
    <3>2. /\ f.head = <<Dollar, CharX, dir, 0, 0, 0, n % Base, n \div Base>>
          /\ f.len = 9 + n /\ (f.wanted => n <= MspBuf)
      BY <3>1 DEF MspV2, Shape
    <3>3. MspFrame(f, 2, n)
      <4>1. f.head[1] = Dollar /\ f.head[2] = CharX /\ f.head[3] = dir
        BY <3>2
      <4>2. Len(f.head) = 8 /\ f.head[7] = n % Base /\ f.head[8] = n \div Base
        BY <3>2
      <4>3. f.len = 4 + HeaderSize(2) + n
        BY <2>1, <3>2
      <4> QED BY <3>1, <3>2, <4>1, <4>2, <4>3 DEF MspFrame
    <3>4. f.len \in Nat \ {0}
      BY <2>1, <3>2
    <3> QED BY <1>4, <3>3, <3>4 DEF FrameOf
  <2>4. f \in {MspV1(n, dir) : n \in Payloads \cap Byte, dir \in Directions}
              \cup {MspV2(n, dir) : n \in Payloads, dir \in Directions}
    BY <1>4 DEF Shapes
  <2> QED BY <2>2, <2>3, <2>4
<1> QED BY <1>1, <1>2, <1>3, <1>4

LEMMA FragmentInv ==
  ASSUME NEW r, NEW k, protocol = "CRSF"
  PROVE  FrameOf(FragmentFrame(r, k))
<1>1. FragmentSize \in 3..(CrsfMax - 2) /\ CrsfMax \in Nat /\ CrsfKnown(MspType, FragmentSize)
  BY SizeAssumption, LineAssumption DEF CrsfKnown
<1>2. LET f == FragmentFrame(r, k)
      IN  /\ f.head = <<CrsfSync, FragmentSize, MspType>>
          /\ f.len = FragmentSize + 2 /\ f.wanted = TRUE
  BY DEF FragmentFrame, Crsf, Shape
<1> QED BY <1>1, <1>2 DEF FrameOf, CrsfFrame

\* --- the steps ----------------------------------------------------------------------

LEMMA AppliesSum ==
  ASSUME NEW d, NEW ok \in BOOLEAN, Applies(d, ok), ~ok,
         protocol \in {"IBUS", "SBUS", "CRSF", "MSP"}
  PROVE  protocol = "SBUS" /\ d.state = "END"
BY DEF Applies, IbusApplies, SbusApplies, CrsfApplies, MspApplies

\* What every byte that comes does.
LEMMA TakeStep ==
  ASSUME LineInv, NEW c \in Byte, NEW late \in BOOLEAN, Take(c, late),
         NEW d, d = Timed(late), clean' \in BOOLEAN
  PROVE  /\ protocol' = protocol /\ frame' = frame
         /\ DecInv(d) /\ dec' = Parse(d, c) /\ DecInv(dec)' /\ FrameInv'
         /\ applied' = "mixture" => protocol = "SBUS" /\ d.state = "END" /\ ~SumOk(d)
         /\ Applies(d, TRUE) /\ SumOk(d) => applied' = "sent"
<1>1. /\ protocol' = protocol /\ frame' = frame /\ dec' = Parse(d, c)
      /\ applied' = CASE ~Applies(d, SumOk(d)) -> "nothing"
                      [] Applies(d, SumOk(d)) /\ SumOk(d) -> "sent"
                      [] OTHER -> "mixture"
  BY DEF Take
<1>2. DecInv(d) /\ protocol \in {"IBUS", "SBUS", "CRSF", "MSP"}
  BY TimedInv DEF LineInv
<1>3. DecInv(dec)'
  <2>1. DecInv(Parse(d, c))
    BY <1>2, ParseInv
  <2> QED BY <1>1, <2>1 DEF DecInv, IbusInv, SbusInv, CrsfInv, MspInv, DecType
<1>4. FrameInv'
  BY <1>1 DEF LineInv, FrameInv, FrameOf
<1>5. SumOk(d) \in BOOLEAN
  BY DEF SumOk
<1> DEFINE ok == SumOk(d)
<1> HIDE DEF ok
<1>6. applied' = CASE ~Applies(d, ok) -> "nothing"
                   [] Applies(d, ok) /\ ok -> "sent"
                   [] OTHER -> "mixture"
  BY <1>1 DEF ok
<1>7. applied' = "mixture" => Applies(d, ok) /\ ~ok
  BY <1>6
<1>8. applied' = "mixture" => protocol = "SBUS" /\ d.state = "END" /\ ~ok
  BY <1>2, <1>5, <1>7, AppliesSum DEF ok
<1>9. ASSUME Applies(d, TRUE), ok
      PROVE  applied' = "sent"
  <2>1. ok = TRUE
    BY <1>5, <1>9 DEF ok
  <2>2. Applies(d, ok)
    BY <1>9, <2>1
  <2> QED BY <1>6, <1>9, <2>2
<1> QED BY <1>1, <1>2, <1>3, <1>4, <1>8, <1>9 DEF ok

\* With SBUS the index grows by one with a byte, or is reset.
LEMMA SbusIndex ==
  ASSUME protocol = "SBUS", NEW d, DecInv(d), NEW c
  PROVE  Parse(d, c).idx \in {0, d.idx + 1}
<1>1. SbusSize \in Nat /\ DecType(d) /\ SbusInv(d) /\ Fresh.idx = 0
  BY SizeAssumption, FreshFields DEF DecInv
<1>2. \A s \in States : Push(d, s).idx = d.idx + 1
  BY <1>1, PushFields
<1>3. Parse(d, c) = SbusParse(d, c)
  BY DEF Parse
<1>4. CASE d.state = "START"
  <2>1. SbusParse(d, c) \in {Push(d, "DATA"), d} /\ d.idx = 0
    BY <1>1, <1>4 DEF SbusParse, SbusInv
  <2> QED BY <1>2, <1>3, <2>1 DEF States
<1>5. CASE d.state = "DATA"
  <2>1. SbusParse(d, c) \in {Push(d, "END"), Push(d, "DATA")}
    BY <1>5 DEF SbusParse
  <2> QED BY <1>2, <1>3, <2>1 DEF States
<1>6. CASE d.state = "END"
  BY <1>1, <1>3, <1>6 DEF SbusParse
<1> QED BY <1>1, <1>4, <1>5, <1>6 DEF SbusInv

LEMMA ArriveStep ==
  ASSUME LineInv, NEW c \in Byte, NEW late \in BOOLEAN, Arrive(c, late)
  PROVE  LineInv'
<1> DEFINE d == Timed(late)
<1>1. /\ pos < frame.len /\ c \in ByteAt(pos + 1) /\ pos' = pos + 1 /\ pos \in Nat
      /\ clean' = (clean \/ pos = 0)
      /\ visible' = IF pos = 0 THEN StartSeen(late) ELSE visible /\ (~late \/ protocol = "MSP")
      /\ blurred' = (blurred /\ ~late)
      /\ Take(c, late)
  BY DEF Arrive, LineInv
<1>2. frame.len \in Nat /\ FrameInv /\ protocol \in {"IBUS", "SBUS", "CRSF", "MSP"}
  BY DEF LineInv, FrameInv, FrameOf
<1>3. /\ protocol' = protocol /\ frame' = frame
      /\ DecInv(d) /\ dec' = Parse(d, c) /\ DecInv(dec)' /\ FrameInv'
      /\ applied' = "mixture" => protocol = "SBUS" /\ d.state = "END" /\ ~SumOk(d)
      /\ Applies(d, TRUE) /\ SumOk(d) => applied' = "sent"
  BY <1>1, TakeStep
<1>4. clean' \in BOOLEAN /\ visible' \in BOOLEAN /\ blurred' \in BOOLEAN
  BY <1>1 DEF StartSeen, LineInv
<1>11. (clean => clean') /\ (pos = 0 => clean')
  BY <1>1, Zenon
<1>5. late /\ protocol # "MSP" => d = Fresh
  BY DEF Timed
<1>6. ~late => d = dec
  BY DEF Timed
<1>0. StartSeen(late) => d = Fresh
  BY DEF Timed, StartSeen
<1> HIDE DEF d
<1>7. VisibleInv'
  <2> SUFFICES ASSUME visible'
               PROVE  /\ pos' > 0 /\ clean'
                      /\ frame.wanted /\ pos' < frame.len => At(Parse(d, c), pos')
                      /\ frame.wanted /\ pos' = frame.len => applied' = "sent"
    <3>1. At(dec, pos)' = At(Parse(d, c), pos')
      BY <1>3 DEF At, CrsfAt, MspAt, MspFrame
    <3> QED BY <1>3, <3>1 DEF VisibleInv
  <2>1. clean' = TRUE
    BY <1>1, <1>4 DEF LineInv, VisibleInv
  <2>2. ASSUME frame.wanted
        PROVE  Ready(d, pos)
    <3>1. CASE pos = 0
      <4>1. d = Fresh
        BY <1>0, <1>1, <3>1
      <4> QED BY <1>1, <3>1, <4>1 DEF Ready
    <3>2. CASE pos # 0
      <4>1. visible /\ d = dec
        BY <1>1, <3>2 DEF Timed, LineInv, d
      <4>2. At(d, pos)
        BY <1>1, <2>2, <4>1 DEF LineInv, VisibleInv
      <4>3. pos > 0
        BY <1>1, <3>2
      <4> QED BY <1>1, <4>2, <4>3 DEF Ready
    <3> QED BY <3>1, <3>2
  <2>3. frame.wanted => Goes(d, pos, c)
    BY <1>1, <1>2, <1>3, <2>2, GoesOn
  <2>4. frame.wanted /\ pos' < frame.len => At(Parse(d, c), pos')
    BY <1>1, <2>3 DEF Goes
  <2>5. ASSUME frame.wanted, pos' = frame.len
        PROVE  applied' = "sent"
    <3>1. Applies(d, TRUE) /\ Consumed(d) = frame.len
      BY <1>1, <2>3, <2>5 DEF Goes
    <3>2. SumOk(d)
      BY <2>1, <2>5, <3>1 DEF SumOk
    <3> QED BY <1>3, <3>1, <3>2
  <2> QED BY <1>1, <2>1, <2>4, <2>5
<1>8. SbusAligned'
  <2> SUFFICES ASSUME protocol = "SBUS", ~blurred'
               PROVE  Parse(d, c).idx <= pos' /\ (Parse(d, c).idx = pos' => clean')
    BY <1>3 DEF SbusAligned
  <2>1. Parse(d, c).idx \in {0, d.idx + 1}
    BY <1>3, SbusIndex
  <2>2. d.idx \in Nat /\ d.idx <= pos /\ (d.idx = pos /\ pos > 0 => clean)
    <3>1. CASE late
      BY <1>1, <1>2, <1>5, <3>1, FreshFields
    <3>2. CASE ~late
      <4>1. ~blurred /\ d = dec
        BY <1>1, <1>6, <3>2 DEF LineInv
      <4>2. dec.idx <= pos /\ (dec.idx = pos /\ pos > 0 => clean)
        BY <4>1 DEF LineInv, SbusAligned
      <4>3. d.idx \in Nat
        BY <1>3 DEF DecInv, DecType
      <4> QED BY <4>1, <4>2, <4>3
    <3> QED BY <3>1, <3>2
  <2>3. CASE Parse(d, c).idx = 0
    BY <1>1, <2>3
  <2>4. CASE Parse(d, c).idx = d.idx + 1
    <3>1. d.idx = pos => clean'
      BY <1>1, <1>11, <2>2
    <3> QED BY <1>1, <2>2, <2>4, <3>1
  <2> QED BY <2>1, <2>3, <2>4
<1>9. TakenWasSent'
  <2> SUFFICES ASSUME applied' = "mixture", ~blurred'
               PROVE  FALSE
    BY <1>3 DEF TakenWasSent
  <2>1. protocol = "SBUS" /\ d.state = "END" /\ ~SumOk(d)
    BY <1>3
  <2>2. d = dec /\ ~blurred
    BY <1>1, <1>2, <1>4, <1>5, <1>6, <2>1, FreshFields DEF First
  <2>3. dec.idx = SbusSize - 1 /\ frame.len = SbusSize /\ SbusSize > 2 /\ SbusSize \in Nat
    BY <2>1, <2>2, SizeAssumption DEF LineInv, DecInv, SbusInv, FrameInv, FrameOf
  <2>4. dec.idx <= pos /\ (dec.idx = pos /\ pos > 0 => clean)
    BY <2>1, <2>2 DEF LineInv, SbusAligned
  <2>5. pos = SbusSize - 1 /\ clean
    BY <1>1, <2>3, <2>4
  <2>6. clean' = TRUE /\ pos' = frame.len /\ Consumed(d) = pos'
    <3>1. Consumed(d) = d.idx + 1
      BY <2>1 DEF Consumed
    <3>2. clean' = TRUE
      BY <1>4, <1>11, <2>5
    <3> QED BY <1>1, <2>2, <2>3, <2>5, <3>1, <3>2
  <2> QED BY <2>1, <2>6 DEF SumOk
<1>10. pos' \in Nat /\ pos' <= frame'.len /\ protocol' \in {"IBUS", "SBUS", "CRSF", "MSP"}
  BY <1>1, <1>2, <1>3
<1> QED BY <1>3, <1>4, <1>7, <1>8, <1>9, <1>10 DEF LineInv

\* A byte that is altered, or was not sent.
LEMMA WrongStep ==
  ASSUME LineInv, NEW c \in Byte, NEW late \in BOOLEAN, Alter(c, late) \/ Insert(c, late)
  PROVE  LineInv'
<1> DEFINE d == Timed(late)
<1>1. /\ pos < frame.len /\ pos' \in {pos, pos + 1} /\ pos \in Nat /\ clean \in BOOLEAN
      /\ clean' \in BOOLEAN /\ visible' = FALSE /\ blurred' = TRUE
      /\ Take(c, late)
  BY DEF Alter, Insert, Unchecked, LineInv
<1>2. frame.len \in Nat /\ protocol \in {"IBUS", "SBUS", "CRSF", "MSP"}
  BY DEF LineInv, FrameInv, FrameOf
<1>3. /\ protocol' = protocol /\ frame' = frame /\ DecInv(dec)' /\ FrameInv'
      /\ applied' = "mixture" => protocol = "SBUS"
  BY <1>1, TakeStep
<1>4. VisibleInv' /\ SbusAligned' /\ TakenWasSent'
  BY <1>1, <1>3 DEF VisibleInv, SbusAligned, TakenWasSent
<1>5. pos' \in Nat /\ pos' <= frame'.len
  BY <1>1, <1>2, <1>3
<1> QED BY <1>1, <1>2, <1>3, <1>4, <1>5 DEF LineInv

LEMMA LoseStep ==
  ASSUME LineInv, Lose
  PROVE  LineInv'
<1>1. /\ pos < frame.len /\ pos' = pos + 1 /\ pos \in Nat
      /\ clean' = FALSE /\ visible' = FALSE /\ applied' = "nothing"
      /\ blurred' = blurred /\ dec' = dec /\ frame' = frame /\ protocol' = protocol
  BY DEF Lose, LineInv
<1>2. frame.len \in Nat
  BY DEF LineInv, FrameInv, FrameOf
<1>3. DecInv(dec)' /\ FrameInv'
  BY <1>1 DEF LineInv, DecInv, DecType, IbusInv, SbusInv, CrsfInv, MspInv, FrameInv, FrameOf
<1>4. VisibleInv' /\ TakenWasSent'
  BY <1>1 DEF VisibleInv, TakenWasSent
<1>5. SbusAligned'
  <2> SUFFICES ASSUME protocol = "SBUS", ~blurred
               PROVE  dec.idx <= pos' /\ dec.idx # pos'
    BY <1>1 DEF SbusAligned
  <2>1. dec.idx \in Nat /\ dec.idx <= pos
    BY DEF LineInv, DecInv, DecType, SbusAligned
  <2> QED BY <1>1, <2>1
<1>6. pos' \in Nat /\ pos' <= frame'.len
  BY <1>1, <1>2
<1> QED BY <1>1, <1>3, <1>4, <1>5, <1>6 DEF LineInv

LEMMA BeginStep ==
  ASSUME LineInv, NEW f, FrameOf(f), Begin(f)
  PROVE  LineInv'
<1>1. /\ pos' = 0 /\ clean' = FALSE /\ visible' = FALSE /\ blurred' = TRUE
      /\ applied' = "nothing" /\ dec' = dec /\ frame' = f /\ protocol' = protocol
  BY DEF Begin
<1>2. DecInv(dec)'
  BY <1>1 DEF LineInv, DecInv, DecType, IbusInv, SbusInv, CrsfInv, MspInv
<1>3. FrameInv' /\ f.len \in Nat
  BY <1>1 DEF FrameInv, FrameOf
<1>4. VisibleInv' /\ SbusAligned' /\ TakenWasSent'
  BY <1>1 DEF VisibleInv, SbusAligned, TakenWasSent
<1>5. pos' <= frame'.len
  BY <1>1, <1>3
<1> QED BY <1>1, <1>2, <1>3, <1>4, <1>5 DEF LineInv

\* The invariant of the line, for every size of the frames and of the buffers.
THEOREM LineInvariance == Spec => []LineInv
<1>1. Init => LineInv
  <2> SUFFICES ASSUME Init
               PROVE  LineInv
    OBVIOUS
  <2>1. protocol \in {"IBUS", "SBUS", "CRSF", "MSP"}
    BY LineAssumption DEF Init
  <2>2. DecInv(dec) /\ dec.idx = 0
    BY <2>1, FreshInv, FreshFields DEF Init
  <2>3. FrameInv /\ pos = 0 /\ frame.len \in Nat
    BY <2>1, ShapesInv DEF Init, FrameInv, FrameOf
  <2>4. VisibleInv /\ SbusAligned /\ TakenWasSent
    BY <2>2, <2>3 DEF Init, VisibleInv, SbusAligned, TakenWasSent
  <2>5. pos \in Nat /\ pos <= frame.len
    BY <2>3
  <2>6. clean \in BOOLEAN /\ visible \in BOOLEAN /\ blurred \in BOOLEAN
    BY DEF Init
  <2> QED BY <2>1, <2>2, <2>3, <2>4, <2>5, <2>6 DEF LineInv
<1>2. LineInv /\ [Next]_vars => LineInv'
  <2> SUFFICES ASSUME LineInv, [Next]_vars
               PROVE  LineInv'
    OBVIOUS
  <2>1. CASE \E c \in Byte, late \in BOOLEAN :
               Arrive(c, late) \/ Alter(c, late) \/ Insert(c, late)
    BY <2>1, ArriveStep, WrongStep
  <2>2. CASE Lose
    BY <2>2, LoseStep
  <2>3. CASE NextFrame
    <3>1. PICK f \in Shapes : Begin(f)
      BY <2>3 DEF NextFrame
    <3>2. FrameOf(f)
      BY ShapesInv DEF LineInv
    <3> QED BY <3>1, <3>2, BeginStep
  <2>4. CASE NextFragment
    <3>1. protocol = "CRSF" /\ \E r, k : Begin(FragmentFrame(r, k))
      BY <2>4 DEF NextFragment
    <3> QED BY <3>1, FragmentInv, BeginStep
  <2>5. CASE UNCHANGED vars
    BY <2>5
    DEF vars, lineVars, LineInv, DecInv, DecType, IbusInv, SbusInv, CrsfInv, MspInv,
        FrameInv, FrameOf, VisibleInv, At, CrsfAt, MspAt, SbusAligned, TakenWasSent
  <2> QED BY <2>1, <2>2, <2>3, <2>4, <2>5 DEF Next
<1> QED BY <1>1, <1>2, PTL DEF Spec

\* No decoder stores a byte outside its buffer, whatever comes and whenever: the
\* index stays below the buffer's size in every state that stores without a test.
THEOREM InBounds == Spec => []IndexInBounds
<1>1. LineInv => IndexInBounds
  <2> SUFFICES ASSUME LineInv, Storing
               PROVE  dec.idx < Room
    BY DEF IndexInBounds
  <2>1. DecType(dec) /\ protocol \in {"IBUS", "SBUS", "CRSF", "MSP"}
    BY DEF LineInv, DecInv
  <2>2. CASE protocol = "IBUS"
    BY <2>2, SizeAssumption DEF LineInv, DecInv, IbusInv, Room
  <2>3. CASE protocol = "SBUS"
    BY <2>3, SizeAssumption DEF LineInv, DecInv, SbusInv, Room
  <2>4. CASE protocol = "CRSF"
    BY <2>4, SizeAssumption DEF LineInv, DecInv, CrsfInv, Room
  <2>5. CASE protocol = "MSP"
    <3>1. MspInv(dec) /\ dec.state \notin {"IDLE", "HEADER_START", "DIRECTION", "CHECKSUM"}
      BY <2>5 DEF LineInv, DecInv, Storing
    <3>2. /\ dec.idx \in Nat /\ dec.size \in Nat /\ MspBuf \in Nat /\ MspBuf >= 5
          /\ HeaderSize(1) = 2 /\ HeaderSize(2) = 5
      BY <2>1, SizeAssumption DEF DecType, HeaderSize
    <3>3. dec.idx < MspBuf
      BY <3>1, <3>2 DEF MspInv
    <3> QED BY <2>5, <3>3 DEF Room
  <2> QED BY <2>1, <2>2, <2>3, <2>4, <2>5
<1> QED BY <1>1, LineInvariance, PTL

\* A wanted frame that arrives whole, its beginning seen by the decoder, is taken,
\* whatever came before it.
THEOREM FramesTaken == Spec => []WholeFrameTaken
<1>1. LineInv => WholeFrameTaken
  BY DEF LineInv, VisibleInv, WholeFrameTaken
<1> QED BY <1>1, LineInvariance, PTL

\* What is taken was sent, with SBUS unless a byte was not as sent or a gap not seen.
THEOREM Genuine == Spec => []TakenWasSent
<1>1. LineInv => TakenWasSent
  BY DEF LineInv
<1> QED BY <1>1, LineInvariance, PTL
=============================================================================
