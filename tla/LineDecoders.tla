---------------------------- MODULE LineDecoders ----------------------------
(***************************************************************************)
(* The decoders that read a serial line byte by byte: the receivers'       *)
(* InputIBUS, InputSBUS and InputCRSF, and MspParser on the ports of the   *)
(* ground station.  Each is what its parse() does with one byte.           *)
(*                                                                         *)
(* The checksums are ideal: ok says whether the bytes a checksum covers    *)
(* are those of one frame that was sent.  What a decoder stores is reduced *)
(* to how much it stores, and to the bytes it decides on.                  *)
(***************************************************************************)
EXTENDS Integers, Sequences

CONSTANTS
  Base,         \* a byte is one of 0..Base-1 (256)
  IbusSize,     \* IBUS_FRAME_SIZE, also the first byte of a frame
  IbusCommand,  \* IBUS_COMMAND
  SbusSize,     \* SBUS_FRAME_SIZE
  SbusStart,    \* 0x0F
  CrsfSync,     \* CRSF_SYNC_BYTE
  CrsfMax,      \* CRSF_FRAME_SIZE_MAX, sizeof(CrsfMessage)
  RcType,       \* CRSF_FRAMETYPE_RC_CHANNELS_PACKED
  RcSize,       \* sizeof(CrsfData) + 2
  LinkType,     \* CRSF_FRAMETYPE_LINK_STATISTICS
  LinkSize,     \* sizeof(CrsfLinkStats) + 2
  MspType,      \* CRSF_FRAMETYPE_MSP_REQ and _WRITE
  MspMin,       \* the least size of an MSP frame (5)
  Dollar, CharM, CharX,  \* '$', 'M', 'X'
  Directions,   \* {'<', '>'}
  HeaderV1,     \* sizeof(MspHeaderV1)
  HeaderV2,     \* sizeof(MspHeaderV2)
  MspBuf        \* MSP_BUF_SIZE

Byte == 0..(Base - 1)

ASSUME SizeAssumption ==
  /\ Base \in Nat \ {0, 1}
  /\ {IbusSize, SbusSize, CrsfMax, RcSize, LinkSize, MspMin, MspBuf} \subseteq Nat
  /\ IbusSize > 4 /\ SbusSize > 2
  /\ {RcSize, LinkSize, MspMin} \subseteq 3..(CrsfMax - 2)
  /\ HeaderV1 = 2 /\ HeaderV2 = 5 /\ MspBuf >= HeaderV2
  /\ CharM # CharX

VARIABLES
  protocol,  \* whose decoder reads the line
  dec        \* its state: _state, _idx, msg.size, msg.type

First(p) ==
  CASE p = "IBUS" -> "LENGTH"
    [] p = "SBUS" -> "START"
    [] p = "CRSF" -> "ADDR"
    [] p = "MSP" -> "IDLE"

\* begin() of the receivers, resetFrame() and reset(); a new MspMessage
Fresh == [state |-> First(protocol), idx |-> 0, size |-> 0, type |-> 0]

Push(d, s) == [d EXCEPT !.state = s, !.idx = @ + 1]

\* --- InputIBUS::parse --------------------------------------------------------

\* pushByte
IbusPush(d, s) == IF d.idx < IbusSize THEN Push(d, s) ELSE Fresh

\* Mutant: resetFrame() is missing after the last byte.
IbusParseStays(d, c) ==
  CASE d.state = "LENGTH" -> IF c = IbusSize THEN IbusPush(Fresh, "CMD") ELSE Fresh
    [] d.state = "CMD" -> IF c = IbusCommand THEN IbusPush(d, "DATA") ELSE Fresh
    [] d.state = "DATA" ->
         IbusPush(d, IF d.idx + 1 >= IbusSize - 2 THEN "CRC_LO" ELSE "DATA")
    [] OTHER -> IbusPush(d, "CRC_HI")

IbusParse(d, c) ==
  CASE d.state = "LENGTH" -> IF c = IbusSize THEN IbusPush(Fresh, "CMD") ELSE Fresh
    [] d.state = "CMD" -> IF c = IbusCommand THEN IbusPush(d, "DATA") ELSE Fresh
    [] d.state = "DATA" ->
         IbusPush(d, IF d.idx + 1 >= IbusSize - 2 THEN "CRC_LO" ELSE "DATA")
    [] d.state = "CRC_LO" -> IbusPush(d, "CRC_HI")
    [] d.state = "CRC_HI" -> Fresh

IbusApplies(d, ok) == d.state = "CRC_HI" /\ d.idx < IbusSize /\ ok

\* --- InputSBUS::parse --------------------------------------------------------

SbusParse(d, c) ==
  CASE d.state = "START" -> IF c = SbusStart THEN Push(d, "DATA") ELSE d
    [] d.state = "DATA" -> Push(d, IF d.idx + 1 >= SbusSize - 1 THEN "END" ELSE "DATA")
    [] d.state = "END" -> Fresh

\* The last byte is not looked at, and there is no checksum.
SbusApplies(d) == d.state = "END"

\* --- InputCRSF::parse --------------------------------------------------------

\* the combinations of type and size that are read on
CrsfKnown(type, size) ==
  \/ type = RcType /\ size = RcSize
  \/ type = LinkType /\ size = LinkSize
  \/ type = MspType /\ size >= MspMin

CrsfParse(d, c) ==
  CASE d.state = "ADDR" -> IF c = CrsfSync THEN Push(d, "SIZE") ELSE d
    [] d.state = "SIZE" ->
         IF c \in 2..(CrsfMax - 2) THEN [Push(d, "TYPE") EXCEPT !.size = c] ELSE Fresh
    [] d.state = "TYPE" ->
         IF CrsfKnown(c, d.size) /\ d.idx < CrsfMax
         THEN [Push(d, IF d.size > 2 THEN "DATA" ELSE "CRC") EXCEPT !.type = c]
         ELSE Fresh
    [] d.state = "DATA" ->
         IF d.idx < CrsfMax
         THEN Push(d, IF d.idx + 1 > d.size THEN "CRC" ELSE "DATA")
         ELSE Fresh
    [] d.state = "CRC" -> Fresh

\* Mutant: the CRC is not compared.
CrsfAppliesAny(d, ok) == d.state = "CRC" /\ d.idx < CrsfMax

CrsfApplies(d, ok) == d.state = "CRC" /\ d.idx < CrsfMax /\ ok

\* --- MspParser::parse --------------------------------------------------------

\* The states of the two versions are one; type is the version, idx is
\* msg.received.  The direction is not kept: replies are parsed like commands.
HeaderSize(version) == IF version = 1 THEN HeaderV1 ELSE HeaderV2

\* the size field after one more header byte: the first byte of version 1, the
\* last two of version 2
SizeField(d, c) ==
  CASE d.type = 1 /\ d.idx = 0 -> c
    [] d.type = 2 /\ d.idx = 3 -> c
    [] d.type = 2 /\ d.idx = 4 -> d.size + Base * c
    [] OTHER -> d.size

\* Mutant: any payload size is accepted.
HeaderEndUnlimited(d) ==
  IF d.size = 0 THEN [d EXCEPT !.state = "CHECKSUM", !.idx = 0]
                ELSE [d EXCEPT !.state = "PAYLOAD", !.idx = 0]

HeaderEnd(d) ==
  CASE d.size > MspBuf -> Fresh
    [] d.size = 0 -> [d EXCEPT !.state = "CHECKSUM", !.idx = 0]
    [] OTHER -> [d EXCEPT !.state = "PAYLOAD", !.idx = 0]

MspHeader(d, c) ==
  LET h == [Push(d, "HEADER") EXCEPT !.size = SizeField(d, c)]
  IN  IF h.idx = HeaderSize(d.type) THEN HeaderEnd(h) ELSE h

MspParse(d, c) ==
  CASE d.state = "IDLE" -> IF c = Dollar THEN [d EXCEPT !.state = "HEADER_START"] ELSE d
    [] d.state = "HEADER_START" ->
         IF c \in {CharM, CharX}
         THEN [Fresh EXCEPT !.state = "DIRECTION", !.type = IF c = CharM THEN 1 ELSE 2]
         ELSE Fresh
    [] d.state = "DIRECTION" -> IF c \in Directions THEN [d EXCEPT !.state = "HEADER"] ELSE Fresh
    [] d.state = "HEADER" -> MspHeader(d, c)
    [] d.state = "PAYLOAD" -> Push(d, IF d.idx + 1 = d.size THEN "CHECKSUM" ELSE "PAYLOAD")
    [] d.state = "CHECKSUM" -> Fresh

MspApplies(d, ok) == d.state = "CHECKSUM" /\ ok

\* --- the decoder of the line -------------------------------------------------

\* Mutant: no decoder gives up a frame at a gap.
TimedKeeps(late) == dec

\* The receivers' timeouts, tested before the byte is looked at: the distance
\* to the last byte, or with CRSF to the first one of the frame, is too long.
Timed(late) == IF late /\ protocol # "MSP" THEN Fresh ELSE dec

Parse(d, c) ==
  CASE protocol = "IBUS" -> IbusParse(d, c)
    [] protocol = "SBUS" -> SbusParse(d, c)
    [] protocol = "CRSF" -> CrsfParse(d, c)
    [] protocol = "MSP" -> MspParse(d, c)

Applies(d, ok) ==
  CASE protocol = "IBUS" -> IbusApplies(d, ok)
    [] protocol = "SBUS" -> SbusApplies(d)
    [] protocol = "CRSF" -> CrsfApplies(d, ok)
    [] protocol = "MSP" -> MspApplies(d, ok)

\* how many bytes of its frame the decoder has taken when it applies one
Consumed(d) ==
  IF protocol = "MSP" THEN 4 + HeaderSize(d.type) + d.size ELSE d.idx + 1

\* the size of the buffer that dec.idx points into
Room ==
  CASE protocol = "IBUS" -> IbusSize
    [] protocol = "SBUS" -> SbusSize
    [] protocol = "CRSF" -> CrsfMax
    [] protocol = "MSP" -> MspBuf

\* the states in which the next byte is stored
Storing ==
  dec.state \notin {"IDLE", "HEADER_START", "DIRECTION", "CHECKSUM"}
=============================================================================
