------------------------------- MODULE GpsLink -------------------------------
(***************************************************************************)
(* GpsSensor: how it finds the receiver's baud rate, configures the        *)
(* receiver request by request, and takes its solutions; with the receiver *)
(* and the serial line as its environment.                                 *)
(*                                                                         *)
(* The line loses requests and answers, and delivers answers late: that a  *)
(* timeout of the code has expired is a choice of the environment.  What   *)
(* is sent at one baud rate and read at another is lost.  Navigation       *)
(* messages repeat for ever and so are not queued.                         *)
(***************************************************************************)
EXTENDS Naturals, Sequences, SequencesExt

CONSTANTS
  Bauds,       \* the rates detectBaud tries, in order
  Target,      \* the configured rate of the port
  RxBauds,     \* the rates a receiver may start with
  NmeaMsgOff,  \* NMEA_MSG_OFF, in order
  Refusable,   \* requests that a receiver may answer with NAK
  Limit,       \* SOLUTION_TIMEOUT, in clock ticks
  MaxRestarts  \* bound: restarts of the flight controller

ASSUME GpsAssumption ==
  /\ Bauds \in Seq(STRING) /\ NmeaMsgOff \in Seq(STRING)
  /\ NmeaMsgOff # <<>> /\ Limit \in Nat /\ MaxRestarts \in Nat

\* "ubx6": a NEO-6M; "legacy": protocol version below 27; "modern": CFG-VAL*
Generation == {"ubx6", "legacy", "modern"}

State ==
  {"DETECT_BAUD", "CONFIGURE_BAUD", "DISABLE_NMEA", "ENABLE_UBX", "ENABLE_NAV5",
   "ENABLE_SBAS", "DETECT_GPS_L5", "CONFIGURE_GNSS", "CONFIGURE_NAV_RATE",
   "WAIT", "RECEIVE", "ERROR"}

VARIABLES
  state, ackState, timeoutState, counter,  \* _state and so on
  baud,            \* _currentBaud
  present, fix, solutionFresh,  \* state.gps
  solutionAge,     \* ticks since lastSolutionUs
  generation,      \* the receiver's, which handleVersion reads
  rxBaud, nmea, nav,    \* the receiver's rate and the messages it has turned on
  requests, replies,    \* on the line
  positionAge,     \* ticks since the last position
  ticked,          \* no update since the last tick
  restarts, trouble  \* history: restarts, and what went wrong so far

fcVars == <<state, ackState, timeoutState, counter, baud, present>>
solutionVars == <<fix, solutionFresh, solutionAge, positionAge>>
rxVars == <<generation, rxBaud, nmea, nav>>
historyVars == <<restarts, trouble>>
vars == <<fcVars, solutionVars, rxVars, requests, replies, ticked, historyVars>>

UbxMsgOn == <<"NAV_PVT", "NAV_SAT">>
Ubx6MsgOn == <<"NAV_POSLLH", "NAV_SOL", "NAV_VELNED", "NAV_SVINFO">>
MsgOn == IF generation = "ubx6" THEN Ubx6MsgOn ELSE UbxMsgOn

\* GpsSensor::begin, the solution as ModelState starts,
\* with a receiver as it leaves the factory, or as an earlier boot set it up
Init ==
  /\ state = "DETECT_BAUD" /\ ackState = "WAIT" /\ timeoutState = "DETECT_BAUD"
  /\ counter = 0 /\ baud = Target
  /\ present = FALSE /\ fix = FALSE /\ solutionFresh = FALSE
  /\ solutionAge = 0 /\ positionAge = 0 /\ ticked = FALSE
  /\ requests = <<>> /\ replies = <<>>
  /\ generation \in Generation
  /\ \/ rxBaud \in RxBauds /\ nmea = ToSet(NmeaMsgOff) /\ nav = {}
     \/ rxBaud = Target /\ nmea = {} /\ nav = ToSet(MsgOn)
  /\ restarts = 0 /\ trouble = {}

\* --- sending ------------------------------------------------------------------

\* setState(state)
Go(next) ==
  /\ state' = next
  /\ UNCHANGED <<ackState, timeoutState, baud, requests>>

\* write to the port, at the rate it has; the receiver reads it at its own
Write(ask, what) ==
  requests' = IF baud = rxBaud THEN Append(requests, [ask |-> ask, what |-> what])
                               ELSE requests

\* send, and what an answer and a timeout will lead to
SendElse(ask, what, ack, timeout) ==
  /\ Write(ask, what)
  /\ state' = "WAIT" /\ ackState' = ack /\ timeoutState' = timeout

Send(ask, what, ack) ==
  /\ SendElse(ask, what, ack, "ERROR")
  /\ UNCHANGED baud

ReadVersion == Send("VERSION", {}, "CONFIGURE_BAUD") /\ UNCHANGED counter

\* Mutant: the port keeps its rate.
ConfigureBaudOnly ==
  /\ state = "CONFIGURE_BAUD"
  /\ SendElse("BAUD", {}, "DISABLE_NMEA", "DISABLE_NMEA")
  /\ UNCHANGED <<baud, counter>>

ConfigureBaud ==
  /\ state = "CONFIGURE_BAUD"
  /\ SendElse("BAUD", {}, "DISABLE_NMEA", "DISABLE_NMEA")
  /\ baud' = Target
  /\ UNCHANGED counter

\* Mutant: the counter is left at the end of the list.
SendNextOn(ask, list, next) ==
  IF counter + 1 < Len(list)
  THEN Send(ask, {list[counter + 1]}, state) /\ counter' = counter + 1
  ELSE Send(ask, {list[counter + 1]}, next) /\ counter' = counter + 1

\* One message of the list per request; the last one moves on.
SendNext(ask, list, next) ==
  IF counter + 1 < Len(list)
  THEN Send(ask, {list[counter + 1]}, state) /\ counter' = counter + 1
  ELSE Send(ask, {list[counter + 1]}, next) /\ counter' = 0

DisableNmea ==
  /\ state = "DISABLE_NMEA"
  /\ IF generation = "modern"
       THEN Send("OFF", ToSet(NmeaMsgOff), "ENABLE_UBX") /\ UNCHANGED counter
       ELSE SendNext("OFF", NmeaMsgOff, "ENABLE_UBX")

\* Mutant: the list's first message is left out.
EnableUbxShort ==
  /\ state = "ENABLE_UBX"
  /\ IF generation = "modern"
       THEN Send("ON", ToSet(UbxMsgOn), "ENABLE_NAV5") /\ UNCHANGED counter
       ELSE SendNext("ON", Tail(MsgOn), "ENABLE_NAV5")

EnableUbx ==
  /\ state = "ENABLE_UBX"
  /\ IF generation = "modern"
       THEN Send("ON", ToSet(UbxMsgOn), "ENABLE_NAV5") /\ UNCHANGED counter
       ELSE SendNext("ON", MsgOn, "ENABLE_NAV5")

EnableNav5 ==
  /\ state = "ENABLE_NAV5"
  /\ Send("NAV5", {}, "ENABLE_SBAS")
  /\ UNCHANGED counter

\* if config.gps.enableSBAS and the receiver has it
EnableSbas ==
  /\ state = "ENABLE_SBAS"
  /\ LET next == IF generation = "ubx6" THEN "CONFIGURE_NAV_RATE" ELSE "DETECT_GPS_L5"
     IN  Go(next) \/ Send("SBAS", {}, next)
  /\ UNCHANGED counter

\* Mutant: a receiver that does not know the L5 key is an error.
DetectGpsL5Strict ==
  /\ state = "DETECT_GPS_L5"
  /\ Send("L5", {}, "CONFIGURE_GNSS")
  /\ UNCHANGED counter

\* a receiver that does not know the L5 key refuses, or is silent
DetectGpsL5 ==
  /\ state = "DETECT_GPS_L5"
  /\ IF generation = "ubx6" THEN Go("CONFIGURE_NAV_RATE")
       ELSE SendElse("L5", {}, "CONFIGURE_GNSS", "CONFIGURE_GNSS") /\ UNCHANGED baud
  /\ UNCHANGED counter

ConfigureGnss ==
  /\ state = "CONFIGURE_GNSS"
  /\ IF generation = "ubx6" THEN Go("CONFIGURE_NAV_RATE")
                            ELSE Send("GNSS", {}, "CONFIGURE_NAV_RATE")
  /\ UNCHANGED counter

ConfigureRate ==
  /\ state = "CONFIGURE_NAV_RATE"
  /\ Send("RATE", {}, "RECEIVE")
  /\ UNCHANGED counter

\* The states whose turn it is to send do so, whatever message came in.
Ask ==
  \/ ConfigureBaud \/ DisableNmea \/ EnableUbx \/ EnableNav5 \/ EnableSbas
  \/ DetectGpsL5 \/ ConfigureGnss \/ ConfigureRate

\* --- handleReceive ---------------------------------------------------------------

HandleAck == state' = ackState /\ UNCHANGED counter
HandleNak == state' = timeoutState /\ UNCHANGED counter

\* Mutant: the counter of the search for the rate is kept.
HandleResponseKeep == state' = ackState /\ UNCHANGED counter

\* VALGET and VER
HandleResponse == state' = ackState /\ counter' = 0

HandleReceive(answer) ==
  /\ state \in {"WAIT", "RECEIVE"}
  /\ present' = (present \/ state = "RECEIVE")
  /\ \/ answer = "ACK" /\ HandleAck
     \/ answer = "NAK" /\ HandleNak
     \/ answer \in {"VER", "L5"} /\ HandleResponse
  /\ UNCHANGED <<ackState, timeoutState, baud, requests>>

\* Mutant: the error is counted, not noted once.
HandleErrorCount ==
  /\ state = "ERROR"
  /\ counter' = counter + 1 /\ present' = FALSE
  /\ UNCHANGED <<state, ackState, timeoutState, baud, requests>>

HandleError ==
  /\ state = "ERROR"
  /\ counter' = IF counter = 0 THEN 1 ELSE counter
  /\ present' = FALSE
  /\ UNCHANGED <<state, ackState, timeoutState, baud, requests>>

\* An answer that the line still holds is late; otherwise there will be none.
Expire ==
  /\ state = "WAIT"
  /\ state' = timeoutState /\ present' = FALSE
  /\ trouble' = IF requests = <<>> /\ replies = <<>> THEN trouble
                                                    ELSE trouble \cup {"late"}
  /\ UNCHANGED <<ackState, timeoutState, counter, baud, requests>>

\* --- detectBaud -------------------------------------------------------------------

\* The receiver sends what the port can read.
Heard == baud = rxBaud /\ nmea \cup nav # {}

\* Mutant: the line left commented out in the code starts over.
DetectBaudForever ==
  /\ state = "DETECT_BAUD"
  /\ IF counter < Len(Bauds)
       THEN baud' = Bauds[counter + 1] /\ counter' = counter + 1
       ELSE baud' = Target /\ counter' = 0
  /\ trouble' = IF Heard THEN trouble \cup {"silent"} ELSE trouble
  /\ UNCHANGED <<state, ackState, timeoutState, present, requests>>

\* nothing readable came for DETECT_TIMEOUT
DetectBaud ==
  /\ state = "DETECT_BAUD"
  /\ IF counter < Len(Bauds)
       THEN baud' = Bauds[counter + 1] /\ counter' = counter + 1 /\ UNCHANGED state
       ELSE baud' = Target /\ counter' = 0 /\ state' = "ERROR"
  /\ trouble' = IF Heard THEN trouble \cup {"silent"} ELSE trouble
  /\ UNCHANGED <<ackState, timeoutState, present, requests>>

\* onMessage, and readVersion in the same update
Detected ==
  /\ state = "DETECT_BAUD" /\ Heard
  /\ ReadVersion /\ UNCHANGED present

\* --- the solution ------------------------------------------------------------------

\* updateSolutionFreshness, which ends each update, of a solution that came now
\* or is age ticks old.  While it is not fresh its age is not looked at, so that
\* the wrap of the 32-bit difference shows nothing.
Freshen(isFix, isFresh, age) ==
  LET expired == isFresh /\ age > Limit
  IN  /\ fix' = (isFix /\ ~expired)
      /\ solutionFresh' = (isFresh /\ ~expired)
      /\ solutionAge' = age
      /\ ticked' = FALSE

NoSolution == Freshen(fix, solutionFresh, solutionAge) /\ UNCHANGED positionAge

HandleNavPvt == \E isFix \in BOOLEAN : Freshen(isFix, TRUE, 0) /\ positionAge' = 0

HandleNavPosLlh == Freshen(fix, TRUE, 0) /\ positionAge' = 0

\* Mutant: only a position counts as a solution.
HandleNavSolQuietly ==
  \E isFix \in BOOLEAN : Freshen(isFix, solutionFresh, solutionAge) /\ UNCHANGED positionAge

HandleNavSol == \E isFix \in BOOLEAN : Freshen(isFix, TRUE, 0) /\ UNCHANGED positionAge

\* A navigation message is taken while waiting, too: handleReceive.
Navigate ==
  /\ state \in {"WAIT", "RECEIVE"} /\ baud = rxBaud
  /\ \/ "NAV_PVT" \in nav /\ HandleNavPvt
     \/ "NAV_POSLLH" \in nav /\ HandleNavPosLlh
     \/ "NAV_SOL" \in nav /\ HandleNavSol
  /\ present' = (present \/ state = "RECEIVE")
  /\ UNCHANGED <<state, ackState, timeoutState, counter, baud, requests>>

\* --- GpsSensor::update -------------------------------------------------------------

\* No message, and no deadline has passed.
Quiet ==
  /\ state \in {"DETECT_BAUD", "WAIT", "RECEIVE"}
  /\ present' = (present \/ state = "RECEIVE")
  /\ UNCHANGED <<state, ackState, timeoutState, counter, baud, requests>>

\* handle, without a message that handleReceive would look at
Handle ==
  \/ Ask /\ UNCHANGED <<present, trouble>>
  \/ DetectBaud
  \/ Expire
  \/ HandleError /\ UNCHANGED trouble

\* An answer that has arrived.  In a state that sends, it is dropped and the
\* state's request goes out.
ReadAnswer ==
  /\ replies # <<>> /\ Head(replies).baud = baud
  /\ replies' = Tail(replies)
  /\ \/ HandleReceive(Head(replies).answer)
     \/ Ask /\ UNCHANGED present
     \/ HandleError
  /\ NoSolution
  /\ UNCHANGED <<rxVars, historyVars>>

Update ==
  \/ ReadAnswer
  \/ Handle /\ NoSolution /\ UNCHANGED <<rxVars, replies, restarts>>
  \/ (Detected \/ Quiet) /\ NoSolution /\ UNCHANGED <<rxVars, replies, historyVars>>
  \/ Navigate /\ UNCHANGED <<rxVars, replies, historyVars>>

\* --- the receiver and the line (external) --------------------------------------------

Answer(answers, rate) ==
  replies' = replies \o [i \in DOMAIN answers |-> [answer |-> answers[i], baud |-> rate]]

\* Messages that are acknowledged; others are answered with what they ask for.
Obey(request) ==
  /\ nmea' = IF request.ask = "OFF" THEN nmea \ request.what ELSE nmea
  /\ nav' = IF request.ask = "ON" THEN nav \cup request.what ELSE nav
  /\ rxBaud' = IF request.ask = "BAUD" THEN Target ELSE rxBaud
  /\ \E rate \in {rxBaud, rxBaud'} : Answer(<<"ACK">>, rate)

Reply(request) ==
  \/ request.ask = "VERSION" /\ Answer(<<"VER">>, rxBaud)
  \/ request.ask = "L5" /\ generation = "modern" /\ Answer(<<"L5", "ACK">>, rxBaud)
  \/ /\ request.ask = "L5" /\ generation # "modern"
     /\ Answer(<<"NAK">>, rxBaud) \/ UNCHANGED replies

Receiver ==
  /\ requests # <<>> /\ requests' = Tail(requests)
  /\ LET request == Head(requests)
     IN  \/ /\ request.ask \notin {"VERSION", "L5"}
            /\ Obey(request) /\ UNCHANGED trouble
         \/ /\ Reply(request) /\ UNCHANGED <<rxBaud, nmea, nav, trouble>>
         \/ /\ request.ask \in Refusable
            /\ Answer(<<"NAK">>, rxBaud) /\ trouble' = trouble \cup {"refused"}
            /\ UNCHANGED <<rxBaud, nmea, nav>>
  /\ UNCHANGED <<fcVars, solutionVars, generation, ticked, restarts>>

\* An answer sent at another rate than the port has is noise.
Noise ==
  /\ replies # <<>> /\ Head(replies).baud # baud
  /\ replies' = Tail(replies)
  /\ UNCHANGED <<fcVars, solutionVars, rxVars, requests, ticked, historyVars>>

Lose ==
  /\ \/ requests # <<>> /\ requests' = Tail(requests) /\ UNCHANGED replies
     \/ replies # <<>> /\ replies' = Tail(replies) /\ UNCHANGED requests
  /\ trouble' = trouble \cup {"lost"}
  /\ UNCHANGED <<fcVars, solutionVars, rxVars, ticked, restarts>>

\* The receiver keeps its supply and its settings; booting outlasts the line.
Restart ==
  /\ restarts < MaxRestarts /\ restarts' = restarts + 1
  /\ state' = "DETECT_BAUD" /\ ackState' = "WAIT" /\ timeoutState' = "DETECT_BAUD"
  /\ counter' = 0 /\ baud' = Target
  /\ present' = FALSE /\ fix' = FALSE /\ solutionFresh' = FALSE
  /\ solutionAge' = 0 /\ positionAge' = 0 /\ ticked' = FALSE
  /\ requests' = <<>> /\ replies' = <<>>
  /\ trouble' = trouble \cup {"restart"}
  /\ UNCHANGED rxVars

\* An update runs in every tick.  Ages stop just past the limit.
Older(age) == IF age > Limit THEN age ELSE age + 1

Tick ==
  /\ ~ticked /\ ticked' = TRUE
  /\ solutionAge' = Older(solutionAge) /\ positionAge' = Older(positionAge)
  /\ UNCHANGED <<fcVars, fix, solutionFresh, rxVars, requests, replies, historyVars>>

Next == Update \/ Receiver \/ Noise \/ Lose \/ Restart \/ Tick

Spec == Init /\ [][Next]_vars

\* Updates without a message, and with it deadlines, come again and again: an
\* update runs at 50 Hz and the receiver sends at most 25 messages a second.
Fairness ==
  WF_vars(Handle /\ NoSolution /\ UNCHANGED <<rxVars, replies, restarts>>)

FairSpec == Spec /\ Fairness

-----------------------------------------------------------------------------

Request == [ask : {"VERSION", "BAUD", "OFF", "ON", "NAV5", "SBAS", "L5", "GNSS", "RATE"},
            what : SUBSET (ToSet(NmeaMsgOff) \cup ToSet(UbxMsgOn) \cup ToSet(Ubx6MsgOn))]
Rates == RxBauds \cup {Target} \cup ToSet(Bauds)

TypeOK ==
  /\ state \in State /\ ackState \in State /\ timeoutState \in State
  /\ counter \in 0..(Len(Bauds) + Len(NmeaMsgOff) + Len(Ubx6MsgOn))
  /\ baud \in Rates /\ rxBaud \in Rates /\ generation \in Generation
  /\ present \in BOOLEAN /\ fix \in BOOLEAN /\ solutionFresh \in BOOLEAN
  /\ solutionAge \in 0..(Limit + 1) /\ positionAge \in 0..(Limit + 1)
  /\ nmea \subseteq ToSet(NmeaMsgOff)
  /\ nav \subseteq ToSet(UbxMsgOn) \cup ToSet(Ubx6MsgOn)
  /\ requests \in Seq(Request)
  /\ replies \in Seq([answer : {"ACK", "NAK", "VER", "L5"}, baud : Rates])
  /\ ticked \in BOOLEAN /\ restarts \in 0..MaxRestarts
  /\ trouble \subseteq {"lost", "late", "refused", "silent", "restart"}

\* The index that the search for the rate, both lists of messages and the error
\* share is inside the array that the state uses it for, however the states came
\* to follow one another.
IndexInBounds ==
  /\ state = "DISABLE_NMEA" => counter < Len(NmeaMsgOff)
  /\ state = "ENABLE_UBX" => counter < Len(MsgOn)

\* A receiver that is taken for set up sends the navigation messages the code
\* reads and no NMEA, whatever it sent before, if no request or answer was lost
\* or late.
SetUpWhenReceiving ==
  state = "RECEIVE" /\ trouble \cap {"lost", "late"} = {} =>
    nmea = {} /\ ToSet(MsgOn) \subseteq nav

\* The code gives a receiver up, for good, only if something went wrong or the
\* receiver's rate is not in its list: each receiver it supports gets through the
\* set-up when it answers in time, whatever its generation leaves unanswered.
ErrorHasCause ==
  state = "ERROR" => trouble # {} \/ rxBaud \notin ToSet(Bauds) \cup {Target}

\* After an update, what is called a fix is no older than SOLUTION_TIMEOUT; for
\* receivers that send fix and position in one message, nor is its position.
FixIsCurrent ==
  fix /\ ~ticked =>
    /\ solutionAge <= Limit
    /\ generation # "ubx6" => positionAge <= Limit

\* Whatever is lost, late or refused, the set-up ends: the receiver is in use or
\* given up.
SetUpEnds == []<>(state \in {"RECEIVE", "ERROR"})
=============================================================================
