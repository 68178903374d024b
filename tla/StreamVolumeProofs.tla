-------------------------- MODULE StreamVolumeProofs --------------------------
(***************************************************************************)
(* Proofs about StreamVolume, for any callers, sliders and disturbances;   *)
(* what is proved of the monitor holds with the volumes beside it.         *)
(***************************************************************************)
EXTENDS StreamVolume, PbxMonitorProofs, TLAPS

\* Once onCallMediaState has muted the line out it is open only in a call, and
\* after a click that unmuted somebody.
LineInv ==
  media \in {"muted", "loud", "set"} /\ level.lineOut > 0 => casting /\ unmuteFlag

IInv == VolumesOK /\ LineInv

\* Setting the line out keeps the types, and sets it in a call only.
LEMMA LineOutSet ==
  ASSUME VolumesOK, NEW value \in Level, setAVolume(value)
  PROVE  /\ level' \in Levels
         /\ casting => level'.lineOut = value
         /\ ~casting => level' = level
<1>1. CASE casting
  <2>1. level' = [level EXCEPT !.lineOut = value, !.speaker = value]
    BY <1>1 DEF setAVolume
  <2>2. level \in Levels
    BY DEF VolumesOK
  <2>3. level' \in Levels
    BY <2>1, <2>2 DEF Levels
  <2>4. level'.lineOut = value
    BY <2>1, <2>2 DEF Levels
  <2>5. QED
    BY <1>1, <2>3, <2>4
<1>2. CASE ~casting
  BY <1>2 DEF setAVolume, VolumesOK
<1>3. QED
  BY <1>1, <1>2

\* The state after the constructor satisfies the inductive invariant.
LEMMA InitIInv == SInit => IInv
<1> SUFFICES ASSUME SInit PROVE IInv
  OBVIOUS
<1>1. VolumesOK
  <2>1. Normal \in Level
    BY DEF Normal, Level
  <2>2. level \in Levels
    BY <2>1 DEF SInit, VolumesInit, Levels
  <2>3. QED
    BY <2>2, StreamVolumeAssumption DEF SInit, VolumesInit, VolumesOK
<1>2. LineInv
  BY DEF SInit, VolumesInit, LineInv
<1>3. QED
  BY <1>1, <1>2 DEF IInv

\* A click keeps the inductive invariant.
LEMMA ClickIInv == IInv /\ Click => IInv'
<1> SUFFICES ASSUME IInv, Click PROVE IInv'
  OBVIOUS
<1>1. /\ unmuteFlag' \in BOOLEAN
      /\ UNCHANGED <<casting, media, avolume>>
      /\ setAVolume(IF unmuteFlag' THEN avolume ELSE 0)
  BY DEF Click, checkMuting
<1>2. (IF unmuteFlag' THEN avolume ELSE 0) \in Level
  BY DEF IInv, VolumesOK, Level
<1>3. /\ level' \in Levels
      /\ casting => level'.lineOut = IF unmuteFlag' THEN avolume ELSE 0
      /\ ~casting => level' = level
  BY <1>1, <1>2, LineOutSet DEF IInv
<1>4. VolumesOK'
  BY <1>1, <1>3 DEF IInv, VolumesOK
<1>5. LineInv'
  BY <1>1, <1>3 DEF IInv, LineInv
<1>6. QED
  BY <1>4, <1>5 DEF IInv

\* Reading a line keeps it: an empty list can only mute.
LEMMA ParseIInv == IInv /\ Parse => IInv'
<1> SUFFICES ASSUME IInv, Parse PROVE IInv'
  OBVIOUS
<1>1. UNCHANGED <<casting, media, unmuteFlag, avolume>>
  BY DEF Parse
<1>2. CASE EmptyList
  <2>1. setAVolume(0) /\ 0 \in Level
    BY <1>2 DEF Parse, Level
  <2>2. /\ level' \in Levels
        /\ casting => level'.lineOut = 0
        /\ ~casting => level' = level
    BY <2>1, LineOutSet DEF IInv
  <2>3. QED
    BY <1>1, <2>2 DEF IInv, VolumesOK, LineInv
<1>3. CASE ~EmptyList
  BY <1>1, <1>3 DEF Parse, IInv, VolumesOK, LineInv
<1>4. QED
  BY <1>2, <1>3

\* The sliders keep it.
LEMMA SliderIInv ==
  ASSUME IInv, NEW value \in Positions,
         valueSChanged(value) \/ valueAChanged(value)
  PROVE  IInv'
<1>1. value \in Level
  BY StreamVolumeAssumption
<1>2. CASE valueSChanged(value)
  <2>1. UNCHANGED <<casting, media, unmuteFlag, avolume>>
    BY <1>2 DEF valueSChanged
  <2>2. level \in Levels
    BY DEF IInv, VolumesOK
  <2>3. level' \in {level, [level EXCEPT !.toCall = value, !.card = value]}
    BY <1>2 DEF valueSChanged, setSVolume
  <2>4. level' \in Levels
    BY <1>1, <2>2, <2>3 DEF Levels
  <2>5. level'.lineOut = level.lineOut
    BY <2>2, <2>3 DEF Levels
  <2>6. QED
    BY <2>1, <2>4, <2>5 DEF IInv, VolumesOK, LineInv
<1>3. CASE valueAChanged(value)
  <2>1. avolume' = value /\ UNCHANGED <<casting, media, unmuteFlag>>
    BY <1>3 DEF valueAChanged
  <2>2. CASE unmuteFlag
    <3>1. setAVolume(value)
      BY <1>3, <2>2 DEF valueAChanged
    <3>2. level' \in Levels /\ (~casting => level' = level)
      BY <1>1, <3>1, LineOutSet DEF IInv
    <3>3. QED
      BY <1>1, <2>1, <2>2, <3>2 DEF IInv, VolumesOK, LineInv
  <2>3. CASE ~unmuteFlag
    BY <1>1, <1>3, <2>1, <2>3 DEF valueAChanged, IInv, VolumesOK, LineInv
  <2>4. QED
    BY <2>2, <2>3
<1>4. QED
  BY <1>2, <1>3

\* The call and the steps of the worker thread keep it.
LEMMA CallIInv ==
  IInv /\ (CallConfirmed \/ CallEnds \/ MediaChanges \/ AdjustMedia) => IInv'
<1> SUFFICES ASSUME IInv, CallConfirmed \/ CallEnds \/ MediaChanges \/ AdjustMedia
             PROVE  IInv'
  OBVIOUS
<1>1. level \in Levels
  BY DEF IInv, VolumesOK
<1>2. [level EXCEPT !.lineOut = Normal, !.toCall = Normal] \in Levels
  <2>1. Normal \in Level
    BY DEF Normal, Level
  <2>2. QED
    BY <1>1, <2>1 DEF Levels
<1> USE DEF IInv, VolumesOK, LineInv
<1>3. CASE CallConfirmed
  BY <1>3 DEF CallConfirmed
<1>4. CASE CallEnds
  BY <1>2, <1>4 DEF CallEnds
<1>5. CASE MediaChanges
  BY <1>2, <1>5 DEF MediaChanges
<1>6. CASE AdjustMedia
  <2>1. UNCHANGED <<casting, unmuteFlag, avolume>>
    BY <1>6 DEF AdjustMedia
  <2>2. CASE media = "connected"
    BY <1>1, <1>6, <2>1, <2>2 DEF AdjustMedia, Levels, Level, NewCall
  <2>3. CASE media = "sending"
    <3>1. media' = "muted" /\ level' = [level EXCEPT !.lineOut = 0]
      BY <1>6, <2>3 DEF AdjustMedia
    <3>2. level' \in Levels /\ level'.lineOut = 0
      BY <1>1, <3>1 DEF Levels, Level
    <3>3. QED
      BY <2>1, <3>1, <3>2
  <2>4. CASE media = "muted"
    <3>1. media' = "loud" /\ level' = [level EXCEPT !.speaker = NewCall]
      BY <1>6, <2>4 DEF AdjustMedia
    <3>2. level' \in Levels /\ level'.lineOut = level.lineOut
      BY <1>1, <3>1 DEF Levels, Level, NewCall
    <3>3. QED
      BY <2>1, <2>4, <3>1, <3>2
  <2>5. CASE media = "loud"
    <3>1. media' = "set" /\ level' = [level EXCEPT !.card = NewCall]
      BY <1>6, <2>5 DEF AdjustMedia
    <3>2. level' \in Levels /\ level'.lineOut = level.lineOut
      BY <1>1, <3>1 DEF Levels, Level, NewCall
    <3>3. QED
      BY <2>1, <2>5, <3>1, <3>2
  <2>6. QED
    BY <1>6, <2>2, <2>3, <2>4, <2>5 DEF AdjustMedia
<1>7. QED
  BY <1>3, <1>4, <1>5, <1>6

\* Every step keeps the inductive invariant.
LEMMA StepIInv == IInv /\ [SNext]_svars => IInv'
<1> SUFFICES ASSUME IInv, [SNext]_svars PROVE IInv'
  OBVIOUS
<1>1. CASE OtherStep /\ UNCHANGED volumes
  BY <1>1 DEF volumes, IInv, VolumesOK, LineInv
<1>2. CASE UNCHANGED svars
  BY <1>2 DEF svars, volumes, IInv, VolumesOK, LineInv
<1>3. QED
  BY <1>1, <1>2, ClickIInv, ParseIInv, SliderIInv, CallIInv DEF SNext

\* The conference is heard only after a click that unmuted somebody, whatever
\* meets the worker thread on its way through onCallMediaState
\* (mainwindow.cpp:146-152, 1164-1205, MyCall.cpp:25-47).
THEOREM Permission == SSpec => []HeardByPermission
<1>1. IInv => HeardByPermission
  BY DEF IInv, LineInv, HeardByPermission
<1>2. QED
  BY <1>1, InitIInv, StepIInv, PTL DEF SSpec

-----------------------------------------------------------------------------
(* The monitor within the composition *)

\* Beside the volumes, the monitor does what it does alone: a step of the
\* composition is a step of PbxMonitor, or leaves its variables as they are.
THEOREM MonitorComposed == SSpec => Spec
<1>1. SInit => Init
  BY DEF SInit
<1>2. [SNext]_svars => [Next]_vars
  <2>1. Click => [Next]_vars
    BY DEF Click, OnlyVolumes, Next
  <2>2. Parse => Next
    BY DEF Parse, Next
  <2>3. OtherStep => Next
    BY DEF Next
  <2>4. ASSUME NEW value \in Positions
        PROVE  valueSChanged(value) \/ valueAChanged(value) => UNCHANGED vars
    BY DEF valueSChanged, valueAChanged, OnlyVolumes
  <2>5. CallConfirmed \/ CallEnds \/ MediaChanges \/ AdjustMedia => UNCHANGED vars
    BY DEF CallConfirmed, CallEnds, MediaChanges, AdjustMedia, OnlyVolumes, vars
  <2>6. UNCHANGED svars => UNCHANGED vars
    BY DEF svars
  <2>7. QED
    BY <2>1, <2>2, <2>3, <2>4, <2>5, <2>6 DEF SNext
<1>3. QED
  BY <1>1, <1>2, PTL DEF SSpec, Spec

\* So the rows, the numbers and the messages of the monitor are right in the
\* composition the run pbx_disturbed checks (mainwindow.cpp:292-699, 1203-1240).
THEOREM TableComposed ==
  SSpec => /\ []TypeOK
           /\ []ConnectingMeansOff
           /\ []OneRowEach
           /\ NoListenerDropped
           /\ LoginFailureIsTrue
BY MonitorComposed, PbxMonitorTypeOK, ConnectingIsOff, OneRowForEach,
   NoListenerIsDropped, LoginFailureIsTrueForAll

\* A number shown has only digits of its caller, as AnswersAreTheirOwn says of the
\* monitor (mainwindow.cpp:537-614).
THEOREM AnswersComposed == SSpec /\ []NumbersFit => []AnswersAreOwn
BY MonitorComposed, AnswersAreTheirOwn

\* One speaks at a time, under the conditions of OneSpeaksAtATime
\* (mainwindow.cpp:1272-1298).
THEOREM SpeakerComposed ==
  ASSUME PbxType = "asterisk",
         \A s \in Scenarios : /\ s.prompt /\ s.goodLogin
                              /\ "losses" \notin s.disturbances
  PROVE  SSpec => []SingleSpeaker
BY MonitorComposed, OneSpeaksAtATime

=============================================================================
