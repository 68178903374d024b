----------------------------- MODULE StreamVolume -----------------------------
(***************************************************************************)
(* What the moderator hears of the conference: the monitor of PbxMonitor   *)
(* composed with the levels of the call into it.  A click on the table     *)
(* opens or mutes the line out, an empty conference mutes it, the sliders  *)
(* set it, and the worker thread of PJSIP sets it step by step whenever    *)
(* the media of the call is made or made anew.                             *)
(*                                                                         *)
(* The call is seen from here as a whole: that it may end before the GUI   *)
(* thread knows is in CallControl.  The two levels that a slider sets, of  *)
(* the call and of the sound device, are set in one step.                  *)
(***************************************************************************)
EXTENDS PbxMonitor

CONSTANTS
  Positions, \* of the volume sliders, in percent
  AtStart    \* the position they have at first

Level == 0 .. 600

ASSUME StreamVolumeAssumption == Positions \subseteq Level /\ AtStart \in Level

VARIABLES
  casting,    \* sipState is "calling"
  media,      \* how far onCallMediaState is
  unmuteFlag, \* a caller was unmuted at the last click
  avolume,    \* the slider of the line out
  level,      \* the levels of the conference bridge, in percent
  moves       \* history: what happened to the volumes alone

volumes == <<casting, media, unmuteFlag, avolume, level, moves>>
svars == <<vars, volumes>>

\* A new port of the bridge, and what onCallMediaState sets.
Normal == 100
NewCall == 150

Levels == [lineOut : Level,  \* from the call into the bridge
           toCall : Level,   \* from the bridge to the call
           speaker : Level,  \* from the bridge to the sound device
           card : Level]     \* from the sound device into the bridge

VolumesOK ==
  /\ casting \in BOOLEAN
  /\ media \in {"none", "connected", "sending", "muted", "loud", "set"}
  /\ unmuteFlag \in BOOLEAN
  /\ avolume \in Level
  /\ level \in Levels

VolumesInit ==
  /\ casting = FALSE
  /\ media = "none"
  /\ unmuteFlag = FALSE
  /\ avolume = AtStart
  /\ level = [lineOut |-> Normal, toCall |-> Normal, speaker |-> Normal,
              card |-> Normal]
  /\ moves = 0

\* A bound: what happens to the volumes counts as a disturbance does.
Bounded == events + moves <= scenario.maxEvents

\* The monitor has no part in what happens.
OnlyVolumes ==
  /\ "casting" \in scenario.disturbances
  /\ moves' = moves + 1
  /\ UNCHANGED vars
  /\ Bounded'

-----------------------------------------------------------------------------
(* MainWindow *)

\* Of no effect but in a call.
setAVolume(value) ==
  level' = IF casting THEN [level EXCEPT !.lineOut = value, !.speaker = value]
           ELSE level

setSVolume(value) ==
  level' = IF casting THEN [level EXCEPT !.toCall = value, !.card = value]
           ELSE level

\* Mutant: the line is not muted with the last caller.
checkMutingOpensOnly ==
  /\ unmuteFlag' = \E r \in DOMAIN rows' : rows'[r].unmuted
  /\ IF unmuteFlag' THEN setAVolume(avolume) ELSE UNCHANGED level

\* checkMuting, after a click
checkMuting ==
  /\ unmuteFlag' = \E r \in DOMAIN rows' : rows'[r].unmuted
  /\ setAVolume(IF unmuteFlag' THEN avolume ELSE 0)

\* A click in the table; one that moderates nobody has no other effect.
Click ==
  /\ \/ ClickStep /\ UNCHANGED moves /\ Bounded'
     \/ rows # << >> /\ OnlyVolumes
  /\ checkMuting
  /\ UNCHANGED <<casting, media, avolume>>

\* The list has ended, and there is nobody.
EmptyList == state = "CONFERENCE" /\ state' = "TRUNK" /\ listens' = 0

\* showListenersCount mutes; what the last click found stays.
Parse ==
  /\ ReadStep
  /\ IF EmptyList THEN setAVolume(0) ELSE UNCHANGED level
  /\ UNCHANGED <<casting, media, unmuteFlag, avolume, moves>>

valueSChanged(value) ==
  /\ OnlyVolumes
  /\ setSVolume(value)
  /\ UNCHANGED <<casting, media, unmuteFlag, avolume>>

valueAChanged(value) ==
  /\ OnlyVolumes
  /\ avolume' = value
  /\ IF unmuteFlag THEN setAVolume(value) ELSE UNCHANGED level
  /\ UNCHANGED <<casting, media, unmuteFlag>>

\* on_callState_changed, CONFIRMED: the media was there before.
CallConfirmed ==
  /\ media = "set" /\ ~casting
  /\ casting' = TRUE
  /\ UNCHANGED <<vars, media, unmuteFlag, avolume, level, moves>>

\* on_callState_changed, DISCONNECTED
CallEnds ==
  /\ media = "set"
  /\ casting' = FALSE
  /\ media' = "none"
  /\ level' = [level EXCEPT !.lineOut = Normal, !.toCall = Normal]
  /\ UNCHANGED <<vars, unmuteFlag, avolume, moves>>

-----------------------------------------------------------------------------
(* The PJSIP worker thread *)

\* MyCall::onCallMediaState begins, for a call or for a change of its media;
\* the port of the call may be the old one or a new one.
MediaChanges ==
  /\ OnlyVolumes
  /\ media \in {"none", "set"}
  /\ media' = "connected"
  /\ level' \in {level, [level EXCEPT !.lineOut = Normal, !.toCall = Normal]}
  /\ UNCHANGED <<casting, unmuteFlag, avolume>>

\* Mutant: the line out of a new call is left open.
AdjustMediaOpen ==
  /\ \/ media = "connected" /\ media' = "sending"
        /\ level' = [level EXCEPT !.toCall = NewCall]
     \/ media = "sending" /\ media' = "muted"
        /\ UNCHANGED level
     \/ media = "muted" /\ media' = "loud"
        /\ level' = [level EXCEPT !.speaker = NewCall]
     \/ media = "loud" /\ media' = "set"
        /\ level' = [level EXCEPT !.card = NewCall]
  /\ UNCHANGED <<vars, casting, unmuteFlag, avolume, moves>>

\* The levels it sets one after the other.  AudioMedia::adjustRxLevel sets what
\* the bridge sends to the port, adjustTxLevel what it takes from the port.
AdjustMedia ==
  /\ \/ media = "connected" /\ media' = "sending"
        /\ level' = [level EXCEPT !.toCall = NewCall]
     \/ media = "sending" /\ media' = "muted"
        /\ level' = [level EXCEPT !.lineOut = 0]
     \/ media = "muted" /\ media' = "loud"
        /\ level' = [level EXCEPT !.speaker = NewCall]
     \/ media = "loud" /\ media' = "set"
        /\ level' = [level EXCEPT !.card = NewCall]
  /\ UNCHANGED <<vars, casting, unmuteFlag, avolume, moves>>

-----------------------------------------------------------------------------

SInit == Init /\ VolumesInit

SNext ==
  \/ Click
  \/ Parse
  \/ OtherStep /\ UNCHANGED volumes /\ Bounded'
  \/ \E value \in Positions : valueSChanged(value) \/ valueAChanged(value)
  \/ CallConfirmed
  \/ CallEnds
  \/ MediaChanges
  \/ AdjustMedia

SSpec == SInit /\ [][SNext]_svars

-----------------------------------------------------------------------------

\* The conference is heard only if a caller was unmuted when the user last
\* clicked, whatever lists, sliders and media changes come between and
\* wherever they meet the worker thread (mainwindow.cpp:146-152, 1164-1205,
\* MyCall.cpp:25-47).
HeardByPermission ==
  casting /\ media \in {"muted", "loud", "set"} /\ level.lineOut > 0 => unmuteFlag

\* "No listeners" ... "Mute our own sound output" (mainwindow.cpp:717, 723):
\* while the window says that nobody listens the conference is not heard.
NobodyHeard ==
  casting /\ media = "set" /\ listens = 0 /\ rows = << >> => level.lineOut = 0

=============================================================================
