----------------------------- MODULE CallSession -----------------------------
(***************************************************************************)
(* What the SIP library promises the program about one call: the states    *)
(* CallControl gives a session, and what the callback of MyCall is told,   *)
(* in which order.  Ringing that is reported again and again counts once.  *)
(***************************************************************************)
EXTENDS Sequences

VARIABLES
  inv,   \* the session, in the words of CallControl
  told   \* what the program was told of it, in order

vars == <<inv, told>>

Init ==
  /\ inv = "free"
  /\ told = << >>

\* Ringing is heard once, whatever the number of reports.
Tell(signals, new) ==
  IF new = "ring" /\ signals # << >> /\ signals[Len(signals)] = "ring"
  THEN signals
  ELSE Append(signals, new)

Calls ==
  /\ inv = "free"
  /\ inv' = "calling"
  /\ UNCHANGED told

IsCalled ==
  /\ inv = "free"
  /\ inv' = "ringing"
  /\ told' = Tell(told, "ring")

\* A call that was given up may still be reported to ring.  Of a response other
\* than 180 the program makes nothing.
Rings ==
  /\ inv \in {"calling", "early", "cancelling"}
  /\ inv' = IF inv = "calling" THEN "early" ELSE inv
  /\ told' \in {told, Tell(told, "ring")}

Accepts ==
  /\ inv = "ringing"
  /\ inv' = "answered"
  /\ UNCHANGED told

\* An answer may cross the hang-up: then the call is established, to end.
IsEstablished ==
  /\ inv \in {"calling", "early", "answered", "cancelling"}
  /\ inv' = IF inv = "cancelling" THEN "leaving" ELSE "confirmed"
  /\ told' = Tell(told, "established")

HangsUp ==
  /\ \/ inv \in {"calling", "early", "answered"} /\ inv' = "cancelling"
     \/ inv = "confirmed" /\ inv' = "leaving"
  /\ UNCHANGED told

Ends ==
  /\ inv \notin {"free", "gone"}
  /\ inv' = "gone"
  /\ told' = Tell(told, "ended")

Next ==
  Calls \/ IsCalled \/ Rings \/ Accepts \/ IsEstablished \/ HangsUp \/ Ends

\* A call that was hung up ends.
EndsWhenHungUp == inv \in {"cancelling", "leaving"} /\ Ends

Spec == Init /\ [][Next]_vars
FairSpec == Spec /\ WF_vars(EndsWhenHungUp)

=============================================================================
