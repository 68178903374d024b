---------------------------- MODULE SingleInstance ----------------------------
(***************************************************************************)
(* What the guard of runguard.cpp promises: being the instance is taken    *)
(* and given back in one step, by whoever finds nobody in its place.  An   *)
(* instance that crashes may leave its place taken for a while; only those *)
(* who were starting at the time may be refused for it.                    *)
(***************************************************************************)

CONSTANT Proc   \* the processes

VARIABLES
  mode,   \* what each process is about
  owner,  \* {p} when p is the instance, else {}
  stale,  \* the place is taken although nobody is the instance
  shaken  \* the processes that some process crashed after the start of

TypeOK ==
  /\ mode \in [Proc -> {"down", "starting", "active", "refused", "leaving"}]
  /\ owner \in SUBSET Proc
  /\ stale \in BOOLEAN
  /\ shaken \in SUBSET Proc

Init ==
  /\ mode = [p \in Proc |-> "down"]
  /\ owner = {}
  /\ stale = FALSE
  /\ shaken = {}

Becomes(p, old, new) ==
  /\ mode[p] \in old
  /\ mode' = [mode EXCEPT ![p] = new]

Start(p) ==
  /\ Becomes(p, {"down"}, "starting")
  /\ shaken' = shaken \ {p}
  /\ UNCHANGED <<owner, stale>>

Enter(p) ==
  /\ Becomes(p, {"starting"}, "active")
  /\ owner = {} /\ ~stale
  /\ owner' = {p}
  /\ UNCHANGED <<stale, shaken>>

Refuse(p) ==
  /\ Becomes(p, {"starting"}, "refused")
  /\ owner # {} \/ (stale /\ p \in shaken)
  /\ UNCHANGED <<owner, stale, shaken>>

Quit(p) ==
  /\ Becomes(p, {"active"}, "leaving")
  /\ UNCHANGED <<owner, stale, shaken>>

\* The instance gives its place back.
Resign(p) ==
  /\ mode[p] = "leaving"
  /\ owner = {p}
  /\ owner' = {}
  /\ UNCHANGED <<mode, stale, shaken>>

Leave(p) ==
  /\ Becomes(p, {"leaving", "refused"}, "down")
  /\ p \notin owner
  /\ UNCHANGED <<owner, stale, shaken>>

\* The place an instance left behind is cleared.
Clear ==
  /\ stale
  /\ stale' = FALSE
  /\ UNCHANGED <<mode, owner, shaken>>

Crash(p) ==
  /\ mode[p] # "down"
  /\ mode' = [mode EXCEPT ![p] = "down"]
  /\ owner' = owner \ {p}
  /\ stale' \in BOOLEAN
  /\ stale' => stale \/ p \in owner
  /\ shaken' = Proc

Next ==
  \/ Clear
  \/ \E p \in Proc :
       \/ Start(p) \/ Enter(p) \/ Refuse(p) \/ Quit(p)
       \/ Resign(p) \/ Leave(p) \/ Crash(p)

vars == <<mode, owner, stale, shaken>>

Spec == Init /\ [][Next]_vars

=============================================================================
