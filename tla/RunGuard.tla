------------------------------ MODULE RunGuard ------------------------------
(***************************************************************************)
(* The single-instance guard of runguard.cpp: processes of the same user   *)
(* that share one system semaphore (memLock) and one shared memory segment *)
(* (sharedMem).  A process that manages to create the segment runs; one    *)
(* that finds it leaves again (main.cpp:12-14).                            *)
(*                                                                         *)
(* Every critical section of the code is an acquire, one or two operations *)
(* on the segment, and a release; the model keeps these as separate steps  *)
(* so that other processes, and crashes, come between them.                *)
(***************************************************************************)
EXTENDS Naturals, FiniteSets

CONSTANTS
  Proc,       \* the processes that may be started, again and again
  MaxStarts   \* bound on the number of starts, for model checking

ASSUME RunGuardAssumption == MaxStarts \in Nat

VARIABLES
  unix,       \* the system.  TRUE: a crash leaves the segment behind and undoes
              \* memLock; FALSE (Windows): the reverse
  pc,         \* the critical section each process is in, or "down", "running"
  stage,      \* how far through that section it is
  memLock,    \* the semaphore: {} free, {p} held by p, Proc lost for good
  segment,    \* whether the shared memory segment exists
  attached,   \* the processes attached to it
  found,      \* isRunning of isAnotherRunning(), or the failure of create()
  starts,     \* number of starts so far
  crashSince  \* history: some process crashed since this one was started

vars == <<unix, pc, stage, memLock, segment, attached, found, starts, crashSince>>

Sections == {"fix", "check", "create", "giveup", "release"}

TypeOK ==
  /\ unix \in BOOLEAN
  /\ pc \in [Proc -> Sections \cup {"down", "running"}]
  /\ stage \in [Proc -> {"wait", "inside", "attached", "done"}]
  /\ memLock \in SUBSET Proc
  /\ segment \in BOOLEAN
  /\ attached \in SUBSET Proc
  /\ found \in [Proc -> BOOLEAN]
  /\ starts \in Nat
  /\ crashSince \in [Proc -> BOOLEAN]

Init ==
  /\ unix \in BOOLEAN
  /\ pc = [p \in Proc |-> "down"]
  /\ stage = [p \in Proc |-> "wait"]
  /\ memLock = {}
  /\ segment = FALSE
  /\ attached = {}
  /\ found = [p \in Proc |-> FALSE]
  /\ starts = 0
  /\ crashSince = [p \in Proc |-> FALSE]

-----------------------------------------------------------------------------

\* The system forgets the segment when the last process detaches from it.
Detached(p) ==
  /\ attached' = attached \ {p}
  /\ segment' = (segment /\ attached \ {p} # {})

\* Leave the current section for the next one, which waits for memLock.
Goto(p, section) ==
  /\ pc' = [pc EXCEPT ![p] = section]
  /\ stage' = [stage EXCEPT ![p] = "wait"]

\* main() constructs the guard; its first critical section is the *nix fix.
Start(p) ==
  /\ pc[p] = "down"
  /\ starts < MaxStarts
  /\ starts' = starts + 1
  /\ Goto(p, "fix")
  /\ found' = [found EXCEPT ![p] = FALSE]
  /\ crashSince' = [crashSince EXCEPT ![p] = FALSE]
  /\ UNCHANGED <<unix, memLock, segment, attached>>

\* Mutant: a section that does not wait for the semaphore.
AcquireWithoutWaiting(p) ==
  /\ pc[p] \in Sections
  /\ stage[p] = "wait"
  /\ memLock' = {p}
  /\ stage' = [stage EXCEPT ![p] = "inside"]
  /\ UNCHANGED <<unix, pc, segment, attached, found, starts, crashSince>>

Acquire(p) ==
  /\ pc[p] \in Sections
  /\ stage[p] = "wait"
  /\ memLock = {}
  /\ memLock' = {p}
  /\ stage' = [stage EXCEPT ![p] = "inside"]
  /\ UNCHANGED <<unix, pc, segment, attached, found, starts, crashSince>>

\* attach() in the constructor and in isAnotherRunning: it succeeds when the
\* segment exists.
Attach(p) ==
  /\ pc[p] \in {"fix", "check"}
  /\ stage[p] = "inside"
  /\ found' = [found EXCEPT ![p] = segment /\ pc[p] = "check"]
  /\ attached' = IF segment THEN attached \cup {p} ELSE attached
  /\ stage' = [stage EXCEPT ![p] = IF segment THEN "attached" ELSE "done"]
  /\ UNCHANGED <<unix, pc, memLock, segment, starts, crashSince>>

\* detach() of isAnotherRunning, and the destruction of the constructor's
\* temporary QSharedMemory.
Detach(p) ==
  /\ pc[p] \in {"fix", "check"}
  /\ stage[p] = "attached"
  /\ Detached(p)
  /\ stage' = [stage EXCEPT ![p] = "done"]
  /\ UNCHANGED <<unix, pc, memLock, found, starts, crashSince>>

\* Mutant: the result of create() is not looked at.
CreateUnchecked(p) ==
  /\ pc[p] = "create"
  /\ stage[p] = "inside"
  /\ attached' = attached \cup {p}
  /\ segment' = TRUE
  /\ stage' = [stage EXCEPT ![p] = "done"]
  /\ UNCHANGED <<unix, pc, memLock, found, starts, crashSince>>

\* create() fails on a segment that exists; otherwise it also attaches.
Create(p) ==
  /\ pc[p] = "create"
  /\ stage[p] = "inside"
  /\ found' = [found EXCEPT ![p] = segment]
  /\ attached' = IF segment THEN attached ELSE attached \cup {p}
  /\ segment' = TRUE
  /\ stage' = [stage EXCEPT ![p] = "done"]
  /\ UNCHANGED <<unix, pc, memLock, starts, crashSince>>

\* Mutant: release() leaves the process attached.
ReleaseWithoutDetach(p) ==
  /\ pc[p] \in {"giveup", "release"}
  /\ stage[p] = "inside"
  /\ stage' = [stage EXCEPT ![p] = "done"]
  /\ UNCHANGED <<unix, pc, memLock, segment, attached, found, starts, crashSince>>

\* The body of release(), after a failed create() and in the destructor.
ReleaseSegment(p) ==
  /\ pc[p] \in {"giveup", "release"}
  /\ stage[p] = "inside"
  /\ IF p \in attached THEN Detached(p) ELSE UNCHANGED <<segment, attached>>
  /\ stage' = [stage EXCEPT ![p] = "done"]
  /\ UNCHANGED <<unix, pc, memLock, found, starts, crashSince>>

\* Mutant: release() answers like a section that is followed by another one.
AfterReleaseUnknown(p) ==
  CASE pc[p] = "fix" -> "check"
    [] pc[p] = "check" -> IF found[p] THEN "release" ELSE "create"
    [] pc[p] = "create" -> IF found[p] THEN "giveup" ELSE "running"
    [] OTHER -> "released"

\* What follows each section: tryToRun() and main() up to the return.
After(p) ==
  CASE pc[p] = "fix" -> "check"
    [] pc[p] = "check" -> IF found[p] THEN "release" ELSE "create"
    [] pc[p] = "create" -> IF found[p] THEN "giveup" ELSE "running"
    [] pc[p] = "giveup" -> "release"
    [] OTHER -> "down"

\* Mutant: memLock.release() is forgotten.
LeaveWithoutRelease(p) ==
  /\ pc[p] \in Sections
  /\ stage[p] = "done"
  /\ Goto(p, After(p))
  /\ UNCHANGED <<unix, memLock, segment, attached, found, starts, crashSince>>

Leave(p) ==
  /\ pc[p] \in Sections
  /\ stage[p] = "done"
  /\ memLock' = {}
  /\ Goto(p, After(p))
  /\ UNCHANGED <<unix, segment, attached, found, starts, crashSince>>

\* The event loop of a running instance ends; main() destroys the guard.
Quit(p) ==
  /\ pc[p] = "running"
  /\ Goto(p, "release")
  /\ UNCHANGED <<unix, memLock, segment, attached, found, starts, crashSince>>

\* A process dies at any point.  The system detaches it.  On Unix a segment
\* nobody is attached to stays, and the acquired semaphore is given back; on
\* Windows the segment goes with its last handle, and the semaphore stays
\* acquired as long as some process has it open.
Crash(p) ==
  LET others == {q \in Proc \ {p} : pc[q] # "down"} IN
  /\ pc[p] # "down"
  /\ Goto(p, "down")
  /\ attached' = attached \ {p}
  /\ segment' = (segment /\ (unix \/ attached \ {p} # {}))
  /\ memLock' = IF others = {} THEN {}
                ELSE IF memLock = {p} THEN (IF unix THEN {} ELSE Proc)
                ELSE memLock
  /\ crashSince' = [q \in Proc |-> TRUE]
  /\ UNCHANGED <<unix, found, starts>>

Step(p) ==
  \/ Acquire(p)
  \/ Attach(p)
  \/ Detach(p)
  \/ Create(p)
  \/ ReleaseSegment(p)
  \/ Leave(p)

Next == \E p \in Proc : Start(p) \/ Step(p) \/ Quit(p) \/ Crash(p)

Spec == Init /\ [][Next]_vars

\* A process that is neither waiting for a busy semaphore nor dead goes on.
FairSpec == Spec /\ \A p \in Proc : WF_vars(Step(p))

-----------------------------------------------------------------------------

\* The process has created the segment and has not given it back.
Claims(p) ==
  /\ p \in attached
  /\ \/ pc[p] \in {"running", "giveup", "release"}
     \/ pc[p] = "create"

\* main.cpp:13 - at most one instance gets past tryToRun(), however the
\* starts, the exits and the crashes of the others interleave.
MutualExclusion ==
  \A p, q \in Proc : pc[p] = "running" /\ pc[q] = "running" => p = q

\* A start is refused only because another instance owns the segment: the
\* transient attach of another start is never mistaken for a running instance
\* (runguard.cpp:45, 63).  On Unix a crash since this start is the one other
\* reason; what an earlier crash left behind is cleared by the fix of
\* runguard.cpp:32-33.
NoFalseRefusal ==
  [][\A p \in Proc :
       found'[p] /\ ~found[p] =>
         \/ \E q \in Proc \ {p} : Claims(q)
         \/ unix /\ crashSince[p]]_vars

\* What a process is about, as far as the others are concerned.
Mode(p) ==
  CASE pc[p] = "down" -> "down"
    [] pc[p] # "down" /\ found[p] -> "refused"
    [] pc[p] = "running" \/ (pc[p] = "create" /\ stage[p] = "done" /\ ~found[p]) ->
         "active"
    [] pc[p] \in {"giveup", "release"} /\ ~found[p] -> "leaving"
    [] OTHER -> "starting"

Owners == {p \in Proc : Claims(p)}

Abstract ==
  INSTANCE SingleInstance WITH
    mode <- [p \in Proc |-> Mode(p)],
    owner <- Owners,
    stale <- segment /\ Owners = {},
    shaken <- {p \in Proc : crashSince[p]}

\* The critical sections, however they interleave with each other and with
\* crashes, come to an atomic test-and-set (runguard.cpp:23-80).
AtomicTestAndSet == Abstract!Spec

\* Nobody holds the semaphore and nobody will release it: a Windows process
\* died in a critical section while another had the semaphore open.
LockLost == memLock = Proc /\ memLock # {} /\ \A p \in Proc : memLock # {p}

\* Nobody waits for a semaphore that nobody will release: a live process holds it
\* inside a section, however the others acquire, leave and crash, unless it was
\* lost, which happens on Windows only (runguard.cpp:23-80).
SemaphoreIsHeld ==
  memLock # {} =>
    \/ \E p \in Proc : memLock = {p} /\ pc[p] \in Sections /\ stage[p] # "wait"
    \/ ~unix /\ LockLost

\* Every start is decided, the process runs or leaves, unless the semaphore
\* was lost: the sections of tryToRun() and release() never wait for each other.
StartIsDecided ==
  \A p \in Proc : pc[p] = "fix" ~> pc[p] \in {"running", "down"} \/ LockLost

=============================================================================
