--------------------------- MODULE RunGuardProofs ---------------------------
(***************************************************************************)
(* Proofs about RunGuard, for any set of processes, on Unix and on         *)
(* Windows, with any number of starts and crashes.                         *)
(***************************************************************************)
EXTENDS RunGuard, TLAPS

\* Inside a critical section, hence the holder of the semaphore.
Inside(p) == stage[p] # "wait"

\* The process created the segment and has not yet detached from it.
Owner(p) ==
  \/ pc[p] = "running"
  \/ pc[p] = "create" /\ stage[p] = "done" /\ ~found[p]

\* The process is attached for a moment, under the semaphore.
Passing(p) == pc[p] \in {"fix", "check"} /\ stage[p] = "attached"

\* The instance ended its run and has not detached yet.
Closing(p) == pc[p] = "release" /\ stage[p] # "done"

LockInv ==
  \A p \in Proc : Inside(p) => memLock = {p} /\ pc[p] \in Sections

OwnerInv == \A p \in Proc : Owner(p) => p \in attached

AttachedInv ==
  /\ attached # {} => segment
  /\ \A p \in attached : Passing(p) \/ Owner(p) \/ Closing(p)
  /\ \A p, q \in attached : ~Passing(p) /\ ~Passing(q) => p = q

\* The constructor's fix is behind this process.
PastFix(p) ==
  \/ pc[p] \in {"check", "create"}
  \/ pc[p] = "fix" /\ stage[p] = "done"

\* A segment without a process is what a crash left behind on Unix, and no
\* fix has been made since.
LeftoverInv ==
  segment /\ attached = {} =>
    unix /\ \A p \in Proc : PastFix(p) => crashSince[p]

IInv == TypeOK /\ LockInv /\ OwnerInv /\ AttachedInv /\ LeftoverInv

-----------------------------------------------------------------------------

\* The system before the first start satisfies the inductive invariant.
LEMMA InitIInv == Init => IInv
<1> SUFFICES ASSUME Init PROVE IInv
  OBVIOUS
<1> USE DEF Init
<1>1. TypeOK
  BY DEF TypeOK, Sections
<1>2. LockInv
  BY DEF LockInv, Inside
<1>3. OwnerInv
  BY DEF OwnerInv, Owner
<1>4. AttachedInv
  BY DEF AttachedInv
<1>5. LeftoverInv
  BY DEF LeftoverInv
<1>6. QED
  BY <1>1, <1>2, <1>3, <1>4, <1>5 DEF IInv

\* Every step of every process, a crash included, keeps it.
LEMMA StepIInv == IInv /\ [Next]_vars => IInv'
<1> SUFFICES ASSUME IInv, [Next]_vars PROVE IInv'
  OBVIOUS
<1> USE RunGuardAssumption
    DEF IInv, TypeOK, LockInv, OwnerInv, AttachedInv, LeftoverInv, Inside,
        Owner, Passing, Closing, PastFix, Sections
<1>1. ASSUME NEW p \in Proc, Start(p) PROVE IInv'
  <2> USE <1>1 DEF Start, Goto
  <2>1. TypeOK'
    OBVIOUS
  <2>2. LockInv'
    OBVIOUS
  <2>3. OwnerInv'
    OBVIOUS
  <2>4. AttachedInv'
    OBVIOUS
  <2>5. LeftoverInv'
    OBVIOUS
  <2>6. QED
    BY <2>1, <2>2, <2>3, <2>4, <2>5
<1>2. ASSUME NEW p \in Proc, Acquire(p) PROVE IInv'
  <2> USE <1>2 DEF Acquire
  <2>1. TypeOK'
    OBVIOUS
  <2>2. LockInv'
    OBVIOUS
  <2>3. OwnerInv'
    OBVIOUS
  <2>4. AttachedInv'
    OBVIOUS
  <2>5. LeftoverInv'
    OBVIOUS
  <2>6. QED
    BY <2>1, <2>2, <2>3, <2>4, <2>5
<1>3. ASSUME NEW p \in Proc, Attach(p) PROVE IInv'
  <2> USE <1>3 DEF Attach
  <2>1. TypeOK'
    OBVIOUS
  <2>2. LockInv'
    OBVIOUS
  <2>3. OwnerInv'
    OBVIOUS
  <2>4. AttachedInv'
    OBVIOUS
  <2>5. LeftoverInv'
    OBVIOUS
  <2>6. QED
    BY <2>1, <2>2, <2>3, <2>4, <2>5
<1>4. ASSUME NEW p \in Proc, Detach(p) PROVE IInv'
  <2> USE <1>4 DEF Detach, Detached
  <2>1. TypeOK'
    OBVIOUS
  <2>2. LockInv'
    OBVIOUS
  <2>3. OwnerInv'
    OBVIOUS
  <2>4. AttachedInv'
    OBVIOUS
  <2>5. LeftoverInv'
    OBVIOUS
  <2>6. QED
    BY <2>1, <2>2, <2>3, <2>4, <2>5
<1>5. ASSUME NEW p \in Proc, Create(p) PROVE IInv'
  <2> USE <1>5 DEF Create
  <2>1. TypeOK'
    OBVIOUS
  <2>2. LockInv'
    OBVIOUS
  <2>3. OwnerInv'
    OBVIOUS
  <2>4. AttachedInv'
    OBVIOUS
  <2>5. LeftoverInv'
    OBVIOUS
  <2>6. QED
    BY <2>1, <2>2, <2>3, <2>4, <2>5
<1>6. ASSUME NEW p \in Proc, ReleaseSegment(p) PROVE IInv'
  <2> USE <1>6 DEF ReleaseSegment, Detached
  <2>1. TypeOK'
    <3>1. CASE p \in attached
      BY <3>1
    <3>2. CASE p \notin attached
      BY <3>2
    <3>3. QED
      BY <3>1, <3>2
  <2>2. LockInv'
    OBVIOUS
  <2>3. OwnerInv'
    OBVIOUS
  <2>4. AttachedInv'
    OBVIOUS
  <2>5. LeftoverInv'
    OBVIOUS
  <2>6. QED
    BY <2>1, <2>2, <2>3, <2>4, <2>5
<1>7. ASSUME NEW p \in Proc, Leave(p) PROVE IInv'
  <2> USE <1>7 DEF Leave, Goto, After
  <2>1. TypeOK'
    <3>1. After(p) \in Sections \cup {"down", "running"}
      BY ZenonT(30)
    <3>2. QED
      BY <3>1
  <2>2. LockInv'
    OBVIOUS
  <2>3. OwnerInv'
    OBVIOUS
  <2>4. AttachedInv'
    <3>1. ~Passing(p) /\ ~Passing(p)'
      OBVIOUS
    <3>2. p \in attached => (Owner(p) \/ Closing(p))'
      OBVIOUS
    <3>3. \A q \in Proc \ {p} : /\ Passing(q)' <=> Passing(q)
                               /\ Owner(q)' <=> Owner(q)
                               /\ pc'[q] = pc[q]
      OBVIOUS
    <3>4. QED
      BY <3>1, <3>2, <3>3
  <2>5. LeftoverInv'
    OBVIOUS
  <2>6. QED
    BY <2>1, <2>2, <2>3, <2>4, <2>5
<1>8. ASSUME NEW p \in Proc, Quit(p) PROVE IInv'
  <2> USE <1>8 DEF Quit, Goto
  <2>1. TypeOK' /\ LockInv'
    OBVIOUS
  <2>2. OwnerInv'
    OBVIOUS
  <2>3. p \in attached /\ Owner(p) /\ ~Passing(p)
    OBVIOUS
  <2>4. AttachedInv'
    <3>1. \A q \in attached : q # p => Passing(q) \/ Closing(q)
      BY <2>3
    <3>2. \A q \in attached : (Passing(q) \/ Owner(q) \/ Closing(q))'
      BY <3>1
    <3>3. \A q \in attached : Passing(q)' <=> Passing(q)
      BY <2>3
    <3>4. QED
      BY <3>2, <3>3
  <2>5. LeftoverInv'
    OBVIOUS
  <2>6. QED
    BY <2>1, <2>2, <2>4, <2>5
<1>9. ASSUME NEW p \in Proc, Crash(p) PROVE IInv'
  <2> USE <1>9 DEF Crash, Goto
  <2>1. TypeOK'
    OBVIOUS
  <2>2. LockInv'
    <3> SUFFICES ASSUME NEW q \in Proc, Inside(q)'
                 PROVE memLock' = {q} /\ (pc[q] \in Sections)'
      OBVIOUS
    <3>1. q # p /\ Inside(q)
      OBVIOUS
    <3>2. memLock = {q} /\ pc[q] \in Sections
      BY <3>1
    <3>3. memLock # {p} /\ q \in {r \in Proc \ {p} : pc[r] # "down"}
      BY <3>1, <3>2
    <3>4. QED
      BY <3>1, <3>2, <3>3
  <2>3. OwnerInv'
    OBVIOUS
  <2>4. AttachedInv'
    OBVIOUS
  <2>5. LeftoverInv'
    OBVIOUS
  <2>6. QED
    BY <2>1, <2>2, <2>3, <2>4, <2>5
<1>10. CASE UNCHANGED vars
  BY <1>10 DEF vars
<1>11. QED
  BY <1>1, <1>2, <1>3, <1>4, <1>5, <1>6, <1>7, <1>8, <1>9, <1>10 DEF Next, Step

\* The inductive invariant holds in every reachable state.
THEOREM Invariance == Spec => []IInv
BY InitIInv, StepIInv, PTL DEF Spec

\* The variables keep their types.
THEOREM TypeCorrect == Spec => []TypeOK
BY Invariance, PTL DEF IInv

\* At most one instance runs, for any processes, starts and crashes.
THEOREM Exclusion == Spec => []MutualExclusion
<1>1. IInv => MutualExclusion
  BY DEF IInv, MutualExclusion, OwnerInv, AttachedInv, Owner, Passing
<1>2. QED
  BY <1>1, Invariance, PTL

\* The semaphore is released by who holds it: the safety part of StartIsDecided
\* (runguard.cpp:23-80).
THEOREM SemaphoreHeld == Spec => []SemaphoreIsHeld
<1>1. Init => SemaphoreIsHeld
  BY DEF Init, SemaphoreIsHeld
<1>2. IInv /\ SemaphoreIsHeld /\ [Next]_vars => SemaphoreIsHeld'
  <2> SUFFICES ASSUME IInv, SemaphoreIsHeld, [Next]_vars PROVE SemaphoreIsHeld'
    OBVIOUS
  <2> USE DEF IInv, TypeOK, LockInv, Inside, SemaphoreIsHeld, LockLost, Goto,
              Sections
  <2>1. CASE UNCHANGED vars
    BY <2>1 DEF vars
  <2>2. ASSUME NEW p \in Proc, Start(p) PROVE SemaphoreIsHeld'
    BY <2>2 DEF Start
  <2>3. ASSUME NEW p \in Proc, Acquire(p) PROVE SemaphoreIsHeld'
    BY <2>3 DEF Acquire
  <2>4. ASSUME NEW p \in Proc, Attach(p) PROVE SemaphoreIsHeld'
    BY <2>4 DEF Attach
  <2>5. ASSUME NEW p \in Proc, Detach(p) PROVE SemaphoreIsHeld'
    BY <2>5 DEF Detach
  <2>6. ASSUME NEW p \in Proc, Create(p) PROVE SemaphoreIsHeld'
    BY <2>6 DEF Create
  <2>7. ASSUME NEW p \in Proc, ReleaseSegment(p) PROVE SemaphoreIsHeld'
    BY <2>7 DEF ReleaseSegment
  <2>8. ASSUME NEW p \in Proc, Leave(p) PROVE SemaphoreIsHeld'
    BY <2>8 DEF Leave
  <2>9. ASSUME NEW p \in Proc, Quit(p) PROVE SemaphoreIsHeld'
    BY <2>9 DEF Quit
  <2>10. ASSUME NEW p \in Proc, Crash(p) PROVE SemaphoreIsHeld'
    BY <2>10 DEF Crash
  <2>11. QED
    BY <2>1, <2>2, <2>3, <2>4, <2>5, <2>6, <2>7, <2>8, <2>9, <2>10
    DEF Next, Step
<1>3. QED
  BY <1>1, <1>2, InitIInv, StepIInv, PTL DEF Spec

\* A start is refused only because of another instance, or of a crash.
THEOREM RefusalJustified == Spec => NoFalseRefusal
<1> DEFINE Justified ==
      \A p \in Proc :
        found'[p] /\ ~found[p] =>
          \/ \E q \in Proc \ {p} : Claims(q)
          \/ unix /\ crashSince[p]
<1>1. IInv /\ [Next]_vars => [Justified]_vars
  <2> SUFFICES ASSUME IInv, Next, NEW p \in Proc, found'[p], ~found[p]
               PROVE \/ \E q \in Proc \ {p} : Claims(q)
                     \/ unix /\ crashSince[p]
    OBVIOUS
  <2> USE DEF IInv, TypeOK, LockInv, AttachedInv, Inside, Owner, Passing,
              Closing, Sections
  <2>1. segment /\ stage[p] = "inside" /\ pc[p] \in {"check", "create"}
    BY DEF Next, Step, Start, Acquire, Attach, Detach, Create,
           ReleaseSegment, Leave, Quit, Crash
  <2>2. CASE attached = {}
    BY <2>1, <2>2 DEF LeftoverInv, PastFix
  <2>3. CASE attached # {}
    <3>1. PICK q \in attached : TRUE
      BY <2>3
    <3>2. memLock = {p} /\ q # p
      BY <2>1
    <3>3. ~Passing(q)
      BY <3>2
    <3>4. Claims(q)
      BY <3>1, <3>3 DEF Claims
    <3>5. QED
      BY <3>2, <3>4
  <2>4. QED
    BY <2>2, <2>3
<1>2. QED
  BY <1>1, Invariance, PTL DEF Spec, NoFalseRefusal

-----------------------------------------------------------------------------
(* The guard implements SingleInstance *)

\* There is one owner at most, nobody else is attached but in passing, and an
\* owner's create() is done.
LEMMA OwnersFacts ==
  ASSUME IInv
  PROVE  /\ \A p, q \in Owners : p = q
         /\ \A p \in attached : Passing(p) \/ p \in Owners
         /\ \A p \in Owners :
              /\ p \in attached /\ ~Passing(p)
              /\ pc[p] = "create" => stage[p] = "done" /\ ~found[p]
<1> USE DEF IInv, TypeOK, AttachedInv, Owners, Claims, Passing, Owner, Closing
<1>1. \A p, q \in Owners : p = q
  OBVIOUS
<1>2. \A p \in attached : Passing(p) \/ p \in Owners
  OBVIOUS
<1>3. \A p \in Owners : p \in attached /\ ~Passing(p)
  OBVIOUS
<1>4. \A p \in Owners :
        pc[p] = "create" => stage[p] = "done" /\ ~found[p]
  OBVIOUS
<1>5. QED
  BY <1>1, <1>2, <1>3, <1>4

\* A step of one process changes neither what the others are about nor
\* whether they own the segment.
LEMMA OthersKeep ==
  ASSUME NEW p \in Proc,
         \A q \in Proc \ {p} :
           /\ pc'[q] = pc[q] /\ stage'[q] = stage[q] /\ found'[q] = found[q]
           /\ q \in attached' <=> q \in attached
  PROVE  /\ \A q \in Proc \ {p} : Mode(q)' = Mode(q)
         /\ \A q \in Proc \ {p} : q \in Owners' <=> q \in Owners
<1>1. \A q \in Proc \ {p} : Mode(q)' = Mode(q)
  BY DEF Mode
<1>2. \A q \in Proc \ {p} : q \in Owners' <=> q \in Owners
  BY DEF Owners, Claims
<1>3. QED
  BY <1>1, <1>2

\* Only a process that found an instance, and has no place of its own, says so.
FoundInv ==
  \A p \in Proc :
    /\ \/ pc[p] = "fix"
       \/ pc[p] \in {"check", "create"} /\ stage[p] \in {"wait", "inside"}
       => ~found[p]
    /\ pc[p] = "running" \/ (pc[p] = "release" /\ p \in attached) => ~found[p]

\* Every step keeps FoundInv.
LEMMA StepFound == IInv /\ FoundInv /\ [Next]_vars => FoundInv'
<1> SUFFICES ASSUME IInv, FoundInv, [Next]_vars PROVE FoundInv'
  OBVIOUS
<1> USE DEF IInv, TypeOK, FoundInv, Goto
<1>1. CASE UNCHANGED vars
  BY <1>1 DEF vars
<1>2. ASSUME NEW p \in Proc, Start(p) PROVE FoundInv'
  BY <1>2 DEF Start
<1>3. ASSUME NEW p \in Proc, Acquire(p) PROVE FoundInv'
  BY <1>3 DEF Acquire, Sections
<1>4. ASSUME NEW p \in Proc, Attach(p) PROVE FoundInv'
  BY <1>4 DEF Attach
<1>5. ASSUME NEW p \in Proc, Detach(p) PROVE FoundInv'
  BY <1>5 DEF Detach, Detached
<1>6. ASSUME NEW p \in Proc, Create(p) PROVE FoundInv'
  BY <1>6 DEF Create
<1>7. ASSUME NEW p \in Proc, ReleaseSegment(p) PROVE FoundInv'
  BY <1>7 DEF ReleaseSegment, Detached
<1>8. ASSUME NEW p \in Proc, Leave(p) PROVE FoundInv'
  BY <1>8 DEF Leave, After, Sections, AttachedInv, Passing, Owner, Closing
<1>9. ASSUME NEW p \in Proc, Quit(p) PROVE FoundInv'
  BY <1>9 DEF Quit
<1>10. ASSUME NEW p \in Proc, Crash(p) PROVE FoundInv'
  BY <1>10 DEF Crash
<1>11. QED
  BY <1>1, <1>2, <1>3, <1>4, <1>5, <1>6, <1>7, <1>8, <1>9, <1>10 DEF Next, Step

\* The modes, when one process changes its own.
LEMMA ModesChange ==
  ASSUME NEW p \in Proc, NEW m,
         \A q \in Proc \ {p} : Mode(q)' = Mode(q),
         Mode(p)' = m
  PROVE  [q \in Proc |-> Mode(q)]' = [[q \in Proc |-> Mode(q)] EXCEPT ![p] = m]
OBVIOUS

\* The start of a process is one of SingleInstance.
LEMMA StartAbstract ==
  ASSUME IInv, NEW p \in Proc, Start(p)
  PROVE  Abstract!Start(p)
<1> USE DEF IInv, TypeOK, Start, Goto
<1>1. /\ \A q \in Proc \ {p} : Mode(q)' = Mode(q)
      /\ \A q \in Proc \ {p} : q \in Owners' <=> q \in Owners
  BY OthersKeep
<1>2. Mode(p) = "down" /\ Mode(p)' = "starting"
  BY DEF Mode
<1>3. Owners' = Owners
  <2>1. p \notin Owners /\ p \notin Owners'
    BY DEF Owners, Claims
  <2>2. QED
    BY <1>1, <2>1 DEF Owners
<1>4. {q \in Proc : crashSince[q]}' = {q \in Proc : crashSince[q]} \ {p}
  OBVIOUS
<1>5. [q \in Proc |-> Mode(q)]'
        = [[q \in Proc |-> Mode(q)] EXCEPT ![p] = "starting"]
  BY <1>1, <1>2, ModesChange
<1>6. QED
  BY <1>2, <1>3, <1>4, <1>5 DEF Abstract!Start, Abstract!Becomes

\* Waiting for the semaphore, and the constructor's attach, change nothing; an
\* attach that succeeds in isAnotherRunning is a refusal.
LEMMA AttachAbstract ==
  ASSUME IInv, FoundInv, NEW p \in Proc, Acquire(p) \/ Attach(p)
  PROVE  Abstract!Refuse(p) \/ UNCHANGED Abstract!vars
<1> USE DEF IInv, TypeOK, Acquire, Attach, Sections
<1>1. \A q \in Proc \ {p} :
        /\ pc'[q] = pc[q] /\ stage'[q] = stage[q] /\ found'[q] = found[q]
        /\ q \in attached' <=> q \in attached
  OBVIOUS
<1>2. /\ \A q \in Proc \ {p} : Mode(q)' = Mode(q)
      /\ \A q \in Proc \ {p} : q \in Owners' <=> q \in Owners
  BY <1>1, OthersKeep
<1>3. p \in Owners' <=> p \in Owners
  BY DEF Owners, Claims
<1>4. Owners' = Owners
  BY <1>2, <1>3 DEF Owners
<1>5. UNCHANGED <<segment, crashSince>>
  OBVIOUS
<1>6. CASE Attach(p) /\ pc[p] = "check" /\ segment
  <2>1. Mode(p) = "starting" /\ Mode(p)' = "refused"
    BY <1>6 DEF Mode, FoundInv
  <2>2. [q \in Proc |-> Mode(q)]'
          = [[q \in Proc |-> Mode(q)] EXCEPT ![p] = "refused"]
    BY <1>2, <2>1, ModesChange
  <2>3. Owners # {} \/ (segment /\ Owners = {} /\ crashSince[p])
    <3>1. CASE attached = {}
      BY <1>6, <3>1 DEF LeftoverInv, PastFix
    <3>2. CASE attached # {}
      <4>1. PICK q \in attached : TRUE
        BY <3>2
      <4>2. ~Passing(q)
        BY <1>6 DEF LockInv, Inside, Passing
      <4>3. QED
        BY <4>1, <4>2, OwnersFacts
    <3>3. QED
      BY <3>1, <3>2
  <2>4. QED
    BY <1>4, <1>5, <2>1, <2>2, <2>3 DEF Abstract!Refuse, Abstract!Becomes
<1>7. CASE ~(Attach(p) /\ pc[p] = "check" /\ segment)
  <2>1. Mode(p)' = Mode(p)
    BY <1>7 DEF Mode, FoundInv
  <2>2. [q \in Proc |-> Mode(q)]' = [q \in Proc |-> Mode(q)]
    BY <1>2, <2>1
  <2>3. QED
    BY <1>4, <1>5, <2>2 DEF Abstract!vars
<1>8. QED
  BY <1>6, <1>7

\* Detaching in passing clears a segment nobody owns.
LEMMA DetachAbstract ==
  ASSUME IInv, NEW p \in Proc, Detach(p)
  PROVE  Abstract!Clear \/ UNCHANGED Abstract!vars
<1> USE DEF IInv, TypeOK, Detach, Detached
<1>1. /\ \A q \in Proc \ {p} : Mode(q)' = Mode(q)
      /\ \A q \in Proc \ {p} : q \in Owners' <=> q \in Owners
  BY OthersKeep
<1>2. p \notin Owners /\ p \notin Owners' /\ Mode(p)' = Mode(p)
  BY DEF Owners, Claims, Mode
<1>3. Owners' = Owners
  BY <1>1, <1>2 DEF Owners
<1>4. [q \in Proc |-> Mode(q)]' = [q \in Proc |-> Mode(q)]
  BY <1>1, <1>2
<1>5. \A q \in attached \ {p} : q \in Owners
  <2>1. \A q \in Proc \ {p} : ~Passing(q)
    BY DEF LockInv, Inside, Passing
  <2>2. QED
    BY <2>1, OwnersFacts
<1>6. CASE Owners = {}
  <2>1. ~segment'
    BY <1>5, <1>6
  <2>2. QED
    BY <1>3, <1>4, <1>6, <2>1 DEF Abstract!Clear, Abstract!vars
<1>7. CASE Owners # {}
  BY <1>3, <1>4, <1>7 DEF Abstract!vars
<1>8. QED
  BY <1>6, <1>7

\* create() makes the process the instance, or refuses it.
LEMMA CreateAbstract ==
  ASSUME IInv, FoundInv, NEW p \in Proc, Create(p)
  PROVE  Abstract!Enter(p) \/ Abstract!Refuse(p)
<1> USE DEF IInv, TypeOK, Create
<1>1. /\ \A q \in Proc \ {p} : Mode(q)' = Mode(q)
      /\ \A q \in Proc \ {p} : q \in Owners' <=> q \in Owners
  BY OthersKeep
<1>2. Mode(p) = "starting" /\ p \notin Owners
  BY OwnersFacts DEF Mode, FoundInv
<1>3. CASE segment
  <2>1. Mode(p)' = "refused" /\ p \notin Owners'
    BY <1>2, <1>3 DEF Mode, Owners, Claims
  <2>2. [q \in Proc |-> Mode(q)]'
          = [[q \in Proc |-> Mode(q)] EXCEPT ![p] = "refused"]
    BY <1>1, <2>1, ModesChange
  <2>3. Owners' = Owners
    BY <1>1, <1>2, <2>1 DEF Owners
  <2>4. Owners # {} \/ (segment /\ Owners = {} /\ crashSince[p])
    <3>1. CASE attached = {}
      BY <1>3, <3>1 DEF LeftoverInv, PastFix
    <3>2. CASE attached # {}
      <4>1. PICK q \in attached : TRUE
        BY <3>2
      <4>2. ~Passing(q)
        BY DEF LockInv, Inside, Passing
      <4>3. QED
        BY <4>1, <4>2, OwnersFacts
    <3>3. QED
      BY <3>1, <3>2
  <2>5. QED
    BY <1>2, <1>3, <2>2, <2>3, <2>4 DEF Abstract!Refuse, Abstract!Becomes
<1>4. CASE ~segment
  <2>1. attached = {} /\ Owners = {}
    BY <1>4 DEF AttachedInv, Owners, Claims
  <2>2. Mode(p)' = "active" /\ p \in Owners'
    BY <1>4 DEF Mode, Owners, Claims
  <2>3. [q \in Proc |-> Mode(q)]'
          = [[q \in Proc |-> Mode(q)] EXCEPT ![p] = "active"]
    BY <1>1, <2>2, ModesChange
  <2>4. Owners' = {p}
    BY <1>1, <2>1, <2>2 DEF Owners
  <2>5. QED
    BY <1>2, <1>4, <2>1, <2>3, <2>4 DEF Abstract!Enter, Abstract!Becomes
<1>5. QED
  BY <1>3, <1>4

\* release() gives the place back, if the process has it.
LEMMA ReleaseAbstract ==
  ASSUME IInv, FoundInv, NEW p \in Proc, ReleaseSegment(p)
  PROVE  Abstract!Resign(p) \/ UNCHANGED Abstract!vars
<1> USE DEF IInv, TypeOK, ReleaseSegment, Detached
<1>1. /\ \A q \in Proc \ {p} : Mode(q)' = Mode(q)
      /\ \A q \in Proc \ {p} : q \in Owners' <=> q \in Owners
  BY OthersKeep
<1>2. Mode(p)' = Mode(p)
  BY DEF Mode
<1>3. [q \in Proc |-> Mode(q)]' = [q \in Proc |-> Mode(q)]
  BY <1>1, <1>2
<1>4. CASE p \in attached
  <2>1. p \in Owners /\ Mode(p) = "leaving"
    BY <1>4, OwnersFacts DEF Passing, Mode, FoundInv, AttachedInv, Owner, Closing
  <2>2. Owners = {p}
    BY <2>1, OwnersFacts DEF Owners
  <2>3. Owners' = {}
    BY <1>1, <1>4, <2>2 DEF Owners, Claims
  <2>4. attached \ {p} = {}
    <3>1. \A q \in Proc \ {p} : ~Passing(q)
      BY DEF LockInv, Inside, Passing
    <3>2. QED
      BY <2>2, <3>1, OwnersFacts
  <2>5. ~segment'
    BY <1>4, <2>4
  <2>6. QED
    BY <1>3, <2>1, <2>2, <2>3, <2>5 DEF Abstract!Resign
<1>5. CASE p \notin attached
  <2>1. p \notin Owners /\ p \notin Owners'
    BY <1>5 DEF Owners, Claims
  <2>2. Owners' = Owners
    BY <1>1, <2>1 DEF Owners
  <2>3. QED
    BY <1>3, <1>5, <2>2 DEF Abstract!vars
<1>6. QED
  BY <1>4, <1>5

\* Going on from one section to the next, or out of the program.
LEMMA LeaveAbstract ==
  ASSUME IInv, FoundInv, NEW p \in Proc, Leave(p)
  PROVE  Abstract!Leave(p) \/ UNCHANGED Abstract!vars
<1> USE DEF IInv, TypeOK, Leave, Goto, After, Sections
<1>1. /\ \A q \in Proc \ {p} : Mode(q)' = Mode(q)
      /\ \A q \in Proc \ {p} : q \in Owners' <=> q \in Owners
  BY OthersKeep
<1>2. p \in attached => pc[p] = "create" /\ ~found[p]
  BY DEF AttachedInv, Passing, Owner, Closing
<1>3. p \in Owners' <=> p \in Owners
  BY <1>2 DEF Owners, Claims
<1>4. Owners' = Owners
  BY <1>1, <1>3 DEF Owners
<1>5. CASE pc[p] = "release"
  <2>1. Mode(p) \in {"leaving", "refused"} /\ Mode(p)' = "down"
    BY <1>5 DEF Mode
  <2>2. p \notin Owners
    BY <1>2, <1>5 DEF Owners, Claims
  <2>3. [q \in Proc |-> Mode(q)]'
          = [[q \in Proc |-> Mode(q)] EXCEPT ![p] = "down"]
    BY <1>1, <2>1, ModesChange
  <2>4. QED
    BY <1>4, <2>1, <2>2, <2>3 DEF Abstract!Leave, Abstract!Becomes
<1>6. CASE pc[p] # "release"
  <2>1. Mode(p)' = Mode(p)
    BY <1>6 DEF Mode
  <2>2. [q \in Proc |-> Mode(q)]' = [q \in Proc |-> Mode(q)]
    BY <1>1, <2>1
  <2>3. QED
    BY <1>4, <2>2 DEF Abstract!vars
<1>7. QED
  BY <1>5, <1>6

\* The end of the event loop of an instance.
LEMMA QuitAbstract ==
  ASSUME IInv, FoundInv, NEW p \in Proc, Quit(p)
  PROVE  Abstract!Quit(p)
<1> USE DEF IInv, TypeOK, Quit, Goto
<1>1. /\ \A q \in Proc \ {p} : Mode(q)' = Mode(q)
      /\ \A q \in Proc \ {p} : q \in Owners' <=> q \in Owners
  BY OthersKeep
<1>2. Mode(p) = "active" /\ Mode(p)' = "leaving"
  BY DEF Mode, FoundInv
<1>3. p \in Owners' <=> p \in Owners
  BY DEF Owners, Claims
<1>4. Owners' = Owners
  BY <1>1, <1>3 DEF Owners
<1>5. [q \in Proc |-> Mode(q)]'
        = [[q \in Proc |-> Mode(q)] EXCEPT ![p] = "leaving"]
  BY <1>1, <1>2, ModesChange
<1>6. QED
  BY <1>2, <1>4, <1>5 DEF Abstract!Quit, Abstract!Becomes

\* A crash, in whatever section.
LEMMA CrashAbstract ==
  ASSUME IInv, NEW p \in Proc, Crash(p)
  PROVE  Abstract!Crash(p)
<1> USE DEF IInv, TypeOK, Crash, Goto
<1>1. /\ \A q \in Proc \ {p} : Mode(q)' = Mode(q)
      /\ \A q \in Proc \ {p} : q \in Owners' <=> q \in Owners
  BY OthersKeep
<1>2. Mode(p) # "down" /\ Mode(p)' = "down"
  BY DEF Mode
<1>3. p \notin Owners'
  BY DEF Owners, Claims
<1>4. Owners' = Owners \ {p}
  BY <1>1, <1>3 DEF Owners
<1>5. [q \in Proc |-> Mode(q)]'
        = [[q \in Proc |-> Mode(q)] EXCEPT ![p] = "down"]
  BY <1>1, <1>2, ModesChange
<1>6. {q \in Proc : crashSince[q]}' = Proc
  OBVIOUS
<1>7. segment' => segment
  OBVIOUS
<1>8. segment' /\ Owners' = {} => (segment /\ Owners = {}) \/ p \in Owners
  BY <1>4, <1>7
<1>9. QED
  BY <1>2, <1>4, <1>5, <1>6, <1>8 DEF Abstract!Crash

\* The critical sections of runguard.cpp amount to an atomic test-and-set:
\* every step of a process is a step of SingleInstance, or none
\* (runguard.cpp:23-80).
THEOREM Implementation == Spec => AtomicTestAndSet
<1>1. Init => Abstract!Init /\ FoundInv
  <2> SUFFICES ASSUME Init PROVE Abstract!Init /\ FoundInv
    OBVIOUS
  <2>1. [q \in Proc |-> Mode(q)] = [q \in Proc |-> "down"]
    BY DEF Init, Mode
  <2>2. Owners = {} /\ ~segment
    BY DEF Init, Owners, Claims
  <2>3. {q \in Proc : crashSince[q]} = {}
    BY DEF Init
  <2>4. FoundInv
    BY DEF Init, FoundInv
  <2>5. QED
    BY <2>1, <2>2, <2>3, <2>4 DEF Abstract!Init
<1>2. IInv /\ FoundInv /\ [Next]_vars => [Abstract!Next]_Abstract!vars
  <2> SUFFICES ASSUME IInv, FoundInv, [Next]_vars
               PROVE  Abstract!Next \/ UNCHANGED Abstract!vars
    OBVIOUS
  <2>1. CASE UNCHANGED vars
    BY <2>1 DEF vars, Abstract!vars, Mode, Owners, Claims
  <2>2. ASSUME NEW p \in Proc, Start(p) PROVE Abstract!Next
    BY <2>2, StartAbstract DEF Abstract!Next
  <2>3. ASSUME NEW p \in Proc, Step(p)
        PROVE  Abstract!Next \/ UNCHANGED Abstract!vars
    BY <2>3, AttachAbstract, DetachAbstract, CreateAbstract, ReleaseAbstract,
       LeaveAbstract DEF Step, Abstract!Next
  <2>4. ASSUME NEW p \in Proc, Quit(p) PROVE Abstract!Next
    BY <2>4, QuitAbstract DEF Abstract!Next
  <2>5. ASSUME NEW p \in Proc, Crash(p) PROVE Abstract!Next
    BY <2>5, CrashAbstract DEF Abstract!Next
  <2>6. QED
    BY <2>1, <2>2, <2>3, <2>4, <2>5 DEF Next
<1>3. Spec => []FoundInv
  BY <1>1, Invariance, StepFound, PTL DEF Spec
<1>4. QED
  BY <1>1, <1>2, <1>3, Invariance, PTL DEF Spec, AtomicTestAndSet, Abstract!Spec

=============================================================================
