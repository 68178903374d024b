----------------------------- MODULE CallControl -----------------------------
(***************************************************************************)
(* Calls and registration: the SIP slots of MainWindow, the VoIP object    *)
(* with its one `call' pointer, the MyCall objects and MyAccount.          *)
(*                                                                         *)
(* Two threads share this state.  The GUI thread runs the slots, the       *)
(* buttons, the close request and the 1 s timer.  A PJSIP worker thread    *)
(* runs the callbacks of MyCall and MyAccount: what they emit reaches the  *)
(* GUI thread through its queue of events (`mail'), later and in order,    *)
(* and a MyCall deletes itself there.  A callback raised inside a PJSIP    *)
(* call the GUI thread makes is handled at once, before anything queued.   *)
(*                                                                         *)
(* No lock guards `call'.  makeCall and hangupCall in the GUI thread, and  *)
(* ring in the worker thread, read or write it several times, and each of  *)
(* them is cut there into steps: `gui' and `ring' say how far they are.    *)
(* ring runs under the lock of the library, so that what the GUI thread    *)
(* asks of PJSIP waits for it; assignments to `call' do not.               *)
(***************************************************************************)
EXTENDS Naturals, Sequences

CONSTANTS
  MaxCalls,     \* bound on the MyCall objects constructed in one run
  MaxMail,      \* bound on the signals waiting for the GUI thread
  DTMF_TIMEOUT, \* ticks before the conference PIN is dialled
  HasPin,       \* sipConfPin is not empty
  AutoConf,     \* sipAutoConf: call the conference when registered
  Disturbances  \* what may happen besides: calls from outside, calls that
                \* cannot be placed, a Call click while a call is going on,
                \* a registration that is refreshed, rejected or never
                \* started, a library that does not load

ASSUME CallControlAssumption ==
  /\ MaxCalls \in Nat
  /\ MaxMail \in Nat
  /\ DTMF_TIMEOUT \in Nat
  /\ HasPin \in BOOLEAN
  /\ AutoConf \in BOOLEAN
  /\ Disturbances \subseteq
       {"incoming", "callFails", "overlap", "refresh", "reject", "sendFails",
        "libFails"}

VARIABLES
  app,         \* the process: running, closed by its window, or crashed
  sipState,    \* MainWindow::sipState; "idle" is the empty string
  buttons,     \* callButton and hangButton are enabled
  dtmfTimeout, \* MainWindow::dtmfTimeout
  mail,        \* signals queued for the GUI thread
  gui,         \* what the GUI thread is in the middle of
  ring,        \* the call whose ring() the worker is in the middle of
  call,        \* VoIP::call: a MyCall object, perhaps a deleted one, or null
  made,        \* number of MyCall objects constructed so far
  inv,         \* the session of each MyCall; "gone": ended, object deleted
  crossed,     \* objects that ring and place a call of their own, too
  reg,         \* the account's registration session
  pinned       \* history: the calls the PIN was dialled into

calls == <<call, made, inv, crossed>>
vars ==
  <<app, sipState, buttons, dtmfTimeout, mail, gui, ring, calls, reg, pinned>>

\* Objects are numbered in the order in which `call' is set to them.
Calls == 1 .. MaxCalls
NoCall == 0

CallStates ==
  {"free",        \* not constructed yet
   "placing",     \* constructed by makeCall, no session yet
   "failed",      \* makeCall threw, or used another object: no session
   "calling", "early", "confirmed",  \* outgoing
   "ringing",     \* incoming
   "answered", "talking",  \* incoming, answered 200; the ACK has come
   "cancelling",  \* hung up before it was answered
   "leaving",     \* hung up after
   "gone"}

\* This program placed the call, and nobody has asked for its end.
Placed(c) == inv[c] \in {"calling", "early", "confirmed"}

\* The session exists, and can be hung up.
Up(c) == Placed(c) \/ inv[c] \in {"ringing", "answered", "talking"}

\* The GUI thread is in its event loop.
Free == [at |-> "free", next |-> "idle", code |-> "ok"]

CallSignals == {"remoteRing", "localRing", "established", "ended"}
RegSignals == {"regUp", "regDown"}
Message ==
  [kind : CallSignals, call : Calls] \cup [kind : RegSignals, call : {NoCall}]

\* The GUI thread has yet to handle the end of this call.
EndQueued(c) ==
  \E i \in 1 .. Len(mail) : mail[i] = [kind |-> "ended", call |-> c]

\* Something of this call is still going on, as far as the GUI knows.
GoingOn(c) == inv[c] \notin {"free", "failed", "gone"} \/ EndQueued(c)

TypeOK ==
  /\ app \in {"running", "closed", "crashed"}
  /\ sipState \in {"init", "idle", "remoteRing", "localRing", "calling", "closing"}
  /\ buttons \in BOOLEAN
  /\ dtmfTimeout \in 0 .. DTMF_TIMEOUT + 1
  /\ mail \in Seq(Message)
  /\ gui \in [at : {"free", "placing",  \* makeCall: `call' is assigned
                   "hangup",           \* hangupCall: the session was looked up
                   "forget"},          \* hangupCall: it was hung up
             next : {"idle", "closing"},  \* sipState after hangupCall
             code : {"ok", "busy"}]       \* the status it hangs up with
  /\ ring \in Calls \cup {NoCall}
  /\ call \in Calls \cup {NoCall}
  /\ made \in 0 .. MaxCalls
  /\ inv \in [Calls -> CallStates]
  /\ crossed \subseteq Calls
  /\ reg \in {"sent", "active", "refreshing", "unregistering",
              "lapsed",      \* no session, a retry is scheduled
              "off",         \* no session, no retry
              "noLibrary"}   \* no account at all
  /\ pinned \subseteq Calls

\* The constructor has run.  REGISTER is sent inside createAccount, and the
\* slot already connected turns "init" into "idle"; without a REGISTER the state
\* stays "init".
Init ==
  /\ app = "running"
  /\ \/ sipState = "idle" /\ reg = "sent"
     \/ "sendFails" \in Disturbances /\ sipState = "init" /\ reg = "off"
     \/ "libFails" \in Disturbances /\ sipState = "init" /\ reg = "noLibrary"
  /\ buttons = FALSE
  /\ dtmfTimeout = 0
  /\ mail = << >>
  /\ gui = Free
  /\ ring = NoCall
  /\ call = NoCall
  /\ made = 0
  /\ inv = [c \in Calls |-> "free"]
  /\ crossed = {}
  /\ pinned = {}

-----------------------------------------------------------------------------
(* VoIP, as the GUI thread uses it *)

\* VoIP::call names an object that has deleted itself.
Dangling == call # NoCall /\ inv[call] = "gone"

\* makeCall begins: the object replaces whatever `call' named, and stays there
\* when the call cannot be placed.
MakeCall ==
  /\ made < MaxCalls
  /\ made' = made + 1
  /\ call' = made + 1
  /\ inv' = [inv EXCEPT ![made + 1] = "placing"]
  /\ gui' = [Free EXCEPT !.at = "placing"]
  /\ UNCHANGED crossed

\* hangupCall begins.  getInfo throws when there is no session: then the caller,
\* which leaves the state at `next', goes on at once, and `call' stays.  The status
\* the session will be hung up with is that of the last response of this one.
Hang(next) ==
  /\ call # NoCall => ring = NoCall
  /\ IF call # NoCall /\ Up(call)
     THEN /\ \E code \in CASE inv[call] = "ringing" -> {"busy"}
                         [] inv[call] = "early" -> {"busy", "ok"}
                         [] OTHER -> {"ok"} :
               gui' = [at |-> "hangup", next |-> next, code |-> code]
          /\ UNCHANGED sipState
     ELSE sipState' = next /\ UNCHANGED gui

\* pjsua_call_hangup.  The status only matters to a call that rings: 200 answers
\* it.
HungUp(state, code) ==
  CASE state = "ringing" /\ code = "busy" -> "gone"
    [] state \in {"ringing", "answered"} -> "answered"
    [] state \in {"confirmed", "talking"} -> "leaving"
    [] OTHER -> "cancelling"

\* unregisterAccount.  A session that is idle sends REGISTER with expires 0,
\* and onRegStarted is handled at once: the slot finds the state "closing",
\* and closes the window.  A busy session refuses, a missing one throws; both
\* cancel the retry.
UnregisterAccount ==
  /\ reg' = CASE reg = "active" -> "unregistering"
              [] reg = "lapsed" -> "off"
              [] OTHER -> reg
  /\ app' = IF reg = "active" THEN "closed" ELSE app

\* Mutant: the state is not reset at the end of a call.
CallEndedKeepsState ==
  /\ IF sipState = "closing" THEN UnregisterAccount ELSE UNCHANGED <<app, reg>>
  /\ UNCHANGED sipState

\* Mutant: the account is not unregistered when a closing window's call ends.
CallEndedStaysRegistered ==
  /\ sipState' = IF sipState = "closing" THEN sipState ELSE "idle"
  /\ UNCHANGED <<app, reg>>

\* on_callState_changed, DISCONNECTED, whichever call it is about
CallEnded ==
  IF sipState = "closing"
  THEN /\ UnregisterAccount
       /\ sipState' = IF reg = "active" THEN "idle" ELSE "closing"
  ELSE /\ sipState' = "idle"
       /\ UNCHANGED <<app, reg>>

-----------------------------------------------------------------------------
(* The GUI thread *)

EventLoop == app = "running" /\ gui.at = "free"

\* on_callButton_clicked calls whatever the state, except these two.
CallButton ==
  /\ EventLoop
  /\ buttons
  /\ sipState \notin {"calling", "localRing"}
  /\ "overlap" \in Disturbances \/ \A c \in Calls : ~GoingOn(c)
  /\ MakeCall
  /\ UNCHANGED <<app, sipState, buttons, dtmfTimeout, mail, ring, reg, pinned>>

HangButton ==
  /\ EventLoop
  /\ buttons
  /\ sipState # "idle"
  /\ Hang("idle")
  /\ UNCHANGED <<app, buttons, dtmfTimeout, mail, ring, calls, reg, pinned>>

\* closeEvent
CloseWindow ==
  /\ EventLoop
  /\ IF sipState # "idle"
     THEN Hang("closing") /\ UNCHANGED app
     ELSE app' = "closed" /\ UNCHANGED <<sipState, gui>>
  /\ UNCHANGED <<buttons, dtmfTimeout, mail, ring, calls, reg, pinned>>

\* makeCall goes on: the object `call' names by now places the call, which need not
\* be the one makeCall constructed.  One that rings places a call of its own beside.
PlaceCall ==
  /\ app = "running"
  /\ gui.at = "placing"
  /\ ring = NoCall
  /\ gui' = Free
  /\ \E placed \in IF "callFails" \in Disturbances THEN BOOLEAN ELSE {TRUE} :
       /\ inv' = [c \in Calls |->
                    IF placed /\ c = call /\ inv[c] \in {"placing", "ringing"}
                    THEN "calling"
                    ELSE IF inv[c] = "placing" THEN "failed" ELSE inv[c]]
       /\ crossed' = crossed \cup
                       {c \in Calls : placed /\ c = call /\ inv[c] = "ringing"}
  /\ UNCHANGED <<app, sipState, buttons, dtmfTimeout, mail, ring, call, made, reg,
                 pinned>>

\* Mutant: nothing is hung up, and the pointer is dropped nevertheless.
EndCallForgets ==
  /\ app = "running"
  /\ gui.at = "hangup"
  /\ ring = NoCall
  /\ gui' = [gui EXCEPT !.at = "forget"]
  /\ UNCHANGED <<app, sipState, buttons, dtmfTimeout, mail, ring, calls, reg, pinned>>

\* hangupCall goes on: the session `call' names by now is hung up; hangup throws when
\* it has ended meanwhile.  PJSIP reports the end of a call that is rejected, and
\* MyCall deletes itself, inside.
EndCall ==
  /\ app = "running"
  /\ gui.at = "hangup"
  /\ ring = NoCall
  /\ IF call # NoCall /\ Up(call)
     THEN /\ inv' = [inv EXCEPT ![call] = HungUp(inv[call], gui.code)]
          /\ gui' = [gui EXCEPT !.at = "forget"]
          /\ IF HungUp(inv[call], gui.code) = "gone"
             THEN CallEnded
             ELSE UNCHANGED <<app, sipState, reg>>
     ELSE /\ sipState' = gui.next
          /\ gui' = Free
          /\ UNCHANGED <<app, inv, reg>>
  /\ UNCHANGED <<buttons, dtmfTimeout, mail, ring, call, made, crossed, pinned>>

\* hangupCall ends: whatever `call' names by now is forgotten.
ForgetCall ==
  /\ app = "running"
  /\ gui.at = "forget"
  /\ call' = NoCall
  /\ sipState' = gui.next
  /\ gui' = Free
  /\ UNCHANGED <<app, buttons, dtmfTimeout, mail, ring, made, inv, crossed, reg,
                 pinned>>

\* Mutant: the timer is not stopped when it fires.
TickNotStopped ==
  /\ EventLoop
  /\ dtmfTimeout > 0
  /\ dtmfTimeout' = dtmfTimeout + 1
  /\ UNCHANGED <<app, sipState, buttons, mail, gui, ring, calls, reg, pinned>>

\* timerEvent, the PIN: dialDtmf throws unless the call is established.
Tick ==
  /\ EventLoop
  /\ dtmfTimeout > 0
  /\ IF dtmfTimeout > DTMF_TIMEOUT
     THEN /\ dtmfTimeout' = 0
          /\ pinned' = IF call # NoCall /\ inv[call] = "confirmed"
                       THEN pinned \cup {call}
                       ELSE pinned
     ELSE dtmfTimeout' = dtmfTimeout + 1 /\ UNCHANGED pinned
  /\ UNCHANGED <<app, sipState, buttons, mail, gui, ring, calls, reg>>

\* The GUI thread takes the next signal from its queue.
Receive(kinds) ==
  /\ EventLoop
  /\ mail # << >>
  /\ Head(mail).kind \in kinds
  /\ mail' = Tail(mail)

\* on_regState_changed(true).  first_call is compared, not assigned, so the
\* conference is called after every successful registration.
OnRegUp ==
  /\ Receive({"regUp"})
  /\ buttons' = TRUE
  /\ IF AutoConf /\ sipState \notin {"calling", "localRing"}
     THEN MakeCall
     ELSE UNCHANGED <<gui, calls>>
  /\ UNCHANGED <<app, sipState, dtmfTimeout, ring, reg, pinned>>

\* Mutant: the buttons stay enabled when the registration is lost.
OnRegDownKeepsButtons ==
  /\ Receive({"regDown"})
  /\ \/ /\ sipState = "closing"
        /\ sipState' = "idle"
        /\ app' = "closed"
        /\ UNCHANGED gui
     \/ /\ sipState # "closing"
        /\ UNCHANGED app
        /\ IF sipState # "idle" THEN Hang("idle") ELSE UNCHANGED <<sipState, gui>>
  /\ UNCHANGED <<buttons, dtmfTimeout, ring, calls, reg, pinned>>

\* on_regState_changed(false)
OnRegDown ==
  /\ Receive({"regDown"})
  /\ \/ /\ sipState = "closing"
        /\ sipState' = "idle"
        /\ app' = "closed"
        /\ UNCHANGED <<buttons, gui>>
     \/ /\ sipState # "closing"
        /\ buttons' = FALSE
        /\ UNCHANGED app
        /\ IF sipState # "idle" THEN Hang("idle") ELSE UNCHANGED <<sipState, gui>>
  /\ UNCHANGED <<dtmfTimeout, ring, calls, reg, pinned>>

\* on_callState_changed, EARLY with status 180
OnRinging ==
  /\ Receive({"remoteRing", "localRing"})
  /\ sipState' = Head(mail).kind
  /\ UNCHANGED <<app, buttons, dtmfTimeout, gui, ring, calls, reg, pinned>>

\* Mutant: the PIN timer is not started.
OnEstablishedWithoutPin ==
  /\ Receive({"established"})
  /\ sipState' = "calling"
  /\ UNCHANGED <<app, buttons, dtmfTimeout, gui, ring, calls, reg, pinned>>

\* on_callState_changed, CONFIRMED with status 200
OnEstablished ==
  /\ Receive({"established"})
  /\ sipState' = "calling"
  /\ dtmfTimeout' = IF HasPin THEN 1 ELSE dtmfTimeout
  /\ UNCHANGED <<app, buttons, gui, ring, calls, reg, pinned>>

OnEnded ==
  /\ Receive({"ended"})
  /\ CallEnded
  /\ UNCHANGED <<buttons, dtmfTimeout, gui, ring, calls, pinned>>

\* Hang-up, makeCall, PIN and volume go through `call' unchecked: with a deleted
\* object they find no session, as the actions above have it, or the process dies.
UseDeletedCall ==
  /\ app = "running"
  /\ Dangling
  /\ \/ gui.at \in {"hangup", "placing"}
     \/ gui.at = "free" /\ (sipState # "idle" \/ dtmfTimeout > DTMF_TIMEOUT)
  /\ app' = "crashed"
  /\ UNCHANGED <<sipState, buttons, dtmfTimeout, mail, gui, ring, calls, reg, pinned>>

-----------------------------------------------------------------------------
(* The PJSIP worker thread *)

Worker == app = "running" /\ ring = NoCall

Emit(kind, c) ==
  /\ Len(mail) < MaxMail
  /\ mail' = Append(mail, [kind |-> kind, call |-> c])

CallUnchanged ==
  UNCHANGED <<app, sipState, buttons, dtmfTimeout, gui, ring, call, made, crossed,
              reg, pinned>>

\* MyCall::onCallState, EARLY: the conference bridge rings.  Every 180 is
\* reported, also one that comes after the call was given up.
RemoteRings(c) ==
  /\ Worker
  /\ inv[c] \in {"calling", "early", "cancelling"}
  /\ inv' = [inv EXCEPT ![c] = IF inv[c] = "calling" THEN "early" ELSE inv[c]]
  /\ Emit("remoteRing", c)
  /\ CallUnchanged

\* MyCall::onCallState, CONFIRMED.  An answer may cross a CANCEL; PJSIP then
\* reports the call established and sends BYE.  Of an incoming call that was
\* answered the ACK comes.
RemoteAnswers(c) ==
  /\ Worker
  /\ \/ /\ inv[c] \in {"calling", "early"}
        /\ inv' = [inv EXCEPT ![c] = "confirmed"]
     \/ /\ inv[c] = "cancelling"
        /\ inv' = [inv EXCEPT ![c] = "leaving"]
     \/ /\ inv[c] = "answered"
        /\ inv' = [inv EXCEPT ![c] = "talking"]
  /\ Emit("established", c)
  /\ CallUnchanged

\* Mutant: VoIP::call is cleared, whichever call it names.
SessionEndsClearsPointer(c) ==
  /\ Worker
  /\ Up(c) \/ inv[c] \in {"cancelling", "leaving"}
  /\ inv' = [inv EXCEPT ![c] = "gone"]
  /\ call' = NoCall
  /\ Emit("ended", c)
  /\ UNCHANGED <<app, sipState, buttons, dtmfTimeout, gui, ring, made, crossed, reg,
                 pinned>>

\* MyCall::onCallState, DISCONNECTED: emits, then deletes the object, also when it
\* has another session.  VoIP::call is left as it is.
SessionEnds(c) ==
  /\ Worker
  /\ Up(c) \/ inv[c] \in {"cancelling", "leaving"}
  /\ inv' = [inv EXCEPT ![c] = "gone"]
  /\ Emit("ended", c)
  /\ CallUnchanged

\* The other session of an object that is deleted reports: the process dies, or
\* nothing comes of it.
LostSessionReports(c) ==
  /\ Worker
  /\ c \in crossed /\ inv[c] = "gone"
  /\ app' = "crashed"
  /\ UNCHANGED <<sipState, buttons, dtmfTimeout, mail, gui, ring, calls, reg, pinned>>

\* MyAccount::onIncomingCall: ring begins.
IncomingCall ==
  /\ Worker
  /\ "incoming" \in Disturbances
  /\ reg # "noLibrary"
  /\ Len(mail) < MaxMail
  /\ made < MaxCalls
  /\ made' = made + 1
  /\ call' = made + 1
  /\ inv' = [inv EXCEPT ![made + 1] = "ringing"]
  /\ ring' = made + 1
  /\ UNCHANGED <<app, sipState, buttons, dtmfTimeout, mail, gui, crossed, reg, pinned>>

\* ring ends: the object `call' names by now answers 180.  One that makeCall has just
\* put there has no session and throws; with none the process dies.
AnswerRing ==
  /\ app = "running"
  /\ ring # NoCall
  /\ ring' = NoCall
  /\ CASE call = ring -> Emit("localRing", ring) /\ UNCHANGED app
       [] call = NoCall -> app' = "crashed" /\ UNCHANGED mail
       [] OTHER -> UNCHANGED <<app, mail>>
  /\ UNCHANGED <<sipState, buttons, dtmfTimeout, gui, calls, reg, pinned>>

RegUnchanged ==
  UNCHANGED <<app, sipState, buttons, dtmfTimeout, gui, ring, calls, pinned>>

\* MyAccount::onRegState, the registrar's answer.
RegistrarAccepts ==
  /\ Worker
  /\ reg \in {"sent", "refreshing"}
  /\ reg' = "active"
  /\ Emit("regUp", NoCall)
  /\ RegUnchanged

RegistrarRejects ==
  /\ Worker
  /\ "reject" \in Disturbances
  /\ reg \in {"sent", "refreshing"}
  /\ reg' \in {"lapsed", "off"}
  /\ Emit("regDown", NoCall)
  /\ RegUnchanged

\* PJSIP refreshes the registration; no callback before the answer.
Refresh ==
  /\ Worker
  /\ "refresh" \in Disturbances
  /\ reg = "active"
  /\ reg' = "refreshing"
  /\ UNCHANGED mail
  /\ RegUnchanged

\* MyAccount::onRegStarted, for the retry PJSIP scheduled: not yet registered.
Retry ==
  /\ Worker
  /\ reg = "lapsed"
  /\ reg' = "sent"
  /\ Emit("regDown", NoCall)
  /\ RegUnchanged

-----------------------------------------------------------------------------

GuiStep ==
  \/ CallButton
  \/ HangButton
  \/ CloseWindow
  \/ PlaceCall
  \/ EndCall
  \/ ForgetCall
  \/ Tick
  \/ OnRegUp
  \/ OnRegDown
  \/ OnRinging
  \/ OnEstablished
  \/ OnEnded
  \/ UseDeletedCall

WorkerStep ==
  \/ \E c \in Calls :
       RemoteRings(c) \/ RemoteAnswers(c) \/ SessionEnds(c) \/ LostSessionReports(c)
  \/ IncomingCall
  \/ AnswerRing
  \/ RegistrarAccepts
  \/ RegistrarRejects
  \/ Refresh
  \/ Retry

Next == GuiStep \/ WorkerStep

Spec == Init /\ [][Next]_vars

\* The event loop serves its queue and its timer, what either thread has begun it
\* goes on with, a session that was hung up ends (by the peer's answer or by a SIP
\* timeout), REGISTER is answered.
Fairness ==
  /\ WF_vars(PlaceCall \/ EndCall \/ ForgetCall)
  /\ WF_vars(AnswerRing)
  /\ WF_vars(OnRegUp \/ OnRegDown \/ OnRinging \/ OnEstablished \/ OnEnded)
  /\ WF_vars(Tick)
  /\ \A c \in Calls :
       WF_vars(inv[c] \in {"cancelling", "leaving"} /\ SessionEnds(c))
  /\ WF_vars(RegistrarAccepts \/ RegistrarRejects)

FairSpec == Spec /\ Fairness

-----------------------------------------------------------------------------

\* The window shows a call only while there is one: it never stays at
\* "calling" or "remoteRing" once the end of that call was handled, whatever
\* other calls, hang-ups and signals come between (mainwindow.cpp:916-976).
ShownCallExists ==
  /\ sipState = "calling" =>
       \E c \in Calls : inv[c] \in {"confirmed", "talking", "leaving"} \/ EndQueued(c)
  /\ sipState = "remoteRing" =>
       \E c \in Calls :
         \/ inv[c] \in {"early", "confirmed", "cancelling", "leaving"}
         \/ EndQueued(c)

\* A call this program placed and nobody hung up is the one VoIP::call names, or a
\* younger one took its place, however hangupCall, makeCall and ring cross: the
\* session that is hung up, or thrown for, and the pointer that is dropped need not be
\* of one call (VoIP.cpp:126-132, 149, 183-197).  Of an incoming call that would be
\* false: the pointer to one that comes between hangup and the assignment of null is
\* dropped while it rings.
NoCallForgotten ==
  \A c \in Calls :
    Placed(c) => call = c \/ \E d \in Calls : d > c /\ inv[d] # "free"

\* When the youngest call is established, and nothing about it or another
\* call is on its way, its PIN was dialled or the timer is counting
\* (mainwindow.cpp:957, 701-710).
PinReachesCall ==
  (/\ HasPin
   /\ app = "running"
   /\ call # NoCall /\ inv[call] = "confirmed"
   /\ \A i \in 1 .. Len(mail) : mail[i].kind \notin CallSignals)
  => dtmfTimeout > 0 \/ call \in pinned

\* When nothing about the registration is on its way, the buttons show
\* whether the account is registered (mainwindow.cpp:873-904), although
\* some reports jump the queue of the others.
ButtonsShowRegistration ==
  (/\ app = "running"
   /\ reg \in {"active", "lapsed", "off", "noLibrary"}
   /\ \A i \in 1 .. Len(mail) : mail[i].kind \notin RegSignals)
  => buttons = (reg = "active")

\* A window that is closing waits for nothing but the end of a session that was
\* hung up, and when it comes there is a registration to give up, which closes the
\* window (mainwindow.cpp:963-970, 1079-1089, VoIP.cpp:104-118, 176-206).
ClosingIsAwaited ==
  app = "running" /\ sipState = "closing" =>
    /\ reg = "active"
    /\ \E c \in Calls : inv[c] \in {"cancelling", "leaving"} \/ EndQueued(c)

\* The window never closes over a call it was told of: one that is still up then has
\* not rung, or what it reported is still queued (mainwindow.cpp:916-976, 1079-1089).
ClosesOverNoKnownCall ==
  app = "closed" =>
    \A c \in Calls : Up(c) =>
      \/ inv[c] = "calling"
      \/ \E i \in 1 .. Len(mail) : mail[i].call = c

\* A window that is closing closes, or goes back to work
\* (mainwindow.cpp:875-881, 967-970, 1079-1089).
ClosingResolves ==
  app = "running" /\ sipState = "closing" ~>
    app # "running" \/ sipState # "closing"

=============================================================================
