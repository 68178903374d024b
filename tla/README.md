# PhoneStreamer in TLA+

PhoneStreamer streams the sound card of a PC into a conference of an Asterisk
(or YATE) PBX and shows who listens. It is a Qt program on top of PJSIP: one
window, one SIP account, one call at a time into the conference room, a poll of
the PBX every few seconds, and a table in which the user lets callers speak or
kicks them.

This directory holds the specifications of its own code (`src/*.cpp`) and of
the two parts of PJSIP it leans on most, their TLC configurations, and proofs.
`PROJECT.json` maps every definition to the lines it stands for, and lists runs,
mutants, findings, hazards and theorems.

## 1. Inventory

| part | source | state | operations |
|---|---|---|---|
| single-instance guard | `runguard.cpp`, `main.cpp:12-14` | system semaphore, shared memory segment | constructor, `isAnotherRunning`, `tryToRun`, `release` |
| calls and registration | `mainwindow.cpp` (SIP slots), `VoIP.cpp`, `MyCall.cpp`, `MyAccount.cpp` | `sipState`, `VoIP::call`, the `MyCall` objects, buttons, `dtmfTimeout` | call, hang up, close, PIN timer, registration and call reports |
| Internet lamp | `mainwindow.cpp:162-185, 663-682` | `inetTimeout`, `inetRq`, `inetOk`, `webSocket` | check, connected |
| PBX monitor | `mainwindow.cpp:187-621, 683-699` | `state`, `parse`, `admin`, `pbxRq`, `pbxOk`, `trunkOk`, `pbxSocket` | poll, connected, one parser step per line |
| table of listeners | `mainwindow.cpp:1207-1316` | rows with mute, kick, number, mark | find, mark, remove, update, clicks |
| YATE database | `mainwindow.cpp:625-662, 773-789` | `db`, `trunkOk`, the count | two queries per second |
| volumes | `mainwindow.cpp:139-152, 1164-1205`, `MyCall.cpp:25-77` | `unmuteFlag`, levels | sliders, mute and unmute |
| settings, layout, log, start-up | rest of `mainwindow.cpp`, `main.cpp` | read once | |
| PJSIP, invite session | `sip_inv.c`, `sip_transaction.c`, `pjsua_call.c` | state, transactions, `cancelling`, `pending_bye`, `cause` of one call | call, hang up, answer, responses, ACK, CANCEL, BYE, timers |
| PJSIP, delay buffer | `delaybuf.c`, `circbuf.h`, `wsola.c` | circular buffer between the callbacks of the sound device | put, get, reset, shrink |
| PJSIP, the rest | `src/pjsip` | registration, transports, media, codecs, utilities | |

**How they interact.** There are two threads. The GUI thread runs the Qt event
loop: slots, clicks, a timer of one second, sockets. A PJSIP worker thread runs
the callbacks of `MyCall` and `MyAccount`; these emit signals of `VoIP`, which
Qt queues for the GUI thread. When the GUI thread calls PJSIP and the callback
comes inside that call, the slot runs at once and overtakes the queue. Two
things are shared without a lock: the pointer `VoIP::call` (written by `ring`
in the worker, by `makeCall` and `hangupCall` in the GUI) and the lifetime of
the `MyCall` objects (`delete this` in the worker). The parser of the PBX
session is driven by lines the server sends, the poll by the timer, and clicks
write on the same socket; nothing matches an answer to its request but the
order. `timerEvent` serves four parts that share only the counter
`inetTimeout`: the PIN (`CallControl`), the database (`DbMonitor`), the
Internet (`InetCheck`), the PBX (`PbxMonitor`); each module has its own `Tick`
for its share, and `DbMonitor` puts the database and the Internet on one tick.
The levels of the line out are set by clicks and sliders in the GUI thread and
by `onCallMediaState` in the worker thread. The samples of a call pass from one
callback of the sound device to the other through the delay buffer.

**What is hard.** Signals that overtake each other; a pointer to an object
that deletes itself; a close request that waits for two other parties; polls
that restart a parser in the middle of a list; lines that arrive in two halves; a
table that is updated while it is behind the conference; connections that fail
without any report (the signal
`error()` named in lines 40 and 43 does not exist in Qt 5, so `inetError` and
`pbxError` never run); starts, exits and crashes of several processes around
one semaphore; a CANCEL, an answer, a BYE and an ACK that cross on the network;
samples cut out of the middle of a buffer that goes round its end. The list
`hazards` in `PROJECT.json` names each with its line.

**What makes each part correct.**

* Guard: one instance; a start is refused only for a reason; a start never
  hangs.
* Calls: what the window shows exists; no call is left that nobody can hang
  up; the PIN reaches the call; the buttons show the registration; a window
  that is closing gets closed, and over no call it was told of.
* Lamps and database: bounded lag after a loss, convergence, no false alarm, a
  lamp that agrees with the flag that decides when it is set.
* Volumes: the conference is heard only when a caller may speak.
* Session: the two ends agree, every call that is hung up ends, the program is
  told of a call in order and of its end once and last.
* Delay buffer: a queue of samples; no frame is refused; the delay comes down.
* Monitor and table: no caller loses its row or number, no caller has two
  rows, the table is what the last list said, numbers belong to who dialled
  them, one speaker at a time.

## 2. Modules

### SingleInstance, RunGuard, RunGuardProofs

One process is in one critical section at a time (`pc`: `fix` for the
constructor, `check`, `create`, `giveup` for the `release()` after a failed
`create()`, `release` for the destructor); `stage` is how far it is. `Acquire`,
`Attach`, `Detach`, `Create`, `ReleaseSegment` and `Leave` are the calls in
those sections. `Start`, `Quit` and `Crash` are the life of a process. The
variable `unix`, chosen once, says what the system does at a crash: with System V IPC the
segment stays and the semaphore is undone; on Windows the segment goes and an
acquired semaphore stays so while anyone has it open (`memLock = Proc`).
`crashSince` is history for `NoFalseRefusal`.

`SingleInstance` is what the guard promises: a place that is taken by `Enter`
and given back by `Resign`, each in one step, and refused (`Refuse`) only while
it is taken. `RunGuard` implements it under this mapping: `mode` is what a
process is about (`Mode`; the transient attach of a check is still
`"starting"`), `owner` is who created the segment and has not detached
(`Owners`), `stale` is a segment without an owner, `shaken` is `crashSince`.
The step that takes the place is `Create`, the one that refuses is `Attach` of
a check or a `Create` that fails, `Resign` is `ReleaseSegment`, and `Clear` is
the detach of a check or of the fix that lets a left-over segment go. Waiting
for the semaphore, the fix of a live segment and the passage between sections
are stutters. `Spec => AtomicTestAndSet` is a safety refinement: `SingleInstance`
has no fairness, `StartIsDecided` speaks of progress.

### CallControl, CallControlProofs

`inv[c]` is the session of the c-th `MyCall` object; objects are numbered as
they are constructed, `gone` is a session that ended and an object that deleted
itself. `call` is `VoIP::call`, also after the object is gone (`Dangling`).
`mail` is the queue of signals for the GUI thread. The empty string of
`sipState` is `"idle"`. GUI actions: `CallButton`, `HangButton`,
`CloseWindow`, `Tick` and one `On...` per signal, and the steps `makeCall` and
`hangupCall` go on with: `PlaceCall`, `EndCall`, `ForgetCall`; worker actions:
`RemoteRings`, `RemoteAnswers`, `SessionEnds`, `LostSessionReports`,
`IncomingCall`, `AnswerRing`, `RegistrarAccepts`, `RegistrarRejects`, `Refresh`,
`Retry`.

Nothing guards `VoIP::call`, so whatever reads or writes it more than once is cut
where the other thread may come between:

| code | steps | between them |
|---|---|---|
| `makeCall` (`VoIP.cpp:120-140`) | `MakeCall`: `call = new MyCall`; `PlaceCall`: `call->makeCall()` | `gui.at = "placing"` |
| `hangupCall` (176-206) | `Hang`: null test, `getInfo`, the status to hang up with; `EndCall`: `call->hangup()`; `ForgetCall`: `call = nullptr` | `gui.at = "hangup"`, then `"forget"` |
| `ring` (142-157) | `IncomingCall`: `call = new MyCall`; `AnswerRing`: `call->answer(180)` | `ring` is the object |

`gui.next` is the `sipState` the slot assigns when `hangupCall` has returned,
`gui.code` the status chosen from the call that was looked up. The GUI thread does
nothing else until it is back in its event loop (`Free`); the worker goes on, except
that `ring` runs under the lock of the library, for which `getInfo`, `hangup` and
`makeCall` wait (the guards `ring = NoCall`). The lock does not cover assignments to
`call`. So the session that is asked for, the one that is hung up and the pointer that is
dropped may be of three calls, and in the model as in the code

* a call that rings may be hung up with the status meant for another: 486 rejects it
  at once, 200 answers it (`HungUp`; `sip_inv.c:2484-2493`);
* `makeCall` may place its call on the object of a call that rings. That object then
  has two sessions (`crossed`) and is deleted at the end of the first; the other
  session finds a deleted object when it reports (`LostSessionReports`: the process
  dies; or nothing comes of it, when no step is taken). The object that `makeCall`
  constructed is
  left without a session (`"failed"`);
* `ring` may find the object of `makeCall`, which has no session yet, and then the
  incoming call is not answered 180; or null, and the process dies (`AnswerRing`);
* the pointer to a call that begins to ring between `hangup` and the assignment of
  null is dropped: nobody can answer, reject or end that call.

`OnRegDown` sets the buttons in the step that begins the hang-up, although the code
does it after `hangupCall`: nobody can click in between.

From PJSIP's code come these facts, each in an action:

* rejecting an incoming call that rings reports DISCONNECTED inside `hangup()`
  (`EndCall`, `HungUp`);
* `setRegistration(false)` on an idle session reports `onRegStarted` inside the
  call, always with `regIsActive = false`; a busy session refuses and a missing
  one throws, and both cancel the retry (`UnregisterAccount`);
* `makeCall` that throws leaves an object without session and no callback
  (`"failed"`);
* an answer that crosses the CANCEL is reported as CONFIRMED, then BYE is sent
  (`RemoteAnswers`);
* a `REGISTER` that cannot be sent leaves `sipState` at `"init"` (`Init`).

Using a deleted object is undefined: either it finds no session (the normal
actions treat a dangling pointer so) or the process dies (`UseDeletedCall`).
A call from outside is taken from its first report as ringing. The ring tones and the
log are
left out, and the volumes are in `StreamVolume`. What a session does between the
reports is in `InviteSession`: 180 is reported each time it comes, also after a
hang-up (`RemoteRings`); that a session that was hung up ends, which
`CallControl` takes for granted, is what `CallerKeepsPromise` and
`CalleeKeepsPromise` check of PJSIP's code.

### InetCheck, InetCheckProofs

The counter, the request flag, the lamp and the socket. `net` is the world.
`downFor` is history, capped at `MaxLag`. A connection may take as long as it
likes; `LampConverges` promises more of a world in which no check finds one
still awaited that could be made (`CheckIsEarly`).

### DbMonitor, DbMonitorProofs

EXTENDS `InetCheck`: `timerEvent` of a program that watches a YATE exchange.
`DbTick` is the database branch followed by the share of `InetCheck`, on one
tick, as in the code. `dbOpen` is `db.isValid() && db.isOpen()`, which is tested at
every tick. The driver is QPSQL: `isOpen()` is the status of the connection libpq
has, and `open()` is called once, by `registerDB`. So two ways to fail are told
apart. A server that carries out no queries (`~dbUp`) makes them fail and leaves the
connection; later queries may work again. A connection that is lost (`~session`,
which never turns back) is found so by the first query over it: that query fails,
too, `dbOpen` is false from then on, and every later tick takes the branch of
`NoDatabase`, which puts the lamps out and leaves `trunkOk` and the title. Both may
happen before either query (`Queries`: `Answered` for the first, `Answered'` for the
second); a query that fails leaves its default. How long a query
blocks the event loop is left out, and of the title only the number. In such a
program the table stays empty, so that `unmuteFlag` never becomes true and
`mute()` has nothing more to mute: the volumes are not part of this module.

### Listeners

The table as operators on a sequence of rows. `removeUnusedChannels` is the
loop as written: the row behind a deleted one is not looked at (`Removed` is a
recursive function over the index). `Dialled` is the DTMF branch, with
`Wrapped` for the `int`; `INT_HALF` is 2^31 in the program and smaller for TLC.

### PbxMonitor, MCPbx, PbxMonitorProofs

EXTENDS `Listeners`. The wire is two queues: `toServer` holds actions,
`toClient` lines `[key, value]`. The lines of one list entry are one line
here, because the parser only stores them up to `Muted` and the manager sends
the answer in one piece; the three lines of a key event are separate, because a
poll comes between them in the parser's state. There is one parser action per
parser state, all built on `Read`, which clears `pbxRq` for whatever arrives.
What a disconnect finds on the wire is lost, including lines the loop over the
current batch would still see; those it would parse in state `LOGIN`, where
only the answer to a login matters.

`readAll` may return a part of a line, and nothing puts the halves together
again. `SegmentEnds` replaces the next line by what the parser makes of it
(`Halves`): nothing, when the key is cut, or half a value (`Cut`, which is equal
to no value the parser knows; one stands for all). In an entry of the list any of
its lines may be the one that is torn (`TornEntries`): it is then taken for
another caller's, or for one with half a name, or for the program's own. A line
that ends exactly behind its key makes `pair.at(1)` read past the list, which
ends the program; this is not a step of the model.

The socket follows `QTcpSocket`: `connectToHost` on a socket that is not closed
does nothing, a write on a closed one is lost, `"dead"` is a connection whose
peer is gone unnoticed. The manager answers in order and puts events between
answers. `Init` chooses one of `Scenarios`, and it stays. A scenario says what
settings.ini holds: whether the manager accepts the credentials (`goodLogin`)
and whether several callers may speak (`multi`); what may happen besides the
polls (`disturbances`), how often (`maxEvents`), how many lines may be under way
when a poll is made (`maxWire`), and whether answers arrive before the next poll
(`prompt`).

`MCPbx` adds the symmetry of the callers' channels for the runs that check
safety only; the runs with liveness do not use it. It also names the scenarios:
`Races` (late answers, events, clicks and losses, good and bad credentials),
`Dialling` (keys), `Talking` (clicks, one or several speakers), `Cast` (the
program's own call, clicks and sliders), `Torn` (torn lines, clicks and keys), all
five in `Disturbed`, each with bounds of its own, which keeps the run short; `Watching`
for liveness (a trunk and a PBX that come and go,
clicks, keys and events, torn lines with clicks, torn lines with keys and
losses); and
one each for the violations.

### StreamVolume, MCStream, StreamVolumeProofs

EXTENDS `PbxMonitor` with what the moderator hears: `unmuteFlag`, the slider of
the line out, and the four levels that the sliders and `onCallMediaState` set in
the conference bridge. `Click` is `on_listeners_cellClicked` with `checkMuting`
at its end, `Parse` the parser with `showListenersCount` when a list ends;
`media` is how far the worker thread is in `onCallMediaState`, which sets the
levels one after the other (`AdjustMedia`), for a new call and whenever the media
changes. The two levels of a slider are set in one step: both are of one call
into PJSIP each, and nothing looks at one without the other. Of the call only
CONFIRMED and DISCONNECTED matter here; their interleaving with the rest of the
SIP slots is in `CallControl`. What happens to the volumes alone leaves the monitor
as it is and is counted in `moves`; `Bounded` bounds it together with the
disturbances of the monitor.

### CallSession, InviteSession, InviteSessionProofs

`CallSession` is what `CallControl` relies on: the states it gives a session and
the reports it gets, in order. Ringing counts once however often it is reported;
a response other than 180 moves the session to EARLY without a report the program
acts on. Its fairness is the promise that a call that was hung up ends.

`InviteSession` is the code behind that promise, for both ends: `state` is
`inv->state`, `invite`, `cancel`, `bye` and `answer` are the transactions,
`hangingUp` is `call->hanging_up` (and `inv->cancelling`), `pendingCancel`,
`pendingBye` and `cause` are the fields of those names. The wire is the set of
all messages ever sent; any of them may arrive at any time, again, or never, so
that loss, reordering and retransmission need no actions. A handler is one step:
PJSIP runs it under the lock of the dialog. Each end is mapped to `CallSession`
by `Seen`, as two refinements with liveness.

Left out are: SDP negotiation (it succeeds), errors of the transport, re-INVITE,
UPDATE, PRACK, session timers, redirection, forking, transfers, a challenge to a
BYE, and a server that answers in the callee's place except to ask for
credentials. A BYE sent again by the same end is not told from the first. An
INVITE is not delayed beyond the life of its server transaction, an end hangs up
once (`pjsua_call_hangup` again does nothing new while the first has effect), and
the ends of the timers D, I and K, which only free memory, are no steps. The
cause is kept for the callee, the only end where it decides anything.

### SampleQueue, DelayBuf, DelayBufProofs

`SampleQueue` promises a queue of samples, and says when samples may be lost:
only when the buffer is crowded. `DelayBuf` is the code, down to the cells of the
circular buffer: `Put`, `Get` and `DelayReset` under the lock, `Discarded` with
the four places WSOLA may cut in (no wrap, second region, first region with the
second moved up, a copy of both), `Compressed` with every distance `find_pitch`
can return. A sample is numbered by its age; after each step the samples are
numbered anew (`Renumbered`), which keeps the states finite and loses nothing,
since only their order is told apart. The wave form, the blending and the burst
level are left out (the latter is counted for an AGC that is `cur = cur`).

## 3. Runs

| run | shows | bounds |
|---|---|---|
| `guard` | exclusion, justified refusals, a semaphore that is always held by somebody, refinement of `SingleInstance`, starts decided, on either system | 3 processes, 4 starts: a live instance, a start in progress, another, and one after a crash |
| `call_disturbed` | safety of calls, PIN, buttons under all disturbances | 3 objects (a call, its successor, an incoming one), queue of 2 (an old call's report behind a new one's), PIN timer 2; three objects are enough for `ring` to come between any two steps of `makeCall` or `hangupCall` |
| `call_closing` | a closing window has an end to wait for, closing is resolved and leaves no call that the window was told of, with failed calls and rejected registrations | 4 objects, queue of 4 |
| `db_monitor` | Internet lamp and database on one tick: lag, agreement of lamps, flag and title, convergence, with queries refused and with a connection lost for good | the real timeout, lag capped beyond two rounds, 0 or 1 listener |
| `pbx_prompt` | lamps, table and count converge, after torn lines too; no false alarm | 2 callers and the program's own call; 3 of joins, leaves, trunk changes and losses, 2 with clicks, keys and events, 3 with torn lines and clicks, or 3 with torn lines, keys and losses |
| `pbx_disturbed` | parser, table, login, numbers, speakers and the line out in the five disturbed scenarios | 2 callers, 2 to 4 disturbances, 1 to 5 lines under way at a poll (three lines with two disturbances, one with three), keys 1, `*`, `#`, slider at two positions |
| `session` | the two ends agree, none is left without a BYE but in the cases named; both refine `CallSession` | none: one call, with and without a challenge, is finite |
| `delaybuf` | refinement of `SampleQueue`, no frame refused, the delay comes down, with and without WSOLA | frames of 4, 8 of them, WSOLA over 3: every way of cutting occurs |
| `pbx_stale_rows` | violated: a stale row survives the list | 3 callers, 6 disturbances |
| `pbx_speaker_lost` | violated: two speakers after a new login | |
| `pbx_yate` | violated: "switched off" without a reason | no disturbance |
| `volume_slider` | violated: the line out is open with nobody listening | 1 caller, 5 disturbances |

`INET_TIMEOUT` is 0 in the PBX runs: two ticks make a poll, the order of poll
and answers is what matters, not the number of ticks.

Deadlock is checked except where the system really stops: the guard when all
starts are used up, the calls when the window has closed, a session when both
ends are through with it.

**Where the properties stop.** `ClosingResolves`, `ClosingIsAwaited` and
`ClosesOverNoKnownCall` do not hold with every disturbance. The first two fail with
`"incoming"`, `"overlap"`, `"refresh"`, `"sendFails"` or `"libFails"`: a call
that was replaced in `VoIP::call` is never hung up, a registration that is being
refreshed refuses to be unregistered, and without a registration there is
nothing to report that it ended. In each case the window stays open in state
`closing` until the user closes it again, or for good. With `"incoming"` or
`"overlap"` a replaced call may outlive the window as well; and under any
conditions so does one that was placed and has not rung yet, because its state is
still the empty one. `ShownCallExists` says
nothing of `"localRing"`, which stays after a rejected call until the next
hang-up. `TableConverges` holds because a row that `removeUnusedChannels`
skips is removed by a later list; `ListedOnly` shows what happens before.
`SingleSpeaker`, `AnswersAreOwn`, `NoListenerDropped`, `LoginFailureIsTrue` and
`SwitchedOffIsTrue` are about whole lines: a torn one makes each false (a key goes
to another caller, a login that succeeded is called failed, a caller is not
muted because its row has half a name). The convergence shows that none of this
outlasts the polls that follow. `AnswersAreOwn` is also about numbers of up to nine
digits only: with a tenth the `int` may wrap (4294967301 is shown as 5), and the
runs press fewer keys.
`HeardByPermission` says nothing of the moment in which a new call is connected
and its line out not yet muted. `NoCallForgotten` speaks of the calls this program
placed. Of incoming ones it would be false: one that begins to ring while
`hangupCall` is between `hangup` and the assignment of null is up and named by
nobody (TLC shows it); and one that is answered by a hang-up with status 200 goes on
unnamed. No line of the repository promises otherwise.
`DbConverges` shows what an outage looks like. While the server refuses the queries:
a trunk that is off, nobody listening, the database lamp on. After the connection was
lost: all lamps out and nobody listening, for good, since nothing opens the database
again, even if the server is back; no line of the code says that it should. The two ends
of a session may
disagree for good about whether there was a call: an answer that comes after the
caller gave up is acknowledged and no BYE follows (`AnsweredLate`), so the callee
believes itself in a call until its user hangs up. `EstablishedTogether` allows it,
and `GoodByeIsSaid` says when it can happen: the caller's INVITE timed out, or the
caller gave up before anything rang (its CANCEL timed out in CALLING, a state that
sends no BYE). From a ringing or established call nobody goes in silence.

**Fairness.** `RunGuard`: a process that can step does (it is scheduled).
`CallControl`: the event loop serves its queue and its timer; a thread that is
inside `makeCall`, `hangupCall` or `ring` goes on; a session that was
hung up ends (this is what `InviteSession` shows);
REGISTER is answered or times out. No fairness is assumed for the user, the
peer's answer, incoming calls, refreshes or retries. `InetCheck`: the timer goes
on, and a connection that stays possible is made; the same for `DbMonitor`, where
nothing is assumed of the server or of the connection to it. `InviteSession`: a timer
that runs expires, since the
worker thread polls the timer heap; nothing is assumed of the network, so every
end of a call rests on the timers alone. `DelayBuf`: both callbacks of the sound
device go on, at any relation of their clocks. `PbxMonitor`: the timer, the
connection, the parser and the manager go on; nothing is assumed of callers,
losses, or the return of a PBX that went down.

## 4. Findings

Four runs are violations of what the code says of itself (`findings` in
`PROJECT.json`): the skipped row (200-201, 1221), the caller who is not
muted (1277), the YATE alarm (688), and the slider that opens the line out when
nobody is left (717, 723; all in `mainwindow.cpp`).

## 5. Proofs

All theorems are about every value of the constants.

* `RunGuardProofs`: `IInv` says who holds the semaphore inside a section, that
  an owner is attached, that all but one attached process are passing through
  under the semaphore, and that a segment without a process is a crash's
  leftover that no fix has met since. `MutualExclusion` follows from the second
  and third; `NoFalseRefusal` needs the last to justify a refusal by the crash.
  `MutualExclusion` alone is not inductive: it does not say that a process about
  to run is attached. `Implementation` is the refinement: one lemma per abstract
  step says which steps of the sections map to it, `ModesChange` and
  `OthersKeep` that a step of one process leaves the mode and the claim of the
  others alone. It rests on `IInv` and on `FoundInv`, that a process is not marked
  as having found the segment before its check, nor once it owns the segment:
  otherwise `Mode` would call it refused. `SemaphoreHeld` is the part of
  `StartIsDecided` that is no liveness: who waits for the semaphore waits for a live
  process inside a section, which can step, unless the semaphore was lost.
* `CallControlProofs`: `IInv` adds to the types that each queued signal is about
  a call in a state that signal allows, that `call` names the youngest object or
  nothing, and that the state shown has a call or the report of its end behind it. The
  queue part is what makes `ShownCallExists` inductive: a CONFIRMED that is
  handled late must have its end still behind it in the queue. `PointerInv` and
  `DroppedInv` give
  `CallRemembered`, wherever the steps of `makeCall`, `hangupCall` and `ring`
  cross: each constructor takes the pointer to a younger object, and before the
  pointer is dropped the call it names has been hung up, or was not placed by this
  program but came in between. The lemmas about
  `Receive` and `Emit` say what taking and adding a signal does to that part.
  `PinInv` says of an established outgoing call that its PIN is dialled, the timer
  counts, or its CONFIRMED is still queued. `RegInv` says that the newest queued
  report tells the registration's state, and the buttons do when none is queued;
  the older ones do not matter. Both rest on `IInv`. `ClosingInv` gives
  `ClosingEnds`, the part of `ClosingResolves` that is no liveness: nobody calls from
  outside (`NoneCalled`), the account is registered once and before the first call
  (`RegisteredFirst`), one call goes on at a time and a closing window has hung it
  up (`Ending`, which also says what holds inside `hangupCall`: the call it looked up
  is up or its end is queued, and once it is hung up no other is up). It assumes what
  `call_closing` does of the disturbances, for any
  number of calls and length of the queue. So does `KnownCallIsEnded`: its
  `KnownInv` says that a call whose end is queued is over, and that a window which
  shows no call was told of none that is up, or is about to be; hang-ups and ends
  keep it because the one call going on is the one `call` names.
* `InetCheckProofs`: `LagInv` relates the time the Internet has been away, the
  counter and the request flag; it gives `LampLag` for every `INET_TIMEOUT`.
* `DbMonitorProofs`: a step of the composition is a step of `InetCheck` or leaves
  its variables alone, so that `LagInv` carries over; `TrunkLamp` is inductive by
  itself: the lamp follows `trunkOk` while the connection is open, and the tick that
  finds it lost has had its last query fail, so that the title is at nobody when the
  branch without a database takes over, whatever `trunkOk` was left at.
* `PbxMonitorProofs`: no property of the monitor but `ConnectingMeansOff` and
  `OneRowEach` is inductive, because what the parser will do depends on what is on
  the wire; each invariant says what the wire may hold.
  - `TypeInv` types the lines and actions under way. `PbxMonitorTypeOK` needs it for
    the channels and numbers that get into the table.
  - `OneRowForEach` rests on the table alone: whatever line comes, the search goes
    before the append, and the loop that removes rows keeps places apart
    (`RowsStep` says all that can happen to the table).
  - `SessionInv`: a connection has the lamp on and a wire without one is empty
    (`Session`); while the parser expects the answer to its login, that is the
    first answer it meets (`LoggingIn`); a request that waits has something under
    way (`Waiting`). `LoginFailureIsTrueForAll` follows from the second. The third
    gives `SwitchedOffIsTrueWhenPrompt`, for Asterisk, prompt answers and good
    credentials.
  - `KeysInv`: a key event on the wire or in the parser is followed by the channel
    and the digit of one caller; `OwnDigits` says that every digit of a number was
    pressed by its caller. `AnswersAreTheirOwn` holds as long as the numbers fit
    (`NumbersFit`, the state in which no multiplication by ten overflows).
  - `ListsInv`, `MarksInv`, `JoinersInv`: a list under way names every participant
    that has a row (or finds it marked already), ends behind its entries, and before
    its first entry no row is marked. So the row `NoListenerIsDropped` is about is
    marked when the list ends. It holds with late and cut lists and with losses.
  - `SpeakersInv`: of the callers that will speak when the actions under way are done
    there is one at most, and it is in the table, where the next click mutes it.
    `OneSpeaksAtATime` assumes what `pbx_speaker_lost` shows to be needed: that no
    connection breaks. It also assumes Asterisk, prompt answers and good
    credentials; clicks, callers and their number are arbitrary.

  `TypeInv`, `OneRowEach` and `Session` hold with torn lines, too; the others speak of
  whole lines (`Whole`).
* `StreamVolumeProofs`: `LineInv` says that once `onCallMediaState` has muted the
  line out, it is open only in a call that is confirmed and while `unmuteFlag` is
  set. `HeardByPermission` alone is not inductive: of a line opened before the
  call is confirmed it says nothing. No property of the table is needed.
  `MonitorComposed` shows that the composition implements `PbxMonitor` (a step of
  the volumes stutters), so that the theorems of the monitor hold in it:
  `TableComposed`, `AnswersComposed`, `SpeakerComposed`.
* `InviteSessionProofs`: `IInv` has four parts beside the types. `Requests` says
  what a message that was sent tells of the sessions (a callee was called by an
  INVITE, with credentials where they are asked for; a BYE is of a session).
  `Calling` and `Called` relate each end's state to its transactions and to what
  it sent. `ToldInv` relates the reports to the state. No safety property is inductive
  alone, since a message may arrive any time after it was sent: that a BYE follows the
  answer, for one, needs what the sender's state was then. The server between the
  ends may ask for credentials or not. `Parting` is what `GoodByeIsSaid` needs beside
  `IInv`: what is known of a session that ended without a BYE, and that an ACK is
  sent by a caller whose INVITE was answered or timed out. `CallerIsToldInOrder` and
  `CalleeIsToldInOrder` are the refinement of the safety part of `CallSession`:
  `Moves` says of one handler at one end which step of `CallSession` it is, and
  `EveryMove` that every step of the system is one for either end. The attempt
  showed that the conditions in `Seen` overlapped for a session that was hung up and
  had ended; they exclude each other now.
* `DelayBufProofs`: lengths and pointers stay in range (`WithinCells`), for any
  size of buffer, frame and window and any distance WSOLA may find, and there is
  room for every frame (`Accepted`). The lemmas about `Discarded`, `Relieved` and
  `Updated` say how long a buffer they return. `QueueOfSamplesHolds` is the refinement
  of `SampleQueue`. Its invariant `InOrder` says that the samples from the read
  pointer on are numbered 1, 2, ... It breaks within a step, so the lemmas use
  `Aged`: the ages grow from the read pointer on. `DiscardedAged` shows it for each
  of the four ways WSOLA cuts (`CutUnwrapped`, `CutSecond`, `CutFirst`, and the copy),
  `WrittenAged` for a frame at the end, `AdvReadAged` for the read pointer. That
  `Renumbered` then gives 1, 2, ... back is a counting argument: the places before a
  sample are as many as the ages below its own (`RenumberedOrder`).

The assumptions are those the modules state of their constants; TLC evaluates
them in every run. The inductive invariants were model-checked on the instances of
the runs, too (of `TypeInv` the part that is `TypeOK`: the values of lines are of
several types, which TLC does not compare).

Every invariant of a passing run is a theorem, and so are the action properties
and the refinements but for their fairness. Only model-checked: what must
eventually happen, since fairness and `ENABLED` are outside what TLAPS does here.
These are `StartIsDecided`, `ClosingResolves`, `LampConverges`, `DbConverges`,
`StatusConverges`, `TableConverges`, `DelayComesDown`, and in `CallerKeepsPromise`
and `CalleeKeepsPromise` the part that a call that was hung up ends.

## 6. Not modelled

* More than one session of the program's own user in the conference, and a
  trunk missing from the list of registrations.
* `acceptCall`, `holdCall`, `transferCall`, `registerAccount` and `pbxError`,
  `inetError`: no code calls them. The transfer callbacks of `MyCall`.
* Settings, layout, log, style sheet and translations: read once, or without
  state that another part reads.
* The rest of PJSIP. It is a vendored library of several hundred thousand lines
  (SIP, NAT traversal, codecs, sample applications), of which this program uses a
  small part. What `CallControl` needs of the registration client
  (`pjsua_acc.c`, `sip_reg.c`: which report comes when, in which thread, and when
  a request throws) is in its worker actions.

## 7. Plan

Done, in this order: `RunGuard` (smallest, complete), `CallControl` (the core),
`InetCheck`, `Listeners` and `PbxMonitor`, `StreamVolume`, `DbMonitor`,
`InviteSession` under `CallControl`, `DelayBuf`, with the proof modules named
above: first types and invariants, then the action properties and the refinements.

Next: the registration client (`sip_reg.c` under `pjsua_acc.c`), with the refresh
timer and the busy flag, and `CallControl`'s worker actions as its contract; with
it the hazards of the state `init` that no property covers yet could be stated.
