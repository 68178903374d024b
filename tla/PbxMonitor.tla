------------------------------ MODULE PbxMonitor ------------------------------
(***************************************************************************)
(* The PBX as MainWindow watches it: the poll of timerEvent, the parser of *)
(* pbxDataReceived, the table of listeners and the moderation of the       *)
(* conference, against an Asterisk manager (AMI) session on TCP.           *)
(*                                                                         *)
(* A line of the manager protocol is a record [key, value].  The lines of  *)
(* a list entry are one line here: pbxDataReceived only stores them until  *)
(* it meets "Muted", and nothing can come between them.  The timer, clicks *)
(* and the lines interleave freely, as the event loop lets them.           *)
(*                                                                         *)
(* Asterisk answers the actions of a session in order, and sends events    *)
(* between answers, never inside one.  What is on the wire when a          *)
(* connection ends is lost.  A segment may end within a line; the parser   *)
(* then takes the two halves for two lines.                                *)
(***************************************************************************)
EXTENDS Listeners

CONSTANTS
  Channels,     \* channels of the callers; each call has its own
  Own,          \* the channel of this program's own call
  NoChannel,
  Cut,          \* the half of a value, which is no value the parser knows
  INET_TIMEOUT, \* the poll waits INET_TIMEOUT + 2 ticks
  PbxType,      \* "asterisk" or "yate"
  TestKeys,     \* keys the callers press
  Scenarios     \* the scenarios to choose from

\* What may happen in a behaviour, besides callers joining and leaving.
Disturbance ==
  {"clicks",   \* the user lets callers speak, or kicks them
   "keys",     \* callers press keys
   "events",   \* the manager sends other events
   "trunk",    \* the trunk is registered, or no more
   "torn",     \* a segment ends within a line
   "losses",   \* the connection breaks, the PBX goes down and comes up
   "casting"}  \* the program's own call is there (StreamVolume)

\* A scenario: what settings.ini holds, as far as it matters, what may happen,
\* and how often.
Scenario ==
  [goodLogin : BOOLEAN, \* the credentials are those of the manager
   multi : BOOLEAN,     \* sipMultiComments: several callers may speak at a time
   prompt : BOOLEAN,    \* the manager answers before the next poll
   disturbances : SUBSET Disturbance,
   maxEvents : Nat,     \* bound on the number of disturbances
   maxWire : Nat]       \* bound on the lines under way when a poll is made

ASSUME PbxMonitorAssumption ==
  /\ Own \notin Channels /\ NoChannel \notin Channels \cup {Own}
  /\ Cut \notin Channels \cup {Own, NoChannel} \cup Keys
  /\ INET_TIMEOUT \in Nat
  /\ PbxType \in {"asterisk", "yate"}
  /\ TestKeys \subseteq Keys
  /\ Scenarios \subseteq Scenario

VARIABLES
  scenario,    \* the one this behaviour is of
  \* MainWindow
  state,       \* what the parser expects
  parse,       \* the answer it waits for has begun
  admin,       \* entries of the list that are this program's own
  pbxRq,       \* a request is waiting for its answer
  pbxOk,       \* the lamp stPBX
  trunkOk,     \* the lamp stTrunk
  inetTimeout, \* ticks since the last poll
  rows,        \* the table of listeners
  listens,     \* the number of listeners shown
  dtmfChannel, \* the channel of the key event being read
  \* the socket and the wire
  sock,        \* "dead": connected, but the peer is no longer there
  toServer,    \* actions under way to the manager
  toClient,    \* lines under way to the parser
  \* Asterisk
  up,          \* the manager can be reached
  conf,        \* the participants, in the order they joined
  joined,      \* the channels that have been participants
  trunk,       \* the state of the trunk's registration
  \* history
  events,      \* disturbances so far
  outage,      \* the connection broke and was not made anew
  dialled      \* the digits each caller has pressed

gui == <<state, parse, admin, pbxRq, pbxOk, trunkOk, inetTimeout, rows, listens,
         dtmfChannel>>
pbx == <<scenario, up, conf, joined, trunk>>
history == <<events, outage, dialled>>
vars == <<gui, sock, toServer, toClient, pbx, history>>

ParserStates == {"LOGIN", "CONFERENCE", "TRUNK", "IDLE", "DTMF"}
Action(name, channel) == [name |-> name, channel |-> channel]
LineKeys == {"Response", "Message", "Entry", "ListItems", "Trunk", "Output",
             "Event", "Channel", "Digit", "Torn"}
Line(key, value) == [key |-> key, value |-> value]

Participant == [channel : Channels \cup {Own}, unmuted : BOOLEAN]

ChannelsIn(participants) == {participants[i].channel : i \in DOMAIN participants}

\* The participants when one of them is gone.
Without(participants, c) ==
  IF c \in ChannelsIn(participants)
  THEN RemoveAt(participants, CHOOSE i \in DOMAIN participants :
                                participants[i].channel = c)
  ELSE participants

\* Every line comes in one piece.
Whole == "torn" \notin scenario.disturbances

TypeOK ==
  /\ scenario \in Scenarios
  /\ state \in ParserStates
  /\ parse \in BOOLEAN
  /\ admin \in {0, 1}
  /\ pbxRq \in BOOLEAN /\ pbxOk \in BOOLEAN /\ trunkOk \in BOOLEAN
  /\ inetTimeout \in 0 .. INET_TIMEOUT + 1
  /\ rows \in Seq(Row(IF Whole THEN Channels ELSE Channels \cup {Own, Cut}))
  /\ listens \in Int /\ (Whole => listens >= 0)
  /\ dtmfChannel \in Channels \cup {Own, NoChannel, Cut}
  /\ sock \in {"closed", "connecting", "connected", "dead"}
  /\ \A i \in DOMAIN toServer : toServer[i].channel \in Channels \cup {Own, NoChannel, Cut}
  /\ \A i \in DOMAIN toClient : toClient[i].key \in LineKeys
  /\ up \in BOOLEAN
  /\ conf \in Seq(Participant)
  /\ joined \subseteq Channels
  /\ trunk \in {"Registered", "Rejected"}
  /\ events \in 0 .. scenario.maxEvents
  /\ outage \in BOOLEAN
  /\ dialled \in [Channels -> SUBSET (0 .. 9)]

\* The constructor leaves state and parse uninitialised.
Init ==
  /\ scenario \in Scenarios
  /\ state \in ParserStates
  /\ parse \in BOOLEAN
  /\ admin = 0
  /\ pbxRq = FALSE /\ pbxOk = FALSE /\ trunkOk = FALSE
  /\ inetTimeout = INET_TIMEOUT
  /\ rows = << >>
  /\ listens = 0
  /\ dtmfChannel = NoChannel
  /\ sock = "closed"
  /\ toServer = << >>
  /\ toClient = << >>
  /\ up = TRUE
  /\ conf = << >>
  /\ joined = {}
  /\ trunk \in {"Registered", "Rejected"}
  /\ events = 0
  /\ outage = FALSE
  /\ dialled = [c \in Channels |-> {}]

-----------------------------------------------------------------------------
(* The socket *)

\* Writing on a socket that is not connected does nothing.
Write(actions) ==
  toServer' = IF sock = "connected" THEN toServer \o actions ELSE toServer

\* disconnectFromHost, on a socket that is not connecting
Disconnect ==
  /\ sock' = "closed"
  /\ toServer' = << >>
  /\ toClient' = << >>

\* connectToHost does nothing unless the socket is closed.
Connect ==
  /\ sock' = IF sock = "closed" THEN "connecting" ELSE sock
  /\ UNCHANGED <<toServer, toClient>>

-----------------------------------------------------------------------------
(* MainWindow: the poll *)

\* Mutant: a list that is cut short by the next poll goes on.
checkPBXKeepsParsing ==
  /\ pbxRq' = TRUE
  /\ IF pbxOk
     THEN /\ state' = "CONFERENCE"
          /\ admin' = 0
          /\ rows' = markAllChannels(rows, FALSE)
          /\ Write(<<Action("ConfBridgeList", NoChannel)>>)
          /\ UNCHANGED <<parse, sock, toClient>>
     ELSE /\ state' = "LOGIN"
          /\ Connect
          /\ UNCHANGED <<parse, admin, rows>>

checkPBX ==
  /\ pbxRq' = TRUE
  /\ IF pbxOk
     THEN /\ state' = "CONFERENCE"
          /\ parse' = FALSE
          /\ admin' = 0
          /\ rows' = markAllChannels(rows, FALSE)
          /\ Write(<<Action("ConfBridgeList", NoChannel)>>)
          /\ UNCHANGED <<sock, toClient>>
     ELSE /\ state' = "LOGIN"
          /\ Connect
          /\ UNCHANGED <<parse, admin, rows>>

\* Mutant: the old connection is kept.
switchedOffConnected ==
  /\ pbxOk' = FALSE
  /\ pbxRq' = FALSE
  /\ UNCHANGED <<sock, toServer, toClient, state, parse, admin, rows>>

\* The PBX was ok but now is not.
switchedOff ==
  /\ Disconnect
  /\ pbxOk' = FALSE
  /\ pbxRq' = FALSE
  /\ UNCHANGED <<state, parse, admin, rows>>

\* Whatever is under way comes before the next poll.
Answered ==
  toServer = << >> /\ toClient = << >> /\ ~(sock = "connecting" /\ up)

\* Mutant: the lamp is not switched off when the answer is missing.
TickKeepsLamp ==
  /\ IF inetTimeout > INET_TIMEOUT
     THEN /\ scenario.prompt => Answered
          /\ Len(toServer) + Len(toClient) <= scenario.maxWire
          /\ inetTimeout' = 0
          /\ checkPBX
          /\ UNCHANGED pbxOk
     ELSE /\ inetTimeout' = inetTimeout + 1
          /\ UNCHANGED <<state, parse, admin, pbxRq, pbxOk, rows, sock, toServer,
                         toClient>>
  /\ UNCHANGED <<trunkOk, listens, dtmfChannel, pbx, history>>

\* Mutant: the counter is not reset when a poll is made.
TickNotReset ==
  /\ IF inetTimeout > INET_TIMEOUT
     THEN /\ scenario.prompt => Answered
          /\ Len(toServer) + Len(toClient) <= scenario.maxWire
          /\ inetTimeout' = inetTimeout + 1
          /\ IF pbxRq /\ pbxOk
             THEN switchedOff
             ELSE checkPBX /\ UNCHANGED pbxOk
     ELSE /\ inetTimeout' = inetTimeout + 1
          /\ UNCHANGED <<state, parse, admin, pbxRq, pbxOk, rows, sock, toServer,
                         toClient>>
  /\ UNCHANGED <<trunkOk, listens, dtmfChannel, pbx, history>>

\* timerEvent, as far as it concerns the PBX
Tick ==
  /\ IF inetTimeout > INET_TIMEOUT
     THEN /\ scenario.prompt => Answered
          /\ Len(toServer) + Len(toClient) <= scenario.maxWire
          /\ inetTimeout' = 0
          /\ IF pbxRq /\ pbxOk
             THEN switchedOff
             ELSE checkPBX /\ UNCHANGED pbxOk
     ELSE /\ inetTimeout' = inetTimeout + 1
          /\ UNCHANGED <<state, parse, admin, pbxRq, pbxOk, rows, sock, toServer,
                         toClient>>
  /\ UNCHANGED <<trunkOk, listens, dtmfChannel, pbx, history>>

\* pbxConnected
Connected ==
  /\ sock = "connecting" /\ up
  /\ pbxRq' = FALSE
  /\ pbxOk' = TRUE
  /\ IF PbxType = "yate"
     THEN sock' = "closed" /\ UNCHANGED <<state, toServer>>
     ELSE /\ sock' = "connected"
          /\ state' = "LOGIN"
          /\ toServer' = <<Action("Login", NoChannel)>>
  /\ outage' = FALSE
  /\ UNCHANGED <<parse, admin, trunkOk, inetTimeout, rows, listens, dtmfChannel,
                 toClient, pbx, events, dialled>>

-----------------------------------------------------------------------------
(* MainWindow: the parser, one line at a time *)

\* Mutant: an answer leaves the request waiting.
ReadStillWaiting(states) ==
  /\ sock = "connected"
  /\ toClient # << >>
  /\ state \in states
  /\ UNCHANGED <<pbxRq, inetTimeout, pbx, history>>

\* pbxDataReceived takes a line that it parses in `states'.
Read(states) ==
  /\ sock = "connected"
  /\ toClient # << >>
  /\ state \in states
  /\ pbxRq' = FALSE
  /\ UNCHANGED <<inetTimeout, pbx, history>>

Is(key, value) == Head(toClient).key = key /\ Head(toClient).value = value

\* showListenersCount, for a table that is `table' by then
showListenersCount(count, table) ==
  /\ listens' = count
  /\ rows' = IF count = 0 THEN << >> ELSE table

ReadLogin ==
  /\ Read({"LOGIN"})
  /\ IF Is("Message", "Authentication accepted")
     THEN /\ pbxOk' = TRUE
          /\ state' = "CONFERENCE"
          /\ parse' = FALSE
          /\ admin' = 0
          /\ rows' = << >>
          /\ Write(<<Action("ConfBridgeList", NoChannel)>>)
          /\ toClient' = Tail(toClient)
          /\ UNCHANGED sock
     ELSE /\ IF Head(toClient).key = "Message"
             THEN Disconnect
             ELSE toClient' = Tail(toClient) /\ UNCHANGED <<sock, toServer>>
          /\ UNCHANGED <<state, parse, admin, pbxOk, rows>>
  /\ UNCHANGED <<trunkOk, listens, dtmfChannel>>

\* The list, or the answer that there is no conference; either is followed by
\* the request for the registrations.
ListEnds(count, table) ==
  /\ showListenersCount(count, table)
  /\ state' = "TRUNK"
  /\ parse' = FALSE
  /\ Write(<<Action("Registry", NoChannel)>>)

ReadConference ==
  /\ Read({"CONFERENCE"})
  /\ pbxOk' = TRUE
  /\ toClient' = Tail(toClient)
  /\ LET line == Head(toClient) IN
     \/ /\ Is("Response", "Success")
        /\ parse' = TRUE /\ admin' = 0
        /\ UNCHANGED <<state, rows, listens, toServer>>
     \/ /\ parse /\ line.key = "Entry"
        /\ IF line.value.own
           THEN admin' = 1 /\ UNCHANGED rows
           ELSE /\ rows' = Listed(rows, line.value.channel, line.value.unmuted)
                /\ UNCHANGED admin
        /\ UNCHANGED <<state, parse, listens, toServer>>
     \/ /\ parse /\ line.key = "ListItems"
        /\ ListEnds(line.value - admin, removeUnusedChannels(rows))
        /\ UNCHANGED admin
     \/ /\ ~parse /\ Is("Message", "No active conferences.")
        /\ ListEnds(0, rows)
        /\ UNCHANGED admin
     \/ /\ ~Is("Response", "Success")
        /\ ~(parse /\ line.key \in {"Entry", "ListItems"})
        /\ ~(~parse /\ Is("Message", "No active conferences."))
        /\ UNCHANGED <<state, parse, admin, rows, listens, toServer>>
  /\ UNCHANGED <<trunkOk, dtmfChannel, sock>>

ReadTrunk ==
  /\ Read({"TRUNK"})
  /\ pbxOk' = TRUE
  /\ toClient' = Tail(toClient)
  /\ parse' = (parse \/ Is("Response", "Follows"))
  /\ trunkOk' = IF parse' /\ Head(toClient).key = "Trunk"
                THEN Is("Trunk", "Registered")
                ELSE trunkOk
  /\ state' = IF parse' /\ Is("Output", "--END COMMAND--")
              THEN "IDLE"
              ELSE state
  /\ UNCHANGED <<admin, rows, listens, dtmfChannel, sock, toServer>>

ReadIdle ==
  /\ Read({"IDLE"})
  /\ pbxOk' = TRUE
  /\ toClient' = Tail(toClient)
  /\ state' = IF Is("Event", "DTMFEnd") THEN "DTMF" ELSE "IDLE"
  /\ UNCHANGED <<parse, admin, trunkOk, rows, listens, dtmfChannel, sock, toServer>>

\* Mutant: the key goes to the caller at the top of the table.
ReadKeyOfFirst ==
  /\ Read({"DTMF"})
  /\ pbxOk' = TRUE
  /\ toClient' = Tail(toClient)
  /\ LET line == Head(toClient) IN
     /\ dtmfChannel' = IF line.key = "Channel" THEN line.value ELSE dtmfChannel
     /\ IF line.key = "Digit"
        THEN /\ rows' = IF rows = << >> THEN rows
                        ELSE Dialled(rows, rows[1].channel, line.value)
             /\ state' = "IDLE"
        ELSE UNCHANGED <<rows, state>>
  /\ UNCHANGED <<parse, admin, trunkOk, listens, sock, toServer>>

\* The key event: "Channel", then "Digit".
ReadKey ==
  /\ Read({"DTMF"})
  /\ pbxOk' = TRUE
  /\ toClient' = Tail(toClient)
  /\ LET line == Head(toClient) IN
     /\ dtmfChannel' = IF line.key = "Channel" THEN line.value ELSE dtmfChannel
     /\ IF line.key = "Digit"
        THEN /\ rows' = Dialled(rows, dtmfChannel, line.value)
             /\ state' = "IDLE"
        ELSE UNCHANGED <<rows, state>>
  /\ UNCHANGED <<parse, admin, trunkOk, listens, sock, toServer>>

-----------------------------------------------------------------------------
(* MainWindow: moderation *)

Counted ==
  /\ events < scenario.maxEvents
  /\ events' = events + 1

Disturb(kind) == kind \in scenario.disturbances /\ Counted

GuiUnchanged ==
  UNCHANGED <<state, parse, admin, pbxRq, pbxOk, trunkOk, inetTimeout, listens,
              dtmfChannel>>

\* Mutant: the other callers are muted in the table only.
SpeakActionsAlone(r) ==
  <<Action(IF rows[r].unmuted THEN "ConfbridgeMute" ELSE "ConfbridgeUnmute",
           rows[r].channel)>>

\* What a click on the second column writes: the callers in the table are
\* muted first, when only one may speak.
SpeakActions(r) ==
  IF rows[r].unmuted
  THEN <<Action("ConfbridgeMute", rows[r].channel)>>
  ELSE (IF scenario.multi THEN << >>
        ELSE [q \in DOMAIN rows |-> Action("ConfbridgeMute", rows[q].channel)])
       \o <<Action("ConfbridgeUnmute", rows[r].channel)>>

\* on_listeners_cellClicked, second column, when comments are allowed
ClickSpeak(r) ==
  /\ Disturb("clicks")
  /\ ~rows[r].kicked
  /\ rows' = SpeakClicked(rows, r, scenario.multi)
  /\ Write(SpeakActions(r))
  /\ UNCHANGED <<sock, toClient, pbx, outage, dialled>>
  /\ GuiUnchanged

\* on_listeners_cellClicked, third column
ClickKick(r) ==
  /\ Disturb("clicks")
  /\ rows' = KickClicked(rows, r)
  /\ Write(<<Action("ConfbridgeKick", rows[r].channel)>>)
  /\ UNCHANGED <<sock, toClient, pbx, outage, dialled>>
  /\ GuiUnchanged

-----------------------------------------------------------------------------
(* Asterisk, seen through its manager *)

Serve(name) ==
  /\ sock = "connected" /\ up
  /\ toServer # << >>
  /\ Head(toServer).name = name
  /\ toServer' = Tail(toServer)
  /\ UNCHANGED <<scenario, gui, sock, up, joined, trunk, history>>

Answer(lines) == toClient' = toClient \o lines

ServeLogin ==
  /\ Serve("Login")
  /\ IF scenario.goodLogin
     THEN Answer(<<Line("Response", "Success"),
                   Line("Message", "Authentication accepted")>>)
     ELSE Answer(<<Line("Response", "Error"),
                   Line("Message", "Authentication failed")>>)
  /\ UNCHANGED conf

\* What the list says of a participant: its number tells the program's own.
Entry(p) == [channel |-> p.channel, unmuted |-> p.unmuted, own |-> p.channel = Own]

ServeList ==
  /\ Serve("ConfBridgeList")
  /\ IF conf = << >> \/ ~scenario.goodLogin
     THEN Answer(<<Line("Response", "Error"),
                   Line("Message", IF scenario.goodLogin THEN "No active conferences."
                                   ELSE "Permission denied")>>)
     ELSE Answer(<<Line("Response", "Success"),
                   Line("Message", "Confbridge user list will follow")>>
                 \o [i \in DOMAIN conf |-> Line("Entry", Entry(conf[i]))]
                 \o <<Line("ListItems", Len(conf))>>)
  /\ UNCHANGED conf

ServeRegistry ==
  /\ Serve("Registry")
  /\ Answer(<<Line("Response", "Follows"), Line("Trunk", trunk),
              Line("Output", "--END COMMAND--")>>)
  /\ UNCHANGED conf

\* A participant that is not there any more is an error.
ServeModeration ==
  /\ \E name \in {"ConfbridgeMute", "ConfbridgeUnmute", "ConfbridgeKick"} :
       Serve(name)
  /\ LET action == Head(toServer)
         there == action.channel \in ChannelsIn(conf)
     IN  /\ conf' =
              IF action.name = "ConfbridgeKick"
              THEN Without(conf, action.channel)
              ELSE [i \in DOMAIN conf |->
                      IF conf[i].channel = action.channel
                      THEN [conf[i] EXCEPT
                              !.unmuted = action.name = "ConfbridgeUnmute"]
                      ELSE conf[i]]
         /\ Answer(<<Line("Response", IF there THEN "Success" ELSE "Error"),
                     Line("Message", "User")>>)

Environment == UNCHANGED <<gui, toServer, outage>>

\* The manager session has logged in, and is sent events.
Listening ==
  /\ sock = "connected" /\ up /\ scenario.goodLogin
  /\ Action("Login", NoChannel) \notin ToSet(toServer)

\* A caller joins, muted; this program's own call may come again.
Joins(c) ==
  /\ Counted
  /\ c \notin joined \cup ChannelsIn(conf)
  /\ conf' = Append(conf, [channel |-> c, unmuted |-> c = Own])
  /\ joined' = joined \cup ({c} \ {Own})
  /\ UNCHANGED <<scenario, sock, toClient, up, trunk, dialled>>
  /\ Environment

Leaves(c) ==
  /\ Counted
  /\ c \in ChannelsIn(conf)
  /\ conf' = Without(conf, c)
  /\ UNCHANGED <<scenario, sock, toClient, up, joined, trunk, dialled>>
  /\ Environment

\* A caller presses a key.
Presses(c, key) ==
  /\ Disturb("keys")
  /\ Listening
  /\ c \in ChannelsIn(conf)
  /\ Answer(<<Line("Event", "DTMFEnd"), Line("Channel", c), Line("Digit", key)>>)
  /\ dialled' = [dialled EXCEPT ![c] = @ \cup ({key} \ {Star, Hash})]
  /\ UNCHANGED <<sock, pbx>>
  /\ Environment

OtherEvent(c) ==
  /\ Disturb("events")
  /\ Listening
  /\ Answer(<<Line("Event", "Newstate"), Line("Channel", c)>>)
  /\ UNCHANGED <<sock, pbx, dialled>>
  /\ Environment

TrunkChanges ==
  /\ Disturb("trunk")
  /\ trunk' \in {"Registered", "Rejected"} \ {trunk}
  /\ UNCHANGED <<scenario, sock, toClient, up, conf, joined, dialled>>
  /\ Environment

\* The connection breaks, noticed by the socket or not, with the PBX or alone.
\* The signal error() that should tell does not exist.
ConnectionLost ==
  /\ Disturb("losses")
  /\ up
  /\ sock' \in CASE sock = "connected" -> {"closed", "dead"}
                 [] sock = "connecting" -> {"closed", "connecting"}
                 [] OTHER -> {sock}
  /\ up' \in BOOLEAN
  /\ toServer' = << >>
  /\ toClient' = << >>
  /\ outage' = TRUE
  /\ UNCHANGED <<scenario, gui, conf, joined, trunk, dialled>>

\* An entry with one of its lines torn.  Without its "Channel" the channel is
\* that of an entry read before, here any that may have been one; a number may
\* be the one of the entry before, or its half be this program's own; half a
\* "Yes" is not a "Yes".
TornEntries(entry) ==
  {[entry EXCEPT !.channel = c] : c \in joined \cup {Own, Cut}} \cup
  {[entry EXCEPT !.own = own] : own \in BOOLEAN} \cup
  {[entry EXCEPT !.unmuted = TRUE]}

\* What the parser makes of the halves of a line: nothing, when it is cut within
\* its key, or half a value; the second half means nothing to it.  All cut names
\* are one.
Halves(line) ==
  {Line("Torn", Cut)} \cup
  CASE line.key = "Entry" -> {Line("Entry", entry) : entry \in TornEntries(line.value)}
    [] line.key = "ListItems" -> {Line("ListItems", n) : n \in {0, line.value \div 10}}
    [] OTHER -> {Line(line.key, Cut)}

\* What readAll returns ends within the next line.
SegmentEnds ==
  /\ Disturb("torn")
  /\ sock = "connected"
  /\ toClient # << >>
  /\ \E half \in Halves(Head(toClient)) : toClient' = <<half>> \o Tail(toClient)
  /\ UNCHANGED <<sock, pbx, dialled>>
  /\ Environment

ConnectFails ==
  /\ sock = "connecting" /\ ~up
  /\ sock' = "closed"
  /\ UNCHANGED <<gui, toServer, toClient, pbx, history>>

ServerReturns ==
  /\ ~up
  /\ up' = TRUE
  /\ UNCHANGED <<scenario, gui, sock, toServer, toClient, conf, joined, trunk,
                 history>>

-----------------------------------------------------------------------------

ReadStep == ReadLogin \/ ReadConference \/ ReadTrunk \/ ReadIdle \/ ReadKey

ServeStep == ServeLogin \/ ServeList \/ ServeRegistry \/ ServeModeration

ClickStep == \E r \in DOMAIN rows : ClickSpeak(r) \/ ClickKick(r)

OtherStep ==
  \/ Tick
  \/ Connected
  \/ ServeStep
  \/ \E c \in Channels \cup {Own} : Joins(c) \/ Leaves(c) \/ OtherEvent(c)
  \/ \E c \in Channels, key \in TestKeys : Presses(c, key)
  \/ TrunkChanges
  \/ SegmentEnds
  \/ ConnectionLost
  \/ ConnectFails
  \/ ServerReturns

Next == ReadStep \/ ClickStep \/ OtherStep

Spec == Init /\ [][Next]_vars

\* The timer goes on, the wire delivers, the manager answers, and a PBX that
\* went down may stay down.
Fairness ==
  /\ WF_vars(Tick)
  /\ WF_vars(Connected)
  /\ WF_vars(ReadStep)
  /\ WF_vars(ServeStep)

FairSpec == Spec /\ Fairness

-----------------------------------------------------------------------------

\* The parser never takes the answer to another action for that to its login:
\* "PBX login failed" is said of bad credentials only, unless a line was torn
\* (mainwindow.cpp:303-325).
LoginFailureIsTrue ==
  [][Whole /\ ReadLogin /\ sock' = "closed" => ~scenario.goodLogin]_vars

\* A caller who is in the conference keeps the row it has through all lists,
\* cut short or late, answers to clicks and events, until the monitor logs in
\* anew, unless a line was torn (mainwindow.cpp:292-621, 1214-1225).
NoListenerDropped ==
  [][Whole => \A c \in ChannelsIn(conf) :
       c \in ChannelsOf(rows) => c \in ChannelsOf(rows') \/ state = "LOGIN"]_vars

\* No caller has two rows (mainwindow.cpp:370-388).
OneRowEach ==
  \A r, q \in DOMAIN rows : rows[r].channel = rows[q].channel => r = q

\* A number shown for a caller has only digits that caller pressed, unless a
\* line was torn or the number overflowed, which takes more keys than the runs
\* press (mainwindow.cpp:537-614).
AnswersAreOwn ==
  Whole => \A r \in DOMAIN rows :
    LET n == rows[r].text
        digits == IF n < 10 THEN {n} ELSE {n \div 10, n % 10}
    IN  n = 0 \/ digits \subseteq dialled[rows[r].channel]

\* With one speaker at a time, no two callers can speak at once when the
\* actions of the last click are done, unless a line was torn
\* (mainwindow.cpp:1272-1298).
SingleSpeaker ==
  Whole /\ ~scenario.multi /\ toServer = << >> =>
    \A p, q \in ToSet(conf) :
      p.unmuted /\ q.unmuted /\ Own \notin {p.channel, q.channel} => p = q

\* "PBX was switched off" is said only of a PBX whose connection broke, unless
\* a line was torn (mainwindow.cpp:683-699).
SwitchedOffIsTrue == [][Whole /\ pbxOk /\ ~pbxOk' => outage]_vars

\* When callers, trunk and PBX change no more, the lamps show them, whatever
\* lines were torn, a login taken for refused among them
\* (mainwindow.cpp:183-214, 258-325, 440-520).
StatusConverges ==
  <>[](pbxOk = up /\ (up => trunkOk = (trunk = "Registered")))

\* So do the table and the count: a row of half a name, a number or a key taken
\* for another's, a list without an end do not stay
\* (mainwindow.cpp:197-214, 326-438, 1214-1240).
TableConverges ==
  <>[](up =>
         /\ {<<rows[r].channel, rows[r].unmuted>> : r \in DOMAIN rows} =
              {<<p.channel, p.unmuted>> :
                 p \in {q \in ToSet(conf) : q.channel # Own}}
         /\ listens = Len(rows))

\* A list that ended leaves a row for the callers it named only: the table is
\* what it would be had it been emptied before ("Mark all rows for delete
\* instead of ui->listeners->setRowCount( 0 )", mainwindow.cpp:200-201).
ListedOnly ==
  [][state = "CONFERENCE" /\ state' = "TRUNK" =>
       \A r \in DOMAIN rows' : rows'[r].marked]_vars

=============================================================================
