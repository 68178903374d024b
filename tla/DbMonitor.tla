------------------------------ MODULE DbMonitor ------------------------------
(***************************************************************************)
(* timerEvent of a program that watches a YATE exchange: the Internet lamp *)
(* of InetCheck, and before it, on the same tick, two queries to the       *)
(* database of the exchange.  They give the trunk lamp and the number of   *)
(* listeners that Asterisk's manager session gives in PbxMonitor.          *)
(*                                                                         *)
(* The database is opened once, when the program starts.  The driver is    *)
(* QPSQL: isOpen() is the status of the connection libpq has, which turns  *)
(* bad when a query finds the connection lost.  Nothing opens it again.  A *)
(* query that the server refuses fails, too, and leaves the connection.    *)
(***************************************************************************)
EXTENDS InetCheck

CONSTANTS
  MaxMembers \* at most so many listeners at a time

ASSUME DbMonitorAssumption == MaxMembers \in Nat

VARIABLES
  dbOpen,  \* db.isValid() && db.isOpen(): the connection, as the program knows it
  trunkOk, \* as in the code
  stDB,    \* the database lamp
  stTrunk, \* the trunk lamp
  listens, \* the number of listeners in the title, 0 for none
  session, \* the connection, as it is
  dbUp,    \* the server carries out the queries
  online,  \* the status it has of the trunk
  members  \* the number of listeners it has

window == <<trunkOk, stDB, stTrunk, listens>>
server == <<session, dbUp, online, members>>
mvars == <<vars, dbOpen, window, server>>

\* The constructor and registerDB; open() fails, or is not tried for want of
\* its parameters.
DbInit ==
  /\ dbOpen \in BOOLEAN
  /\ session = dbOpen
  /\ trunkOk = FALSE
  /\ stDB = FALSE
  /\ stTrunk = FALSE
  /\ listens = 0
  /\ dbUp \in BOOLEAN
  /\ online \in BOOLEAN
  /\ members \in 0 .. MaxMembers

\* Mutant: the lamp goes out, but the trunk is taken for online still.
ShowTrunkForgets(status) ==
  /\ trunkOk' = (trunkOk \/ status)
  /\ stTrunk' = IF trunkOk # status THEN status ELSE stTrunk

\* The trunk lamp is set when the status is not the one known.
ShowTrunk(status) ==
  /\ trunkOk' = status
  /\ stTrunk' = IF trunkOk # status THEN status ELSE stTrunk

\* A query is answered over a connection that holds, by a server that carries
\* it out.
Answered == session /\ dbUp

\* Mutant: a query that fails leaves what was shown before.
QueriesKeep ==
  /\ session' \in {session, FALSE}
  /\ dbUp' \in {dbUp, FALSE}
  /\ stDB' = TRUE
  /\ ShowTrunk(Answered /\ online)
  /\ listens' = IF Answered' THEN members ELSE listens
  /\ dbOpen' = session'

\* Either may be lost between the two queries.  A query that fails leaves the
\* default: the trunk offline, nobody listening.  The second one, at the latest,
\* finds a connection that is lost, and isOpen() is false from then on.
Queries ==
  /\ session' \in {session, FALSE}
  /\ dbUp' \in {dbUp, FALSE}
  /\ stDB' = TRUE
  /\ ShowTrunk(Answered /\ online)
  /\ listens' = IF Answered' THEN members ELSE 0
  /\ dbOpen' = session'

\* Without a connection the lamps go out at each tick; trunkOk and the number
\* of listeners stay as they are.
NoDatabase ==
  /\ stDB' = FALSE
  /\ stTrunk' = FALSE
  /\ UNCHANGED <<dbOpen, trunkOk, listens, session, dbUp>>

\* timerEvent
DbTick ==
  /\ IF dbOpen THEN Queries ELSE NoDatabase
  /\ Tick
  /\ UNCHANGED <<online, members>>

\* A connection that is lost does not come back.
ServerChanges ==
  /\ session' \in {session, FALSE}
  /\ dbUp' \in BOOLEAN
  /\ online' \in BOOLEAN
  /\ members' \in 0 .. MaxMembers
  /\ UNCHANGED <<vars, dbOpen, window>>

MNext ==
  \/ DbTick
  \/ /\ inetConnected \/ ConnectFails \/ NetChanges
     /\ UNCHANGED <<dbOpen, window, server>>
  \/ ServerChanges

MInit == Init /\ DbInit

MSpec == MInit /\ [][MNext]_mvars

\* The timer goes on, and a connection that can be made is made.
MFairSpec == MSpec /\ WF_mvars(DbTick) /\ WF_vars(inetConnected)

-----------------------------------------------------------------------------

\* The lamp of the trunk is lit only for a trunk that is believed online, and
\* with a database shows what is believed, which decides when it is set again;
\* a program that lost its database, or had none, shows nobody listening
\* (mainwindow.cpp:625-661).
WindowAgrees ==
  /\ stTrunk => trunkOk
  /\ dbOpen => stTrunk = trunkOk
  /\ ~dbOpen => listens = 0

\* When the connection holds, the window comes to show what the server tells, and
\* a trunk that is off and nobody listening while it refuses the queries.  When
\* the connection was lost, between two ticks or two queries, whatever was believed
\* and shown, all lamps are out and nobody listens, for good
\* (mainwindow.cpp:625-662).
DbConverges ==
  /\ <>[](dbOpen /\ Answered /\ online) => <>[]stTrunk
  /\ <>[](dbOpen /\ ~(dbUp /\ online)) => <>[]~stTrunk
  /\ <>[](dbOpen /\ ~dbUp) => <>[](listens = 0)
  /\ \A n \in 0 .. MaxMembers :
       <>[](dbOpen /\ Answered /\ members = n) => <>[](listens = n)
  /\ <>[]~session => <>[](~stDB /\ ~stTrunk /\ listens = 0)

=============================================================================
