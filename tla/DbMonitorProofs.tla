--------------------------- MODULE DbMonitorProofs ---------------------------
(***************************************************************************)
(* Proofs about DbMonitor: what holds of the Internet lamp alone holds of  *)
(* it in this company, and the window agrees with what is believed.        *)
(***************************************************************************)
EXTENDS DbMonitor, InetCheckProofs

\* A program that watches YATE too treats the Internet lamp as InetCheck says.
THEOREM Composed == MSpec => Spec
<1>1. [MNext]_mvars => [Next]_vars
  BY DEF MNext, mvars, DbTick, ServerChanges, Next
<1>2. QED
  BY <1>1, PTL DEF MSpec, MInit, Spec

\* So its lamp lags no more than that of a program without a database.
THEOREM LampInTimeComposed == MSpec => []LampLag
BY Composed, LampInTime, PTL

\* WindowAgrees with the types its values need; and isOpen() is true of every
\* connection that holds.
IInvDb ==
  /\ WindowAgrees
  /\ trunkOk \in BOOLEAN /\ stTrunk \in BOOLEAN /\ online \in BOOLEAN
  /\ dbOpen \in BOOLEAN /\ dbUp \in BOOLEAN /\ session \in BOOLEAN
  /\ session => dbOpen

\* The trunk lamp shows what the program believes of the trunk as long as it has a
\* database, is never lit against that belief, and nobody is shown as listening
\* without a database, wherever the connection is lost: before a tick, between its
\* queries, or after them (mainwindow.cpp:625-661).
THEOREM TrunkLamp == MSpec => []WindowAgrees
<1>1. DbInit => IInvDb
  <2> SUFFICES ASSUME DbInit PROVE IInvDb
    OBVIOUS
  <2>1. WindowAgrees
    BY Zenon DEF DbInit, WindowAgrees
  <2>2. session => dbOpen
    BY Zenon DEF DbInit
  <2>3. session \in BOOLEAN
    BY Zenon DEF DbInit
  <2>4. QED
    BY <2>1, <2>2, <2>3 DEF DbInit, IInvDb
<1>2. IInvDb /\ [MNext]_mvars => IInvDb'
  <2> SUFFICES ASSUME IInvDb, [MNext]_mvars PROVE IInvDb'
    OBVIOUS
  <2> USE DEF IInvDb, WindowAgrees
  <2>1. CASE DbTick /\ dbOpen
    <3>1. /\ Queries /\ online' = online
      BY <2>1, Zenon DEF DbTick
    <3>2. dbOpen' = session' /\ session' \in BOOLEAN /\ dbUp' \in BOOLEAN
      BY <3>1, Zenon DEF Queries
    <3>3. (~dbOpen)' => listens' = 0
      <4> SUFFICES ASSUME ~dbOpen' PROVE listens' = 0
        OBVIOUS
      <4>1. ~Answered'
        BY <3>2, Zenon DEF Answered
      <4>2. QED
        BY <3>1, <4>1, Zenon DEF Queries
    <3>4. (Answered /\ online) \in BOOLEAN
      BY Zenon DEF Answered
    <3>5. stTrunk' = trunkOk' /\ trunkOk' \in BOOLEAN
      BY <2>1, <3>1, <3>4, Zenon DEF Queries, ShowTrunk
    <3>6. QED
      BY <3>1, <3>2, <3>3, <3>5, Zenon
  <2>2. CASE DbTick /\ ~dbOpen
    BY <2>2 DEF DbTick, NoDatabase
  <2>3. CASE UNCHANGED <<dbOpen, window, server>>
    BY <2>3 DEF window, server
  <2>4. CASE ServerChanges
    <3>1. UNCHANGED window /\ dbOpen' = dbOpen
      BY <2>4, Zenon DEF ServerChanges
    <3>2. session' => session
      BY <2>4, Zenon DEF ServerChanges
    <3>3. online' \in BOOLEAN /\ dbUp' \in BOOLEAN /\ session' \in BOOLEAN
      BY <2>4, Zenon DEF ServerChanges
    <3>4. QED
      BY <3>1, <3>2, <3>3, Zenon DEF window
  <2>5. QED
    BY <2>1, <2>2, <2>3, <2>4 DEF MNext, mvars
<1>3. QED
  BY <1>1, <1>2, PTL DEF MSpec, MInit, IInvDb

=============================================================================
