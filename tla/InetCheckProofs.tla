--------------------------- MODULE InetCheckProofs ---------------------------
(***************************************************************************)
(* Proofs about InetCheck, for any INET_TIMEOUT.                           *)
(***************************************************************************)
EXTENDS InetCheck, TLAPS

\* While the Internet is down and the lamp on, the ticks that went by are
\* those since the last check, and one round more when that check waits.
LagInv ==
  inetOk /\ ~net =>
    downFor <= inetTimeout + (IF inetRq THEN INET_TIMEOUT + 2 ELSE 0)

IInv == TypeOK /\ LagInv

\* The state after the constructor satisfies the inductive invariant.
LEMMA InitIInv == Init => IInv
<1> SUFFICES ASSUME Init PROVE IInv
  OBVIOUS
<1>1. inetTimeout \in 0 .. INET_TIMEOUT + 1
      /\ downFor \in 0 .. MaxLag
  BY InetCheckAssumption DEF Init
<1>2. /\ inetRq \in BOOLEAN /\ inetOk \in BOOLEAN /\ net \in BOOLEAN
      /\ webSocket \in {"closed", "connecting"} /\ ~inetOk
  BY DEF Init
<1>3. QED
  BY <1>1, <1>2 DEF IInv, TypeOK, LagInv

\* Every step keeps the inductive invariant.
LEMMA StepIInv == IInv /\ [Next]_vars => IInv'
<1> SUFFICES ASSUME IInv, [Next]_vars PROVE IInv'
  OBVIOUS
<1> USE InetCheckAssumption DEF IInv, TypeOK, LagInv
<1>1. CASE Tick
  <2>1. downFor' \in 0 .. MaxLag
    BY <1>1 DEF Tick, Capped
  <2>2. downFor' <= downFor + 1
    BY <1>1 DEF Tick, Capped
  <2>3. CASE inetTimeout > INET_TIMEOUT
    <3>1. inetTimeout = INET_TIMEOUT + 1 /\ inetTimeout' = 0
      BY <1>1, <2>3 DEF Tick
    <3>2. CASE inetRq /\ inetOk
      <4>1. /\ inetOk' = FALSE /\ inetRq' = FALSE
            /\ webSocket' = webSocket /\ net' = net
        BY <1>1, <2>3, <3>2 DEF Tick, connectionFailed
      <4>2. LagInv'
        BY <4>1
      <4>3. inetTimeout' \in 0 .. INET_TIMEOUT + 1
        BY <3>1
      <4>4. inetRq' \in BOOLEAN /\ inetOk' \in BOOLEAN /\ net' \in BOOLEAN
            /\ webSocket' \in {"closed", "connecting"}
        BY <4>1
      <4>5. QED
        BY <2>1, <4>2, <4>3, <4>4
    <3>3. CASE ~(inetRq /\ inetOk)
      <4>1. /\ inetRq' = TRUE /\ inetOk' = inetOk /\ net' = net
            /\ webSocket' = "connecting"
        BY <1>1, <2>3, <3>3 DEF Tick, checkInet
      <4>2. ASSUME inetOk, ~net
            PROVE  downFor' <= INET_TIMEOUT + 2
        BY <2>1, <2>2, <3>1, <3>3, <4>2
      <4>3. QED
        BY <2>1, <3>1, <4>1, <4>2
    <3>4. QED
      BY <3>2, <3>3
  <2>4. CASE ~(inetTimeout > INET_TIMEOUT)
    <3>1. /\ inetTimeout' = inetTimeout + 1
          /\ UNCHANGED <<inetRq, inetOk, webSocket, net>>
      BY <1>1, <2>4 DEF Tick
    <3>2. QED
      BY <2>1, <2>2, <2>4, <3>1
  <2>5. QED
    BY <2>3, <2>4
<1>2. CASE inetConnected
  BY <1>2 DEF inetConnected
<1>3. CASE ConnectFails
  BY <1>3 DEF ConnectFails
<1>4. CASE NetChanges
  BY <1>4 DEF NetChanges
<1>5. CASE UNCHANGED vars
  BY <1>5 DEF vars
<1>6. QED
  BY <1>1, <1>2, <1>3, <1>4, <1>5 DEF Next

\* The inductive invariant holds in every reachable state.
THEOREM Invariance == Spec => []IInv
BY InitIInv, StepIInv, PTL DEF Spec

\* The variables keep their types.
THEOREM TypeCorrect == Spec => []TypeOK
BY Invariance, PTL DEF IInv

\* The lamp lags behind the Internet by less than two rounds of checks, for
\* any round (mainwindow.cpp:663-682).
THEOREM LampInTime == Spec => []LampLag
<1>1. IInv => LampLag
  BY InetCheckAssumption DEF IInv, TypeOK, LagInv, LampLag
<1>2. QED
  BY <1>1, Invariance, PTL

=============================================================================
