------------------------------ MODULE InetCheck ------------------------------
(***************************************************************************)
(* The Internet lamp of MainWindow: every now and then timerEvent opens a  *)
(* connection to a web server and drops it again.  A connection that       *)
(* cannot be made is noticed by the next check only: the signal error()    *)
(* the constructor connects does not exist, so inetError never runs.       *)
(***************************************************************************)
EXTENDS Naturals

CONSTANTS
  INET_TIMEOUT, \* as in the code; a check is made every INET_TIMEOUT + 2 ticks
  MaxLag        \* cap on the history counter

ASSUME InetCheckAssumption ==
  INET_TIMEOUT \in Nat /\ MaxLag \in Nat

VARIABLES
  inetTimeout, \* ticks since the last check
  inetRq,      \* a check is waiting for its connection
  inetOk,      \* the lamp stInet
  webSocket,   \* "closed" or "connecting": no other state outlives a slot
  net,         \* the Internet can be reached
  downFor      \* history: ticks it has been out of reach, at most MaxLag

vars == <<inetTimeout, inetRq, inetOk, webSocket, net, downFor>>

TypeOK ==
  /\ inetTimeout \in 0 .. INET_TIMEOUT + 1
  /\ inetRq \in BOOLEAN
  /\ inetOk \in BOOLEAN
  /\ webSocket \in {"closed", "connecting"}
  /\ net \in BOOLEAN
  /\ downFor \in 0 .. MaxLag

Init ==
  /\ inetTimeout = INET_TIMEOUT
  /\ inetRq = FALSE
  /\ inetOk = FALSE
  /\ webSocket = "closed"
  /\ net \in BOOLEAN
  /\ downFor = 0

Capped(n) == IF n > MaxLag THEN MaxLag ELSE n

\* checkInet: connectToHost does nothing when a connection is being made.
checkInet ==
  /\ webSocket' = "connecting"
  /\ inetRq' = TRUE
  /\ UNCHANGED inetOk

\* The Internet was ok but now is not.  disconnectFromHost lets a connection
\* that is being made go on, to drop it when it is there.
connectionFailed ==
  /\ inetOk' = FALSE
  /\ inetRq' = FALSE
  /\ UNCHANGED webSocket

\* Mutant: a check that waits is not looked at.
TickIgnoresWaiting ==
  /\ downFor' = IF net THEN 0 ELSE Capped(downFor + 1)
  /\ IF inetTimeout > INET_TIMEOUT
     THEN /\ inetTimeout' = 0
          /\ IF inetRq
             THEN UNCHANGED <<inetRq, inetOk, webSocket>>
             ELSE checkInet
     ELSE /\ inetTimeout' = inetTimeout + 1
          /\ UNCHANGED <<inetRq, inetOk, webSocket>>
  /\ UNCHANGED net

\* Mutant: the counter is not reset when a check is made.
TickNotReset ==
  /\ downFor' = IF net THEN 0 ELSE Capped(downFor + 1)
  /\ inetTimeout' = inetTimeout + 1
  /\ IF inetTimeout > INET_TIMEOUT
     THEN IF inetRq /\ inetOk THEN connectionFailed ELSE checkInet
     ELSE UNCHANGED <<inetRq, inetOk, webSocket>>
  /\ UNCHANGED net

\* timerEvent, as far as it concerns the Internet
Tick ==
  /\ downFor' = IF net THEN 0 ELSE Capped(downFor + 1)
  /\ IF inetTimeout > INET_TIMEOUT
     THEN /\ inetTimeout' = 0
          /\ IF inetRq /\ inetOk THEN connectionFailed ELSE checkInet
     ELSE /\ inetTimeout' = inetTimeout + 1
          /\ UNCHANGED <<inetRq, inetOk, webSocket>>
  /\ UNCHANGED net

\* Mutant: the request stays open.
inetConnectedStillWaiting ==
  /\ webSocket = "connecting" /\ net
  /\ webSocket' = "closed"
  /\ inetOk' = TRUE
  /\ UNCHANGED <<inetRq, inetTimeout, net, downFor>>

\* inetConnected
inetConnected ==
  /\ webSocket = "connecting" /\ net
  /\ webSocket' = "closed"
  /\ inetRq' = FALSE
  /\ inetOk' = TRUE
  /\ UNCHANGED <<inetTimeout, net, downFor>>

\* The system gives up on the connection; nobody is told.
ConnectFails ==
  /\ webSocket = "connecting" /\ ~net
  /\ webSocket' = "closed"
  /\ UNCHANGED <<inetTimeout, inetRq, inetOk, net, downFor>>

NetChanges ==
  /\ net' = ~net
  /\ downFor' = 0
  /\ UNCHANGED <<inetTimeout, inetRq, inetOk, webSocket>>

Next == Tick \/ inetConnected \/ ConnectFails \/ NetChanges

Spec == Init /\ [][Next]_vars

\* The timer goes on, and a connection that can be made is made.
FairSpec == Spec /\ WF_vars(Tick) /\ WF_vars(inetConnected)

-----------------------------------------------------------------------------

\* Two rounds of checks after the Internet was lost, the lamp is off: the first
\* may have found it up still, the second waits for the third
\* (mainwindow.cpp:663-682).
LampLag ==
  inetOk /\ ~net => downFor < 2 * (INET_TIMEOUT + 2)

\* A check is made while a connection that can be made is still awaited.
CheckIsEarly ==
  /\ inetTimeout > INET_TIMEOUT /\ inetTimeout' = 0
  /\ webSocket = "connecting" /\ net

\* When the Internet stays up the lamp comes on again and again, and stays on
\* if connections are made in time; when it stays down, the lamp ends up off
\* (mainwindow.cpp:162-185, 663-682).
LampConverges ==
  /\ <>[]net => []<>inetOk
  /\ <>[]net /\ <>[][~CheckIsEarly]_vars => <>[]inetOk
  /\ <>[]~net => <>[]~inetOk

=============================================================================
