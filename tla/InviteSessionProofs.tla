------------------------- MODULE InviteSessionProofs -------------------------
(***************************************************************************)
(* Proofs about InviteSession, for every server between the ends: one      *)
(* inductive invariant, the safety properties that follow from it, and     *)
(* the safety part of what CallSession promises, step by step.             *)
(***************************************************************************)
EXTENDS InviteSession, TLAPS

\* The reports a program has had of a call that is set up, established, over.
Early == {<< >>, <<"ring">>}
Established == {<<"established">>, <<"ring", "established">>}
Over == {<<"ended">>, <<"ring", "ended">>, <<"established", "ended">>,
         <<"ring", "established", "ended">>}

\* What was sent tells of the sessions that sent it: a callee is called by an
\* INVITE (with credentials, when they are asked for), a BYE is of a session.
Requests ==
  /\ state["caller"] = "NULL" <=> invite = "none"
  /\ Sent("invite", "caller") => state["caller"] # "NULL"
  /\ Sent("invite2", "caller") => state["caller"] # "NULL" /\ authorized
  /\ Sent("challenge", "callee") \/ Sent("challenge2", "callee") => challenging
  /\ answer # "none" => state["caller"] # "NULL" /\ (challenging => authorized)
  /\ state["callee"] # "NULL" => answer # "none"
  /\ \A type \in {"trying", "ringing", "ok"} :
       Sent(type, "callee") => state["callee"] # "NULL"
  /\ \A e \in End : Sent("bye", e) => state["callee"] # "NULL"
  /\ Sent("bye", "callee") => state["callee"] # "EARLY"
  /\ \A e \in End : bye[e] # "none" => Sent("bye", e)

\* The caller's session and its INVITE, and what it sends when.
Calling ==
  /\ state["caller"] # "CONNECTING"
  /\ state["caller"] = "CALLING" => Unanswered
  /\ state["caller"] = "EARLY" => invite = "proceeding"
  /\ state["caller"] = "CONFIRMED" => invite = "answered"
  /\ invite = "answered" => state["caller"] \in {"CONFIRMED", "DISCONNECTED"}
  /\ invite \in {"refused", "timedOut"} => state["caller"] = "DISCONNECTED"
  /\ invite \in {"proceeding", "answered"} => state["callee"] # "NULL"
  /\ challenging /\ ~authorized /\ Unanswered /\ ~hangingUp["caller"] =>
       state["caller"] = "CALLING"
  /\ hangingUp["caller"] => state["caller"] # "NULL"
  /\ cancel # "none" \/ pendingCancel => hangingUp["caller"]
  /\ Sent("ack", "caller") => state["caller"] \in {"CONFIRMED", "DISCONNECTED"}
  /\ Sent("cancel", "caller") => answer # "none"
  /\ hangingUp["caller"] /\ state["caller"] = "CONFIRMED" => Sent("bye", "caller")

\* The callee's session and its answer.
Called ==
  /\ state["callee"] # "CALLING"
  /\ state["callee"] = "NULL" => answer \in {"none", "refused"}
  /\ state["callee"] = "EARLY" <=> answer = "proceeding"
  /\ state["callee"] = "CONNECTING" => answer \in {"answered", "timedOut"}
  /\ state["callee"] = "CONFIRMED" => answer = "acked" /\ Sent("ack", "caller")
  /\ hangingUp["callee"] =>
       state["callee"] \in {"CONNECTING", "CONFIRMED", "DISCONNECTED"}
  /\ cause = 408 => answer = "timedOut"
  /\ Sent("bye", "callee") => answer = "timedOut" \/ Sent("ack", "caller")

\* What each program was told fits the state of its session.
ToldInv ==
  \A e \in End :
    /\ state[e] \in {"NULL", "CALLING"} => told[e] = << >>
    /\ state[e] \in {"EARLY", "CONNECTING"} => told[e] \in Early
    /\ state[e] = "CONFIRMED" => told[e] \in Established
    /\ state[e] = "DISCONNECTED" => told[e] \in Over

IInv == TypeOK /\ Requests /\ Calling /\ Called /\ ToldInv

SaidBye == Sent("bye", "caller") \/ Sent("bye", "callee")

\* What is known of the calls that end without a BYE: a caller was refused, or gave
\* up before the answer; a callee had not answered.
Parting ==
  /\ invite = "answered" => Sent("ok", "callee")
  /\ Sent("ack", "caller") => invite \in {"answered", "timedOut"}
  /\ Sent("ok", "callee") => state["callee"] # "EARLY"
  /\ Sent("ok", "callee") /\ state["callee"] = "DISCONNECTED" => SaidBye
  /\ state["caller"] = "DISCONNECTED" =>
       \/ SaidBye
       \/ invite \in {"refused", "timedOut"}
       \/ told["caller"] = <<"ended">>

-----------------------------------------------------------------------------

\* Before the first call the inductive invariant holds.
LEMMA InitIInv == Init => IInv
<1> SUFFICES ASSUME Init PROVE IInv
  OBVIOUS
<1> USE InviteSessionAssumption DEF Init, End
<1>1. TypeOK
  <2>1. << >> \in Signals
    BY DEF Signals
  <2>2. QED
    BY <2>1 DEF TypeOK, State
<1>2. Requests /\ Calling /\ Called
  <2>1. Requests
    BY DEF Requests, Sent
  <2>2. Calling
    BY DEF Calling, Sent, Unanswered
  <2>3. Called
    BY DEF Called, Sent
  <2>4. QED
    BY <2>1, <2>2, <2>3
<1>3. ToldInv
  BY DEF ToldInv
<1>4. QED
  BY <1>1, <1>2, <1>3 DEF IInv

\* Nothing is sent by a session that does not exist, or before it may be.
LEMMA RequestsStep == IInv /\ [Next]_vars => Requests'
<1> SUFFICES ASSUME TypeOK, Requests, Calling, Called, [Next]_vars
             PROVE  Requests'
  BY DEF IInv
<1> USE DEF TypeOK, Requests, Calling, Called, Sent, Msg, End, Unanswered
<1>1. CASE MakeCall
  BY <1>1 DEF MakeCall, calleeVars
<1>2. CASE CallerHangsUp
  BY <1>2 DEF CallerHangsUp, CancelOut, ByeOut, Keep, calleeVars
<1>3. CASE \E type \in {"trying", "ringing"} : Provisional(type)
  BY <1>3 DEF Provisional, CancelOut, SetState, Keep, Unanswered, calleeVars
<1>4. CASE Challenged
  BY <1>4 DEF Challenged, Unanswered, Disconnect, SetState, calleeVars
<1>5. CASE Rejected
  BY <1>5 DEF Rejected, Unanswered, Disconnect, SetState, calleeVars
<1>6. CASE Answered
  BY <1>6 DEF Answered, Unanswered, SetState, Keep, ByeOut, calleeVars
<1>7. CASE AnsweredLate
  BY <1>7 DEF AnsweredLate, Keep, callerVars, calleeVars
<1>8. CASE InviteTimesOut
  BY <1>8 DEF InviteTimesOut, InviteTimer, Disconnect, SetState, calleeVars
<1>9. CASE CancelAnswered
  BY <1>9 DEF CancelAnswered, Keep, calleeVars
<1>10. CASE CancelTimesOut
  BY <1>10 DEF CancelTimesOut, Disconnect, SetState, ByeOut, calleeVars
<1>11. CASE Challenges
  BY <1>11 DEF Challenges, callerVars
<1>12. CASE IsCalled
  BY <1>12 DEF IsCalled, SetState, Keep, callerVars
<1>13. CASE Accepts
  BY <1>13 DEF Accepts, callerVars
<1>14. CASE CalleeHangsUp
  BY <1>14 DEF CalleeHangsUp, HangUpCodes, Cause, ByeWaits, Disconnect,
       SetState, Keep, ByeOut, callerVars
<1>15. CASE IsCancelled
  BY <1>15 DEF IsCancelled, Cause, Disconnect, SetState, Keep, callerVars
<1>16. CASE Acknowledged
  BY <1>16 DEF Acknowledged, SetState, Keep, ByeOut, callerVars
<1>17. CASE AckTimesOut
  BY <1>17 DEF AckTimesOut, Cause, ByeWaits, Keep, ByeOut, callerVars
<1>18. CASE \E e \in End : IsLeft(e)
  BY <1>18 DEF IsLeft, Other, Disconnect, SetState, Keep, Cause, callerVars
<1>19. CASE \E e \in End : ByeAnswered(e) \/ ByeTimesOut(e)
  BY <1>19 DEF ByeAnswered, ByeTimesOut, ByeEnds, Disconnect, SetState, Cause,
       callerVars
<1>20. CASE UNCHANGED vars
  BY <1>20 DEF vars, callerVars, calleeVars
<1>21. QED
  BY <1>1, <1>2, <1>3, <1>4, <1>5, <1>6, <1>7, <1>8, <1>9, <1>10, <1>11, <1>12,
       <1>13, <1>14, <1>15, <1>16, <1>17, <1>18, <1>19, <1>20 DEF Next,
       CallerStep, CalleeStep

\* The caller's state, its transaction and what it sent stay in agreement.
LEMMA CallingStep == IInv /\ [Next]_vars => Calling'
<1> SUFFICES ASSUME TypeOK, Requests, Calling, Called, [Next]_vars
             PROVE  Calling'
  BY DEF IInv
<1> USE DEF TypeOK, Requests, Calling, Called, Sent, Msg, End, Unanswered
<1>1. CASE MakeCall
  BY <1>1 DEF MakeCall, calleeVars
<1>2. CASE CallerHangsUp
  BY <1>2 DEF CallerHangsUp, CancelOut, ByeOut, Keep, calleeVars
<1>3. CASE \E type \in {"trying", "ringing"} : Provisional(type)
  BY <1>3 DEF Provisional, CancelOut, SetState, Keep, Unanswered, calleeVars
<1>4. CASE Challenged
  BY <1>4 DEF Challenged, Unanswered, Disconnect, SetState, calleeVars
<1>5. CASE Rejected
  BY <1>5 DEF Rejected, Unanswered, Disconnect, SetState, calleeVars
<1>6. CASE Answered
  BY <1>6 DEF Answered, Unanswered, SetState, Keep, ByeOut, calleeVars
<1>7. CASE AnsweredLate
  BY <1>7 DEF AnsweredLate, Keep, callerVars, calleeVars
<1>8. CASE InviteTimesOut
  BY <1>8 DEF InviteTimesOut, InviteTimer, Disconnect, SetState, calleeVars
<1>9. CASE CancelAnswered
  BY <1>9 DEF CancelAnswered, Keep, calleeVars
<1>10. CASE CancelTimesOut
  BY <1>10 DEF CancelTimesOut, Disconnect, SetState, ByeOut, calleeVars
<1>11. CASE Challenges
  BY <1>11 DEF Challenges, callerVars
<1>12. CASE IsCalled
  BY <1>12 DEF IsCalled, SetState, Keep, callerVars
<1>13. CASE Accepts
  BY <1>13 DEF Accepts, callerVars
<1>14. CASE CalleeHangsUp
  BY <1>14 DEF CalleeHangsUp, HangUpCodes, Cause, ByeWaits, Disconnect,
       SetState, Keep, ByeOut, callerVars
<1>15. CASE IsCancelled
  BY <1>15 DEF IsCancelled, Cause, Disconnect, SetState, Keep, callerVars
<1>16. CASE Acknowledged
  BY <1>16 DEF Acknowledged, SetState, Keep, ByeOut, callerVars
<1>17. CASE AckTimesOut
  BY <1>17 DEF AckTimesOut, Cause, ByeWaits, Keep, ByeOut, callerVars
<1>18. CASE \E e \in End : IsLeft(e)
  BY <1>18 DEF IsLeft, Other, Disconnect, SetState, Keep, Cause, callerVars
<1>19. CASE \E e \in End : ByeAnswered(e) \/ ByeTimesOut(e)
  BY <1>19 DEF ByeAnswered, ByeTimesOut, ByeEnds, Disconnect, SetState, Cause,
       callerVars
<1>20. CASE UNCHANGED vars
  BY <1>20 DEF vars, callerVars, calleeVars
<1>21. QED
  BY <1>1, <1>2, <1>3, <1>4, <1>5, <1>6, <1>7, <1>8, <1>9, <1>10, <1>11, <1>12,
       <1>13, <1>14, <1>15, <1>16, <1>17, <1>18, <1>19, <1>20 DEF Next,
       CallerStep, CalleeStep

\* So do the callee's state, its answer and the ACK it waits for.
LEMMA CalledStep == IInv /\ [Next]_vars => Called'
<1> SUFFICES ASSUME TypeOK, Requests, Calling, Called, [Next]_vars
             PROVE  Called'
  BY DEF IInv
<1> USE DEF TypeOK, Requests, Calling, Called, Sent, Msg, End, Unanswered
<1>1. CASE MakeCall
  BY <1>1 DEF MakeCall, calleeVars
<1>2. CASE CallerHangsUp
  BY <1>2 DEF CallerHangsUp, CancelOut, ByeOut, Keep, calleeVars
<1>3. CASE \E type \in {"trying", "ringing"} : Provisional(type)
  BY <1>3 DEF Provisional, CancelOut, SetState, Keep, Unanswered, calleeVars
<1>4. CASE Challenged
  BY <1>4 DEF Challenged, Unanswered, Disconnect, SetState, calleeVars
<1>5. CASE Rejected
  BY <1>5 DEF Rejected, Unanswered, Disconnect, SetState, calleeVars
<1>6. CASE Answered
  BY <1>6 DEF Answered, Unanswered, SetState, Keep, ByeOut, calleeVars
<1>7. CASE AnsweredLate
  BY <1>7 DEF AnsweredLate, Keep, callerVars, calleeVars
<1>8. CASE InviteTimesOut
  BY <1>8 DEF InviteTimesOut, InviteTimer, Disconnect, SetState, calleeVars
<1>9. CASE CancelAnswered
  BY <1>9 DEF CancelAnswered, Keep, calleeVars
<1>10. CASE CancelTimesOut
  BY <1>10 DEF CancelTimesOut, Disconnect, SetState, ByeOut, calleeVars
<1>11. CASE Challenges
  BY <1>11 DEF Challenges, callerVars
<1>12. CASE IsCalled
  BY <1>12 DEF IsCalled, SetState, Keep, callerVars
<1>13. CASE Accepts
  BY <1>13 DEF Accepts, callerVars
<1>14. CASE CalleeHangsUp
  BY <1>14 DEF CalleeHangsUp, HangUpCodes, Cause, ByeWaits, Disconnect,
       SetState, Keep, ByeOut, callerVars
<1>15. CASE IsCancelled
  BY <1>15 DEF IsCancelled, Cause, Disconnect, SetState, Keep, callerVars
<1>16. CASE Acknowledged
  BY <1>16 DEF Acknowledged, SetState, Keep, ByeOut, callerVars
<1>17. CASE AckTimesOut
  BY <1>17 DEF AckTimesOut, Cause, ByeWaits, Keep, ByeOut, callerVars
<1>18. CASE \E e \in End : IsLeft(e)
  BY <1>18 DEF IsLeft, Other, Disconnect, SetState, Keep, Cause, callerVars
<1>19. CASE \E e \in End : ByeAnswered(e) \/ ByeTimesOut(e)
  BY <1>19 DEF ByeAnswered, ByeTimesOut, ByeEnds, Disconnect, SetState, Cause,
       callerVars
<1>20. CASE UNCHANGED vars
  BY <1>20 DEF vars, callerVars, calleeVars
<1>21. QED
  BY <1>1, <1>2, <1>3, <1>4, <1>5, <1>6, <1>7, <1>8, <1>9, <1>10, <1>11, <1>12,
       <1>13, <1>14, <1>15, <1>16, <1>17, <1>18, <1>19, <1>20 DEF Next,
       CallerStep, CalleeStep

-----------------------------------------------------------------------------
(* What a step does to one end, in the terms of CallSession *)

Stays(e) ==
  /\ state'[e] = state[e]
  /\ hangingUp'[e] = hangingUp[e]
  /\ told'[e] = told[e]

CallsOut(e) ==
  /\ state[e] = "NULL" /\ state'[e] = "CALLING"
  /\ ~hangingUp[e] /\ ~hangingUp'[e]
  /\ told'[e] = told[e]

Rung(e) ==
  /\ state[e] = "NULL" /\ state'[e] = "EARLY"
  /\ ~hangingUp[e] /\ ~hangingUp'[e]
  /\ told'[e] = Tell(told[e], "ring")
  /\ e = "callee"

RingsBack(e) ==
  /\ state[e] \in {"CALLING", "EARLY"} /\ state'[e] = "EARLY"
  /\ hangingUp'[e] = hangingUp[e]
  /\ told'[e] \in {told[e], Tell(told[e], "ring")}
  /\ e = "caller"

Answers(e) ==
  /\ state[e] = "EARLY" /\ state'[e] = "CONNECTING"
  /\ ~hangingUp[e] /\ ~hangingUp'[e]
  /\ told'[e] = told[e]
  /\ e = "callee"

Confirms(e) ==
  /\ \/ e = "caller" /\ state[e] \in {"CALLING", "EARLY"}
     \/ e = "callee" /\ state[e] = "CONNECTING"
  /\ state'[e] = "CONFIRMED"
  /\ hangingUp'[e] = hangingUp[e]
  /\ told'[e] = Tell(told[e], "established")

GivesUp(e) ==
  /\ \/ e = "caller" /\ state[e] \in {"CALLING", "EARLY", "CONFIRMED"}
     \/ e = "callee" /\ state[e] \in {"CONNECTING", "CONFIRMED"}
  /\ state'[e] = state[e]
  /\ ~hangingUp[e] /\ hangingUp'[e]
  /\ told'[e] = told[e]

IsOver(e) ==
  /\ state[e] \notin {"NULL", "DISCONNECTED"}
  /\ state'[e] = "DISCONNECTED"
  /\ told'[e] = Tell(told[e], "ended")

Moves(e) ==
  \/ Stays(e) \/ CallsOut(e) \/ Rung(e) \/ RingsBack(e)
  \/ Answers(e) \/ Confirms(e) \/ GivesUp(e) \/ IsOver(e)

\* Every step is one of these moves at each end.
LEMMA EveryMove ==
  IInv /\ [Next]_vars =>
    /\ told' = [e \in End |-> told'[e]]
    /\ \A e \in End : Moves(e)
<1> SUFFICES ASSUME TypeOK, Requests, Calling, Called, [Next]_vars
             PROVE  /\ told' = [e \in End |-> told'[e]]
                    /\ \A e \in End : Moves(e)
  BY DEF IInv
<1> USE DEF TypeOK, Requests, Calling, Called, Sent, Msg, End, Unanswered, Moves,
            Stays, CallsOut, Rung, RingsBack, Answers, Confirms, GivesUp, IsOver
<1>1. CASE MakeCall
  BY <1>1 DEF MakeCall, calleeVars
<1>2. CASE CallerHangsUp
  <2>1. told' = [e \in End |-> told'[e]]
    BY <1>2 DEF CallerHangsUp, CancelOut, ByeOut, Keep, calleeVars
  <2>2. GivesUp("caller")
    BY <1>2 DEF CallerHangsUp, CancelOut, ByeOut, Keep, calleeVars
  <2>3. Stays("callee")
    BY <1>2 DEF CallerHangsUp, CancelOut, ByeOut, Keep, calleeVars
  <2>4. QED
    BY <2>1, <2>2, <2>3
<1>3. CASE \E type \in {"trying", "ringing"} : Provisional(type)
  BY <1>3 DEF Provisional, CancelOut, SetState, Keep, Unanswered, calleeVars
<1>4. CASE Challenged
  BY <1>4 DEF Challenged, Unanswered, Disconnect, SetState, calleeVars
<1>5. CASE Rejected
  BY <1>5 DEF Rejected, Unanswered, Disconnect, SetState, calleeVars
<1>6. CASE Answered
  <2>1. told' = [e \in End |-> told'[e]]
    BY <1>6 DEF Answered, Unanswered, SetState, Keep, ByeOut, calleeVars
  <2>2. Stays("caller") \/ Confirms("caller")
    <3>1. CASE state["caller"] = "DISCONNECTED"
      BY <1>6, <3>1 DEF Answered, Keep
    <3>2. CASE state["caller"] # "DISCONNECTED"
      <4>1. SetState("caller", "CONFIRMED", "established") /\ hangingUp' = hangingUp
        BY <1>6, <3>2 DEF Answered
      <4>2. state["caller"] \in {"CALLING", "EARLY"}
        BY <1>6, <3>2 DEF Answered, State
      <4>3. QED
        BY <4>1, <4>2 DEF SetState
    <3>3. QED
      BY <3>1, <3>2
  <2>3. Stays("callee")
    BY <1>6 DEF Answered, Unanswered, SetState, Keep, ByeOut, calleeVars
  <2>4. QED
    BY <2>1, <2>2, <2>3
<1>7. CASE AnsweredLate
  BY <1>7 DEF AnsweredLate, Keep, callerVars, calleeVars
<1>8. CASE InviteTimesOut
  BY <1>8 DEF InviteTimesOut, InviteTimer, Disconnect, SetState, calleeVars
<1>9. CASE CancelAnswered
  BY <1>9 DEF CancelAnswered, Keep, calleeVars
<1>10. CASE CancelTimesOut
  BY <1>10 DEF CancelTimesOut, Disconnect, SetState, ByeOut, calleeVars
<1>11. CASE Challenges
  BY <1>11 DEF Challenges, callerVars
<1>12. CASE IsCalled
  BY <1>12 DEF IsCalled, SetState, Keep, callerVars
<1>13. CASE Accepts
  BY <1>13 DEF Accepts, callerVars
<1>14. CASE CalleeHangsUp
  <2>1. told' = [e \in End |-> told'[e]]
    BY <1>14 DEF CalleeHangsUp, HangUpCodes, Cause, ByeWaits, Disconnect,
         SetState, Keep, ByeOut, callerVars
  <2>2. Stays("caller")
    BY <1>14 DEF CalleeHangsUp, HangUpCodes, Cause, ByeWaits, Disconnect,
         SetState, Keep, ByeOut, callerVars
  <2>3. GivesUp("callee") \/ IsOver("callee")
    BY <1>14 DEF CalleeHangsUp, HangUpCodes, Cause, ByeWaits, Disconnect,
         SetState, Keep, ByeOut, callerVars
  <2>4. QED
    BY <2>1, <2>2, <2>3
<1>15. CASE IsCancelled
  BY <1>15 DEF IsCancelled, Cause, Disconnect, SetState, Keep, callerVars
<1>16. CASE Acknowledged
  BY <1>16 DEF Acknowledged, SetState, Keep, ByeOut, callerVars
<1>17. CASE AckTimesOut
  BY <1>17 DEF AckTimesOut, Cause, ByeWaits, Keep, ByeOut, callerVars
<1>18. CASE \E e \in End : IsLeft(e)
  BY <1>18 DEF IsLeft, Other, Disconnect, SetState, Keep, Cause, callerVars
<1>19. CASE \E e \in End : ByeAnswered(e) \/ ByeTimesOut(e)
  BY <1>19 DEF ByeAnswered, ByeTimesOut, ByeEnds, Disconnect, SetState, Cause,
       callerVars
<1>20. CASE UNCHANGED vars
  BY <1>20 DEF vars, callerVars, calleeVars
<1> HIDE DEF TypeOK, Requests, Calling, Called, Sent, Msg, End, Unanswered,
             Moves, Stays, CallsOut, Rung, RingsBack, Answers, Confirms,
             GivesUp, IsOver
<1>21. QED
  BY <1>1, <1>2, <1>3, <1>4, <1>5, <1>6, <1>7, <1>8, <1>9, <1>10, <1>11, <1>12,
       <1>13, <1>14, <1>15, <1>16, <1>17, <1>18, <1>19, <1>20
    DEF Next, CallerStep, CalleeStep

\* Append to a sequence of one element, and of two
LEMMA AppendOne == ASSUME NEW a, NEW b PROVE Append(<<b>>, a) = <<b, a>>
<1> DEFINE s == <<b>>  t == <<b, a>>  S == {a, b}
<1>1. s \in Seq(S) /\ t \in Seq(S) /\ Append(s, a) \in Seq(S)
  OBVIOUS
<1>2. Len(s) = 1 /\ s[1] = b /\ Len(t) = 2 /\ t[1] = b /\ t[2] = a
  OBVIOUS
<1>3. Len(Append(s, a)) = 2 /\ Append(s, a)[1] = b /\ Append(s, a)[2] = a
  BY <1>1, <1>2
<1> HIDE DEF s, t, S
<1>4. Append(s, a) = t
  BY <1>1, <1>2, <1>3
<1> QED
  BY <1>4 DEF s, t

LEMMA AppendTwo == ASSUME NEW a, NEW b, NEW c PROVE Append(<<b, c>>, a) = <<b, c, a>>
<1> DEFINE s == <<b, c>>  t == <<b, c, a>>  S == {a, b, c}
<1>1. s \in Seq(S) /\ t \in Seq(S) /\ Append(s, a) \in Seq(S)
  OBVIOUS
<1>2. /\ Len(s) = 2 /\ s[1] = b /\ s[2] = c
      /\ Len(t) = 3 /\ t[1] = b /\ t[2] = c /\ t[3] = a
  OBVIOUS
<1>3. /\ Len(Append(s, a)) = 3
      /\ Append(s, a)[1] = b /\ Append(s, a)[2] = c /\ Append(s, a)[3] = a
  BY <1>1, <1>2
<1> HIDE DEF s, t, S
<1>4. Append(s, a) = t
  BY <1>1, <1>2, <1>3
<1> QED
  BY <1>4 DEF s, t

\* One more report fits the state that comes with it.
LEMMA Heard ==
  /\ << >> \in Early
  /\ \A signals \in Early :
       /\ Tell(signals, "ring") \in Early
       /\ Tell(signals, "established") \in Established
       /\ Tell(signals, "ended") \in Over
  /\ \A signals \in Established : Tell(signals, "ended") \in Over
  /\ Early \cup Established \cup Over = Signals
<1>1. ASSUME NEW signals, NEW new, new # "ring" \/ signals = << >>
      PROVE  Tell(signals, new) = Append(signals, new)
  BY <1>1 DEF Tell
<1>2. Tell(<<"ring">>, "ring") = <<"ring">>
  <2>1. <<"ring">>[Len(<<"ring">>)] = "ring" /\ <<"ring">> # << >>
    OBVIOUS
  <2>2. QED
    BY <2>1 DEF Tell
<1>3. \A new : Append(<< >>, new) = <<new>>
  OBVIOUS
<1>4. \A old, new : Append(<<old>>, new) = <<old, new>>
  BY AppendOne
<1>5. \A first, old, new : Append(<<first, old>>, new) = <<first, old, new>>
  BY AppendTwo
<1>6. Tell(<< >>, "ring") = <<"ring">>
  BY <1>1, <1>3
<1>7. /\ Tell(<< >>, "established") = <<"established">>
      /\ Tell(<< >>, "ended") = <<"ended">>
  <2>1. Tell(<< >>, "established") = Append(<< >>, "established")
    BY <1>1, Zenon
  <2>2. Tell(<< >>, "ended") = Append(<< >>, "ended")
    BY <1>1, Zenon
  <2>3. QED
    BY <1>3, <2>1, <2>2, Zenon
<1>8. /\ Tell(<<"ring">>, "established") = <<"ring", "established">>
      /\ Tell(<<"ring">>, "ended") = <<"ring", "ended">>
      /\ Tell(<<"established">>, "ended") = <<"established", "ended">>
  <2>1. /\ Tell(<<"ring">>, "established") = Append(<<"ring">>, "established")
        /\ Tell(<<"ring">>, "ended") = Append(<<"ring">>, "ended")
        /\ Tell(<<"established">>, "ended") = Append(<<"established">>, "ended")
    BY <1>1, Zenon
  <2>2. QED
    BY <1>4, <2>1, Zenon
<1>9. Tell(<<"ring", "established">>, "ended") = <<"ring", "established", "ended">>
  <2>1. Tell(<<"ring", "established">>, "ended")
          = Append(<<"ring", "established">>, "ended")
    BY <1>1, Zenon
  <2>2. QED
    BY <1>5, <2>1, Zenon
<1>10. << >> \in Early /\ Early \cup Established \cup Over = Signals
  BY Zenon DEF Early, Established, Over, Signals
<1>11. ASSUME NEW signals \in Early
       PROVE  /\ Tell(signals, "ring") \in Early
              /\ Tell(signals, "established") \in Established
              /\ Tell(signals, "ended") \in Over
  <2>1. CASE signals = << >>
    BY <2>1, <1>6, <1>7, Zenon DEF Early, Established, Over
  <2>2. CASE signals = <<"ring">>
    BY <2>2, <1>2, <1>8, Zenon DEF Early, Established, Over
  <2>3. QED
    BY <2>1, <2>2, Zenon DEF Early
<1>12. ASSUME NEW signals \in Established
       PROVE  Tell(signals, "ended") \in Over
  <2>1. CASE signals = <<"established">>
    BY <2>1, <1>8, Zenon DEF Over
  <2>2. CASE signals = <<"ring", "established">>
    BY <2>2, <1>9, Zenon DEF Over
  <2>3. QED
    BY <2>1, <2>2, Zenon DEF Established
<1>13. QED
  BY <1>10, <1>11, <1>12, Zenon

\* The reports a program has had go on fitting the state of its session.
LEMMA ToldStep == IInv /\ [Next]_vars => told' \in [End -> Signals] /\ ToldInv'
<1> SUFFICES ASSUME IInv, [Next]_vars
             PROVE  told' \in [End -> Signals] /\ ToldInv'
  OBVIOUS
<1>1. told' = [e \in End |-> told'[e]] /\ \A e \in End : Moves(e)
  BY EveryMove
<1> DEFINE Fits(s, signals) ==
      /\ s \in {"NULL", "CALLING"} => signals = << >>
      /\ s \in {"EARLY", "CONNECTING"} => signals \in Early
      /\ s = "CONFIRMED" => signals \in Established
      /\ s = "DISCONNECTED" => signals \in Over
<1>2. ASSUME NEW e \in End
      PROVE  told'[e] \in Signals /\ Fits(state'[e], told'[e])
  <2>1. told[e] \in Signals /\ state[e] \in State /\ Fits(state[e], told[e])
    BY DEF IInv, TypeOK, ToldInv
  <2>2. /\ \A signals \in Early :
             /\ Tell(signals, "ring") \in Early
             /\ Tell(signals, "established") \in Established
             /\ Tell(signals, "ended") \in Over
        /\ \A signals \in Established : Tell(signals, "ended") \in Over
        /\ << >> \in Early
        /\ \A signals : signals \in Early \/ signals \in Established \/ signals \in Over
                          => signals \in Signals
    BY Heard, Zenon
  <2>3. CASE Stays(e) \/ GivesUp(e)
    BY <2>1, <2>3 DEF Stays, GivesUp
  <2>4. CASE CallsOut(e)
    BY <2>1, <2>2, <2>4 DEF CallsOut
  <2>5. CASE Rung(e) \/ RingsBack(e)
    BY <2>1, <2>2, <2>5 DEF Rung, RingsBack
  <2>6. CASE Answers(e)
    BY <2>1, <2>2, <2>6 DEF Answers
  <2>7. CASE Confirms(e)
    BY <2>1, <2>2, <2>7 DEF Confirms
  <2>8. CASE IsOver(e)
    BY <2>1, <2>2, <2>8 DEF IsOver, State
  <2>9. QED
    BY <1>1, <2>3, <2>4, <2>5, <2>6, <2>7, <2>8 DEF Moves
<1>3. QED
  BY <1>1, <1>2 DEF ToldInv

\* Every step keeps the types.
LEMMA TypeStep == IInv /\ [Next]_vars => TypeOK'
<1> SUFFICES ASSUME TypeOK, Requests, Calling, Called,
                    told' \in [End -> Signals], [Next]_vars
             PROVE  TypeOK'
  BY ToldStep DEF IInv
<1>1. wire' \subseteq Message
  <2>a. /\ \A type \in {"invite", "invite2", "ack", "cancel"} :
             Msg(type, "caller") \in Message
        /\ \A type \in {"challenge", "challenge2", "trying", "ringing", "ok",
                        "refused", "cancelDone"} :
             Msg(type, "callee") \in Message
        /\ \A type \in {"bye", "byeDone"}, e \in End : Msg(type, e) \in Message
    BY DEF Msg, Message
  <2>b. wire \subseteq Message
    BY DEF TypeOK
  <2> USE <2>a, <2>b DEF End
  <2>1. CASE MakeCall
    BY <2>1 DEF MakeCall, calleeVars
  <2>2. CASE CallerHangsUp
    BY <2>2 DEF CallerHangsUp, CancelOut, ByeOut, Keep, calleeVars
  <2>3. CASE \E type \in {"trying", "ringing"} : Provisional(type)
    BY <2>3 DEF Provisional, CancelOut, SetState, Keep, Unanswered, calleeVars
  <2>4. CASE Challenged
    BY <2>4 DEF Challenged, Unanswered, Disconnect, SetState, calleeVars
  <2>5. CASE Rejected
    BY <2>5 DEF Rejected, Unanswered, Disconnect, SetState, calleeVars
  <2>6. CASE Answered
    BY <2>6 DEF Answered, Unanswered, SetState, Keep, ByeOut, calleeVars
  <2>7. CASE AnsweredLate
    BY <2>7 DEF AnsweredLate, Keep, callerVars, calleeVars
  <2>8. CASE InviteTimesOut
    BY <2>8 DEF InviteTimesOut, InviteTimer, Disconnect, SetState, calleeVars
  <2>9. CASE CancelAnswered
    BY <2>9 DEF CancelAnswered, Keep, calleeVars
  <2>10. CASE CancelTimesOut
    BY <2>10 DEF CancelTimesOut, Disconnect, SetState, ByeOut, calleeVars
  <2>11. CASE Challenges
    BY <2>11 DEF Challenges, callerVars
  <2>12. CASE IsCalled
    BY <2>12 DEF IsCalled, SetState, Keep, callerVars
  <2>13. CASE Accepts
    BY <2>13 DEF Accepts, callerVars
  <2>14. CASE CalleeHangsUp
    BY <2>14 DEF CalleeHangsUp, HangUpCodes, Cause, ByeWaits, Disconnect,
         SetState, Keep, ByeOut, callerVars
  <2>15. CASE IsCancelled
    BY <2>15 DEF IsCancelled, Cause, Disconnect, SetState, Keep, callerVars
  <2>16. CASE Acknowledged
    BY <2>16 DEF Acknowledged, SetState, Keep, ByeOut, callerVars
  <2>17. CASE AckTimesOut
    BY <2>17 DEF AckTimesOut, Cause, ByeWaits, Keep, ByeOut, callerVars
  <2>18. CASE \E e \in End : IsLeft(e)
    BY <2>18 DEF IsLeft, Other, Disconnect, SetState, Keep, Cause, callerVars
  <2>19. CASE \E e \in End : ByeAnswered(e) \/ ByeTimesOut(e)
    BY <2>19 DEF ByeAnswered, ByeTimesOut, ByeEnds, Disconnect, SetState,
         Cause, callerVars
  <2>20. CASE UNCHANGED vars
    BY <2>20 DEF vars, callerVars, calleeVars
  <2>21. QED
    BY <2>1, <2>2, <2>3, <2>4, <2>5, <2>6, <2>7, <2>8, <2>9, <2>10, <2>11,
         <2>12, <2>13, <2>14, <2>15, <2>16, <2>17, <2>18, <2>19, <2>20 DEF
         Next, CallerStep, CalleeStep
<1> DEFINE Codes == {0, 200, 408, 486, 487, 603}
<1>2. cause' \in Codes
  <2>a. cause \in Codes /\ \A code \in Codes : Cause(code) \in Codes
    BY DEF TypeOK, Cause
  <2>b. 200 \in Codes /\ 408 \in Codes /\ 487 \in Codes
    OBVIOUS
  <2>c. HangUpCodes \subseteq Codes
    <3>1. CASE state["callee"] = "EARLY"
      <4>1. HangUpCodes = {486, 603}
        BY <3>1 DEF HangUpCodes
      <4>2. QED
        BY <4>1
    <3>2. CASE state["callee"] = "CONNECTING"
      <4>1. HangUpCodes = {200, 603}
        BY <3>2 DEF HangUpCodes
      <4>2. QED
        BY <4>1
    <3>3. CASE state["callee"] \notin {"EARLY", "CONNECTING"}
      <4>1. HangUpCodes = {200}
        BY <3>3 DEF HangUpCodes
      <4>2. QED
        BY <4>1
    <3>4. QED
      BY <3>1, <3>2, <3>3
  <2> HIDE DEF Codes
  <2> USE <2>a, <2>b, <2>c
  <2>1. CASE MakeCall
    BY <2>1 DEF MakeCall, calleeVars
  <2>2. CASE CallerHangsUp
    BY <2>2 DEF CallerHangsUp, CancelOut, ByeOut, Keep, calleeVars
  <2>3. CASE \E type \in {"trying", "ringing"} : Provisional(type)
    BY <2>3 DEF Provisional, CancelOut, SetState, Keep, Unanswered, calleeVars
  <2>4. CASE Challenged
    BY <2>4 DEF Challenged, Unanswered, Disconnect, SetState, calleeVars
  <2>5. CASE Rejected
    BY <2>5 DEF Rejected, Unanswered, Disconnect, SetState, calleeVars
  <2>6. CASE Answered
    BY <2>6 DEF Answered, Unanswered, SetState, Keep, ByeOut, calleeVars
  <2>7. CASE AnsweredLate
    BY <2>7 DEF AnsweredLate, Keep, callerVars, calleeVars
  <2>8. CASE InviteTimesOut
    BY <2>8 DEF InviteTimesOut, InviteTimer, Disconnect, SetState, calleeVars
  <2>9. CASE CancelAnswered
    BY <2>9 DEF CancelAnswered, Keep, calleeVars
  <2>10. CASE CancelTimesOut
    BY <2>10 DEF CancelTimesOut, Disconnect, SetState, ByeOut, calleeVars
  <2>11. CASE Challenges
    BY <2>11 DEF Challenges, callerVars
  <2>12. CASE IsCalled
    BY <2>12 DEF IsCalled, SetState, Keep, callerVars
  <2>13. CASE Accepts
    BY <2>13 DEF Accepts, callerVars
  <2>14. CASE CalleeHangsUp
    BY <2>14 DEF CalleeHangsUp, Disconnect, SetState, Keep, ByeOut, callerVars
  <2>15. CASE IsCancelled
    BY <2>15 DEF IsCancelled, Disconnect, SetState, Keep, callerVars
  <2>16. CASE Acknowledged
    BY <2>16 DEF Acknowledged, SetState, Keep, ByeOut, callerVars
  <2>17. CASE AckTimesOut
    BY <2>17 DEF AckTimesOut, Keep, ByeOut, callerVars
  <2>18. CASE \E e \in End : IsLeft(e)
    BY <2>18 DEF IsLeft, Other, Disconnect, SetState, Keep, callerVars
  <2>19. CASE \E e \in End : ByeAnswered(e) \/ ByeTimesOut(e)
    BY <2>19 DEF ByeAnswered, ByeTimesOut, ByeEnds, Disconnect, SetState,
         callerVars
  <2>20. CASE UNCHANGED vars
    BY <2>20 DEF vars, callerVars, calleeVars
  <2>21. QED
    BY <2>1, <2>2, <2>3, <2>4, <2>5, <2>6, <2>7, <2>8, <2>9, <2>10, <2>11,
         <2>12, <2>13, <2>14, <2>15, <2>16, <2>17, <2>18, <2>19, <2>20 DEF
         Next, CallerStep, CalleeStep
<1> DEFINE Rest ==
      /\ challenging' \in BOOLEAN
      /\ state' \in [End -> State]
      /\ hangingUp' \in [End -> BOOLEAN]
      /\ bye' \in [End -> {"none", "pending", "over"}]
      /\ byeSeen' \in [End -> BOOLEAN]
      /\ invite' \in {"none", "calling", "proceeding", "refused", "answered",
                      "timedOut"}
      /\ authorized' \in BOOLEAN
      /\ cancel' \in {"none", "pending", "over"}
      /\ pendingCancel' \in BOOLEAN
      /\ answer' \in {"none", "proceeding", "refused", "answered", "acked",
                      "timedOut"}
      /\ pendingBye' \in BOOLEAN
<1>3. Rest
  <2> USE DEF TypeOK, End, State
  <2>1. CASE MakeCall
    BY <2>1 DEF MakeCall, calleeVars
  <2>2. CASE CallerHangsUp
    <3>1. challenging' \in BOOLEAN /\ byeSeen' \in [End -> BOOLEAN]
      BY <2>2 DEF CallerHangsUp, CancelOut, ByeOut, Keep, calleeVars
    <3>2. state' \in [End -> State]
      BY <2>2 DEF CallerHangsUp, CancelOut, ByeOut, Keep, calleeVars
    <3>3. hangingUp' \in [End -> BOOLEAN]
      BY <2>2 DEF CallerHangsUp, CancelOut, ByeOut, Keep, calleeVars
    <3>4. bye' \in [End -> {"none", "pending", "over"}]
      BY <2>2 DEF CallerHangsUp, CancelOut, ByeOut, Keep, calleeVars
    <3>5. /\ invite' \in {"none", "calling", "proceeding", "refused", "answered",
                          "timedOut"}
          /\ cancel' \in {"none", "pending", "over"}
      BY <2>2 DEF CallerHangsUp, CancelOut, ByeOut, Keep, calleeVars
    <3>6. answer' \in {"none", "proceeding", "refused", "answered", "acked",
                       "timedOut"}
      BY <2>2 DEF CallerHangsUp, CancelOut, ByeOut, Keep, calleeVars
    <3>7. authorized' \in BOOLEAN
      BY <2>2, ZenonT(60)
      DEF CallerHangsUp, CancelOut, ByeOut, Keep, calleeVars
    <3>8. pendingCancel' \in BOOLEAN
      BY <2>2, ZenonT(60)
      DEF CallerHangsUp, CancelOut, ByeOut, Keep, calleeVars
    <3>9. pendingBye' \in BOOLEAN
      BY <2>2, ZenonT(60)
      DEF CallerHangsUp, CancelOut, ByeOut, Keep, calleeVars
    <3>10. QED
      BY <3>1, <3>2, <3>3, <3>4, <3>5, <3>6, <3>7, <3>8, <3>9
  <2>3. CASE \E type \in {"trying", "ringing"} : Provisional(type)
    <3>1. challenging' \in BOOLEAN /\ byeSeen' \in [End -> BOOLEAN]
      BY <2>3 DEF Provisional, CancelOut, SetState, Keep, Unanswered,
           calleeVars
    <3>2. state' \in [End -> State]
      BY <2>3 DEF Provisional, CancelOut, SetState, Keep, Unanswered,
           calleeVars
    <3>3. hangingUp' \in [End -> BOOLEAN]
      BY <2>3 DEF Provisional, CancelOut, SetState, Keep, Unanswered,
           calleeVars
    <3>4. bye' \in [End -> {"none", "pending", "over"}]
      BY <2>3 DEF Provisional, CancelOut, SetState, Keep, Unanswered,
           calleeVars
    <3>5. /\ invite' \in {"none", "calling", "proceeding", "refused", "answered",
                          "timedOut"}
          /\ cancel' \in {"none", "pending", "over"}
      BY <2>3 DEF Provisional, CancelOut, SetState, Keep, Unanswered,
           calleeVars
    <3>6. answer' \in {"none", "proceeding", "refused", "answered", "acked",
                       "timedOut"}
      BY <2>3 DEF Provisional, CancelOut, SetState, Keep, Unanswered,
           calleeVars
    <3>7. authorized' \in BOOLEAN
      BY <2>3, ZenonT(60)
      DEF Provisional, CancelOut, SetState, Keep, Unanswered,
           calleeVars
    <3>8. pendingCancel' \in BOOLEAN
      <4>1. pendingCancel' = FALSE \/ pendingCancel' = pendingCancel
        BY <2>3, ZenonT(60) DEF Provisional
      <4>2. QED
        BY <4>1, ZenonT(60)
    <3>9. pendingBye' \in BOOLEAN
      BY <2>3, ZenonT(60)
      DEF Provisional, CancelOut, SetState, Keep, Unanswered,
           calleeVars
    <3>10. QED
      BY <3>1, <3>2, <3>3, <3>4, <3>5, <3>6, <3>7, <3>8, <3>9
  <2>4. CASE Challenged
    <3>1. challenging' \in BOOLEAN /\ byeSeen' \in [End -> BOOLEAN]
      BY <2>4 DEF Challenged, Unanswered, Disconnect, SetState, calleeVars
    <3>2. state' \in [End -> State]
      BY <2>4 DEF Challenged, Unanswered, Disconnect, SetState, calleeVars
    <3>3. hangingUp' \in [End -> BOOLEAN]
      BY <2>4 DEF Challenged, Unanswered, Disconnect, SetState, calleeVars
    <3>4. bye' \in [End -> {"none", "pending", "over"}]
      BY <2>4 DEF Challenged, Unanswered, Disconnect, SetState, calleeVars
    <3>5. /\ invite' \in {"none", "calling", "proceeding", "refused", "answered",
                          "timedOut"}
          /\ cancel' \in {"none", "pending", "over"}
      BY <2>4 DEF Challenged, Unanswered, Disconnect, SetState, calleeVars
    <3>6. answer' \in {"none", "proceeding", "refused", "answered", "acked",
                       "timedOut"}
      BY <2>4 DEF Challenged, Unanswered, Disconnect, SetState, calleeVars
    <3>7. authorized' \in BOOLEAN
      BY <2>4, ZenonT(60)
      DEF Challenged, Unanswered, Disconnect, SetState, calleeVars
    <3>8. pendingCancel' \in BOOLEAN
      BY <2>4, ZenonT(60)
      DEF Challenged, Unanswered, Disconnect, SetState, calleeVars
    <3>9. pendingBye' \in BOOLEAN
      BY <2>4, ZenonT(60)
      DEF Challenged, Unanswered, Disconnect, SetState, calleeVars
    <3>10. QED
      BY <3>1, <3>2, <3>3, <3>4, <3>5, <3>6, <3>7, <3>8, <3>9
  <2>5. CASE Rejected
    BY <2>5 DEF Rejected, Unanswered, Disconnect, SetState, calleeVars
  <2>6. CASE Answered
    BY <2>6 DEF Answered, Unanswered, SetState, Keep, ByeOut, calleeVars
  <2>7. CASE AnsweredLate
    BY <2>7 DEF AnsweredLate, Keep, callerVars, calleeVars
  <2>8. CASE InviteTimesOut
    BY <2>8 DEF InviteTimesOut, InviteTimer, Disconnect, SetState, calleeVars
  <2>9. CASE CancelAnswered
    BY <2>9 DEF CancelAnswered, Keep, calleeVars
  <2>10. CASE CancelTimesOut
    BY <2>10 DEF CancelTimesOut, Disconnect, SetState, ByeOut, calleeVars
  <2>11. CASE Challenges
    BY <2>11 DEF Challenges, callerVars
  <2>12. CASE IsCalled
    BY <2>12 DEF IsCalled, SetState, Keep, callerVars
  <2>13. CASE Accepts
    BY <2>13 DEF Accepts, callerVars
  <2>14. CASE CalleeHangsUp
    <3>1. challenging' \in BOOLEAN /\ byeSeen' \in [End -> BOOLEAN]
      BY <2>14 DEF CalleeHangsUp, Disconnect, SetState, Keep, ByeOut,
           callerVars
    <3>2. state' \in [End -> State]
      BY <2>14 DEF CalleeHangsUp, Disconnect, SetState, Keep, ByeOut,
           callerVars
    <3>3. hangingUp' \in [End -> BOOLEAN]
      BY <2>14 DEF CalleeHangsUp, Disconnect, SetState, Keep, ByeOut,
           callerVars
    <3>4. bye' \in [End -> {"none", "pending", "over"}]
      BY <2>14 DEF CalleeHangsUp, Disconnect, SetState, Keep, ByeOut,
           callerVars
    <3>5. /\ invite' \in {"none", "calling", "proceeding", "refused", "answered",
                          "timedOut"}
          /\ cancel' \in {"none", "pending", "over"}
      BY <2>14 DEF CalleeHangsUp, Disconnect, SetState, Keep, ByeOut,
           callerVars
    <3>6. answer' \in {"none", "proceeding", "refused", "answered", "acked",
                       "timedOut"}
      BY <2>14 DEF CalleeHangsUp, Disconnect, SetState, Keep, ByeOut,
           callerVars
    <3>7. authorized' \in BOOLEAN
      BY <2>14, ZenonT(60)
      DEF CalleeHangsUp, Disconnect, SetState, Keep, ByeOut,
           callerVars
    <3>8. pendingCancel' \in BOOLEAN
      BY <2>14, ZenonT(60)
      DEF CalleeHangsUp, Disconnect, SetState, Keep, ByeOut,
           callerVars
    <3>9. pendingBye' \in BOOLEAN
      BY <2>14, ZenonT(60)
      DEF CalleeHangsUp, Disconnect, SetState, Keep, ByeOut,
           callerVars
    <3>10. QED
      BY <3>1, <3>2, <3>3, <3>4, <3>5, <3>6, <3>7, <3>8, <3>9
  <2>15. CASE IsCancelled
    BY <2>15 DEF IsCancelled, Disconnect, SetState, Keep, callerVars
  <2>16. CASE Acknowledged
    <3>1. challenging' \in BOOLEAN /\ byeSeen' \in [End -> BOOLEAN]
      BY <2>16 DEF Acknowledged, SetState, Keep, ByeOut, callerVars
    <3>2. state' \in [End -> State]
      BY <2>16 DEF Acknowledged, SetState, Keep, ByeOut, callerVars
    <3>3. hangingUp' \in [End -> BOOLEAN]
      BY <2>16 DEF Acknowledged, SetState, Keep, ByeOut, callerVars
    <3>4. bye' \in [End -> {"none", "pending", "over"}]
      BY <2>16 DEF Acknowledged, SetState, Keep, ByeOut, callerVars
    <3>5. /\ invite' \in {"none", "calling", "proceeding", "refused", "answered",
                          "timedOut"}
          /\ cancel' \in {"none", "pending", "over"}
      BY <2>16 DEF Acknowledged, SetState, Keep, ByeOut, callerVars
    <3>6. answer' \in {"none", "proceeding", "refused", "answered", "acked",
                       "timedOut"}
      BY <2>16 DEF Acknowledged, SetState, Keep, ByeOut, callerVars
    <3>7. authorized' \in BOOLEAN
      BY <2>16, ZenonT(60)
      DEF Acknowledged, SetState, Keep, ByeOut, callerVars
    <3>8. pendingCancel' \in BOOLEAN
      BY <2>16, ZenonT(60)
      DEF Acknowledged, SetState, Keep, ByeOut, callerVars
    <3>9. pendingBye' \in BOOLEAN
      BY <2>16, ZenonT(60)
      DEF Acknowledged, SetState, Keep, ByeOut, callerVars
    <3>10. QED
      BY <3>1, <3>2, <3>3, <3>4, <3>5, <3>6, <3>7, <3>8, <3>9
  <2>17. CASE AckTimesOut
    <3>1. challenging' \in BOOLEAN /\ byeSeen' \in [End -> BOOLEAN]
      BY <2>17 DEF AckTimesOut, Keep, ByeOut, callerVars
    <3>2. state' \in [End -> State]
      BY <2>17 DEF AckTimesOut, Keep, ByeOut, callerVars
    <3>3. hangingUp' \in [End -> BOOLEAN]
      BY <2>17 DEF AckTimesOut, Keep, ByeOut, callerVars
    <3>4. bye' \in [End -> {"none", "pending", "over"}]
      BY <2>17 DEF AckTimesOut, Keep, ByeOut, callerVars
    <3>5. /\ invite' \in {"none", "calling", "proceeding", "refused", "answered",
                          "timedOut"}
          /\ cancel' \in {"none", "pending", "over"}
      BY <2>17 DEF AckTimesOut, Keep, ByeOut, callerVars
    <3>6. answer' \in {"none", "proceeding", "refused", "answered", "acked",
                       "timedOut"}
      BY <2>17 DEF AckTimesOut, Keep, ByeOut, callerVars
    <3>7. authorized' \in BOOLEAN
      BY <2>17, ZenonT(60)
      DEF AckTimesOut, Keep, ByeOut, callerVars
    <3>8. pendingCancel' \in BOOLEAN
      BY <2>17, ZenonT(60)
      DEF AckTimesOut, Keep, ByeOut, callerVars
    <3>9. pendingBye' \in BOOLEAN
      BY <2>17, ZenonT(60)
      DEF AckTimesOut, Keep, ByeOut, callerVars
    <3>10. QED
      BY <3>1, <3>2, <3>3, <3>4, <3>5, <3>6, <3>7, <3>8, <3>9
  <2>18. CASE \E e \in End : IsLeft(e)
    BY <2>18 DEF IsLeft, Other, Disconnect, SetState, Keep, callerVars
  <2>19. CASE \E e \in End : ByeAnswered(e) \/ ByeTimesOut(e)
    BY <2>19 DEF ByeAnswered, ByeTimesOut, ByeEnds, Disconnect, SetState,
         callerVars
  <2>20. CASE UNCHANGED vars
    BY <2>20 DEF vars, callerVars, calleeVars
  <2>21. QED
    BY <2>1, <2>2, <2>3, <2>4, <2>5, <2>6, <2>7, <2>8, <2>9, <2>10, <2>11,
         <2>12, <2>13, <2>14, <2>15, <2>16, <2>17, <2>18, <2>19, <2>20 DEF
         Next, CallerStep, CalleeStep
<1>4. QED
  BY <1>1, <1>2, <1>3 DEF TypeOK

\* The invariant is inductive.
LEMMA StepIInv == IInv /\ [Next]_vars => IInv'
BY RequestsStep, CallingStep, CalledStep, ToldStep, TypeStep DEF IInv

LEMMA Invariance == Spec => []IInv
BY InitIInv, StepIInv, PTL DEF Spec

-----------------------------------------------------------------------------

\* The variables of both ends and the wire keep their types, and the reports
\* a program has of its call are one of the eight sequences that make sense
\* (sip_inv.c:200-303, pjsua_call.c:3735-3905).
THEOREM SessionTypeOK == Spec => []TypeOK
<1>1. IInv => TypeOK
  BY DEF IInv
<1>2. QED
  BY Invariance, <1>1, PTL

\* A callee that is CONFIRMED has seen the ACK, which only a caller sends that
\* was answered (sip_inv.c:419-456, 497-528).
THEOREM AreEstablishedTogether == Spec => []EstablishedTogether
<1>1. IInv => EstablishedTogether
  BY DEF IInv, Calling, Called, EstablishedTogether
<1>2. QED
  BY Invariance, <1>1, PTL

\* An answer that crosses the hang-up of the caller is followed by BYE
\* (pjsua_call.c:4815-4824).
THEOREM CrossedAnswerIsToldBye == Spec => []CrossedAnswerIsLeft
<1>1. IInv => CrossedAnswerIsLeft
  BY DEF IInv, Calling, CrossedAnswerIsLeft
<1>2. QED
  BY Invariance, <1>1, PTL

\* CANCEL leaves only when a provisional response has come, so that there is a
\* call to cancel; a callee says BYE to a caller that has its answer, or has waited
\* for the ACK in vain (sip_inv.c:2437-2452, 3123-3139, 383, 4541-4559).
THEOREM RequestsAreInOrder == Spec => []RequestsInOrder
<1>1. IInv => RequestsInOrder
  BY DEF IInv, Calling, Called, RequestsInOrder
<1>2. QED
  BY Invariance, <1>1, PTL

\* What is known of the end of a call stays true.
LEMMA PartingStep == IInv /\ Parting /\ [Next]_vars => Parting'
<1> SUFFICES ASSUME TypeOK, Requests, Calling, Called, Parting, [Next]_vars,
                    state["caller"] = "CALLING" => told["caller"] = << >>
             PROVE  Parting'
  BY DEF IInv, ToldInv, End
<1> USE DEF TypeOK, Requests, Calling, Called, Parting, SaidBye, Sent, Msg, End,
            Unanswered
<1>1. CASE MakeCall
  BY <1>1 DEF MakeCall, calleeVars
<1>2. CASE CallerHangsUp
  BY <1>2 DEF CallerHangsUp, CancelOut, ByeOut, Keep, calleeVars
<1>3. CASE \E type \in {"trying", "ringing"} : Provisional(type)
  BY <1>3 DEF Provisional, CancelOut, SetState, Keep, Unanswered, calleeVars
<1>4. CASE Challenged
  BY <1>4 DEF Challenged, Unanswered, Disconnect, SetState, calleeVars
<1>5. CASE Rejected
  BY <1>5 DEF Rejected, Unanswered, Disconnect, SetState, calleeVars
<1>6. CASE Answered
  BY <1>6 DEF Answered, Unanswered, SetState, Keep, ByeOut, calleeVars
<1>7. CASE AnsweredLate
  BY <1>7 DEF AnsweredLate, Keep, callerVars, calleeVars
<1>8. CASE InviteTimesOut
  BY <1>8 DEF InviteTimesOut, InviteTimer, Disconnect, SetState, calleeVars
<1>9. CASE CancelAnswered
  BY <1>9 DEF CancelAnswered, Keep, calleeVars
<1>10. CASE CancelTimesOut
  <2>1. CASE state["caller"] \in {"EARLY", "CONFIRMED"}
    BY <1>10, <2>1 DEF CancelTimesOut, Disconnect, SetState, ByeOut, calleeVars
  <2>2. CASE state["caller"] = "CALLING"
    <3>1. Tell(<< >>, "ended") = <<"ended">>
      BY DEF Tell
    <3>2. told' = [told EXCEPT !["caller"] = <<"ended">>]
      BY <1>10, <2>2, <3>1 DEF CancelTimesOut, Disconnect, SetState
    <3>3. told'["caller"] = <<"ended">>
      BY <3>2
    <3>4. QED
      BY <1>10, <2>2, <3>3 DEF CancelTimesOut, Disconnect, SetState, calleeVars
  <2>3. CASE state["caller"] = "DISCONNECTED"
    BY <1>10, <2>3 DEF CancelTimesOut, Disconnect, calleeVars
  <2>4. state["caller"] \in {"CALLING", "EARLY", "CONFIRMED", "DISCONNECTED"}
    BY <1>10 DEF CancelTimesOut, State
  <2>5. QED
    BY <2>1, <2>2, <2>3, <2>4
<1>11. CASE Challenges
  BY <1>11 DEF Challenges, callerVars
<1>12. CASE IsCalled
  BY <1>12 DEF IsCalled, SetState, Keep, callerVars
<1>13. CASE Accepts
  BY <1>13 DEF Accepts, callerVars
<1>14. CASE CalleeHangsUp
  BY <1>14 DEF CalleeHangsUp, HangUpCodes, Cause, ByeWaits, Disconnect,
       SetState, Keep, ByeOut, callerVars
<1>15. CASE IsCancelled
  BY <1>15 DEF IsCancelled, Cause, Disconnect, SetState, Keep, callerVars
<1>16. CASE Acknowledged
  BY <1>16 DEF Acknowledged, SetState, Keep, ByeOut, callerVars
<1>17. CASE AckTimesOut
  BY <1>17 DEF AckTimesOut, Cause, ByeWaits, Keep, ByeOut, callerVars
<1>18. CASE \E e \in End : IsLeft(e)
  BY <1>18 DEF IsLeft, Other, Disconnect, SetState, Keep, Cause, callerVars
<1>19. CASE \E e \in End : ByeAnswered(e) \/ ByeTimesOut(e)
  BY <1>19 DEF ByeAnswered, ByeTimesOut, ByeEnds, Disconnect, SetState, Cause,
       callerVars
<1>20. CASE UNCHANGED vars
  BY <1>20 DEF vars, callerVars, calleeVars
<1>21. QED
  BY <1>1, <1>2, <1>3, <1>4, <1>5, <1>6, <1>7, <1>8, <1>9, <1>10, <1>11, <1>12,
       <1>13, <1>14, <1>15, <1>16, <1>17, <1>18, <1>19, <1>20 DEF Next,
       CallerStep, CalleeStep

\* Whoever leaves an established call says good-bye, but for a caller that gave up
\* before the answer came (sip_inv.c:629-640, 3874-3895, 4494-4565).
THEOREM LeavingIsSaid == Spec => []GoodByeIsSaid
<1>1. Init => Parting
  BY InviteSessionAssumption DEF Init, Parting, SaidBye, Sent, End
<1>2. IInv /\ Parting => GoodByeIsSaid
  BY DEF IInv, Calling, Called, Parting, SaidBye, GoodByeIsSaid, End, Other
<1>3. QED
  BY <1>1, <1>2, InitIInv, StepIInv, PartingStep, PTL DEF Spec

-----------------------------------------------------------------------------
(* The refinement of CallSession *)

\* Seen, as a function of the state and the flag it is made from
View(e, s, h) ==
  CASE s = "NULL" -> "free"
    [] s = "DISCONNECTED" -> "gone"
    [] h /\ s = "CONFIRMED" -> "leaving"
    [] h /\ s \in {"CALLING", "EARLY", "CONNECTING"} -> "cancelling"
    [] ~h /\ s = "CALLING" -> "calling"
    [] ~h /\ s = "EARLY" -> IF e = "caller" THEN "early" ELSE "ringing"
    [] ~h /\ s = "CONNECTING" -> "answered"
    [] ~h /\ s = "CONFIRMED" -> "confirmed"

\* A session is seen by its state and whether it was hung up.
LEMMA SeenIsView ==
  \A e \in End : /\ Seen(e) = View(e, state[e], hangingUp[e])
                 /\ Seen(e)' = View(e, state'[e], hangingUp'[e])
BY Zenon DEF Seen, View

\* What each state looks like
LEMMA Views ==
  ASSUME NEW e \in End, NEW h \in BOOLEAN
  PROVE  /\ View(e, "NULL", h) = "free"
         /\ View(e, "DISCONNECTED", h) = "gone"
         /\ View(e, "CONFIRMED", h) = IF h THEN "leaving" ELSE "confirmed"
         /\ View(e, "CALLING", h) = IF h THEN "cancelling" ELSE "calling"
         /\ View("caller", "EARLY", h) = IF h THEN "cancelling" ELSE "early"
         /\ View("callee", "EARLY", FALSE) = "ringing"
         /\ View(e, "CONNECTING", h) = IF h THEN "cancelling" ELSE "answered"
<1>1. View(e, "NULL", h) = "free"
  BY DEF View
<1>2. View(e, "DISCONNECTED", h) = "gone"
  BY DEF View
<1>3. View(e, "CONFIRMED", h) = IF h THEN "leaving" ELSE "confirmed"
  BY DEF View
<1>4. View(e, "CALLING", h) = IF h THEN "cancelling" ELSE "calling"
  BY DEF View
<1>5. View("caller", "EARLY", h) = IF h THEN "cancelling" ELSE "early"
  BY DEF View
<1>6. View("callee", "EARLY", FALSE) = "ringing"
  BY DEF View
<1>7. View(e, "CONNECTING", h) = IF h THEN "cancelling" ELSE "answered"
  BY DEF View
<1>8. QED
  BY <1>1, <1>2, <1>3, <1>4, <1>5, <1>6, <1>7

\* Each step of the system is a step of CallSession at the caller, or none.
LEMMA CallerTurn == IInv /\ [Next]_vars => [CallerSession!Next]_(CallerSession!vars)
<1> SUFFICES ASSUME IInv, [Next]_vars
             PROVE  CallerSession!Next \/ UNCHANGED CallerSession!vars
  OBVIOUS
<1> DEFINE e == "caller"
<1>1. Moves(e) /\ e \in End
  BY EveryMove DEF End
<1>2. /\ Seen(e) = View(e, state[e], hangingUp[e])
      /\ Seen(e)' = View(e, state'[e], hangingUp'[e])
  BY <1>1, SeenIsView, Zenon
<1>3. /\ hangingUp[e] \in BOOLEAN /\ hangingUp'[e] \in BOOLEAN
      /\ state[e] \in State
  BY <1>1, TypeStep DEF IInv, TypeOK
<1>4. \A h \in BOOLEAN :
        /\ View(e, "NULL", h) = "free"
        /\ View(e, "DISCONNECTED", h) = "gone"
        /\ View(e, "CONFIRMED", h) = IF h THEN "leaving" ELSE "confirmed"
        /\ View(e, "CALLING", h) = IF h THEN "cancelling" ELSE "calling"
        /\ View("caller", "EARLY", h) = IF h THEN "cancelling" ELSE "early"
        /\ View("callee", "EARLY", FALSE) = "ringing"
        /\ View(e, "CONNECTING", h) = IF h THEN "cancelling" ELSE "answered"
  BY <1>1, Views
<1>5. \A signals, new : CallerSession!Tell(signals, new) = Tell(signals, new)
  BY DEF CallerSession!Tell, Tell
<1>6. /\ state["caller"] # "CONNECTING" /\ state["callee"] # "CALLING"
      /\ hangingUp["callee"] => state["callee"] \notin {"NULL", "EARLY"}
  BY DEF IInv, Calling, Called
<1>7. CASE Stays(e)
  BY <1>2, <1>7 DEF Stays, CallerSession!vars
<1>8. CASE CallsOut(e)
  <2>1. CallerSession!Calls
    BY <1>2, <1>3, <1>4, <1>8 DEF CallsOut, CallerSession!Calls
  <2>2. QED
    BY <2>1 DEF CallerSession!Next
<1>9. CASE Rung(e)
  <2>1. CallerSession!IsCalled
    BY <1>2, <1>3, <1>4, <1>5, <1>9 DEF Rung, CallerSession!IsCalled
  <2>2. QED
    BY <2>1 DEF CallerSession!Next
<1>10. CASE RingsBack(e)
  <2>1. CallerSession!Rings
    BY <1>2, <1>3, <1>4, <1>5, <1>10, ZenonT(60) DEF RingsBack,
       CallerSession!Rings
  <2>2. QED
    BY <2>1 DEF CallerSession!Next
<1>11. CASE Answers(e)
  <2>1. CallerSession!Accepts
    BY <1>2, <1>3, <1>4, <1>5, <1>11 DEF Answers, CallerSession!Accepts
  <2>2. QED
    BY <2>1 DEF CallerSession!Next
<1>12. CASE Confirms(e)
  <2>1. CallerSession!IsEstablished
    BY <1>2, <1>3, <1>4, <1>5, <1>12, ZenonT(60) DEF Confirms,
       CallerSession!IsEstablished
  <2>2. QED
    BY <2>1 DEF CallerSession!Next
<1>13. CASE GivesUp(e)
  <2>1. CallerSession!HangsUp
    BY <1>2, <1>3, <1>4, <1>5, <1>13, ZenonT(60) DEF GivesUp,
       CallerSession!HangsUp
  <2>2. QED
    BY <2>1 DEF CallerSession!Next
<1>14. CASE IsOver(e)
  <2>1. Seen(e) \notin {"free", "gone"}
    BY <1>2, <1>3, <1>4, <1>6, <1>14, ZenonT(60) DEF IsOver, State
  <2>2. CallerSession!Ends
    BY <2>1, <1>2, <1>3, <1>4, <1>5, <1>14 DEF IsOver, CallerSession!Ends
  <2>3. QED
    BY <2>2 DEF CallerSession!Next
<1>15. QED
  BY <1>1, <1>7, <1>8, <1>9, <1>10, <1>11, <1>12, <1>13, <1>14 DEF Moves

\* The same at the callee
LEMMA CalleeTurn == IInv /\ [Next]_vars => [CalleeSession!Next]_(CalleeSession!vars)
<1> SUFFICES ASSUME IInv, [Next]_vars
             PROVE  CalleeSession!Next \/ UNCHANGED CalleeSession!vars
  OBVIOUS
<1> DEFINE e == "callee"
<1>1. Moves(e) /\ e \in End
  BY EveryMove DEF End
<1>2. /\ Seen(e) = View(e, state[e], hangingUp[e])
      /\ Seen(e)' = View(e, state'[e], hangingUp'[e])
  BY <1>1, SeenIsView, Zenon
<1>3. /\ hangingUp[e] \in BOOLEAN /\ hangingUp'[e] \in BOOLEAN
      /\ state[e] \in State
  BY <1>1, TypeStep DEF IInv, TypeOK
<1>4. \A h \in BOOLEAN :
        /\ View(e, "NULL", h) = "free"
        /\ View(e, "DISCONNECTED", h) = "gone"
        /\ View(e, "CONFIRMED", h) = IF h THEN "leaving" ELSE "confirmed"
        /\ View(e, "CALLING", h) = IF h THEN "cancelling" ELSE "calling"
        /\ View("caller", "EARLY", h) = IF h THEN "cancelling" ELSE "early"
        /\ View("callee", "EARLY", FALSE) = "ringing"
        /\ View(e, "CONNECTING", h) = IF h THEN "cancelling" ELSE "answered"
  BY <1>1, Views
<1>5. \A signals, new : CalleeSession!Tell(signals, new) = Tell(signals, new)
  BY DEF CalleeSession!Tell, Tell
<1>6. /\ state["caller"] # "CONNECTING" /\ state["callee"] # "CALLING"
      /\ hangingUp["callee"] => state["callee"] \notin {"NULL", "EARLY"}
  BY DEF IInv, Calling, Called
<1>7. CASE Stays(e)
  BY <1>2, <1>7 DEF Stays, CalleeSession!vars
<1>8. CASE CallsOut(e)
  <2>1. CalleeSession!Calls
    BY <1>2, <1>3, <1>4, <1>8 DEF CallsOut, CalleeSession!Calls
  <2>2. QED
    BY <2>1 DEF CalleeSession!Next
<1>9. CASE Rung(e)
  <2>1. CalleeSession!IsCalled
    BY <1>2, <1>3, <1>4, <1>5, <1>9 DEF Rung, CalleeSession!IsCalled
  <2>2. QED
    BY <2>1 DEF CalleeSession!Next
<1>10. CASE RingsBack(e)
  <2>1. CalleeSession!Rings
    BY <1>2, <1>3, <1>4, <1>5, <1>10 DEF RingsBack, CalleeSession!Rings
  <2>2. QED
    BY <2>1 DEF CalleeSession!Next
<1>11. CASE Answers(e)
  <2>1. CalleeSession!Accepts
    BY <1>2, <1>3, <1>4, <1>5, <1>11 DEF Answers, CalleeSession!Accepts
  <2>2. QED
    BY <2>1 DEF CalleeSession!Next
<1>12. CASE Confirms(e)
  <2>1. CalleeSession!IsEstablished
    BY <1>2, <1>3, <1>4, <1>5, <1>12, ZenonT(60) DEF Confirms,
       CalleeSession!IsEstablished
  <2>2. QED
    BY <2>1 DEF CalleeSession!Next
<1>13. CASE GivesUp(e)
  <2>1. CalleeSession!HangsUp
    BY <1>2, <1>3, <1>4, <1>5, <1>13 DEF GivesUp, CalleeSession!HangsUp
  <2>2. QED
    BY <2>1 DEF CalleeSession!Next
<1>14. CASE IsOver(e)
  <2>1. Seen(e) \notin {"free", "gone"}
    BY <1>2, <1>3, <1>4, <1>6, <1>14, ZenonT(60) DEF IsOver, State
  <2>2. CalleeSession!Ends
    BY <2>1, <1>2, <1>3, <1>4, <1>5, <1>14 DEF IsOver, CalleeSession!Ends
  <2>3. QED
    BY <2>2 DEF CalleeSession!Next
<1>15. QED
  BY <1>1, <1>7, <1>8, <1>9, <1>10, <1>11, <1>12, <1>13, <1>14 DEF Moves

\* Whatever is lost, late or repeated on the way and whoever hangs up when, the
\* caller's program is told of its call what CallSession allows: the states and
\* the reports in order, the end once and last (sip_inv.c:200-303, 4494-4565).
\* That a call that was hung up does end, the fairness of CallSession, is left
\* to the run.
THEOREM CallerIsToldInOrder == Spec => CallerSession!Spec
<1>1. Init => CallerSession!Init
  <2> SUFFICES ASSUME Init PROVE CallerSession!Init
    OBVIOUS
  <2>1. Seen("caller") = View("caller", state["caller"], hangingUp["caller"])
    BY SeenIsView DEF End
  <2>2. /\ state["caller"] = "NULL" /\ hangingUp["caller"] = FALSE
        /\ told["caller"] = << >>
    BY DEF Init, End
  <2>3. QED
    BY <2>1, <2>2, Views DEF End, CallerSession!Init
<1>2. QED
  BY <1>1, Invariance, CallerTurn, PTL DEF Spec, CallerSession!Spec

\* The same of the callee's program
THEOREM CalleeIsToldInOrder == Spec => CalleeSession!Spec
<1>1. Init => CalleeSession!Init
  <2> SUFFICES ASSUME Init PROVE CalleeSession!Init
    OBVIOUS
  <2>1. Seen("callee") = View("callee", state["callee"], hangingUp["callee"])
    BY SeenIsView DEF End
  <2>2. /\ state["callee"] = "NULL" /\ hangingUp["callee"] = FALSE
        /\ told["callee"] = << >>
    BY DEF Init, End
  <2>3. QED
    BY <2>1, <2>2, Views DEF End, CalleeSession!Init
<1>2. QED
  BY <1>1, Invariance, CalleeTurn, PTL DEF Spec, CalleeSession!Spec

==============================================================================
