---------------------------- MODULE InviteSession ----------------------------
(***************************************************************************)
(* One call between two ends that both run the invite session of PJSIP     *)
(* (sip_inv.c, over sip_transaction.c and under pjsua_call.c), and the     *)
(* datagrams between them.                                                 *)
(*                                                                         *)
(* `wire' holds what was ever sent.  A message on it may arrive at any     *)
(* time, repeatedly, before others sent earlier, or never: so loss,        *)
(* reordering, duplicates and retransmission are all there.  Handlers run  *)
(* under the lock of the dialog, one at a time at each end.                *)
(***************************************************************************)
EXTENDS Naturals, Sequences

CONSTANTS
  Challenging   \* the kinds of server there are: one that asks the caller for
                \* credentials (TRUE), one that does not (FALSE)

ASSUME InviteSessionAssumption == Challenging \subseteq BOOLEAN

VARIABLES
  challenging,   \* the server between the ends asks for credentials
  state,         \* inv->state of each end
  hangingUp,     \* call->hanging_up, and inv->cancelling
  bye,           \* the client transaction of each end's BYE
  byeSeen,       \* each end has a server transaction for the other's BYE
  invite,        \* the caller's INVITE transaction
  authorized,    \* INVITE was sent again, with credentials
  cancel,        \* the caller's CANCEL transaction
  pendingCancel, \* inv->pending_cancel of the caller
  answer,        \* the callee's INVITE transaction
  pendingBye,    \* inv->pending_bye of the callee
  cause,         \* inv->cause of the callee
  wire,          \* the messages sent so far
  told           \* what each program was told, in order

callerVars == <<invite, authorized, cancel, pendingCancel>>
calleeVars == <<answer, pendingBye, cause>>
vars == <<challenging, state, hangingUp, bye, byeSeen, callerVars, calleeVars,
          wire, told>>

End == {"caller", "callee"}
Other(e) == IF e = "caller" THEN "callee" ELSE "caller"

State == {"NULL", "CALLING", "EARLY", "CONNECTING", "CONFIRMED", "DISCONNECTED"}

Message ==
  [type : {"invite", "invite2", "ack", "cancel"}, from : {"caller"}]
  \cup [type : {"challenge", "challenge2", "trying", "ringing", "ok", "refused",
                "cancelDone"}, from : {"callee"}]
  \cup [type : {"bye", "byeDone"}, from : End]

Signals ==
  {<< >>, <<"ring">>, <<"established">>, <<"ended">>, <<"ring", "established">>,
   <<"ring", "ended">>, <<"established", "ended">>,
   <<"ring", "established", "ended">>}

TypeOK ==
  /\ challenging \in BOOLEAN
  /\ state \in [End -> State]
  /\ hangingUp \in [End -> BOOLEAN]
  /\ bye \in [End -> {"none", "pending", "over"}]
  /\ byeSeen \in [End -> BOOLEAN]
  /\ invite \in {"none", "calling", "proceeding", "refused", "answered", "timedOut"}
  /\ authorized \in BOOLEAN
  /\ cancel \in {"none", "pending", "over"}
  /\ pendingCancel \in BOOLEAN
  /\ answer \in {"none", "proceeding", "refused", "answered", "acked", "timedOut"}
  /\ pendingBye \in BOOLEAN
  /\ cause \in {0, 200, 408, 486, 487, 603}
  /\ wire \subseteq Message
  /\ told \in [End -> Signals]

Init ==
  /\ challenging \in Challenging
  /\ state = [e \in End |-> "NULL"]
  /\ hangingUp = [e \in End |-> FALSE]
  /\ bye = [e \in End |-> "none"]
  /\ byeSeen = [e \in End |-> FALSE]
  /\ invite = "none"
  /\ authorized = FALSE
  /\ cancel = "none"
  /\ pendingCancel = FALSE
  /\ answer = "none"
  /\ pendingBye = FALSE
  /\ cause = 0
  /\ wire = {}
  /\ told = [e \in End |-> << >>]

-----------------------------------------------------------------------------

Msg(type, from) == [type |-> type, from |-> from]
Sent(type, from) == Msg(type, from) \in wire

Tell(signals, new) ==
  IF new = "ring" /\ signals # << >> /\ signals[Len(signals)] = "ring"
  THEN signals
  ELSE Append(signals, new)

\* inv_set_state, and the callback it makes
SetState(e, new, signal) ==
  /\ state' = [state EXCEPT ![e] = new]
  /\ told' = [told EXCEPT ![e] = Tell(told[e], signal)]

Disconnect(e) ==
  IF state[e] # "DISCONNECTED"
  THEN SetState(e, "DISCONNECTED", "ended")
  ELSE UNCHANGED <<state, told>>

Keep == UNCHANGED <<state, told>>

\* Mutant: a BYE that is waiting does not give way to a later cause.
CauseRaised(code) == IF code > cause THEN code ELSE cause

\* inv_set_cause
Cause(code) == IF code > cause \/ pendingBye THEN code ELSE cause

\* A BYE leaves; the transaction of an earlier one goes on.
ByeOut(e) ==
  bye' = [bye EXCEPT ![e] = IF bye[e] = "none" THEN "pending" ELSE bye[e]]

\* Mutant: the callee does not wait for the ACK.
ByeWaitsNever(code) == FALSE

\* pjsip_inv_send_msg: a callee does not send BYE before it has the ACK.
ByeWaits(code) ==
  state["callee"] = "CONNECTING" /\ code # 408

-----------------------------------------------------------------------------
(* The caller *)

MakeCall ==
  /\ state["caller"] = "NULL"
  /\ state' = [state EXCEPT !["caller"] = "CALLING"]
  /\ invite' = "calling"
  /\ wire' = wire \cup {Msg("invite", "caller")}
  /\ UNCHANGED <<challenging, hangingUp, bye, byeSeen, authorized, cancel,
                 pendingCancel, calleeVars, told>>

\* pjsip_inv_end_session of a call that is not answered, once there was a
\* provisional response
CancelOut ==
  /\ cancel' = "pending"
  /\ wire' = wire \cup {Msg("cancel", "caller")}

\* pjsua_call_hangup of the caller.  Without a provisional response nothing is
\* sent yet.
CallerHangsUp ==
  /\ state["caller"] \in {"CALLING", "EARLY", "CONFIRMED"}
  /\ ~hangingUp["caller"]
  /\ hangingUp' = [hangingUp EXCEPT !["caller"] = TRUE]
  /\ \/ /\ state["caller"] = "CONFIRMED"
        /\ ByeOut("caller")
        /\ wire' = wire \cup {Msg("bye", "caller")}
        /\ UNCHANGED <<cancel, pendingCancel>>
     \/ /\ state["caller"] # "CONFIRMED"
        /\ invite = "calling"
        /\ pendingCancel' = TRUE
        /\ UNCHANGED <<bye, cancel, wire>>
     \/ /\ state["caller"] # "CONFIRMED"
        /\ invite # "calling"
        /\ CancelOut
        /\ UNCHANGED <<bye, pendingCancel>>
  /\ Keep
  /\ UNCHANGED <<challenging, byeSeen, invite, authorized, calleeVars>>

Unanswered == invite \in {"calling", "proceeding"}

\* Mutant: a provisional response is handled whatever came before it.
ProvisionalAnyTime(type) ==
  /\ Sent(type, "callee")
  /\ invite' = "proceeding"
  /\ IF state["caller"] = "CALLING" /\ pendingCancel
     THEN CancelOut /\ pendingCancel' = FALSE
     ELSE UNCHANGED <<cancel, wire, pendingCancel>>
  /\ IF type = "ringing" THEN SetState("caller", "EARLY", "ring") ELSE Keep
  /\ UNCHANGED <<challenging, hangingUp, bye, byeSeen, authorized, calleeVars>>

\* inv_on_state_calling and inv_on_state_early, PROCEEDING: a CANCEL that was
\* waiting leaves; a response with a tag (or any, once a BYE gave the tag)
\* makes the dialog early, and 180 is reported each time, hung up or not.
Provisional(type) ==
  /\ Sent(type, "callee")
  /\ Unanswered
  /\ invite' = "proceeding"
  /\ IF state["caller"] = "CALLING" /\ pendingCancel
     THEN CancelOut /\ pendingCancel' = FALSE
     ELSE UNCHANGED <<cancel, wire, pendingCancel>>
  /\ \/ /\ state["caller"] \in {"CALLING", "EARLY"}
        /\ type = "ringing"
        /\ SetState("caller", "EARLY", "ring")
     \/ /\ state["caller"] \in {"CALLING", "EARLY"}
        /\ type = "trying"
        /\ state' = [state EXCEPT !["caller"] =
                       IF byeSeen["caller"] THEN "EARLY" ELSE state["caller"]]
        /\ UNCHANGED told
     \/ state["caller"] = "DISCONNECTED" /\ Keep
  /\ UNCHANGED <<challenging, hangingUp, bye, byeSeen, authorized, calleeVars>>

\* handle_uac_call_rejection, 401 and 407: INVITE goes out again with
\* credentials, unless the call was given up; one refusal of them is final.
Challenged ==
  /\ Unanswered
  /\ \/ /\ Sent("challenge", "callee") /\ ~authorized /\ ~hangingUp["caller"]
        /\ authorized' = TRUE
        /\ invite' = "calling"
        /\ state' = [state EXCEPT !["caller"] = "CALLING"]
        /\ wire' = wire \cup {Msg("invite2", "caller")}
        /\ UNCHANGED told
     \/ /\ \/ Sent("challenge", "callee") /\ ~authorized /\ hangingUp["caller"]
           \/ Sent("challenge2", "callee") /\ authorized
        /\ invite' = "refused"
        /\ Disconnect("caller")
        /\ UNCHANGED <<authorized, wire>>
  /\ UNCHANGED <<challenging, hangingUp, bye, byeSeen, cancel, pendingCancel,
                 calleeVars>>

\* handle_uac_call_rejection, any other final response but 2xx
Rejected ==
  /\ Unanswered
  /\ Sent("refused", "callee")
  /\ invite' = "refused"
  /\ Disconnect("caller")
  /\ UNCHANGED <<challenging, hangingUp, bye, byeSeen, authorized, cancel,
                 pendingCancel, calleeVars, wire>>

\* Mutant: a call that was hung up is not given a BYE when it is answered.
AnsweredStays ==
  /\ Unanswered
  /\ Sent("ok", "callee")
  /\ invite' = "answered"
  /\ IF state["caller"] # "DISCONNECTED"
     THEN SetState("caller", "CONFIRMED", "established")
     ELSE Keep
  /\ wire' = wire \cup {Msg("ack", "caller")}
  /\ UNCHANGED <<challenging, hangingUp, bye, byeSeen, authorized, cancel,
                 pendingCancel, calleeVars>>

\* The first 2xx: inv_send_ack, CONNECTING and CONFIRMED in one handler; then
\* pjsua_call_on_tsx_state_changed ends a call that was hung up.  A session
\* that is over sends the ACK only.
Answered ==
  /\ Unanswered
  /\ Sent("ok", "callee")
  /\ invite' = "answered"
  /\ \/ /\ state["caller"] = "DISCONNECTED"
        /\ Keep
        /\ wire' = wire \cup {Msg("ack", "caller")}
        /\ UNCHANGED bye
     \/ /\ state["caller"] # "DISCONNECTED"
        /\ SetState("caller", "CONFIRMED", "established")
        /\ IF hangingUp["caller"]
           THEN /\ ByeOut("caller")
                /\ wire' = wire \cup {Msg("ack", "caller"), Msg("bye", "caller")}
           ELSE /\ wire' = wire \cup {Msg("ack", "caller")}
                /\ UNCHANGED bye
  /\ UNCHANGED <<challenging, hangingUp, byeSeen, authorized, cancel,
                 pendingCancel, calleeVars>>

\* mod_inv_on_rx_response: a 2xx after the transaction was given up gets its
\* ACK while another transaction keeps the dialog.
AnsweredLate ==
  /\ invite = "timedOut"
  /\ cancel # "none" \/ byeSeen["caller"]
  /\ Sent("ok", "callee")
  /\ wire' = wire \cup {Msg("ack", "caller")}
  /\ Keep
  /\ UNCHANGED <<challenging, hangingUp, bye, byeSeen, callerVars, calleeVars>>

\* Mutant: cancelling a call does not start a timer for its INVITE.
InviteTimerOfRequest == invite = "calling"

\* Timer B, or the 64*T1 that a CANCEL or a BYE from the callee starts
InviteTimer ==
  \/ invite = "calling"
  \/ invite = "proceeding" /\ (cancel # "none" \/ state["caller"] = "DISCONNECTED")

InviteTimesOut ==
  /\ InviteTimer
  /\ invite' = "timedOut"
  /\ Disconnect("caller")
  /\ UNCHANGED <<challenging, hangingUp, bye, byeSeen, authorized, cancel,
                 pendingCancel, calleeVars, wire>>

CancelAnswered ==
  /\ cancel = "pending"
  /\ Sent("cancelDone", "callee")
  /\ cancel' = "over"
  /\ Keep
  /\ UNCHANGED <<challenging, hangingUp, bye, byeSeen, invite, authorized,
                 pendingCancel, calleeVars, wire>>

\* Mutant: a session whose CANCEL is not answered ends without a BYE.
CancelTimesOutSilently ==
  /\ cancel = "pending"
  /\ cancel' = "over"
  /\ Disconnect("caller")
  /\ UNCHANGED <<challenging, hangingUp, bye, byeSeen, invite, authorized,
                 pendingCancel, calleeVars, wire>>

\* inv_on_state_calling, or handle_uac_tsx_response, which sends BYE too
CancelTimesOut ==
  /\ cancel = "pending"
  /\ cancel' = "over"
  /\ Disconnect("caller")
  /\ IF state["caller"] \in {"EARLY", "CONFIRMED"}
     THEN ByeOut("caller") /\ wire' = wire \cup {Msg("bye", "caller")}
     ELSE UNCHANGED <<bye, wire>>
  /\ UNCHANGED <<challenging, hangingUp, byeSeen, invite, authorized,
                 pendingCancel, calleeVars>>

-----------------------------------------------------------------------------
(* The server, and the callee *)

\* A server that asks for credentials, and may not accept them
Challenges ==
  /\ challenging
  /\ \/ /\ Sent("invite", "caller")
        /\ wire' = wire \cup {Msg("challenge", "callee")}
        /\ UNCHANGED answer
     \/ /\ Sent("invite2", "caller") /\ answer = "none"
        /\ answer' = "refused"
        /\ wire' = wire \cup {Msg("challenge2", "callee")}
  /\ UNCHANGED <<challenging, state, hangingUp, bye, byeSeen, callerVars, told,
                 pendingBye, cause>>

\* pjsua_call_on_incoming, and VoIP::ring inside it; without a free call it is
\* refused, and there is no session.
IsCalled ==
  /\ answer = "none"
  /\ Sent(IF challenging THEN "invite2" ELSE "invite", "caller")
  /\ \/ /\ answer' = "proceeding"
        /\ SetState("callee", "EARLY", "ring")
        /\ wire' = wire \cup {Msg("trying", "callee"), Msg("ringing", "callee")}
     \/ /\ answer' = "refused"
        /\ Keep
        /\ wire' = wire \cup {Msg("refused", "callee")}
  /\ UNCHANGED <<challenging, hangingUp, bye, byeSeen, callerVars, pendingBye,
                 cause>>

\* Mutant: the callee does not wait for the ACK to be confirmed.
AcceptsConfirmed ==
  /\ state["callee"] = "EARLY"
  /\ SetState("callee", "CONFIRMED", "established")
  /\ answer' = "answered"
  /\ wire' = wire \cup {Msg("ok", "callee")}
  /\ UNCHANGED <<challenging, hangingUp, bye, byeSeen, callerVars, pendingBye,
                 cause>>

\* VoIP::acceptCall
Accepts ==
  /\ state["callee"] = "EARLY"
  /\ state' = [state EXCEPT !["callee"] = "CONNECTING"]
  /\ answer' = "answered"
  /\ wire' = wire \cup {Msg("ok", "callee")}
  /\ UNCHANGED <<challenging, hangingUp, bye, byeSeen, callerVars, pendingBye,
                 cause, told>>

\* The codes VoIP::hangupCall and pjsua_call_hangup choose for a callee
HangUpCodes ==
  CASE state["callee"] = "EARLY" -> {486, 603}
    [] state["callee"] = "CONNECTING" -> {200, 603}
    [] OTHER -> {200}

\* pjsua_call_hangup of the callee
CalleeHangsUp ==
  /\ state["callee"] \in {"EARLY", "CONNECTING", "CONFIRMED"}
  /\ ~hangingUp["callee"]
  /\ hangingUp' = [hangingUp EXCEPT !["callee"] = TRUE]
  /\ \E code \in HangUpCodes : cause' = Cause(code)
  /\ \/ /\ state["callee"] = "EARLY"
        /\ answer' = "refused"
        /\ Disconnect("callee")
        /\ wire' = wire \cup {Msg("refused", "callee")}
        /\ UNCHANGED <<bye, pendingBye>>
     \/ /\ state["callee"] # "EARLY"
        /\ IF ByeWaits(cause')
           THEN pendingBye' = TRUE /\ UNCHANGED <<bye, wire>>
           ELSE /\ ByeOut("callee")
                /\ wire' = wire \cup {Msg("bye", "callee")}
                /\ UNCHANGED pendingBye
        /\ Keep
        /\ UNCHANGED answer
  /\ UNCHANGED <<challenging, byeSeen, callerVars>>

\* inv_respond_incoming_cancel: 200, or 481; 487 to an INVITE that has no final
\* response yet
IsCancelled ==
  /\ Sent("cancel", "caller")
  /\ IF state["callee"] = "EARLY"
     THEN /\ answer' = "refused"
          /\ cause' = Cause(487)
          /\ Disconnect("callee")
          /\ wire' = wire \cup {Msg("cancelDone", "callee"), Msg("refused", "callee")}
     ELSE /\ wire' = wire \cup {Msg("cancelDone", "callee")}
          /\ Keep
          /\ UNCHANGED <<answer, cause>>
  /\ UNCHANGED <<challenging, hangingUp, bye, byeSeen, callerVars, pendingBye>>

\* mod_inv_on_rx_request, ACK: the session is confirmed, and a BYE that waited
\* leaves.
Acknowledged ==
  /\ answer = "answered"
  /\ Sent("ack", "caller")
  /\ answer' = "acked"
  /\ IF state["callee"] = "CONNECTING"
     THEN /\ SetState("callee", "CONFIRMED", "established")
          /\ IF pendingBye
             THEN ByeOut("callee") /\ wire' = wire \cup {Msg("bye", "callee")}
             ELSE UNCHANGED <<bye, wire>>
          /\ pendingBye' = FALSE
     ELSE Keep /\ UNCHANGED <<bye, wire, pendingBye>>
  /\ UNCHANGED <<challenging, hangingUp, byeSeen, callerVars, cause>>

\* inv_on_state_connecting, Timer H: no ACK came, and BYE leaves without it,
\* unless it still has to wait: then it is dropped.  The caller's Timer B, which
\* is older, has expired or was stopped.
AckTimesOut ==
  /\ answer = "answered"
  /\ invite # "calling"
  /\ answer' = "timedOut"
  /\ pendingBye' = FALSE
  /\ IF state["callee"] = "CONNECTING"
     THEN /\ cause' = Cause(408)
          /\ IF ByeWaits(cause')
             THEN UNCHANGED <<bye, wire>>
             ELSE ByeOut("callee") /\ wire' = wire \cup {Msg("bye", "callee")}
     ELSE UNCHANGED <<cause, bye, wire>>
  /\ Keep
  /\ UNCHANGED <<challenging, hangingUp, byeSeen, callerVars>>

-----------------------------------------------------------------------------
(* Either end *)

\* inv_respond_incoming_bye.  A caller without a response yet lets the request
\* lie; a callee that has not answered refuses its INVITE.
IsLeft(e) ==
  /\ Sent("bye", Other(e))
  /\ ~byeSeen[e]
  /\ byeSeen' = [byeSeen EXCEPT ![e] = TRUE]
  /\ IF state[e] = "CALLING"
     THEN Keep /\ UNCHANGED <<wire, answer, cause>>
     ELSE /\ Disconnect(e)
          /\ IF e = "callee" /\ state[e] = "EARLY"
             THEN /\ answer' = "refused"
                  /\ wire' = wire \cup {Msg("byeDone", e), Msg("refused", e)}
             ELSE wire' = wire \cup {Msg("byeDone", e)} /\ UNCHANGED answer
          /\ cause' = IF e = "callee" /\ state[e] # "DISCONNECTED"
                      THEN Cause(200) ELSE cause
  /\ UNCHANGED <<challenging, hangingUp, bye, callerVars, pendingBye>>

\* inv_handle_bye_response, for an answer and for Timer F
ByeEnds(e) ==
  /\ bye' = [bye EXCEPT ![e] = "over"]
  /\ Disconnect(e)
  /\ cause' = IF e = "callee" /\ state[e] # "DISCONNECTED" THEN Cause(200) ELSE cause
  /\ UNCHANGED <<challenging, hangingUp, byeSeen, callerVars, answer, pendingBye,
                 wire>>

ByeAnswered(e) ==
  /\ bye[e] = "pending"
  /\ Sent("byeDone", Other(e))
  /\ ByeEnds(e)

ByeTimesOut(e) ==
  /\ bye[e] = "pending"
  /\ ByeEnds(e)

-----------------------------------------------------------------------------

CallerStep ==
  \/ MakeCall
  \/ CallerHangsUp
  \/ \E type \in {"trying", "ringing"} : Provisional(type)
  \/ Challenged
  \/ Rejected
  \/ Answered
  \/ AnsweredLate
  \/ InviteTimesOut
  \/ CancelAnswered
  \/ CancelTimesOut

CalleeStep ==
  \/ Challenges
  \/ IsCalled
  \/ Accepts
  \/ CalleeHangsUp
  \/ IsCancelled
  \/ Acknowledged
  \/ AckTimesOut

Next ==
  \/ CallerStep
  \/ CalleeStep
  \/ \E e \in End : IsLeft(e) \/ ByeAnswered(e) \/ ByeTimesOut(e)

Spec == Init /\ [][Next]_vars

\* The worker threads poll the timer heap: a timer that runs expires, unless it
\* is stopped first.  Nothing is assumed of the network or of the users.
Fairness ==
  /\ WF_vars(InviteTimesOut)
  /\ WF_vars(CancelTimesOut)
  /\ WF_vars(AckTimesOut)
  /\ \A e \in End : WF_vars(ByeTimesOut(e))

FairSpec == Spec /\ Fairness

-----------------------------------------------------------------------------

\* The callee takes the call for established only when the caller did, or is
\* through with it (sip_inv.c:419-456, 497-528).
EstablishedTogether ==
  state["callee"] = "CONFIRMED" => state["caller"] \in {"CONFIRMED", "DISCONNECTED"}

\* A caller that hung up and was answered nevertheless has told the callee
\* good-bye: the CANCEL and the answer may cross (pjsua_call.c:4815-4824).
CrossedAnswerIsLeft ==
  hangingUp["caller"] /\ state["caller"] = "CONFIRMED" => Sent("bye", "caller")

\* No request overtakes what it is about, over a network that reorders: a CANCEL
\* finds the INVITE it cancels, and a callee's BYE comes after its answer, unless
\* no ACK came in time (sip_inv.c:2437-2452, 3123-3139, 383, 4541-4559).
RequestsInOrder ==
  /\ Sent("cancel", "caller") => answer # "none"
  /\ Sent("bye", "callee") =>
       \/ answer = "timedOut"
       \/ state["caller"] \in {"CONFIRMED", "DISCONNECTED"}

\* Whoever leaves a call that the other end has established says good-bye to it,
\* except a caller that gave the call up before the answer came: one without a
\* ringing callee, or one that waited for the callee in vain (sip_inv.c:629-640,
\* 3874-3895, 4494-4565).
GoodByeIsSaid ==
  \A e \in End :
    state[e] = "CONFIRMED" /\ state[Other(e)] = "DISCONNECTED" =>
      \/ Sent("bye", "caller") \/ Sent("bye", "callee")
      \/ e = "callee" /\ (invite = "timedOut" \/ told["caller"] = <<"ended">>)

\* The call of each end in the words of CallControl
Seen(e) ==
  CASE state[e] = "NULL" -> "free"
    [] state[e] = "DISCONNECTED" -> "gone"
    [] hangingUp[e] /\ state[e] = "CONFIRMED" -> "leaving"
    [] hangingUp[e] /\ state[e] \in {"CALLING", "EARLY", "CONNECTING"} -> "cancelling"
    [] ~hangingUp[e] /\ state[e] = "CALLING" -> "calling"
    [] ~hangingUp[e] /\ state[e] = "EARLY" -> IF e = "caller" THEN "early" ELSE "ringing"
    [] ~hangingUp[e] /\ state[e] = "CONNECTING" -> "answered"
    [] ~hangingUp[e] /\ state[e] = "CONFIRMED" -> "confirmed"

CallerSession ==
  INSTANCE CallSession WITH inv <- Seen("caller"), told <- told["caller"]

CalleeSession ==
  INSTANCE CallSession WITH inv <- Seen("callee"), told <- told["callee"]

\* Each end gives its program what CallSession promises: the reports in order,
\* the end of a call once and last, and an end to every call that was hung up,
\* whatever is lost and whoever hangs up when (sip_inv.c:200-303, 4494-4565).
CallerKeepsPromise == CallerSession!FairSpec

\* The same of the callee.
CalleeKeepsPromise == CalleeSession!FairSpec

=============================================================================
