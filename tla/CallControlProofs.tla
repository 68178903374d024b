-------------------------- MODULE CallControlProofs --------------------------
(***************************************************************************)
(* Proofs about CallControl, for any number of calls and signals, any PIN  *)
(* delay and any combination of disturbances.                              *)
(***************************************************************************)
EXTENDS CallControl, TLAPS

\* The objects are constructed in order.
MadeInv == \A c \in Calls : inv[c] = "free" <=> c > made

\* VoIP::call names the youngest object or nothing, and never drops a call this
\* program placed and has not hung up.
PointerInv ==
  /\ call \in {NoCall, made}
  /\ \A c \in Calls : Placed(c) => call = c \/ c < made

\* What hangupCall is about to forget it has hung up, unless it is a call from
\* outside that came between.
DroppedInv == gui.at = "forget" => call = NoCall \/ ~Placed(call)

\* What the queued signals say of a call is still true of its session, or
\* the end of the call is queued behind them.
Rang == {"early", "confirmed", "cancelling", "leaving", "gone"}
Answered == {"confirmed", "talking", "leaving", "gone"}

MailInv ==
  \A i \in 1 .. Len(mail) :
    LET c == mail[i].call IN
    /\ mail[i].kind = "remoteRing" => c \in Calls /\ inv[c] \in Rang
    /\ mail[i].kind = "established" => c \in Calls /\ inv[c] \in Answered
    /\ mail[i].kind \in {"remoteRing", "established"} /\ inv[c] = "gone" =>
         \E j \in i + 1 .. Len(mail) : mail[j] = [kind |-> "ended", call |-> c]

IInv ==
  /\ TypeOK /\ MadeInv /\ PointerInv /\ DroppedInv
  /\ MailInv /\ ShownCallExists

-----------------------------------------------------------------------------

\* The state after the constructor satisfies the inductive invariant.
LEMMA InitIInv == Init => IInv
<1> SUFFICES ASSUME Init PROVE IInv
  OBVIOUS
<1> USE CallControlAssumption DEF Init, Calls, NoCall
<1>1. TypeOK
  <2>1. sipState \in {"init", "idle", "remoteRing", "localRing", "calling",
                     "closing"}
    OBVIOUS
  <2>2. reg \in {"sent", "active", "refreshing", "unregistering", "lapsed",
                "off", "noLibrary"}
    OBVIOUS
  <2>3. dtmfTimeout \in 0 .. DTMF_TIMEOUT + 1 /\ made \in 0 .. MaxCalls
    OBVIOUS
  <2>4. mail \in Seq(Message) /\ inv \in [Calls -> CallStates]
    BY DEF CallStates
  <2>5. gui \in [at : {"free", "placing", "hangup", "forget"},
                 next : {"idle", "closing"}, code : {"ok", "busy"}]
    BY DEF Free
  <2>6. QED
    BY <2>1, <2>2, <2>3, <2>4, <2>5 DEF TypeOK
<1>2. MadeInv /\ PointerInv /\ DroppedInv
  BY DEF MadeInv, PointerInv, DroppedInv, Placed
<1>3. MailInv
  BY DEF MailInv
<1>4. ShownCallExists
  BY DEF ShownCallExists
<1>5. QED
  BY <1>1, <1>2, <1>3, <1>4 DEF IInv

-----------------------------------------------------------------------------
(* The queue of signals *)

\* Taking a signal: the rest of the queue moves up by one.
LEMMA ReceiveFacts ==
  ASSUME TypeOK, NEW kinds, Receive(kinds)
  PROVE  /\ Len(mail) \in Nat /\ Len(mail) > 0 /\ mail[1].kind \in kinds
         /\ mail[1] \in Message
         /\ mail' \in Seq(Message)
         /\ Len(mail') = Len(mail) - 1
         /\ \A i \in 1 .. Len(mail') : mail'[i] = mail[i + 1]
<1>1. mail \in Seq(Message) /\ mail # << >> /\ mail' = Tail(mail)
  BY DEF TypeOK, Receive
<1>2. mail[1].kind \in kinds
  BY <1>1 DEF Receive
<1>3. QED
  BY <1>1, <1>2

\* Queueing a signal: it comes last, behind what was queued.
LEMMA EmitFacts ==
  ASSUME TypeOK, NEW kind, NEW c, [kind |-> kind, call |-> c] \in Message,
         Emit(kind, c)
  PROVE  /\ mail' \in Seq(Message)
         /\ Len(mail) \in Nat /\ Len(mail') = Len(mail) + 1
         /\ \A i \in 1 .. Len(mail) : mail'[i] = mail[i]
         /\ mail'[Len(mail')] = [kind |-> kind, call |-> c]
<1>1. mail \in Seq(Message) /\ mail' = Append(mail, [kind |-> kind, call |-> c])
  BY DEF TypeOK, Emit
<1>2. QED
  BY <1>1

\* A step of a session that no queued signal contradicts: only an incoming
\* call may end without a signal.
SafeChange ==
  \A c \in Calls :
    /\ inv[c] \in Rang => inv'[c] \in Rang
    /\ inv[c] \in Answered => inv'[c] \in Answered
    /\ inv'[c] = "gone" => inv[c] \in {"gone", "ringing"}

\* Taking a signal, and a safe change, leave the queue truthful.
LEMMA ReceiveMailInv ==
  ASSUME TypeOK, MailInv, SafeChange, NEW kinds, Receive(kinds)
  PROVE  MailInv'
<1> SUFFICES ASSUME NEW i \in 1 .. Len(mail')
             PROVE LET c == mail'[i].call IN
               /\ mail'[i].kind = "remoteRing" => c \in Calls /\ inv'[c] \in Rang
               /\ mail'[i].kind = "established" =>
                    c \in Calls /\ inv'[c] \in Answered
               /\ mail'[i].kind \in {"remoteRing", "established"} /\ inv'[c] = "gone" =>
                    \E j \in i + 1 .. Len(mail') :
                      mail'[j] = [kind |-> "ended", call |-> c]
  BY DEF MailInv
<1>1. /\ Len(mail) \in Nat /\ Len(mail') = Len(mail) - 1
      /\ \A k \in 1 .. Len(mail') : mail'[k] = mail[k + 1]
  BY ReceiveFacts
<1>2. i + 1 \in 1 .. Len(mail) /\ mail'[i] = mail[i + 1]
  BY <1>1
<1> DEFINE c == mail[i + 1].call
<1>3. /\ mail[i + 1].kind = "remoteRing" => c \in Calls /\ inv[c] \in Rang
      /\ mail[i + 1].kind = "established" => c \in Calls /\ inv[c] \in Answered
      /\ mail[i + 1].kind \in {"remoteRing", "established"} /\ inv[c] = "gone" =>
           \E j \in i + 2 .. Len(mail) : mail[j] = [kind |-> "ended", call |-> c]
  BY <1>2 DEF MailInv
<1>4. ASSUME mail[i + 1].kind \in {"remoteRing", "established"}, inv'[c] = "gone"
      PROVE  \E j \in i + 1 .. Len(mail') :
               mail'[j] = [kind |-> "ended", call |-> c]
  <2>1. inv[c] = "gone"
    BY <1>3, <1>4 DEF SafeChange, Rang, Answered
  <2>2. PICK j \in i + 2 .. Len(mail) : mail[j] = [kind |-> "ended", call |-> c]
    BY <1>3, <1>4, <2>1
  <2>3. j - 1 \in i + 1 .. Len(mail') /\ mail'[j - 1] = mail[j]
    BY <1>1, <2>2
  <2>4. QED
    BY <2>2, <2>3
<1>5. QED
  BY <1>2, <1>3, <1>4 DEF SafeChange

\* So does a safe change alone.
LEMMA QuietMailInv ==
  ASSUME TypeOK, MailInv, SafeChange, UNCHANGED mail
  PROVE  MailInv'
BY DEF MailInv, SafeChange, Rang, Answered

\* So does queueing a signal that is true of its call.
LEMMA EmitMailInv ==
  ASSUME TypeOK, MailInv, SafeChange, NEW kind, NEW c,
         [kind |-> kind, call |-> c] \in Message, Emit(kind, c),
         kind = "remoteRing" => c \in Calls /\ inv'[c] \in Rang \ {"gone"},
         kind = "established" => c \in Calls /\ inv'[c] \in Answered \ {"gone"}
  PROVE  MailInv'
<1>1. /\ Len(mail) \in Nat /\ Len(mail') = Len(mail) + 1
      /\ \A i \in 1 .. Len(mail) : mail'[i] = mail[i]
      /\ mail'[Len(mail')] = [kind |-> kind, call |-> c]
  BY EmitFacts
<1>2. SUFFICES ASSUME NEW i \in 1 .. Len(mail')
               PROVE LET d == mail'[i].call IN
                 /\ mail'[i].kind = "remoteRing" => d \in Calls /\ inv'[d] \in Rang
                 /\ mail'[i].kind = "established" =>
                      d \in Calls /\ inv'[d] \in Answered
                 /\ mail'[i].kind \in {"remoteRing", "established"} /\ inv'[d] = "gone" =>
                      \E j \in i + 1 .. Len(mail') :
                        mail'[j] = [kind |-> "ended", call |-> d]
  BY DEF MailInv
<1>3. CASE i = Len(mail')
  BY <1>1, <1>3
<1>4. CASE i \in 1 .. Len(mail)
  <2> DEFINE d == mail[i].call
  <2>1. /\ mail[i].kind = "remoteRing" => d \in Calls /\ inv[d] \in Rang
        /\ mail[i].kind = "established" => d \in Calls /\ inv[d] \in Answered
        /\ mail[i].kind \in {"remoteRing", "established"} /\ inv[d] = "gone" =>
             \E j \in i + 1 .. Len(mail) : mail[j] = [kind |-> "ended", call |-> d]
    BY <1>4 DEF MailInv
  <2>2. ASSUME mail[i].kind \in {"remoteRing", "established"}, inv'[d] = "gone"
        PROVE  \E j \in i + 1 .. Len(mail') :
                 mail'[j] = [kind |-> "ended", call |-> d]
    <3>1. inv[d] = "gone"
      BY <2>1, <2>2 DEF SafeChange, Rang, Answered
    <3>2. PICK j \in i + 1 .. Len(mail) : mail[j] = [kind |-> "ended", call |-> d]
      BY <2>1, <2>2, <3>1
    <3>3. j \in i + 1 .. Len(mail') /\ mail'[j] = mail[j]
      BY <1>1, <1>4, <3>2
    <3>4. QED
      BY <3>2, <3>3
  <2>3. mail'[i] = mail[i]
    BY <1>1, <1>4
  <2>4. QED
    BY <2>1, <2>2, <2>3 DEF SafeChange
<1>5. QED
  BY <1>1, <1>3, <1>4

\* The end of a session is the last signal of its call.
LEMMA EndMailInv ==
  ASSUME TypeOK, MailInv, NEW e \in Calls, Emit("ended", e),
         inv' = [inv EXCEPT ![e] = "gone"]
  PROVE  MailInv'
<1>1. [kind |-> "ended", call |-> e] \in Message
  BY DEF Message, CallSignals
<1>2. /\ Len(mail) \in Nat /\ Len(mail') = Len(mail) + 1
      /\ \A i \in 1 .. Len(mail) : mail'[i] = mail[i]
      /\ mail'[Len(mail')] = [kind |-> "ended", call |-> e]
  BY <1>1, EmitFacts
<1>3. SUFFICES ASSUME NEW i \in 1 .. Len(mail'),
                      mail'[i].kind \in {"remoteRing", "established"}
               PROVE LET d == mail'[i].call IN
                 /\ mail'[i].kind = "remoteRing" => d \in Calls /\ inv'[d] \in Rang
                 /\ mail'[i].kind = "established" =>
                      d \in Calls /\ inv'[d] \in Answered
                 /\ inv'[d] = "gone" =>
                      \E j \in i + 1 .. Len(mail') :
                        mail'[j] = [kind |-> "ended", call |-> d]
  BY DEF MailInv
<1>4. i \in 1 .. Len(mail) /\ mail'[i] = mail[i]
  BY <1>2, <1>3
<1> DEFINE d == mail[i].call
<1>5. /\ mail[i].kind = "remoteRing" => d \in Calls /\ inv[d] \in Rang
      /\ mail[i].kind = "established" => d \in Calls /\ inv[d] \in Answered
      /\ inv[d] = "gone" =>
           \E j \in i + 1 .. Len(mail) : mail[j] = [kind |-> "ended", call |-> d]
  BY <1>3, <1>4 DEF MailInv
<1>6. d \in Calls /\ inv'[d] \in {inv[d], "gone"} /\ (d # e => inv'[d] = inv[d])
  BY <1>3, <1>4, <1>5 DEF TypeOK
<1>7. ASSUME inv'[d] = "gone"
      PROVE  \E j \in i + 1 .. Len(mail') :
               mail'[j] = [kind |-> "ended", call |-> d]
  <2>1. CASE d = e
    <3>1. Len(mail') \in i + 1 .. Len(mail')
      BY <1>2, <1>4
    <3>2. QED
      BY <1>2, <2>1, <3>1
  <2>2. CASE d # e
    <3>1. PICK j \in i + 1 .. Len(mail) : mail[j] = [kind |-> "ended", call |-> d]
      BY <1>5, <1>6, <1>7, <2>2
    <3>2. j \in i + 1 .. Len(mail') /\ mail'[j] = mail[j]
      BY <1>2, <1>4, <3>1
    <3>3. QED
      BY <3>1, <3>2
  <2>3. QED
    BY <2>1, <2>2
<1>8. QED
  BY <1>4, <1>5, <1>6, <1>7 DEF Rang, Answered

-----------------------------------------------------------------------------
(* What the window shows *)

\* A step that shows no other call keeps what is shown, when no end is lost.
LEMMA KeepsShown ==
  ASSUME TypeOK, ShownCallExists, SafeChange,
         \A c \in Calls : EndQueued(c) => EndQueued(c)',
         sipState' \in {sipState, "idle", "closing", "localRing"}
  PROVE  ShownCallExists'
<1>1. ASSUME sipState' = "calling"
      PROVE  \E c \in Calls :
               inv'[c] \in {"confirmed", "talking", "leaving"} \/ EndQueued(c)'
  <2>1. PICK c \in Calls :
               inv[c] \in {"confirmed", "talking", "leaving"} \/ EndQueued(c)
    BY <1>1 DEF ShownCallExists
  <2>2. QED
    BY <2>1 DEF SafeChange, Answered
<1>2. ASSUME sipState' = "remoteRing"
      PROVE  \E c \in Calls :
               \/ inv'[c] \in {"early", "confirmed", "cancelling", "leaving"}
               \/ EndQueued(c)'
  <2>1. PICK c \in Calls :
               \/ inv[c] \in {"early", "confirmed", "cancelling", "leaving"}
               \/ EndQueued(c)
    BY <1>2 DEF ShownCallExists
  <2>2. QED
    BY <2>1 DEF SafeChange, Rang
<1>3. QED
  BY <1>1, <1>2 DEF ShownCallExists

\* Taking another signal loses no end.
LEMMA ReceiveKeepsEnds ==
  ASSUME TypeOK, NEW kinds, Receive(kinds), "ended" \notin kinds,
         NEW c, EndQueued(c)
  PROVE  EndQueued(c)'
<1>1. PICK i \in 1 .. Len(mail) : mail[i] = [kind |-> "ended", call |-> c]
  BY DEF EndQueued
<1>2. /\ Len(mail) \in Nat /\ Len(mail') = Len(mail) - 1
      /\ mail[1].kind \in kinds
      /\ \A k \in 1 .. Len(mail') : mail'[k] = mail[k + 1]
  BY ReceiveFacts
<1>3. i # 1
  BY <1>1, <1>2
<1>4. i - 1 \in 1 .. Len(mail') /\ mail'[i - 1] = mail[i]
  BY <1>2, <1>3
<1>5. QED
  BY <1>1, <1>4 DEF EndQueued

\* Queueing a signal loses no end.
LEMMA EmitKeepsEnds ==
  ASSUME TypeOK, NEW kind, NEW c, [kind |-> kind, call |-> c] \in Message,
         Emit(kind, c), NEW d, EndQueued(d)
  PROVE  EndQueued(d)'
<1>1. PICK i \in 1 .. Len(mail) : mail[i] = [kind |-> "ended", call |-> d]
  BY DEF EndQueued
<1>2. i \in 1 .. Len(mail') /\ mail'[i] = mail[i]
  BY <1>1, EmitFacts
<1>3. QED
  BY <1>1, <1>2 DEF EndQueued

-----------------------------------------------------------------------------
(* The calls and the pointer *)

CallsOK ==
  /\ made \in 0 .. MaxCalls
  /\ call \in Calls \cup {NoCall}
  /\ inv \in [Calls -> CallStates]
  /\ MadeInv
  /\ PointerInv

\* Nothing happened to the calls.
LEMMA QuietCalls ==
  ASSUME CallsOK, UNCHANGED <<call, made, inv>>
  PROVE  CallsOK' /\ SafeChange
<1>1. CallsOK'
  BY DEF CallsOK, MadeInv, PointerInv, Placed
<1>2. SafeChange
  BY DEF SafeChange
<1>3. QED
  BY <1>1, <1>2

\* A new object becomes the youngest, and the one the pointer names.
LEMMA NewCall ==
  ASSUME CallsOK, made < MaxCalls, made' = made + 1, call' = made + 1,
         NEW outcome \in {"placing", "ringing"},
         inv' = [inv EXCEPT ![made + 1] = outcome]
  PROVE  CallsOK' /\ SafeChange
<1> USE CallControlAssumption DEF Calls, NoCall, CallsOK
<1>1. made + 1 \in Calls /\ made' \in 0 .. MaxCalls
  OBVIOUS
<1>2. inv' \in [Calls -> CallStates] /\ outcome # "free" /\ outcome # "gone"
  BY DEF CallStates
<1>3. inv[made + 1] = "free"
  BY <1>1 DEF MadeInv
<1>4. \A c \in Calls : c # made + 1 => inv'[c] = inv[c]
  OBVIOUS
<1>5. inv'[made + 1] = outcome
  BY <1>1
<1>6. MadeInv'
  BY <1>1, <1>2, <1>4, <1>5 DEF MadeInv
<1>7. PointerInv'
  <2>1. ASSUME NEW c \in Calls, Placed(c)', c # made + 1
        PROVE  c < made + 1
    <3>1. inv'[c] # "free"
      BY <2>1 DEF Placed
    <3>2. QED
      BY <2>1, <3>1, <1>4 DEF MadeInv
  <2>2. QED
    BY <2>1 DEF PointerInv
<1>8. SafeChange
  BY <1>2, <1>3, <1>4, <1>5 DEF SafeChange, Rang, Answered
<1>9. QED
  BY <1>1, <1>2, <1>6, <1>7, <1>8

\* makeCall
LEMMA MakeCallKeeps ==
  ASSUME CallsOK, MakeCall
  PROVE  CallsOK' /\ SafeChange
BY NewCall DEF MakeCall

\* A session moves on: what is placed now was, or is the call the pointer names.
LEMMA CallMoves ==
  ASSUME CallsOK, NEW c \in Calls, inv[c] # "free",
         NEW state \in CallStates \ {"free"},
         inv' = [inv EXCEPT ![c] = state],
         UNCHANGED <<call, made>>,
         state \in {"calling", "early", "confirmed"} => Placed(c) \/ call = c
  PROVE  CallsOK'
<1> USE DEF CallsOK
<1>1. inv' \in [Calls -> CallStates] /\ inv'[c] = state
  OBVIOUS
<1>2. \A d \in Calls : d # c => inv'[d] = inv[d]
  OBVIOUS
<1>3. MadeInv'
  BY <1>1, <1>2 DEF MadeInv
<1>4. PointerInv'
  BY <1>1, <1>2 DEF PointerInv, Placed
<1>5. QED
  BY <1>1, <1>3, <1>4

\* The end of makeCall.
LEMMA PlaceKeeps ==
  ASSUME CallsOK, PlaceCall
  PROVE  CallsOK' /\ SafeChange
<1> USE DEF CallsOK
<1>1. UNCHANGED <<call, made>>
  BY DEF PlaceCall
<1>2. PICK placed \in BOOLEAN :
        inv' = [c \in Calls |->
                  IF placed /\ c = call /\ inv[c] \in {"placing", "ringing"}
                  THEN "calling"
                  ELSE IF inv[c] = "placing" THEN "failed" ELSE inv[c]]
  BY DEF PlaceCall
<1>3. ASSUME NEW c \in Calls
      PROVE  \/ inv'[c] = "calling" /\ c = call /\ inv[c] \in {"placing", "ringing"}
             \/ inv'[c] = "failed" /\ inv[c] = "placing"
             \/ inv'[c] = inv[c]
  BY <1>2
<1>4. inv' \in [Calls -> CallStates]
  BY <1>2 DEF CallStates
<1>5. MadeInv'
  BY <1>1, <1>3 DEF MadeInv
<1>6. PointerInv'
  BY <1>1, <1>3 DEF PointerInv, Placed
<1>7. SafeChange
  BY <1>3 DEF SafeChange, Rang, Answered
<1>8. QED
  BY <1>1, <1>4, <1>5, <1>6, <1>7

\* What becomes of a session that is hung up.
LEMMA HungUpFacts ==
  ASSUME NEW state \in {"calling", "early", "confirmed", "ringing", "answered",
                        "talking"},
         NEW code
  PROVE  /\ HungUp(state, code) \in {"gone", "answered", "leaving", "cancelling"}
         /\ HungUp(state, code) = "gone" => state = "ringing"
         /\ HungUp(state, code) = "answered" => state \in {"ringing", "answered"}
         /\ HungUp(state, code) = "leaving" <=> state \in {"confirmed", "talking"}
BY DEF HungUp

\* hangupCall, where it hangs up.
LEMMA EndKeeps ==
  ASSUME CallsOK, EndCall
  PROVE  CallsOK' /\ SafeChange
<1>1. CASE call # NoCall /\ Up(call)
  <2>1. inv' = [inv EXCEPT ![call] = HungUp(inv[call], gui.code)]
        /\ UNCHANGED <<call, made>>
    BY <1>1 DEF EndCall
  <2>2. /\ call \in Calls
        /\ inv[call] \in {"calling", "early", "confirmed", "ringing", "answered",
                          "talking"}
        /\ inv \in [Calls -> CallStates]
    BY <1>1 DEF CallsOK, Up, Placed
  <2>3. PICK state : state = HungUp(inv[call], gui.code)
    OBVIOUS
  <2>4. /\ state \in {"gone", "answered", "leaving", "cancelling"}
        /\ state = "gone" => inv[call] = "ringing"
        /\ state = "answered" => inv[call] \in {"ringing", "answered"}
        /\ state = "leaving" <=> inv[call] \in {"confirmed", "talking"}
    BY <2>2, <2>3, HungUpFacts
  <2>5. CallsOK'
    BY <2>1, <2>2, <2>3, <2>4, CallMoves DEF CallStates
  <2>6. inv'[call] = state /\ \A c \in Calls : c # call => inv'[c] = inv[c]
    BY <2>1, <2>2, <2>3
  <2>7. SafeChange
    BY <2>2, <2>4, <2>6 DEF SafeChange, Rang, Answered
  <2>8. QED
    BY <2>5, <2>7
<1>2. CASE ~(call # NoCall /\ Up(call))
  <2>1. UNCHANGED <<call, made, inv>>
    BY <1>2 DEF EndCall
  <2>2. QED
    BY <2>1, QuietCalls
<1>3. QED
  BY <1>1, <1>2

\* hangupCall, where it forgets.
LEMMA ForgetKeeps ==
  ASSUME CallsOK, DroppedInv, ForgetCall
  PROVE  CallsOK' /\ SafeChange
<1>1. UNCHANGED <<made, inv>> /\ call' = NoCall /\ (call = NoCall \/ ~Placed(call))
  BY DEF ForgetCall, DroppedInv
<1>2. CallsOK'
  BY <1>1 DEF CallsOK, MadeInv, PointerInv, Placed
<1>3. SafeChange
  BY <1>1 DEF SafeChange
<1>4. QED
  BY <1>2, <1>3

-----------------------------------------------------------------------------
(* The inductive step *)

\* The other variables have their types.
RestOK ==
  /\ app \in {"running", "closed", "crashed"}
  /\ sipState \in {"init", "idle", "remoteRing", "localRing", "calling", "closing"}
  /\ buttons \in BOOLEAN
  /\ dtmfTimeout \in 0 .. DTMF_TIMEOUT + 1
  /\ reg \in {"sent", "active", "refreshing", "unregistering", "lapsed", "off",
              "noLibrary"}
  /\ gui \in [at : {"free", "placing", "hangup", "forget"},
             next : {"idle", "closing"}, code : {"ok", "busy"}]
  /\ ring \in Calls \cup {NoCall}
  /\ crossed \subseteq Calls
  /\ pinned \subseteq Calls

\* The inductive invariant, in the parts the steps are proved by.
LEMMA IInvParts ==
  IInv <=> /\ RestOK /\ CallsOK /\ DroppedInv
           /\ mail \in Seq(Message) /\ MailInv /\ ShownCallExists
BY DEF IInv, TypeOK, RestOK, CallsOK

\* The same, after a step.
LEMMA IInvPartsNext ==
  ASSUME RestOK', CallsOK', DroppedInv', (mail \in Seq(Message))', MailInv',
         ShownCallExists'
  PROVE  IInv'
BY DEF IInv, TypeOK, RestOK, CallsOK

\* The end of a call keeps the types of what it writes.
LEMMA CallEndedTypes ==
  ASSUME RestOK, CallEnded
  PROVE  /\ app' \in {"running", "closed", "crashed"}
         /\ reg' \in {"sent", "active", "refreshing", "unregistering", "lapsed",
                      "off", "noLibrary"}
         /\ sipState' \in {"idle", "closing"}
<1>1. reg' \in {reg, "unregistering", "off"} /\ app' \in {app, "closed"}
  BY DEF CallEnded, UnregisterAccount
<1>2. sipState' \in {"idle", "closing"}
  BY DEF CallEnded
<1>3. QED
  BY <1>1, <1>2 DEF RestOK

\* So does the beginning of hangupCall.
LEMMA HangTypes ==
  ASSUME RestOK, NEW next \in {"idle", "closing"}, Hang(next)
  PROVE  /\ gui' \in [at : {"free", "placing", "hangup", "forget"},
                      next : {"idle", "closing"}, code : {"ok", "busy"}]
         /\ sipState' \in {sipState, next}
         /\ gui' = gui \/ gui'.at = "hangup"
BY DEF Hang, RestOK

\* So does the beginning of makeCall.
LEMMA MakeTypes ==
  ASSUME MakeCall
  PROVE  /\ gui' \in [at : {"free", "placing", "hangup", "forget"},
                      next : {"idle", "closing"}, code : {"ok", "busy"}]
         /\ gui'.at = "placing"
         /\ crossed' = crossed
BY DEF MakeCall, Free

\* A step that leaves the queue alone.
LEMMA QuietStep ==
  ASSUME IInv, CallsOK', DroppedInv', SafeChange, RestOK', UNCHANGED mail,
         sipState' \in {sipState, "idle", "closing", "localRing"}
  PROVE  IInv'
<1>1. TypeOK /\ MailInv /\ ShownCallExists
  BY DEF IInv
<1>2. MailInv'
  BY <1>1, QuietMailInv
<1>3. \A c \in Calls : EndQueued(c) => EndQueued(c)'
  BY DEF EndQueued
<1>4. ShownCallExists'
  BY <1>1, <1>3, KeepsShown
<1>5. (mail \in Seq(Message))'
  BY <1>1 DEF TypeOK
<1>6. QED
  BY <1>2, <1>4, <1>5, IInvPartsNext

\* A step that takes a signal, other than an end, and shows no other call.
LEMMA ReceiveStep ==
  ASSUME IInv, CallsOK', DroppedInv', SafeChange, RestOK',
         NEW kinds, Receive(kinds), "ended" \notin kinds,
         sipState' \in {sipState, "idle", "closing", "localRing"}
  PROVE  IInv'
<1>1. TypeOK /\ MailInv /\ ShownCallExists
  BY DEF IInv
<1>2. MailInv'
  BY <1>1, ReceiveMailInv
<1>3. \A c \in Calls : EndQueued(c) => EndQueued(c)'
  BY <1>1, ReceiveKeepsEnds
<1>4. ShownCallExists'
  BY <1>1, <1>3, KeepsShown
<1>5. (mail \in Seq(Message))'
  BY <1>1, ReceiveFacts
<1>6. QED
  BY <1>2, <1>4, <1>5, IInvPartsNext

\* A step of the worker thread that queues a signal true of its call.
LEMMA EmitStep ==
  ASSUME IInv, CallsOK', DroppedInv', SafeChange, RestOK', UNCHANGED sipState,
         NEW kind, NEW c, [kind |-> kind, call |-> c] \in Message, Emit(kind, c),
         kind = "remoteRing" => c \in Calls /\ inv'[c] \in Rang \ {"gone"},
         kind = "established" => c \in Calls /\ inv'[c] \in Answered \ {"gone"}
  PROVE  IInv'
<1>1. TypeOK /\ MailInv /\ ShownCallExists
  BY DEF IInv
<1>2. MailInv'
  BY <1>1, EmitMailInv
<1>3. \A d \in Calls : EndQueued(d) => EndQueued(d)'
  BY <1>1, EmitKeepsEnds
<1>4. ShownCallExists'
  BY <1>1, <1>3, KeepsShown
<1>5. (mail \in Seq(Message))'
  BY <1>1, EmitFacts
<1>6. QED
  BY <1>2, <1>4, <1>5, IInvPartsNext

\* The signal at the head of the queue tells the truth about its call.
LEMMA HeadIsTrue ==
  ASSUME IInv, Receive({"remoteRing", "localRing", "established"}),
         NEW c, c = Head(mail).call
  PROVE  /\ Head(mail).kind = "remoteRing" =>
              c \in Calls /\ (inv[c] = "gone" => EndQueued(c)') /\ inv[c] \in Rang
         /\ Head(mail).kind = "established" =>
              c \in Calls /\ (inv[c] = "gone" => EndQueued(c)') /\ inv[c] \in Answered
<1>1. TypeOK /\ MailInv
  BY DEF IInv
<1>2. /\ Len(mail) \in Nat /\ Len(mail) > 0
      /\ Len(mail') = Len(mail) - 1
      /\ \A i \in 1 .. Len(mail') : mail'[i] = mail[i + 1]
  BY <1>1, ReceiveFacts
<1>3. Head(mail) = mail[1]
  BY <1>1 DEF TypeOK, Receive
<1>4. /\ mail[1].kind = "remoteRing" => c \in Calls /\ inv[c] \in Rang
      /\ mail[1].kind = "established" => c \in Calls /\ inv[c] \in Answered
      /\ mail[1].kind \in {"remoteRing", "established"} /\ inv[c] = "gone" =>
           \E j \in 2 .. Len(mail) : mail[j] = [kind |-> "ended", call |-> c]
  BY <1>1, <1>2, <1>3 DEF MailInv
<1>5. ASSUME mail[1].kind \in {"remoteRing", "established"}, inv[c] = "gone"
      PROVE  EndQueued(c)'
  <2>1. PICK j \in 2 .. Len(mail) : mail[j] = [kind |-> "ended", call |-> c]
    BY <1>4, <1>5
  <2>2. j - 1 \in 1 .. Len(mail') /\ mail'[j - 1] = mail[j]
    BY <1>2, <2>1
  <2>3. QED
    BY <2>1, <2>2 DEF EndQueued
<1>6. QED
  BY <1>3, <1>4, <1>5

\* How the GUI thread gets into hangupCall, and on in it.
LEMMA GuiMoves ==
  ASSUME RestOK, [Next]_vars
  PROVE  /\ gui'.at = "forget" => gui' = gui \/ EndCall
         /\ gui'.at = "hangup" =>
              \/ gui' = gui
              \/ /\ HangButton \/ CloseWindow \/ OnRegDown
                 /\ call # NoCall /\ Up(call) /\ UNCHANGED calls
<1>1. SUFFICES ASSUME gui'.at \in {"hangup", "forget"}, gui' # gui
               PROVE  \/ gui'.at = "forget" /\ EndCall
                      \/ /\ gui'.at = "hangup"
                         /\ HangButton \/ CloseWindow \/ OnRegDown
                         /\ call # NoCall /\ Up(call) /\ UNCHANGED calls
  OBVIOUS
<1>2. ~MakeCall /\ gui' # Free
  BY <1>1, MakeTypes DEF Free
<1>3. ASSUME NEW next \in {"idle", "closing"}, Hang(next)
      PROVE  gui'.at = "hangup" /\ call # NoCall /\ Up(call)
  <2>1. gui'.at = "hangup"
    BY <1>1, <1>3, HangTypes
  <2>2. QED
    BY <1>1, <1>3, <2>1 DEF Hang
<1>4. ~CallButton /\ ~OnRegUp /\ ~PlaceCall /\ ~ForgetCall
  BY <1>1, <1>2 DEF CallButton, OnRegUp, PlaceCall, ForgetCall
<1>5. CASE HangButton \/ CloseWindow \/ OnRegDown
  <2>1. /\ \E next \in {"idle", "closing"} : Hang(next)
        /\ UNCHANGED calls
    BY <1>1, <1>5 DEF HangButton, CloseWindow, OnRegDown
  <2>2. QED
    BY <1>3, <1>5, <2>1
<1>6. CASE EndCall
  <2>1. gui' = [gui EXCEPT !.at = "forget"]
    BY <1>2, <1>6 DEF EndCall
  <2>2. QED
    BY <1>6, <2>1 DEF RestOK
<1>7. ~WorkerStep /\ vars' # vars
  BY <1>1 DEF WorkerStep, vars, RemoteRings, RemoteAnswers, SessionEnds, IncomingCall,
     LostSessionReports, AnswerRing, CallUnchanged, RegUnchanged,
     RegistrarAccepts, RegistrarRejects, Refresh, Retry
<1>8. ~Tick /\ ~OnRinging /\ ~OnEstablished /\ ~OnEnded /\ ~UseDeletedCall
  BY <1>1 DEF Tick, OnRinging, OnEstablished, OnEnded, UseDeletedCall
<1>9. QED
  BY <1>4, <1>5, <1>6, <1>7, <1>8 DEF Next, GuiStep

\* What hangupCall is about to forget is not placed anew.
LEMMA DroppedStep ==
  ASSUME IInv, [Next]_vars
  PROVE  DroppedInv'
<1>1. TypeOK /\ DroppedInv /\ RestOK
  BY IInvParts DEF IInv
<1>2. SUFFICES ASSUME gui'.at = "forget" PROVE call' = NoCall \/ ~Placed(call)'
  BY DEF DroppedInv
<1>3. CASE EndCall
  <2>1. call \in Calls /\ Up(call) /\ call' = call
        /\ inv' = [inv EXCEPT ![call] = HungUp(inv[call], gui.code)]
    BY <1>1, <1>2, <1>3 DEF EndCall, TypeOK, Free
  <2>2. inv[call] \in {"calling", "early", "confirmed", "ringing", "answered",
                      "talking"}
    BY <2>1 DEF Up, Placed
  <2>3. inv'[call] = HungUp(inv[call], gui.code)
    BY <1>1, <2>1 DEF TypeOK
  <2>4. inv'[call] \in {"gone", "answered", "leaving", "cancelling"}
    BY <2>2, <2>3, HungUpFacts
  <2>5. QED
    BY <2>1, <2>4 DEF Placed
<1>4. CASE IncomingCall
  <2>1. call' = made + 1 /\ made + 1 \in Calls
        /\ inv' = [inv EXCEPT ![made + 1] = "ringing"]
    BY <1>1, <1>4, CallControlAssumption DEF IncomingCall, TypeOK, Calls
  <2>2. inv'[call'] = "ringing"
    BY <1>1, <2>1 DEF TypeOK
  <2>3. QED
    BY <2>2 DEF Placed
<1>5. CASE ~EndCall /\ ~IncomingCall
  <2>1. gui' = gui
    BY <1>1, <1>2, <1>5, GuiMoves
  <2>2. ~EventLoop /\ ~PlaceCall /\ ~ForgetCall
    <3>1. gui.at = "forget" /\ gui' # Free
      BY <1>2, <2>1 DEF Free
    <3>2. QED
      BY <3>1 DEF EventLoop, PlaceCall, ForgetCall
  <2>3. /\ call' = call
        /\ \A c \in Calls : Placed(c)' => Placed(c)
    BY <1>1, <1>5, <2>2 DEF TypeOK, Next, GuiStep, WorkerStep, vars, Placed, calls,
       CallButton, HangButton, CloseWindow, Tick, OnRegUp, OnRegDown, Receive,
       OnRinging, OnEstablished, OnEnded, UseDeletedCall, RemoteRings, RemoteAnswers,
       SessionEnds, LostSessionReports, AnswerRing, CallUnchanged, RegUnchanged,
       RegistrarAccepts, RegistrarRejects, Refresh, Retry
  <2>4. QED
    BY <1>1, <1>2, <2>1, <2>3 DEF DroppedInv, TypeOK
<1>6. QED
  BY <1>3, <1>4, <1>5

\* Every step keeps the inductive invariant.
LEMMA StepIInv == IInv /\ [Next]_vars => IInv'
<1> SUFFICES ASSUME IInv, [Next]_vars PROVE IInv'
  OBVIOUS
<1>1. /\ RestOK /\ CallsOK /\ DroppedInv /\ TypeOK
      /\ MailInv /\ ShownCallExists
      /\ DroppedInv'
  BY IInvParts, DroppedStep DEF IInv
<1>2. CASE UNCHANGED vars
  <2>1. CallsOK' /\ SafeChange
    BY <1>1, <1>2, QuietCalls DEF vars, calls
  <2>2. RestOK'
    BY <1>1, <1>2 DEF RestOK, vars, calls
  <2>3. QED
    BY <1>1, <1>2, <2>1, <2>2, QuietStep DEF vars
<1>3. CASE CallButton
  <2>1. CallsOK' /\ SafeChange
    BY <1>1, <1>3, MakeCallKeeps DEF CallButton
  <2>2. RestOK'
    BY <1>1, <1>3, MakeTypes DEF CallButton, RestOK
  <2>3. QED
    BY <1>1, <1>3, <2>1, <2>2, QuietStep DEF CallButton
<1>4. CASE HangButton \/ CloseWindow
  <2>1. CallsOK' /\ SafeChange
    BY <1>1, <1>4, QuietCalls DEF HangButton, CloseWindow, calls
  <2>2. /\ gui' \in [at : {"free", "placing", "hangup", "forget"},
                     next : {"idle", "closing"}, code : {"ok", "busy"}]
        /\ sipState' \in {sipState, "idle", "closing"}
    BY <1>1, <1>4, HangTypes DEF HangButton, CloseWindow, RestOK
  <2>3. RestOK'
    BY <1>1, <1>4, <2>2 DEF HangButton, CloseWindow, RestOK, calls
  <2>4. QED
    BY <1>1, <1>4, <2>1, <2>2, <2>3, QuietStep DEF HangButton, CloseWindow
<1>5. CASE PlaceCall \/ EndCall \/ ForgetCall
  <2>1. CallsOK' /\ SafeChange
    BY <1>1, <1>5, PlaceKeeps, EndKeeps, ForgetKeeps
  <2>2. /\ gui' \in [at : {"free", "placing", "hangup", "forget"},
                     next : {"idle", "closing"}, code : {"ok", "busy"}]
        /\ sipState' \in {sipState, "idle", "closing"}
        /\ app' \in {"running", "closed", "crashed"}
        /\ reg' \in {"sent", "active", "refreshing", "unregistering", "lapsed",
                     "off", "noLibrary"}
        /\ crossed' \subseteq Calls
    <3>1. CASE PlaceCall
      BY <1>1, <3>1 DEF PlaceCall, Free, RestOK
    <3>2. CASE EndCall
      <4>1. gui' \in [at : {"free", "placing", "hangup", "forget"},
                     next : {"idle", "closing"}, code : {"ok", "busy"}]
        BY <1>1, <3>2 DEF EndCall, Free, RestOK
      <4>2. /\ crossed' = crossed
            /\ \/ CallEnded
               \/ UNCHANGED <<app, sipState, reg>>
               \/ sipState' = gui.next /\ UNCHANGED <<app, reg>>
        BY <3>2 DEF EndCall
      <4>3. gui.next \in {"idle", "closing"}
        BY <1>1 DEF RestOK
      <4>4. QED
        BY <1>1, <4>1, <4>2, <4>3, CallEndedTypes DEF RestOK
    <3>3. CASE ForgetCall
      BY <1>1, <3>3 DEF ForgetCall, Free, RestOK
    <3>4. QED
      BY <1>5, <3>1, <3>2, <3>3
  <2>3. RestOK' /\ mail' = mail
    BY <1>1, <1>5, <2>2 DEF PlaceCall, EndCall, ForgetCall, RestOK
  <2>4. QED
    BY <1>1, <2>1, <2>2, <2>3, QuietStep
<1>6. CASE Tick
  <2>1. CallsOK' /\ SafeChange
    BY <1>1, <1>6, QuietCalls DEF Tick, calls
  <2>2. dtmfTimeout' \in 0 .. DTMF_TIMEOUT + 1
    BY <1>1, <1>6, CallControlAssumption DEF Tick, RestOK
  <2>3. pinned' \subseteq Calls
    BY <1>1, <1>6 DEF Tick, RestOK, CallsOK
  <2>4. RestOK'
    BY <1>1, <1>6, <2>2, <2>3 DEF Tick, RestOK, calls
  <2>5. QED
    BY <1>1, <1>6, <2>1, <2>4, QuietStep DEF Tick
<1>7. CASE OnRegUp
  <2>1. CallsOK' /\ SafeChange
    <3>1. CASE AutoConf /\ sipState \notin {"calling", "localRing"}
      BY <1>1, <1>7, <3>1, MakeCallKeeps DEF OnRegUp
    <3>2. CASE ~(AutoConf /\ sipState \notin {"calling", "localRing"})
      BY <1>1, <1>7, <3>2, QuietCalls DEF OnRegUp, calls
    <3>3. QED
      BY <3>1, <3>2
  <2>2. RestOK'
    BY <1>1, <1>7, MakeTypes DEF OnRegUp, RestOK, calls
  <2>3. QED
    BY <1>1, <1>7, <2>1, <2>2, ReceiveStep DEF OnRegUp
<1>8. CASE OnRegDown
  <2>1. CallsOK' /\ SafeChange
    BY <1>1, <1>8, QuietCalls DEF OnRegDown, calls
  <2>2. /\ gui' \in [at : {"free", "placing", "hangup", "forget"},
                     next : {"idle", "closing"}, code : {"ok", "busy"}]
        /\ sipState' \in {sipState, "idle"}
    BY <1>1, <1>8, HangTypes DEF OnRegDown, RestOK
  <2>3. RestOK'
    BY <1>1, <1>8, <2>2 DEF OnRegDown, RestOK, calls
  <2>4. QED
    BY <1>1, <1>8, <2>1, <2>2, <2>3, ReceiveStep DEF OnRegDown
<1>9. CASE OnRinging
  <2>1. CallsOK' /\ SafeChange
    BY <1>1, <1>9, QuietCalls DEF OnRinging, calls
  <2>2. sipState' = Head(mail).kind /\ sipState' \in {"remoteRing", "localRing"}
    BY <1>9 DEF OnRinging, Receive
  <2>3. RestOK'
    BY <1>1, <1>9, <2>2 DEF OnRinging, RestOK, calls
  <2>4. MailInv' /\ (mail \in Seq(Message))'
    BY <1>1, <1>9, <2>1, ReceiveMailInv, ReceiveFacts DEF OnRinging
  <2>5. ShownCallExists'
    <3>1. CASE sipState' = "localRing"
      BY <3>1 DEF ShownCallExists
    <3>2. CASE sipState' = "remoteRing"
      <4>1. PICK c : c = Head(mail).call
        OBVIOUS
      <4>2. Receive({"remoteRing", "localRing", "established"})
        BY <1>9 DEF OnRinging, Receive
      <4>3. c \in Calls /\ (inv[c] = "gone" => EndQueued(c)') /\ inv[c] \in Rang
        BY <2>2, <3>2, <4>1, <4>2, HeadIsTrue
      <4>4. inv' = inv
        BY <1>9 DEF OnRinging, calls
      <4>5. QED
        BY <3>2, <4>3, <4>4 DEF ShownCallExists, Rang
    <3>3. QED
      BY <2>2, <3>1, <3>2
  <2>6. QED
    BY <1>1, <2>1, <2>3, <2>4, <2>5, IInvPartsNext
<1>10. CASE OnEstablished
  <2>1. CallsOK' /\ SafeChange
    BY <1>1, <1>10, QuietCalls DEF OnEstablished, calls
  <2>2. dtmfTimeout' \in 0 .. DTMF_TIMEOUT + 1
    BY <1>1, <1>10, CallControlAssumption DEF OnEstablished, RestOK
  <2>3. RestOK'
    BY <1>1, <1>10, <2>2 DEF OnEstablished, RestOK, calls
  <2>4. MailInv' /\ (mail \in Seq(Message))'
    BY <1>1, <1>10, <2>1, ReceiveMailInv, ReceiveFacts DEF OnEstablished
  <2>5. ShownCallExists'
    <3>1. PICK c : c = Head(mail).call
      OBVIOUS
    <3>2. Receive({"remoteRing", "localRing", "established"})
          /\ Head(mail).kind = "established"
      BY <1>10 DEF OnEstablished, Receive
    <3>3. c \in Calls /\ (inv[c] = "gone" => EndQueued(c)') /\ inv[c] \in Answered
      BY <3>1, <3>2, HeadIsTrue
    <3>4. inv' = inv /\ sipState' = "calling"
      BY <1>10 DEF OnEstablished, calls
    <3>5. QED
      BY <3>3, <3>4 DEF ShownCallExists, Answered
  <2>6. QED
    BY <1>1, <2>1, <2>3, <2>4, <2>5, IInvPartsNext
<1>11. CASE OnEnded
  <2>1. CallsOK' /\ SafeChange
    BY <1>1, <1>11, QuietCalls DEF OnEnded, calls
  <2>2. sipState' \in {"idle", "closing"}
    BY <1>1, <1>11, CallEndedTypes DEF OnEnded
  <2>3. RestOK'
    BY <1>1, <1>11, <2>2, CallEndedTypes DEF OnEnded, RestOK, calls
  <2>4. MailInv' /\ (mail \in Seq(Message))'
    BY <1>1, <1>11, <2>1, ReceiveMailInv, ReceiveFacts DEF OnEnded
  <2>5. ShownCallExists'
    BY <2>2 DEF ShownCallExists
  <2>6. QED
    BY <1>1, <2>1, <2>3, <2>4, <2>5, IInvPartsNext
<1>12. CASE UseDeletedCall \/ \E c \in Calls : LostSessionReports(c)
  <2>1. CallsOK' /\ SafeChange
    BY <1>1, <1>12, QuietCalls DEF UseDeletedCall, LostSessionReports, calls
  <2>2. RestOK'
    BY <1>1, <1>12 DEF UseDeletedCall, LostSessionReports, RestOK, calls
  <2>3. QED
    BY <1>1, <1>12, <2>1, <2>2, QuietStep DEF UseDeletedCall, LostSessionReports
<1>13. CASE \E c \in Calls : RemoteRings(c)
  <2>1. PICK c \in Calls : RemoteRings(c)
    BY <1>13
  <2>2. PICK state \in {"early", "cancelling"} :
          /\ inv' = [inv EXCEPT ![c] = state]
          /\ inv[c] = "cancelling" <=> state = "cancelling"
    BY <2>1 DEF RemoteRings
  <2>3. /\ inv[c] \in {"calling", "early", "cancelling"}
        /\ state \in CallStates \ {"free"}
        /\ state = "early" => Placed(c)
    BY <2>1, <2>2 DEF RemoteRings, CallStates, Placed
  <2>4. CallsOK'
    BY <1>1, <2>1, <2>2, <2>3, CallMoves DEF RemoteRings, CallUnchanged
  <2>5. SafeChange /\ inv'[c] = state
    BY <1>1, <2>2, <2>3 DEF SafeChange, Rang, Answered, CallsOK
  <2>6. RestOK'
    BY <1>1, <2>1 DEF RemoteRings, CallUnchanged, RestOK
  <2>7. [kind |-> "remoteRing", call |-> c] \in Message
    BY DEF Message, CallSignals
  <2>8. QED
    BY <1>1, <2>1, <2>2, <2>4, <2>5, <2>6, <2>7, EmitStep
    DEF RemoteRings, CallUnchanged, Rang
<1>14. CASE \E c \in Calls : RemoteAnswers(c)
  <2>1. PICK c \in Calls : RemoteAnswers(c)
    BY <1>14
  <2>2. PICK state \in {"leaving", "confirmed", "talking"} :
          /\ inv' = [inv EXCEPT ![c] = state]
          /\ inv[c] = "cancelling" => state = "leaving"
          /\ inv[c] = "answered" <=> state = "talking"
    BY <2>1 DEF RemoteAnswers
  <2>3. /\ inv[c] \in {"calling", "early", "cancelling", "answered"}
        /\ state \in CallStates \ {"free"}
        /\ state = "confirmed" => Placed(c)
    BY <2>1, <2>2 DEF RemoteAnswers, CallStates, Placed
  <2>4. CallsOK'
    BY <1>1, <2>1, <2>2, <2>3, CallMoves DEF RemoteAnswers, CallUnchanged
  <2>5. SafeChange /\ inv'[c] = state
    BY <1>1, <2>2, <2>3 DEF SafeChange, Rang, Answered, CallsOK
  <2>6. RestOK'
    BY <1>1, <2>1 DEF RemoteAnswers, CallUnchanged, RestOK
  <2>7. [kind |-> "established", call |-> c] \in Message
    BY DEF Message, CallSignals
  <2>8. QED
    BY <1>1, <2>1, <2>2, <2>4, <2>5, <2>6, <2>7, EmitStep
    DEF RemoteAnswers, CallUnchanged, Answered
<1>15. CASE \E c \in Calls : SessionEnds(c)
  <2>1. PICK c \in Calls : SessionEnds(c)
    BY <1>15
  <2>2. /\ inv[c] \notin {"free", "gone"} /\ inv' = [inv EXCEPT ![c] = "gone"]
        /\ Emit("ended", c) /\ UNCHANGED <<call, made, sipState>>
        /\ "gone" \in CallStates \ {"free"}
    BY <2>1 DEF SessionEnds, CallUnchanged, CallStates, Up, Placed
  <2>3. CallsOK'
    BY <1>1, <2>2, CallMoves
  <2>4. RestOK'
    BY <1>1, <2>1 DEF SessionEnds, CallUnchanged, RestOK
  <2>5. [kind |-> "ended", call |-> c] \in Message
    BY DEF Message, CallSignals
  <2>6. MailInv'
    BY <1>1, <2>2, EndMailInv
  <2>7. /\ mail' \in Seq(Message)
        /\ EndQueued(c)' /\ \A d \in Calls : EndQueued(d) => EndQueued(d)'
    <3>1. /\ mail' \in Seq(Message) /\ Len(mail') \in 1 .. Len(mail')
          /\ mail'[Len(mail')] = [kind |-> "ended", call |-> c]
      BY <1>1, <2>2, <2>5, EmitFacts
    <3>2. EndQueued(c)'
      BY <3>1 DEF EndQueued
    <3>3. \A d \in Calls : EndQueued(d) => EndQueued(d)'
      BY <1>1, <2>2, <2>5, EmitKeepsEnds
    <3>4. QED
      BY <3>1, <3>2, <3>3
  <2>8. \A d \in Calls : d # c => inv'[d] = inv[d]
    BY <1>1, <2>2 DEF CallsOK
  <2>9. ShownCallExists'
    BY <1>1, <2>2, <2>7, <2>8 DEF ShownCallExists
  <2>10. QED
    BY <1>1, <2>3, <2>4, <2>6, <2>7, <2>9, IInvPartsNext
<1>16. CASE IncomingCall
  <2>1. CallsOK' /\ SafeChange
    BY <1>1, <1>16, NewCall DEF IncomingCall
  <2>2. made + 1 \in Calls
    BY <1>1, <1>16, CallControlAssumption DEF IncomingCall, CallsOK, Calls
  <2>3. RestOK'
    BY <1>1, <1>16, <2>2 DEF IncomingCall, RestOK
  <2>4. QED
    BY <1>1, <1>16, <2>1, <2>3, QuietStep DEF IncomingCall
<1>17. CASE RegistrarAccepts \/ RegistrarRejects \/ Retry
  <2>1. PICK kind \in RegSignals : Emit(kind, NoCall)
    BY <1>17 DEF RegistrarAccepts, RegistrarRejects, Retry, RegSignals
  <2>2. RegUnchanged
    BY <1>17 DEF RegistrarAccepts, RegistrarRejects, Retry
  <2>3. reg' \in {"active", "lapsed", "off", "sent"}
    BY <1>17 DEF RegistrarAccepts, RegistrarRejects, Retry
  <2>4. CallsOK' /\ SafeChange
    BY <1>1, <2>2, QuietCalls DEF RegUnchanged, calls
  <2>5. RestOK'
    BY <1>1, <2>2, <2>3 DEF RegUnchanged, RestOK, calls
  <2>6. [kind |-> kind, call |-> NoCall] \in Message
    BY DEF Message
  <2>7. kind \notin {"remoteRing", "established"}
    BY DEF RegSignals
  <2>8. QED
    BY <1>1, <2>1, <2>2, <2>4, <2>5, <2>6, <2>7, EmitStep DEF RegUnchanged
<1>18. CASE Refresh
  <2>1. CallsOK' /\ SafeChange
    BY <1>1, <1>18, QuietCalls DEF Refresh, RegUnchanged, calls
  <2>2. RestOK'
    BY <1>1, <1>18 DEF Refresh, RegUnchanged, RestOK, calls
  <2>3. QED
    BY <1>1, <1>18, <2>1, <2>2, QuietStep DEF Refresh, RegUnchanged
<1>19. CASE AnswerRing
  <2>1. CallsOK' /\ SafeChange
    BY <1>1, <1>19, QuietCalls DEF AnswerRing, calls
  <2>2. RestOK'
    BY <1>1, <1>19 DEF AnswerRing, RestOK, calls
  <2>3. [kind |-> "localRing", call |-> ring] \in Message
    BY <1>1, <1>19 DEF AnswerRing, RestOK, Message, CallSignals
  <2>4. CASE Emit("localRing", ring)
    BY <1>1, <1>19, <2>1, <2>2, <2>3, <2>4, EmitStep DEF AnswerRing
  <2>5. CASE mail' = mail
    BY <1>1, <1>19, <2>1, <2>2, <2>5, QuietStep DEF AnswerRing
  <2>6. QED
    BY <1>19, <2>4, <2>5 DEF AnswerRing
<1>20. GuiStep \/ WorkerStep \/ UNCHANGED vars
  BY DEF Next
<1>21. CASE GuiStep
  BY <1>21, <1>3, <1>4, <1>5, <1>6, <1>7, <1>8, <1>9, <1>10, <1>11, <1>12
  DEF GuiStep
<1>22. CASE WorkerStep
  BY <1>22, <1>12, <1>13, <1>14, <1>15, <1>16, <1>17, <1>18, <1>19 DEF WorkerStep
<1>23. QED
  BY <1>2, <1>20, <1>21, <1>22

-----------------------------------------------------------------------------
(* The theorems *)

\* The inductive invariant holds in every reachable state: what is queued for
\* the GUI thread stays true of the sessions it reports about.
THEOREM Invariance == Spec => []IInv
<1>1. Init => IInv
  BY InitIInv
<1>2. IInv /\ [Next]_vars => IInv'
  BY StepIInv
<1>3. QED
  BY <1>1, <1>2, PTL DEF Spec

\* Every variable keeps its type, in particular the PIN timer its range and
\* the call pointer an object that was constructed.
THEOREM TypeCorrect == Spec => []TypeOK
<1>1. IInv => TypeOK
  BY DEF IInv
<1>2. QED
  BY <1>1, Invariance, PTL

\* The window never shows a call whose end the GUI thread has handled,
\* whatever calls overlap (mainwindow.cpp:916-976).
THEOREM ShownCall == Spec => []ShownCallExists
<1>1. IInv => ShownCallExists
  BY DEF IInv
<1>2. QED
  BY <1>1, Invariance, PTL

\* A call this program placed and nobody hung up is the one VoIP::call names, or was
\* replaced there by a younger one, wherever ring comes between the steps of makeCall
\* and hangupCall (VoIP.cpp:120-206).
THEOREM CallRemembered == Spec => []NoCallForgotten
<1>1. IInv => NoCallForgotten
  <2>1. SUFFICES ASSUME IInv, NEW c \in Calls, Placed(c), call # c
                 PROVE  \E d \in Calls : d > c /\ inv[d] # "free"
    BY DEF NoCallForgotten
  <2>2. c < made /\ made \in Calls
    BY <2>1, CallControlAssumption DEF IInv, PointerInv, TypeOK, Calls
  <2>3. inv[made] # "free"
    BY <2>1, <2>2 DEF IInv, MadeInv, Calls
  <2>4. QED
    BY <2>2, <2>3
<1>2. QED
  BY <1>1, Invariance, PTL

-----------------------------------------------------------------------------
(* The PIN *)

\* That the call VoIP::call names was established is still to be handled.
Announced ==
  \E i \in 1 .. Len(mail) : mail[i] = [kind |-> "established", call |-> call]

\* An established call waits for its PIN, or for the slot that starts the timer.
PinInv ==
  HasPin /\ call # NoCall /\ inv[call] = "confirmed" =>
    dtmfTimeout > 0 \/ call \in pinned \/ Announced

\* Taking another signal leaves a signal in the queue.
LEMMA ReceiveLeaves ==
  ASSUME TypeOK, NEW kinds, Receive(kinds), NEW m, m.kind \notin kinds,
         NEW i \in 1 .. Len(mail), mail[i] = m
  PROVE  \E j \in 1 .. Len(mail') : mail'[j] = m
<1>1. /\ Len(mail) \in Nat /\ Len(mail') = Len(mail) - 1
      /\ mail[1].kind \in kinds
      /\ \A k \in 1 .. Len(mail') : mail'[k] = mail[k + 1]
  BY ReceiveFacts
<1>2. i # 1
  BY <1>1
<1>3. i - 1 \in 1 .. Len(mail') /\ mail'[i - 1] = mail[i]
  BY <1>1, <1>2
<1>4. QED
  BY <1>3

\* A step that establishes no call and leaves the timer, the calls that got
\* their PIN, and the announcement.
LEMMA PinKept ==
  ASSUME PinInv, UNCHANGED <<dtmfTimeout, pinned>>,
         call' # NoCall /\ inv'[call'] = "confirmed" =>
           call' = call /\ inv[call] = "confirmed",
         call' = call /\ Announced => Announced'
  PROVE  PinInv'
BY DEF PinInv

\* A new object has no established call.
LEMMA NewEstablishesNone ==
  ASSUME TypeOK, made < MaxCalls, call' = made + 1,
         NEW outcome \in {"placing", "ringing"},
         inv' = [inv EXCEPT ![made + 1] = outcome]
  PROVE  inv'[call'] # "confirmed"
<1>1. made + 1 \in Calls
  BY CallControlAssumption DEF TypeOK, Calls
<1>2. inv'[made + 1] = outcome
  BY <1>1 DEF TypeOK
<1>3. QED
  BY <1>2

\* The same of makeCall.
LEMMA MakeEstablishesNone ==
  ASSUME TypeOK, MakeCall
  PROVE  inv'[call'] # "confirmed"
BY NewEstablishesNone DEF MakeCall

\* What the GUI thread goes on with establishes none.
LEMMA GoingOnEstablishesNone ==
  ASSUME TypeOK, PlaceCall \/ EndCall \/ ForgetCall,
         call' # NoCall, inv'[call'] = "confirmed"
  PROVE  call' = call /\ inv[call] = "confirmed"
<1>1. CASE PlaceCall
  BY <1>1 DEF PlaceCall, TypeOK, NoCall
<1>2. CASE EndCall
  <2>1. call' = call /\ call \in Calls
    BY <1>2 DEF EndCall, TypeOK
  <2>2. CASE Up(call)
    <3>1. inv'[call] = HungUp(inv[call], gui.code)
      BY <1>2, <2>1, <2>2 DEF EndCall, TypeOK
    <3>2. inv'[call] # "confirmed"
      BY <2>2, <3>1, HungUpFacts DEF Up, Placed
    <3>3. QED
      BY <2>1, <3>2
  <2>3. CASE ~Up(call)
    BY <1>2, <2>1, <2>3 DEF EndCall
  <2>4. QED
    BY <2>2, <2>3
<1>3. CASE ForgetCall
  BY <1>3 DEF ForgetCall
<1>4. QED
  BY <1>1, <1>2, <1>3

\* Steps of the GUI thread that take no signal.
LEMMA ButtonsPin ==
  ASSUME TypeOK, PinInv,
         \/ CallButton \/ HangButton \/ CloseWindow
         \/ PlaceCall \/ EndCall \/ ForgetCall \/ UseDeletedCall
  PROVE  PinInv'
<1>1. UNCHANGED <<dtmfTimeout, pinned, mail>>
  BY DEF CallButton, HangButton, CloseWindow, PlaceCall, EndCall, ForgetCall,
     UseDeletedCall
<1>2. call' = call /\ Announced => Announced'
  BY <1>1 DEF Announced
<1>3. \/ MakeCall \/ UNCHANGED <<call, inv>>
      \/ PlaceCall \/ EndCall \/ ForgetCall
  BY DEF CallButton, HangButton, CloseWindow, UseDeletedCall, calls
<1>4. call' # NoCall /\ inv'[call'] = "confirmed" =>
        call' = call /\ inv[call] = "confirmed"
  BY <1>3, MakeEstablishesNone, GoingOnEstablishesNone
<1>5. QED
  BY <1>1, <1>2, <1>4, PinKept

\* Handling a report keeps it: CONFIRMED starts the timer.
LEMMA ReportsPin ==
  ASSUME TypeOK, PinInv,
         OnRegUp \/ OnRegDown \/ OnRinging \/ OnEstablished \/ OnEnded
  PROVE  PinInv'
<1>1. CASE OnEstablished
  BY <1>1 DEF OnEstablished, PinInv, calls
<1>2. CASE ~OnEstablished
  <2>1. UNCHANGED <<dtmfTimeout, pinned>>
    BY <1>2 DEF OnRegUp, OnRegDown, OnRinging, OnEnded
  <2>2. PICK kinds \in {{"regUp"}, {"regDown"}, {"remoteRing", "localRing"}, {"ended"}} :
          Receive(kinds)
    BY <1>2 DEF OnRegUp, OnRegDown, OnRinging, OnEnded
  <2>3. ASSUME call' = call, Announced PROVE Announced'
    <3>1. PICK i \in 1 .. Len(mail) :
            mail[i] = [kind |-> "established", call |-> call]
      BY <2>3 DEF Announced
    <3>2. \E j \in 1 .. Len(mail') :
            mail'[j] = [kind |-> "established", call |-> call]
      BY <2>2, <3>1, ReceiveLeaves
    <3>3. QED
      BY <2>3, <3>2 DEF Announced
  <2>4. MakeCall \/ UNCHANGED <<call, inv>>
    BY <1>2 DEF OnRegUp, OnRegDown, OnRinging, OnEnded, calls
  <2>5. call' # NoCall /\ inv'[call'] = "confirmed" =>
          call' = call /\ inv[call] = "confirmed"
    BY <2>4, MakeEstablishesNone
  <2>6. QED
    BY <2>1, <2>3, <2>5, PinKept
<1>3. QED
  BY <1>1, <1>2

\* The timer keeps it: when it fires an established call gets its PIN.
LEMMA TickPin ==
  ASSUME TypeOK, PinInv, Tick
  PROVE  PinInv'
<1>1. UNCHANGED <<call, inv, mail>>
  BY DEF Tick, calls
<1>2. CASE dtmfTimeout > DTMF_TIMEOUT
  BY <1>1, <1>2 DEF Tick, PinInv
<1>3. CASE ~(dtmfTimeout > DTMF_TIMEOUT)
  BY <1>1, <1>3 DEF Tick, PinInv, TypeOK
<1>4. QED
  BY <1>2, <1>3

\* The worker thread keeps it: what it establishes it announces.
LEMMA WorkerPin ==
  ASSUME TypeOK, PinInv, WorkerStep
  PROVE  PinInv'
<1>1. UNCHANGED <<dtmfTimeout, pinned>>
  BY DEF WorkerStep, RemoteRings, RemoteAnswers, SessionEnds, LostSessionReports,
         IncomingCall, AnswerRing, RegistrarAccepts, RegistrarRejects, Refresh, Retry,
         CallUnchanged, RegUnchanged
<1>2. ASSUME NEW kind, NEW c, [kind |-> kind, call |-> c] \in Message,
             Emit(kind, c), call' = call, Announced
      PROVE  Announced'
  <2>1. /\ Len(mail) \in Nat /\ Len(mail') = Len(mail) + 1
        /\ \A i \in 1 .. Len(mail) : mail'[i] = mail[i]
    BY <1>2, EmitFacts
  <2>2. QED
    BY <1>2, <2>1 DEF Announced
<1>3. ASSUME NEW c \in Calls, RemoteRings(c) PROVE PinInv'
  <2>1. call' = call /\ [kind |-> "remoteRing", call |-> c] \in Message
    BY <1>3 DEF RemoteRings, CallUnchanged, Message, CallSignals
  <2>2. \A d \in Calls : inv'[d] = "confirmed" => inv[d] = "confirmed"
    BY <1>3 DEF RemoteRings, TypeOK
  <2>3. call' = call /\ Announced => Announced'
    BY <1>2, <1>3, <2>1 DEF RemoteRings
  <2>4. QED
    BY <1>1, <2>1, <2>2, <2>3, PinKept DEF TypeOK
<1>4. ASSUME NEW c \in Calls, RemoteAnswers(c) PROVE PinInv'
  <2>1. call' = call /\ [kind |-> "established", call |-> c] \in Message
    BY <1>4 DEF RemoteAnswers, CallUnchanged, Message, CallSignals
  <2>2. CASE c = call
    <3>1. /\ Len(mail') \in 1 .. Len(mail')
          /\ mail'[Len(mail')] = [kind |-> "established", call |-> c]
      BY <1>4, <2>1, EmitFacts DEF RemoteAnswers
    <3>2. QED
      BY <2>1, <2>2, <3>1 DEF PinInv, Announced
  <2>3. CASE c # call
    <3>1. call # NoCall => inv'[call] = inv[call]
      <4>1. PICK state : inv' = [inv EXCEPT ![c] = state]
        BY <1>4 DEF RemoteAnswers
      <4>2. QED
        BY <2>3, <4>1 DEF TypeOK
    <3>2. call' = call /\ Announced => Announced'
      BY <1>2, <1>4, <2>1 DEF RemoteAnswers
    <3>3. QED
      BY <1>1, <2>1, <3>1, <3>2, PinKept
  <2>4. QED
    BY <2>2, <2>3
<1>5. ASSUME NEW c \in Calls, SessionEnds(c) PROVE PinInv'
  <2>1. call' = call /\ [kind |-> "ended", call |-> c] \in Message
    BY <1>5 DEF SessionEnds, CallUnchanged, Message, CallSignals
  <2>2. \A d \in Calls : inv'[d] = "confirmed" => inv[d] = "confirmed"
    BY <1>5 DEF SessionEnds, TypeOK
  <2>3. call' = call /\ Announced => Announced'
    BY <1>2, <1>5, <2>1 DEF SessionEnds
  <2>4. QED
    BY <1>1, <2>1, <2>2, <2>3, PinKept DEF TypeOK
<1>6. CASE IncomingCall
  <2>1. inv'[call'] # "confirmed"
    BY <1>6, NewEstablishesNone DEF IncomingCall
  <2>2. QED
    BY <2>1 DEF PinInv
<1>7. CASE RegistrarAccepts \/ RegistrarRejects \/ Retry
  <2>1. PICK kind \in RegSignals : Emit(kind, NoCall)
    BY <1>7 DEF RegistrarAccepts, RegistrarRejects, Retry, RegSignals
  <2>2. UNCHANGED <<call, inv>>
    BY <1>7 DEF RegistrarAccepts, RegistrarRejects, Retry, RegUnchanged, calls
  <2>3. [kind |-> kind, call |-> NoCall] \in Message
    BY DEF Message
  <2>4. QED
    BY <1>1, <1>2, <2>1, <2>2, <2>3, PinKept
<1>8. CASE Refresh \/ \E c \in Calls : LostSessionReports(c)
  BY <1>1, <1>8, PinKept DEF Refresh, LostSessionReports, RegUnchanged, Announced, calls
<1>9. CASE AnswerRing
  <2>1. UNCHANGED <<call, inv>> /\ (mail' = mail \/ Emit("localRing", ring))
    BY <1>9 DEF AnswerRing, calls
  <2>2. [kind |-> "localRing", call |-> ring] \in Message
    BY <1>9 DEF AnswerRing, TypeOK, Message, CallSignals
  <2>3. Announced => Announced'
    BY <1>2, <2>1, <2>2 DEF Announced
  <2>4. QED
    BY <1>1, <2>1, <2>3, PinKept
<1>10. QED
  BY <1>3, <1>4, <1>5, <1>6, <1>7, <1>8, <1>9 DEF WorkerStep

\* An established call gets its PIN, or the timer counts, or its CONFIRMED is
\* still to be handled, whatever calls and timers overlap
\* (mainwindow.cpp:957, 701-710).
THEOREM PinArrives == Spec => []PinReachesCall
<1>1. Init => PinInv
  BY DEF Init, PinInv
<1>2. TypeOK /\ PinInv /\ [Next]_vars => PinInv'
  <2> SUFFICES ASSUME TypeOK, PinInv, [Next]_vars PROVE PinInv'
    OBVIOUS
  <2>1. CASE UNCHANGED vars
    BY <2>1 DEF vars, calls, PinInv, Announced
  <2>2. QED
    BY <2>1, ButtonsPin, ReportsPin, TickPin, WorkerPin DEF Next, GuiStep
<1>3. PinInv => PinReachesCall
  BY DEF PinInv, PinReachesCall, Announced, CallSignals
<1>4. QED
  BY <1>1, <1>2, <1>3, TypeCorrect, PTL DEF Spec

-----------------------------------------------------------------------------
(* The buttons *)

Registered == reg \in {"active", "refreshing"}

NoReport == \A i \in 1 .. Len(mail) : mail[i].kind \notin RegSignals

\* Signal i is the newest about the registration.
Newest(i) ==
  /\ mail[i].kind \in RegSignals
  /\ \A j \in i + 1 .. Len(mail) : mail[j].kind \notin RegSignals

\* The newest report tells the state of the registration; when none is queued
\* the buttons do.
NewestInv ==
  \A i \in 1 .. Len(mail) : Newest(i) => (mail[i].kind = "regUp" <=> Registered)

ButtonsInv == NoReport => (buttons <=> Registered)

RegInv == app = "running" => reg # "unregistering" /\ NewestInv /\ ButtonsInv

\* What a step may do to the registration without a report.
RegKept == reg' # "unregistering" /\ (Registered' <=> Registered)

\* unregisterAccount, unless it closes the window.
LEMMA UnregisterKeeps ==
  ASSUME UnregisterAccount, app' = "running", reg # "unregistering"
  PROVE  RegKept
<1>1. reg # "active"
  BY DEF UnregisterAccount
<1>2. CASE reg = "lapsed"
  BY <1>2 DEF UnregisterAccount, RegKept, Registered
<1>3. CASE reg # "lapsed"
  <2>1. reg' = reg
    BY <1>1, <1>3 DEF UnregisterAccount
  <2>2. QED
    BY <2>1 DEF RegKept, Registered
<1>4. QED
  BY <1>2, <1>3

\* The same of the end of a call.
LEMMA CallEndedKeeps ==
  ASSUME CallEnded, app' = "running", reg # "unregistering"
  PROVE  RegKept
<1>1. UnregisterAccount \/ reg' = reg
  BY DEF CallEnded
<1>2. QED
  BY <1>1, UnregisterKeeps DEF RegKept, Registered

\* A step without a report.
LEMMA QuietReg ==
  ASSUME RegInv, app = "running", app' = "running" => RegKept,
         UNCHANGED <<mail, buttons>>
  PROVE  RegInv'
<1>1. ASSUME app' = "running" PROVE NewestInv'
  BY <1>1 DEF RegInv, NewestInv, Newest, RegKept
<1>2. ASSUME app' = "running" PROVE ButtonsInv'
  BY <1>2 DEF RegInv, ButtonsInv, NoReport, RegKept
<1>3. QED
  BY <1>1, <1>2 DEF RegInv, RegKept

\* Taking a signal: the newest report in the rest of the queue was the newest.
LEMMA ReceiveNewest ==
  ASSUME TypeOK, NewestInv, NEW kinds, Receive(kinds), Registered' <=> Registered
  PROVE  NewestInv'
<1>1. /\ Len(mail) \in Nat /\ Len(mail') = Len(mail) - 1
      /\ \A k \in 1 .. Len(mail') : mail'[k] = mail[k + 1]
  BY ReceiveFacts
<1>2. SUFFICES ASSUME NEW i \in 1 .. Len(mail'), Newest(i)'
               PROVE  mail'[i].kind = "regUp" <=> Registered'
  BY DEF NewestInv
<1>3. i + 1 \in 1 .. Len(mail) /\ mail'[i] = mail[i + 1]
  BY <1>1
<1>4. ASSUME NEW j \in i + 2 .. Len(mail) PROVE mail[j].kind \notin RegSignals
  <2>1. j - 1 \in i + 1 .. Len(mail') /\ mail'[j - 1] = mail[j]
    BY <1>1, <1>4
  <2>2. QED
    BY <1>2, <2>1 DEF Newest
<1>5. (i + 1) + 1 = i + 2
  BY <1>1
<1>6. Newest(i + 1)
  BY <1>2, <1>3, <1>4, <1>5 DEF Newest
<1>7. mail[i + 1].kind = "regUp" <=> Registered
  BY <1>3, <1>6 DEF NewestInv
<1>8. QED
  BY <1>3, <1>7

\* Taking a signal about a call.
LEMMA ReceiveCallReg ==
  ASSUME TypeOK, RegInv, app = "running", app' = "running" => RegKept,
         UNCHANGED buttons,
         NEW kinds \in SUBSET CallSignals, Receive(kinds)
  PROVE  RegInv'
<1>1. /\ Len(mail) \in Nat /\ Len(mail') = Len(mail) - 1
      /\ mail[1].kind \notin RegSignals
      /\ \A k \in 1 .. Len(mail') : mail'[k] = mail[k + 1]
  BY ReceiveFacts DEF CallSignals, RegSignals
<1>2. ASSUME NoReport' PROVE NoReport
  <2>1. SUFFICES ASSUME NEW i \in 1 .. Len(mail) PROVE mail[i].kind \notin RegSignals
    BY DEF NoReport
  <2>2. CASE i = 1
    BY <1>1, <2>2
  <2>3. CASE i # 1
    <3>1. i - 1 \in 1 .. Len(mail') /\ mail'[i - 1] = mail[i]
      BY <1>1, <2>3
    <3>2. QED
      BY <1>2, <3>1 DEF NoReport
  <2>4. QED
    BY <2>2, <2>3
<1>3. ASSUME app' = "running" PROVE NewestInv'
  BY <1>3, ReceiveNewest DEF RegInv, RegKept
<1>4. ASSUME app' = "running" PROVE ButtonsInv'
  BY <1>2, <1>4 DEF RegInv, ButtonsInv, RegKept
<1>5. QED
  BY <1>3, <1>4 DEF RegInv, RegKept

\* Taking a report: when it is the last one the buttons come to show it.
LEMMA ReceiveReportReg ==
  ASSUME TypeOK, RegInv, app = "running", app' = "running" => RegKept,
         NEW kind \in RegSignals, Receive({kind}),
         app' = "running" => (buttons' <=> kind = "regUp")
  PROVE  RegInv'
<1>1. /\ Len(mail) \in Nat /\ Len(mail) > 0 /\ Len(mail') = Len(mail) - 1
      /\ mail[1].kind = kind
      /\ \A k \in 1 .. Len(mail') : mail'[k] = mail[k + 1]
  BY ReceiveFacts
<1>2. ASSUME NoReport' PROVE Newest(1)
  <2>1. ASSUME NEW j \in 2 .. Len(mail) PROVE mail[j].kind \notin RegSignals
    <3>1. j - 1 \in 1 .. Len(mail') /\ mail'[j - 1] = mail[j]
      BY <1>1, <2>1
    <3>2. QED
      BY <1>2, <3>1 DEF NoReport
  <2>2. QED
    BY <1>1, <2>1 DEF Newest
<1>3. ASSUME app' = "running" PROVE NewestInv'
  BY <1>3, ReceiveNewest DEF RegInv, RegKept
<1>4. ASSUME app' = "running", NoReport' PROVE buttons' <=> Registered'
  <2>1. 1 \in 1 .. Len(mail)
    BY <1>1
  <2>2. mail[1].kind = "regUp" <=> Registered
    BY <1>2, <1>4, <2>1 DEF RegInv, NewestInv
  <2>3. QED
    BY <1>1, <1>4, <2>2 DEF RegKept
<1>5. QED
  BY <1>3, <1>4 DEF RegInv, RegKept, ButtonsInv

\* Queueing a signal about a call.
LEMMA EmitCallReg ==
  ASSUME TypeOK, RegInv, UNCHANGED <<app, reg, buttons>>,
         NEW kind \in CallSignals, NEW c \in Calls, Emit(kind, c)
  PROVE  RegInv'
<1>1. [kind |-> kind, call |-> c] \in Message
  BY DEF Message
<1>2. /\ Len(mail) \in Nat /\ Len(mail') = Len(mail) + 1
      /\ \A i \in 1 .. Len(mail) : mail'[i] = mail[i]
      /\ mail'[Len(mail')].kind \notin RegSignals
  BY <1>1, EmitFacts DEF CallSignals, RegSignals
<1>3. Registered' <=> Registered
  BY DEF Registered
<1>4. ASSUME NewestInv PROVE NewestInv'
  <2>1. SUFFICES ASSUME NEW i \in 1 .. Len(mail'), Newest(i)'
                 PROVE  mail'[i].kind = "regUp" <=> Registered'
    BY DEF NewestInv
  <2>2. i # Len(mail')
    BY <1>2, <2>1 DEF Newest
  <2>3. i \in 1 .. Len(mail) /\ mail'[i] = mail[i]
    BY <1>2, <2>2
  <2>4. ASSUME NEW j \in i + 1 .. Len(mail) PROVE mail[j].kind \notin RegSignals
    <3>1. j \in 1 .. Len(mail) /\ j \in i + 1 .. Len(mail')
      BY <1>2, <2>3, <2>4
    <3>2. QED
      BY <1>2, <2>1, <3>1 DEF Newest
  <2>5. Newest(i)
    BY <2>1, <2>3, <2>4 DEF Newest
  <2>6. QED
    BY <1>3, <1>4, <2>3, <2>5 DEF NewestInv
<1>5. ASSUME NoReport' PROVE NoReport
  <2>1. SUFFICES ASSUME NEW i \in 1 .. Len(mail) PROVE mail[i].kind \notin RegSignals
    BY DEF NoReport
  <2>2. i \in 1 .. Len(mail') /\ mail'[i] = mail[i]
    BY <1>2
  <2>3. QED
    BY <1>5, <2>2 DEF NoReport
<1>6. QED
  BY <1>3, <1>4, <1>5 DEF RegInv, ButtonsInv

\* Queueing a report that tells the new state.
LEMMA EmitReportReg ==
  ASSUME TypeOK, NEW kind \in RegSignals, Emit(kind, NoCall),
         reg' # "unregistering", kind = "regUp" <=> Registered'
  PROVE  RegInv'
<1>1. [kind |-> kind, call |-> NoCall] \in Message
  BY DEF Message
<1>2. /\ Len(mail) \in Nat /\ Len(mail') = Len(mail) + 1
      /\ mail'[Len(mail')] = [kind |-> kind, call |-> NoCall]
  BY <1>1, EmitFacts
<1>3. mail'[Len(mail')].kind = kind
  BY <1>2
<1>4. NewestInv'
  <2>1. SUFFICES ASSUME NEW i \in 1 .. Len(mail'), Newest(i)'
                 PROVE  mail'[i].kind = "regUp" <=> Registered'
    BY DEF NewestInv
  <2>2. i = Len(mail')
    <3>1. SUFFICES ASSUME i # Len(mail') PROVE FALSE
      OBVIOUS
    <3>2. Len(mail') \in i + 1 .. Len(mail')
      BY <1>2, <3>1
    <3>3. QED
      BY <1>3, <2>1, <3>2 DEF Newest
  <2>3. QED
    BY <1>3, <2>2
<1>5. ~NoReport'
  <2>1. Len(mail') \in 1 .. Len(mail')
    BY <1>2
  <2>2. QED
    BY <1>3, <2>1 DEF NoReport
<1>6. QED
  BY <1>4, <1>5 DEF RegInv, ButtonsInv

\* The GUI thread keeps it.
LEMMA GuiReg ==
  ASSUME TypeOK, RegInv, GuiStep
  PROVE  RegInv'
<1>1. app = "running" /\ reg # "unregistering"
  BY DEF GuiStep, CallButton, HangButton, CloseWindow, PlaceCall, EndCall, ForgetCall,
         Tick, OnRegUp, OnRegDown, OnRinging, OnEstablished, OnEnded, UseDeletedCall,
         Receive, EventLoop, RegInv
<1>2. CASE \/ CallButton \/ HangButton \/ CloseWindow \/ PlaceCall \/ EndCall
           \/ ForgetCall \/ Tick \/ UseDeletedCall
  <2>1. UNCHANGED <<mail, buttons>>
    BY <1>2 DEF CallButton, HangButton, CloseWindow, PlaceCall, EndCall, ForgetCall,
       Tick, UseDeletedCall
  <2>2. CallEnded \/ reg' = reg
    BY <1>2 DEF CallButton, HangButton, CloseWindow, PlaceCall, EndCall, ForgetCall,
       Tick, UseDeletedCall
  <2>3. app' = "running" => RegKept
    BY <1>1, <2>2, CallEndedKeeps DEF RegKept, Registered
  <2>4. QED
    BY <1>1, <2>1, <2>3, QuietReg
<1>3. CASE OnRegUp
  <2>1. Receive({"regUp"}) /\ buttons' = TRUE /\ reg' = reg
    BY <1>3 DEF OnRegUp
  <2>2. RegKept /\ "regUp" \in RegSignals
    BY <1>1, <2>1 DEF RegKept, Registered, RegSignals
  <2>3. QED
    BY <1>1, <2>1, <2>2, ReceiveReportReg
<1>4. CASE OnRegDown
  <2>1. Receive({"regDown"}) /\ "regDown" \in RegSignals
    BY <1>4 DEF OnRegDown, RegSignals
  <2>2. app' = "running" => RegKept /\ buttons' = FALSE
    <3>1. SUFFICES ASSUME app' = "running" PROVE RegKept /\ buttons' = FALSE
      OBVIOUS
    <3>2. buttons' = FALSE /\ reg' = reg
      BY <1>4, <3>1 DEF OnRegDown
    <3>3. QED
      BY <1>1, <3>1, <3>2 DEF RegKept, Registered
  <2>3. QED
    BY <1>1, <2>1, <2>2, ReceiveReportReg
<1>5. CASE OnRinging \/ OnEstablished \/ OnEnded
  <2>1. PICK kinds \in {{"remoteRing", "localRing"}, {"established"}, {"ended"}} :
          Receive(kinds)
    BY <1>5 DEF OnRinging, OnEstablished, OnEnded
  <2>2. buttons' = buttons /\ (CallEnded \/ reg' = reg)
    BY <1>5 DEF OnRinging, OnEstablished, OnEnded
  <2>3. app' = "running" => RegKept
    BY <1>1, <2>2, CallEndedKeeps DEF RegKept, Registered
  <2>4. kinds \in SUBSET CallSignals
    BY <2>1 DEF CallSignals
  <2>5. QED
    BY <1>1, <2>1, <2>2, <2>3, <2>4, ReceiveCallReg
<1>6. QED
  BY <1>2, <1>3, <1>4, <1>5 DEF GuiStep

\* The worker thread keeps it.
LEMMA WorkerReg ==
  ASSUME TypeOK, RegInv, WorkerStep
  PROVE  RegInv'
<1>1. ASSUME NEW c \in Calls, RemoteRings(c) \/ RemoteAnswers(c) \/ SessionEnds(c)
      PROVE  RegInv'
  <2>1. PICK kind \in CallSignals : Emit(kind, c)
    BY <1>1 DEF RemoteRings, RemoteAnswers, SessionEnds, CallSignals
  <2>2. UNCHANGED <<app, reg, buttons>>
    BY <1>1 DEF RemoteRings, RemoteAnswers, SessionEnds, CallUnchanged
  <2>3. QED
    BY <2>1, <2>2, EmitCallReg
<1>2. CASE IncomingCall
  <2>1. app = "running" /\ UNCHANGED <<app, reg, mail, buttons>>
    BY <1>2 DEF IncomingCall, Worker
  <2>2. reg # "unregistering"
    BY <2>1 DEF RegInv
  <2>3. QED
    BY <2>1, <2>2, QuietReg DEF RegKept, Registered
<1>3. CASE RegistrarAccepts
  <2>1. Emit("regUp", NoCall) /\ reg' = "active"
    BY <1>3 DEF RegistrarAccepts
  <2>2. QED
    BY <2>1, EmitReportReg DEF RegSignals, Registered
<1>4. CASE RegistrarRejects \/ Retry
  <2>1. Emit("regDown", NoCall) /\ reg' \in {"lapsed", "off", "sent"}
    BY <1>4 DEF RegistrarRejects, Retry
  <2>2. QED
    BY <2>1, EmitReportReg DEF RegSignals, Registered
<1>5. CASE Refresh
  <2>1. app = "running" /\ RegKept /\ UNCHANGED <<mail, buttons>>
    BY <1>5 DEF Refresh, RegUnchanged, RegKept, Registered, Worker
  <2>2. QED
    BY <2>1, QuietReg
<1>6. CASE AnswerRing
  <2>1. app = "running" /\ UNCHANGED <<reg, buttons>> /\ ring \in Calls
    BY <1>6 DEF AnswerRing, TypeOK
  <2>2. CASE Emit("localRing", ring) /\ UNCHANGED app
    BY <2>1, <2>2, EmitCallReg DEF CallSignals
  <2>3. CASE UNCHANGED mail
    <3>1. reg # "unregistering"
      BY <2>1 DEF RegInv
    <3>2. QED
      BY <2>1, <2>3, <3>1, QuietReg DEF RegKept, Registered
  <2>4. QED
    BY <1>6, <2>2, <2>3 DEF AnswerRing
<1>7. CASE \E c \in Calls : LostSessionReports(c)
  BY <1>7 DEF LostSessionReports, RegInv
<1>8. QED
  BY <1>1, <1>2, <1>3, <1>4, <1>5, <1>6, <1>7 DEF WorkerStep

\* When no report is queued the buttons show whether the account is registered,
\* although some reports are handled ahead of the queue
\* (mainwindow.cpp:873-904, MyAccount.cpp:20-37).
THEOREM ButtonsAreRight == Spec => []ButtonsShowRegistration
<1>1. Init => RegInv
  BY DEF Init, RegInv, NewestInv, ButtonsInv, Registered
<1>2. TypeOK /\ RegInv /\ [Next]_vars => RegInv'
  <2> SUFFICES ASSUME TypeOK, RegInv, [Next]_vars PROVE RegInv'
    OBVIOUS
  <2>1. CASE UNCHANGED vars
    BY <2>1 DEF vars, RegInv, NewestInv, Newest, ButtonsInv, NoReport, Registered
  <2>2. QED
    BY <2>1, GuiReg, WorkerReg DEF Next
<1>3. TypeOK /\ RegInv => ButtonsShowRegistration
  <2> SUFFICES ASSUME TypeOK, RegInv, app = "running",
                      reg \in {"active", "lapsed", "off", "noLibrary"}, NoReport
               PROVE  buttons = (reg = "active")
    BY DEF ButtonsShowRegistration, NoReport
  <2>1. buttons <=> Registered
    BY DEF RegInv, ButtonsInv
  <2>2. Registered <=> reg = "active"
    BY DEF Registered
  <2>3. QED
    BY <2>1, <2>2 DEF TypeOK
<1>4. QED
  BY <1>1, <1>2, <1>3, TypeCorrect, PTL DEF Spec

-----------------------------------------------------------------------------
(* Closing *)

\* No report of the registration is queued behind the n-th signal.
NoRegBehind(n) == \A i \in n + 1 .. Len(mail) : mail[i].kind \notin RegSignals

\* Where nothing disturbs a call but that it fails, nobody calls from outside.
NoneCalled ==
  /\ sipState \in {"idle", "remoteRing", "calling", "closing"}
  /\ ring = NoCall /\ crossed = {}
  /\ \A i \in 1 .. Len(mail) : mail[i].kind # "localRing"
  /\ \A c \in Calls : inv[c] \notin {"ringing", "answered", "talking"}

\* The account is registered once, before the first call, and stays so.
RegisteredFirst ==
  /\ reg \in {"sent", "active", "lapsed", "off"}
  /\ made # 0 => buttons
  /\ buttons => reg = "active" /\ NoRegBehind(0)
  /\ \A i \in 1 .. Len(mail) :
       mail[i].kind = "regUp" => reg = "active" /\ NoRegBehind(i)

\* A session that was hung up ends, or its end is still to be handled.
EndToCome == \E c \in Calls : inv[c] \in {"cancelling", "leaving"} \/ EndQueued(c)

\* One call at a time; a closing window has hung it up.  What hangupCall is in the
\* middle of hanging up, or has hung up, ends, and leaves no other.
Ending ==
  /\ \A c \in Calls : GoingOn(c) => c = made
  /\ sipState = "closing" => EndToCome
  /\ gui.at = "hangup" => call # NoCall /\ (Up(call) \/ EndQueued(call))
  /\ gui.at = "forget" => EndToCome /\ \A c \in Calls : ~Up(c)

ClosingInv == app = "running" => NoneCalled /\ RegisteredFirst /\ Ending

\* Taking a signal leaves no others than there were.
LEMMA TakenFrom ==
  ASSUME TypeOK, NEW kinds, Receive(kinds)
  PROVE  \A i \in 1 .. Len(mail') : i + 1 \in 1 .. Len(mail) /\ mail'[i] = mail[i + 1]
<1>1. /\ Len(mail) \in Nat /\ Len(mail') = Len(mail) - 1
      /\ \A i \in 1 .. Len(mail') : mail'[i] = mail[i + 1]
  BY ReceiveFacts
<1>2. QED
  BY <1>1

\* Queueing a signal adds that one.
LEMMA AddedTo ==
  ASSUME TypeOK, NEW kind, NEW c, [kind |-> kind, call |-> c] \in Message,
         Emit(kind, c)
  PROVE  \A i \in 1 .. Len(mail') :
           \/ i \in 1 .. Len(mail) /\ mail'[i] = mail[i]
           \/ i = Len(mail) + 1 /\ mail'[i] = [kind |-> kind, call |-> c]
<1>1. /\ Len(mail) \in Nat /\ Len(mail') = Len(mail) + 1
      /\ \A i \in 1 .. Len(mail) : mail'[i] = mail[i]
      /\ mail'[Len(mail')] = [kind |-> kind, call |-> c]
  BY EmitFacts
<1>2. QED
  BY <1>1

\* Of all disturbances, calls fail and registrations are rejected only.
Limited == Disturbances \subseteq {"callFails", "reject"}

\* What does not happen then.
LEMMA LimitedSteps ==
  ASSUME Limited, NoneCalled
  PROVE  /\ ~IncomingCall /\ ~AnswerRing /\ ~Refresh
         /\ \A c \in Calls : ~LostSessionReports(c)
BY DEF Limited, NoneCalled, IncomingCall, AnswerRing, Refresh, LostSessionReports

\* hangupCall hangs up a call this program placed, or throws for one that has ended.
LEMMA EndCallLimited ==
  ASSUME TypeOK, NoneCalled, EndCall
  PROVE  /\ UNCHANGED <<app, reg, buttons, mail, ring, call, made, crossed>>
         /\ \/ /\ call \in Calls /\ Placed(call)
               /\ \E state \in {"leaving", "cancelling"} :
                    inv' = [inv EXCEPT ![call] = state]
               /\ gui'.at = "forget" /\ sipState' = sipState
            \/ /\ call = NoCall \/ ~Up(call)
               /\ inv' = inv /\ sipState' = gui.next /\ gui' = Free
<1>1. CASE call # NoCall /\ Up(call)
  <2>1. call \in Calls /\ inv[call] \in {"calling", "early", "confirmed"}
    BY <1>1 DEF TypeOK, Up, Placed, NoneCalled
  <2>2. PICK state : state = HungUp(inv[call], gui.code)
    OBVIOUS
  <2>3. state \in {"leaving", "cancelling"}
    BY <2>1, <2>2, HungUpFacts
  <2>4. /\ inv' = [inv EXCEPT ![call] = state] /\ gui' = [gui EXCEPT !.at = "forget"]
        /\ UNCHANGED <<app, sipState, reg>>
    BY <1>1, <2>2, <2>3 DEF EndCall
  <2>5. gui'.at = "forget"
    BY <2>4 DEF TypeOK
  <2>6. QED
    BY <2>1, <2>3, <2>4, <2>5 DEF EndCall, Placed
<1>2. CASE ~(call # NoCall /\ Up(call))
  BY <1>2 DEF EndCall
<1>3. QED
  BY <1>1, <1>2

\* What the steps of the GUI thread and the worker thread do to the queue.
LEMMA MailStep ==
  ASSUME Limited, TypeOK, NoneCalled, [Next]_vars
  PROVE  \/ mail' = mail
         \/ \E kinds : Receive(kinds) /\ ("ended" \in kinds => OnEnded)
         \/ \E kind \in {"remoteRing", "established"}, c \in Calls : Emit(kind, c)
         \/ \E c \in Calls : SessionEnds(c)
         \/ \E kind \in RegSignals :
              Emit(kind, NoCall) /\ (RegistrarAccepts \/ RegistrarRejects \/ Retry)
<1>1. CASE GuiStep
  <2>1. CASE OnRegUp \/ OnRegDown \/ OnRinging \/ OnEstablished \/ OnEnded
    BY <2>1 DEF OnRegUp, OnRegDown, OnRinging, OnEstablished, OnEnded
  <2>2. CASE ~(OnRegUp \/ OnRegDown \/ OnRinging \/ OnEstablished \/ OnEnded)
    BY <1>1, <2>2 DEF GuiStep, CallButton, HangButton, CloseWindow, PlaceCall, EndCall,
       ForgetCall, Tick, UseDeletedCall
  <2>3. QED
    BY <2>1, <2>2
<1>2. CASE WorkerStep
  BY <1>2, LimitedSteps DEF WorkerStep, RemoteRings, RemoteAnswers,
     RegistrarAccepts, RegistrarRejects, Retry, RegSignals
<1>3. QED
  BY <1>1, <1>2 DEF Next, vars

\* Nobody calls from outside.
LEMMA NoneCalledStep ==
  ASSUME Limited, TypeOK, NoneCalled, [Next]_vars
  PROVE  NoneCalled'
<1>1. ASSUME NEW i \in 1 .. Len(mail') PROVE mail'[i].kind # "localRing"
  <2>1. CASE mail' = mail
    BY <1>1, <2>1 DEF NoneCalled
  <2>2. CASE \E kinds : Receive(kinds)
    BY <1>1, <2>2, TakenFrom DEF NoneCalled
  <2>3. CASE \/ \E kind \in {"remoteRing", "established"}, c \in Calls : Emit(kind, c)
             \/ \E c \in Calls : SessionEnds(c)
    <3>1. PICK kind \in {"remoteRing", "established", "ended"}, c \in Calls :
            Emit(kind, c)
      BY <2>3 DEF SessionEnds
    <3>2. [kind |-> kind, call |-> c] \in Message
      BY DEF Message, CallSignals
    <3>3. QED
      BY <1>1, <3>1, <3>2, AddedTo DEF NoneCalled
  <2>4. CASE \E kind \in RegSignals : Emit(kind, NoCall)
    <3>1. PICK kind \in RegSignals : Emit(kind, NoCall)
      BY <2>4
    <3>2. [kind |-> kind, call |-> NoCall] \in Message
      BY DEF Message
    <3>3. QED
      BY <1>1, <3>1, <3>2, AddedTo DEF NoneCalled, RegSignals
  <2>5. QED
    BY <2>1, <2>2, <2>3, <2>4, MailStep
<1>2. sipState' \in {"idle", "remoteRing", "calling", "closing"}
  <2>1. CASE OnRinging
    BY <2>1, ReceiveFacts DEF OnRinging, NoneCalled, Receive
  <2>2. CASE EndCall \/ ForgetCall
    <3>1. gui.next \in {"idle", "closing"}
      BY DEF TypeOK
    <3>2. sipState' \in {sipState, gui.next}
      BY <2>2, EndCallLimited DEF ForgetCall
    <3>3. QED
      BY <3>1, <3>2 DEF NoneCalled
  <2>3. CASE ~OnRinging /\ ~EndCall /\ ~ForgetCall
    BY <2>3, LimitedSteps DEF NoneCalled, Next, GuiStep, WorkerStep, vars,
     CallButton, HangButton, CloseWindow, PlaceCall, Tick, OnRegUp, OnRegDown,
     OnEstablished, OnEnded, CallEnded, UseDeletedCall, Hang, RemoteRings,
     RemoteAnswers, SessionEnds, CallUnchanged, RegUnchanged,
     RegistrarAccepts, RegistrarRejects, Retry
  <2>4. QED
    BY <2>1, <2>2, <2>3
<1>3. ASSUME NEW c \in Calls PROVE inv'[c] \notin {"ringing", "answered", "talking"}
  <2>1. CASE EndCall
    BY <2>1, EndCallLimited DEF NoneCalled, TypeOK
  <2>2. CASE GuiStep /\ ~EndCall
    BY <2>2 DEF NoneCalled, TypeOK, GuiStep, calls,
     CallButton, HangButton, CloseWindow, PlaceCall, ForgetCall, Tick, OnRegUp,
     OnRegDown, OnRinging, OnEstablished, OnEnded, UseDeletedCall, MakeCall
  <2>3. CASE WorkerStep
    BY <2>3, LimitedSteps DEF NoneCalled, TypeOK, WorkerStep, calls, RemoteRings,
     RemoteAnswers, SessionEnds, CallUnchanged, RegUnchanged,
     RegistrarAccepts, RegistrarRejects, Retry
  <2>4. CASE UNCHANGED vars
    BY <2>4 DEF NoneCalled, vars, calls
  <2>5. QED
    BY <2>1, <2>2, <2>3, <2>4 DEF Next
<1>4. ring' = NoCall /\ crossed' = {}
  <2>1. PlaceCall => crossed' = {}
    BY DEF PlaceCall, NoneCalled
  <2>2. QED
    BY <2>1, LimitedSteps DEF NoneCalled, Next, GuiStep, WorkerStep, vars, calls,
     CallButton, HangButton, CloseWindow, PlaceCall, EndCall, ForgetCall, Tick, OnRegUp,
     OnRegDown, OnRinging, OnEstablished, OnEnded, UseDeletedCall, RemoteRings,
     RemoteAnswers, SessionEnds, CallUnchanged, RegUnchanged, MakeCall,
     RegistrarAccepts, RegistrarRejects, Retry
<1>5. QED
  BY <1>1, <1>2, <1>3, <1>4 DEF NoneCalled

\* An end is queued when its session ends, and handled by its slot.
LEMMA EndsStep ==
  ASSUME Limited, TypeOK, NoneCalled, [Next]_vars, NEW c \in Calls
  PROVE  /\ EndQueued(c)' => EndQueued(c) \/ SessionEnds(c)
         /\ EndQueued(c) => EndQueued(c)' \/ OnEnded
<1>1. CASE mail' = mail
  BY <1>1 DEF EndQueued
<1>2. CASE \E kinds : Receive(kinds) /\ ("ended" \in kinds => OnEnded)
  <2>1. EndQueued(c)' => EndQueued(c)
    BY <1>2, TakenFrom DEF EndQueued
  <2>2. EndQueued(c) => EndQueued(c)' \/ OnEnded
    BY <1>2, ReceiveKeepsEnds
  <2>3. QED
    BY <2>1, <2>2
<1>3. CASE \E kind \in {"remoteRing", "established"}, d \in Calls : Emit(kind, d)
  <2>1. PICK kind \in {"remoteRing", "established"}, d \in Calls : Emit(kind, d)
    BY <1>3
  <2>2. [kind |-> kind, call |-> d] \in Message
    BY DEF Message, CallSignals
  <2>3. [kind |-> kind, call |-> d] # [kind |-> "ended", call |-> c]
    OBVIOUS
  <2>4. EndQueued(c)' => EndQueued(c)
    BY <2>1, <2>2, <2>3, AddedTo DEF EndQueued
  <2>5. QED
    BY <2>1, <2>2, <2>4, EmitKeepsEnds
<1>4. CASE \E d \in Calls : SessionEnds(d)
  <2>1. PICK d \in Calls : SessionEnds(d)
    BY <1>4
  <2>2. [kind |-> "ended", call |-> d] \in Message /\ Emit("ended", d)
    BY <2>1 DEF Message, CallSignals, SessionEnds
  <2>3. c # d => [kind |-> "ended", call |-> d] # [kind |-> "ended", call |-> c]
    OBVIOUS
  <2>4. c # d /\ EndQueued(c)' => EndQueued(c)
    BY <2>2, <2>3, AddedTo DEF EndQueued
  <2>5. QED
    BY <2>1, <2>2, <2>4, EmitKeepsEnds
<1>5. CASE \E kind \in RegSignals : Emit(kind, NoCall)
  <2>1. PICK kind \in RegSignals : Emit(kind, NoCall)
    BY <1>5
  <2>2. [kind |-> kind, call |-> NoCall] \in Message
    BY DEF Message
  <2>3. [kind |-> kind, call |-> NoCall] # [kind |-> "ended", call |-> c]
    BY DEF RegSignals
  <2>4. EndQueued(c)' => EndQueued(c)
    BY <2>1, <2>2, <2>3, AddedTo DEF EndQueued
  <2>5. QED
    BY <2>1, <2>2, <2>4, EmitKeepsEnds
<1>6. QED
  BY <1>1, <1>2, <1>3, <1>4, <1>5, MailStep

\* The registration's step when it is done: nothing more comes of it.
LEMMA RegisteredStays ==
  ASSUME Limited, TypeOK, NoneCalled, RegisteredFirst, [Next]_vars, app' = "running",
         buttons
  PROVE  buttons' /\ reg' = "active" /\ NoRegBehind(0)'
<1>1. reg = "active" /\ \A i \in 1 .. Len(mail) : mail[i].kind \notin RegSignals
  BY DEF RegisteredFirst, NoRegBehind
<1>2. mail # << >> => mail[1].kind \notin RegSignals
  BY <1>1 DEF TypeOK
<1>3. ~OnRegDown
  BY <1>2 DEF OnRegDown, Receive, RegSignals
<1>4. buttons' /\ reg' = "active"
  BY <1>1, <1>3, LimitedSteps, EndCallLimited
  DEF TypeOK, Next, GuiStep, WorkerStep, vars,
     CallButton, HangButton, CloseWindow, PlaceCall, ForgetCall, Tick, OnRegUp, OnRinging,
     OnEstablished, OnEnded, CallEnded, UseDeletedCall, UnregisterAccount, RemoteRings,
     RemoteAnswers, SessionEnds, CallUnchanged, RegUnchanged,
     RegistrarAccepts, RegistrarRejects, Retry
<1>5. ~(RegistrarAccepts \/ RegistrarRejects \/ Retry)
  BY <1>1 DEF RegistrarAccepts, RegistrarRejects, Retry
<1>6. ASSUME NEW i \in 1 .. Len(mail') PROVE mail'[i].kind \notin RegSignals
  <2>1. CASE mail' = mail
    BY <1>1, <1>6, <2>1
  <2>2. CASE \E kinds : Receive(kinds)
    BY <1>1, <1>6, <2>2, TakenFrom
  <2>3. CASE \/ \E kind \in {"remoteRing", "established"}, c \in Calls : Emit(kind, c)
             \/ \E c \in Calls : SessionEnds(c)
    <3>1. PICK kind \in {"remoteRing", "established", "ended"}, c \in Calls :
            Emit(kind, c)
      BY <2>3 DEF SessionEnds
    <3>2. [kind |-> kind, call |-> c] \in Message
      BY DEF Message, CallSignals
    <3>3. QED
      BY <1>1, <1>6, <3>1, <3>2, AddedTo DEF RegSignals
  <2>4. QED
    BY <1>5, <2>1, <2>2, <2>3, MailStep
<1>7. QED
  BY <1>4, <1>6 DEF NoRegBehind

\* The registration's step before the first call.
LEMMA RegisteredComes ==
  ASSUME Limited, TypeOK, MadeInv, NoneCalled, RegisteredFirst, [Next]_vars,
         app' = "running", ~buttons
  PROVE  RegisteredFirst'
<1>1. made = 0 /\ \A c \in Calls : inv[c] = "free"
  BY CallControlAssumption DEF RegisteredFirst, MadeInv, Calls, TypeOK
<1>2. ASSUME NEW c \in Calls
      PROVE  ~RemoteRings(c) /\ ~RemoteAnswers(c) /\ ~SessionEnds(c)
  BY <1>1 DEF RemoteRings, RemoteAnswers, SessionEnds, Up, Placed
<1>3. CASE OnRegUp
  <2>1. reg = "active" /\ NoRegBehind(1)
    BY <1>3, ReceiveFacts DEF OnRegUp, RegisteredFirst, TypeOK
  <2>2. ASSUME NEW i \in 1 .. Len(mail') PROVE mail'[i].kind \notin RegSignals
    BY <1>3, <2>1, <2>2, TakenFrom DEF OnRegUp, NoRegBehind, TypeOK
  <2>3. buttons' /\ reg' = "active"
    BY <1>3, <2>1 DEF OnRegUp
  <2>4. QED
    BY <2>2, <2>3 DEF RegisteredFirst, NoRegBehind, RegSignals
<1>4. CASE ~OnRegUp /\ ~RegistrarAccepts /\ ~RegistrarRejects /\ ~Retry
  <2>1. /\ ~buttons' /\ made' = 0
        /\ reg' = reg \/ (reg = "lapsed" /\ reg' = "off")
    <3>1. CASE EndCall
      BY <1>1, <3>1, EndCallLimited
    <3>2. CASE OnEnded
      BY <1>1, <3>2 DEF OnEnded, CallEnded, UnregisterAccount, calls
    <3>3. CASE OnRegDown
      BY <1>1, <3>3 DEF OnRegDown, calls
    <3>4. ~WorkerStep /\ ~CallButton
      BY <1>2, <1>4, LimitedSteps DEF WorkerStep, CallButton
    <3>5. CASE ~EndCall /\ ~OnEnded /\ ~OnRegDown
      <4>1. UNCHANGED <<buttons, made, reg>>
        BY <1>4, <3>4, <3>5 DEF Next, GuiStep, vars, calls, HangButton, CloseWindow,
           PlaceCall, ForgetCall, Tick, OnRinging, OnEstablished, UseDeletedCall
      <4>2. QED
        BY <1>1, <4>1
    <3>6. QED
      BY <3>1, <3>2, <3>3, <3>5
  <2>2. mail' = mail \/ \E kinds : Receive(kinds)
    BY <1>4, <1>2, LimitedSteps DEF Next, GuiStep, WorkerStep, vars,
       CallButton, HangButton, CloseWindow, PlaceCall, EndCall, ForgetCall, Tick,
       OnRegDown, OnRinging, OnEstablished, OnEnded, UseDeletedCall
  <2>3. ASSUME NEW i \in 1 .. Len(mail'), mail'[i].kind = "regUp"
        PROVE  reg' = "active" /\ NoRegBehind(i)'
    <3>1. CASE mail' = mail
      BY <2>1, <2>3, <3>1 DEF RegisteredFirst, NoRegBehind
    <3>2. CASE \E kinds : Receive(kinds)
      <4>1. /\ Len(mail) \in Nat /\ Len(mail') = Len(mail) - 1
            /\ \A k \in 1 .. Len(mail') : mail'[k] = mail[k + 1]
        BY <3>2, ReceiveFacts
      <4>2. i + 1 \in 1 .. Len(mail) /\ mail[i + 1].kind = "regUp"
        BY <2>3, <4>1
      <4>3. reg = "active" /\ NoRegBehind(i + 1)
        BY <4>2 DEF RegisteredFirst
      <4>4. ASSUME NEW k \in i + 1 .. Len(mail') PROVE mail'[k].kind \notin RegSignals
        <5>1. k \in 1 .. Len(mail') /\ k + 1 \in (i + 1) + 1 .. Len(mail)
          BY <4>1, <4>4
        <5>2. QED
          BY <4>1, <4>3, <5>1 DEF NoRegBehind
      <4>5. QED
        BY <2>1, <4>3, <4>4 DEF NoRegBehind, RegSignals
    <3>3. QED
      BY <2>2, <3>1, <3>2
  <2>4. reg' \in {"sent", "active", "lapsed", "off"}
    BY <2>1 DEF RegisteredFirst
  <2>5. QED
    BY <2>1, <2>3, <2>4 DEF RegisteredFirst
<1>5. CASE RegistrarAccepts \/ RegistrarRejects \/ Retry
  <2>1. PICK kind \in RegSignals :
          Emit(kind, NoCall) /\ (kind = "regUp" => RegistrarAccepts)
    BY <1>5 DEF RegistrarAccepts, RegistrarRejects, Retry, RegSignals
  <2>2. [kind |-> kind, call |-> NoCall] \in Message
    BY DEF Message
  <2>3. /\ reg' \in {"sent", "active", "lapsed", "off"}
        /\ ~buttons' /\ made' = 0 /\ reg # "active"
        /\ RegistrarAccepts => reg' = "active"
    BY <1>1, <1>5 DEF RegistrarAccepts, RegistrarRejects, Retry, RegUnchanged, calls
  <2>4. ASSUME NEW i \in 1 .. Len(mail'), mail'[i].kind = "regUp"
        PROVE  reg' = "active" /\ i = Len(mail')
    <3>1. \A k \in 1 .. Len(mail) : mail[k].kind # "regUp"
      BY <2>3 DEF RegisteredFirst
    <3>2. i = Len(mail) + 1 /\ mail'[i] = [kind |-> kind, call |-> NoCall]
      BY <2>1, <2>2, <2>4, <3>1, AddedTo
    <3>3. Len(mail') = Len(mail) + 1
      BY <2>1, <2>2, EmitFacts
    <3>4. QED
      BY <2>1, <2>3, <2>4, <3>2, <3>3
  <2>5. Len(mail') \in Nat
    BY <2>1, <2>2, EmitFacts
  <2>6. QED
    BY <2>3, <2>4, <2>5 DEF RegisteredFirst, NoRegBehind
<1>6. QED
  BY <1>3, <1>4, <1>5

\* The registration is done once, before the first call.
LEMMA RegisteredStep ==
  ASSUME Limited, TypeOK, MadeInv, NoneCalled, RegisteredFirst, [Next]_vars,
         app' = "running"
  PROVE  RegisteredFirst'
<1>1. CASE buttons
  BY <1>1, RegisteredStays DEF RegisteredFirst, NoRegBehind, RegSignals
<1>2. QED
  BY <1>1, RegisteredComes

\* A call is made when nothing of another is going on.
LEMMA CallsAlone ==
  ASSUME Limited, IInv, NoneCalled, RegisteredFirst, Ending, [Next]_vars, made' # made
  PROVE  /\ made' = made + 1 /\ made < MaxCalls
         /\ \A c \in Calls : ~GoingOn(c)
         /\ \A c \in Calls : c # made' => inv'[c] = inv[c]
         /\ mail' = mail \/ Receive({"regUp"})
         /\ sipState' = sipState
<1>1. CASE CallButton
  BY <1>1 DEF CallButton, MakeCall, Limited, IInv, TypeOK
<1>2. CASE OnRegUp
  <2>1. ~buttons
    BY <1>2, ReceiveFacts DEF OnRegUp, IInv, RegisteredFirst, NoRegBehind, RegSignals
  <2>2. made = 0
    BY <2>1 DEF RegisteredFirst
  <2>3. \A c \in Calls : ~GoingOn(c)
    BY <2>2, CallControlAssumption DEF Ending, Calls
  <2>4. QED
    BY <1>2, <2>3 DEF OnRegUp, MakeCall, IInv, TypeOK, calls
<1>3. CASE ~CallButton /\ ~OnRegUp
  BY <1>3, LimitedSteps DEF Next, GuiStep, WorkerStep, vars, calls,
     HangButton, CloseWindow, PlaceCall, EndCall, ForgetCall, Tick, OnRegDown, OnRinging,
     OnEstablished, OnEnded, UseDeletedCall, RemoteRings, RemoteAnswers,
     SessionEnds, CallUnchanged, RegUnchanged,
     RegistrarAccepts, RegistrarRejects, Retry
<1>4. QED
  BY <1>1, <1>2, <1>3

\* No session comes to life but by a call.
LEMMA SessionsEnd ==
  ASSUME Limited, IInv, NoneCalled, [Next]_vars, made' = made, NEW c \in Calls
  PROVE  /\ inv'[c] \notin {"free", "failed", "gone"} =>
              inv[c] \notin {"free", "failed", "gone"}
         /\ inv[c] \in {"cancelling", "leaving"} =>
              inv'[c] \in {"cancelling", "leaving"} \/ SessionEnds(c)
<1>1. made \in Nat /\ TypeOK
  BY DEF IInv, TypeOK
<1>2. CASE EndCall
  <2>1. inv[call] = "confirmed" => inv'[call] \notin {"free", "failed", "gone"}
    BY <1>1, <1>2, EndCallLimited DEF TypeOK
  <2>2. QED
    BY <1>1, <1>2, EndCallLimited DEF TypeOK, Placed
<1>3. CASE PlaceCall
  BY <1>1, <1>3 DEF PlaceCall
<1>4. CASE ~EndCall /\ ~PlaceCall
  BY <1>1, <1>4, LimitedSteps DEF TypeOK, Up, Placed, Next, GuiStep, WorkerStep, vars,
     calls, CallButton, HangButton, CloseWindow, ForgetCall, Tick, OnRegUp, OnRegDown,
     OnRinging, OnEstablished, OnEnded, UseDeletedCall, RemoteRings, RemoteAnswers,
     SessionEnds, CallUnchanged, RegUnchanged, MakeCall,
     RegistrarAccepts, RegistrarRejects, Retry
<1>5. QED
  BY <1>2, <1>3, <1>4

\* One call goes on at a time.
LEMMA AloneStep ==
  ASSUME Limited, IInv, NoneCalled, RegisteredFirst, Ending, [Next]_vars,
         NEW c \in Calls, GoingOn(c)'
  PROVE  c = made'
<1> DEFINE live(s) == s \notin {"free", "failed", "gone"}
<1>0. /\ GoingOn(c) <=> live(inv[c]) \/ EndQueued(c)
      /\ live(inv'[c]) \/ EndQueued(c)'
  BY DEF GoingOn
<1>1. GoingOn(c) => c = made
  BY DEF Ending
<1>2. EndQueued(c)' => EndQueued(c) \/ SessionEnds(c)
  BY EndsStep DEF IInv
<1>3. SessionEnds(c) => live(inv[c]) /\ made' = made
  BY DEF SessionEnds, CallUnchanged, Up, Placed
<1>4. CASE made' = made
  BY <1>0, <1>1, <1>2, <1>3, <1>4, SessionsEnd
<1>5. CASE made' # made
  <2>1. ~GoingOn(c) /\ (c # made' => inv'[c] = inv[c])
    BY <1>5, CallsAlone
  <2>2. QED
    BY <1>0, <1>2, <1>3, <1>5, <2>1
<1>6. QED
  BY <1>4, <1>5

\* A window that shows a call has one that can be hung up, or waits for its end.
LEMMA ShownIsUp ==
  ASSUME IInv, NoneCalled, Ending, sipState # "idle", ~EndToCome
  PROVE  call \in Calls /\ Up(call)
<1>1. PICK c \in Calls : Up(c)
  BY DEF IInv, ShownCallExists, NoneCalled, Ending, EndToCome, Up, Placed
<1>2. Placed(c) /\ GoingOn(c)
  BY <1>1 DEF Up, Placed, NoneCalled, GoingOn
<1>3. c = made
  BY <1>2 DEF Ending
<1>4. call = c
  BY <1>2, <1>3 DEF IInv, PointerInv, TypeOK
<1>5. QED
  BY <1>1, <1>4

\* hangupCall begins: where it goes on at once, an end is to come.
LEMMA HangHangsUp ==
  ASSUME IInv, NoneCalled, Ending, sipState # "idle", mail' = mail, inv' = inv,
         NEW next \in {"idle", "closing"}, Hang(next)
  PROVE  \/ sipState' = sipState /\ call \in Calls /\ Up(call) /\ gui'.at = "hangup"
         \/ sipState' = next /\ gui' = gui /\ EndToCome'
<1>1. CASE call # NoCall /\ Up(call)
  BY <1>1 DEF Hang, IInv, TypeOK
<1>2. CASE ~(call # NoCall /\ Up(call))
  <2>1. EndToCome
    BY <1>2, ShownIsUp, CallControlAssumption DEF Calls, NoCall
  <2>2. EndToCome'
    BY <2>1 DEF EndToCome, EndQueued
  <2>3. QED
    BY <1>2, <2>2 DEF Hang
<1>3. QED
  BY <1>1, <1>2

\* A closing window has a registration.
LEMMA ClosingIsRegistered ==
  ASSUME RegisteredFirst, Ending, sipState = "closing"
  PROVE  reg = "active" /\ buttons
<1>1. PICK c \in Calls : GoingOn(c)
  BY DEF Ending, EndToCome, GoingOn
<1>2. made # 0
  BY <1>1, CallControlAssumption DEF Ending, Calls
<1>3. QED
  BY <1>2 DEF RegisteredFirst

\* The end of a session is queued.
LEMMA EndIsQueued ==
  ASSUME TypeOK, NEW c \in Calls, SessionEnds(c)
  PROVE  EndQueued(c)'
<1>1. Emit("ended", c) /\ [kind |-> "ended", call |-> c] \in Message
  BY DEF SessionEnds, Message, CallSignals
<1>2. /\ Len(mail') \in 1 .. Len(mail')
      /\ mail'[Len(mail')] = [kind |-> "ended", call |-> c]
  BY <1>1, EmitFacts
<1>3. QED
  BY <1>2 DEF EndQueued

\* An end to come stays so until it is handled.
LEMMA EndStays ==
  ASSUME Limited, IInv, NoneCalled, [Next]_vars, made' = made, ~OnEnded, EndToCome
  PROVE  EndToCome'
<1>1. PICK c \in Calls : inv[c] \in {"cancelling", "leaving"} \/ EndQueued(c)
  BY DEF EndToCome
<1>2. EndQueued(c) \/ SessionEnds(c) => EndQueued(c)'
  BY EndsStep, EndIsQueued DEF IInv
<1>3. inv[c] \in {"cancelling", "leaving"} =>
        inv'[c] \in {"cancelling", "leaving"} \/ SessionEnds(c)
  BY SessionsEnd
<1>4. QED
  BY <1>1, <1>2, <1>3 DEF EndToCome

\* While the GUI thread is in hangupCall, only the worker thread moves a session.
LEMMA BusyStep ==
  ASSUME Limited, IInv, NoneCalled, [Next]_vars, app' = "running",
         gui' = gui, gui.at \in {"hangup", "forget"}
  PROVE  /\ made' = made /\ call' = call /\ ~OnEnded
         /\ \A c \in Calls : Up(c)' => Up(c)
         /\ \A c \in Calls : Up(c) => Up(c)' \/ EndQueued(c)'
         /\ \A c \in Calls : EndQueued(c) => EndQueued(c)'
<1>1. ~EventLoop /\ gui' # Free
  BY DEF EventLoop, Free
<1>2. ~PlaceCall /\ ~ForgetCall /\ ~EndCall
  <2>1. ~EndCall
    <3>1. SUFFICES ASSUME EndCall, gui' = [gui EXCEPT !.at = "forget"], gui.at = "hangup"
                   PROVE  FALSE
      BY <1>1 DEF EndCall
    <3>2. QED
      BY <3>1 DEF IInv, TypeOK
  <2>2. QED
    BY <1>1, <2>1 DEF PlaceCall, ForgetCall
<1>3. ~OnEnded
  BY <1>1 DEF OnEnded, Receive
<1>4. WorkerStep \/ UNCHANGED vars
  BY <1>1, <1>2 DEF Next, GuiStep, CallButton, HangButton, CloseWindow, Tick, Receive,
     OnRegUp, OnRegDown, OnRinging, OnEstablished, OnEnded, UseDeletedCall
<1>5. made' = made /\ call' = call
  BY <1>4, LimitedSteps DEF WorkerStep, vars, calls, RemoteRings, RemoteAnswers,
     SessionEnds, CallUnchanged, RegUnchanged, RegistrarAccepts, RegistrarRejects, Retry
<1>6. ASSUME NEW c \in Calls
      PROVE  /\ Up(c)' => Up(c)
             /\ Up(c) => Up(c)' \/ SessionEnds(c)
  BY <1>4, LimitedSteps DEF WorkerStep, vars, calls, Up, Placed, NoneCalled, IInv,
     TypeOK, RemoteRings, RemoteAnswers, SessionEnds, CallUnchanged, RegUnchanged,
     RegistrarAccepts, RegistrarRejects, Retry
<1>7. ASSUME NEW c \in Calls, EndQueued(c) \/ SessionEnds(c) PROVE EndQueued(c)'
  BY <1>3, <1>7, EndsStep, EndIsQueued DEF IInv
<1>8. QED
  BY <1>3, <1>5, <1>6, <1>7

\* A window begins to close when an end is to come.
LEMMA ClosingBegins ==
  ASSUME Limited, IInv, NoneCalled, RegisteredFirst, Ending, [Next]_vars,
         sipState # "closing", sipState' = "closing"
  PROVE  EndToCome'
<1>1. CASE CloseWindow
  BY <1>1, HangHangsUp DEF CloseWindow, calls
<1>2. CASE EndCall
  <2>1. call \in Calls /\ EndQueued(call)
    BY <1>2, EndCallLimited DEF Ending, EndCall, IInv, TypeOK
  <2>2. QED
    BY <1>2, <2>1 DEF EndCall, EndToCome, EndQueued
<1>3. CASE ForgetCall
  <2>1. EndToCome
    BY <1>3 DEF ForgetCall, Ending
  <2>2. QED
    BY <1>3, <2>1 DEF ForgetCall, EndToCome, EndQueued
<1>4. CASE ~CloseWindow /\ ~EndCall /\ ~ForgetCall
  BY <1>4, LimitedSteps DEF Next, GuiStep, WorkerStep, vars, CallButton, HangButton,
     PlaceCall, Tick, OnRegUp, OnRegDown, OnRinging, OnEstablished, OnEnded, CallEnded,
     UseDeletedCall, Hang, RemoteRings, RemoteAnswers, SessionEnds, CallUnchanged,
     RegUnchanged, RegistrarAccepts, RegistrarRejects, Retry, Receive
<1>5. QED
  BY <1>1, <1>2, <1>3, <1>4

\* While the window is closing an end is to come.
LEMMA ClosingWaits ==
  ASSUME Limited, IInv, NoneCalled, RegisteredFirst, Ending, [Next]_vars,
         app' = "running", sipState' = "closing"
  PROVE  EndToCome'
<1>1. CASE sipState # "closing"
  BY <1>1, ClosingBegins
<1>2. CASE sipState = "closing"
  <2>1. ~OnEnded
    BY <1>2, ClosingIsRegistered DEF OnEnded, CallEnded, UnregisterAccount
  <2>2. EndToCome
    BY <1>2 DEF Ending
  <2>3. made' = made
    BY <2>2, CallsAlone DEF EndToCome, GoingOn
  <2>4. QED
    BY <2>1, <2>2, <2>3, EndStays
<1>3. QED
  BY <1>1, <1>2

\* One call at a time, and an end to wait for, step by step.
LEMMA EndingStep ==
  ASSUME Limited, IInv, NoneCalled, RegisteredFirst, Ending, [Next]_vars,
         app' = "running"
  PROVE  Ending'
<1>1. TypeOK /\ RestOK
  BY IInvParts DEF IInv
<1>2. ASSUME gui'.at = "hangup"
      PROVE  call' # NoCall /\ (Up(call)' \/ EndQueued(call)')
  <2>1. CASE gui' = gui
    <3>1. PICK c \in Calls : c = call
      BY <1>1, <1>2, <2>1 DEF Ending, TypeOK
    <3>2. Up(c) \/ EndQueued(c)
      BY <1>2, <2>1, <3>1 DEF Ending
    <3>3. call' = c /\ (Up(c)' \/ EndQueued(c)')
      BY <1>2, <2>1, <3>1, <3>2, BusyStep
    <3>4. QED
      BY <3>3, CallControlAssumption DEF Up, Placed, EndQueued, Calls, NoCall
  <2>2. CASE gui' # gui
    BY <1>1, <1>2, <2>2, GuiMoves DEF calls, Up, Placed
  <2>3. QED
    BY <2>1, <2>2
<1>3. ASSUME gui'.at = "forget"
      PROVE  EndToCome' /\ \A c \in Calls : ~Up(c)'
  <2>1. CASE gui' = gui
    <3>1. EndToCome /\ \A c \in Calls : ~Up(c)
      BY <1>3, <2>1 DEF Ending
    <3>2. QED
      BY <1>3, <2>1, <3>1, BusyStep, EndStays
  <2>2. CASE gui' # gui
    <3>1. EndCall
      BY <1>1, <1>3, <2>2, GuiMoves
    <3>2. call \in Calls /\ Placed(call)
      BY <1>1, <1>3, <3>1, EndCallLimited DEF Free
    <3>3. PICK state \in {"leaving", "cancelling"} : inv' = [inv EXCEPT ![call] = state]
      BY <1>1, <1>3, <3>1, EndCallLimited DEF Free
    <3>4. inv'[call] \in {"leaving", "cancelling"}
          /\ \A c \in Calls : c # call => inv'[c] = inv[c]
      BY <1>1, <3>2, <3>3 DEF TypeOK
    <3>5. \A c \in Calls : Up(c) => c = call
      BY <3>2 DEF Ending, GoingOn, Up, Placed
    <3>6. QED
      BY <3>2, <3>4, <3>5 DEF EndToCome, Up, Placed
  <2>3. QED
    BY <2>1, <2>2
<1>4. QED
  BY <1>2, <1>3, AloneStep, ClosingWaits DEF Ending

\* A process that has ended takes no step.
LEMMA NothingAfterEnd ==
  ASSUME [Next]_vars, app # "running"
  PROVE  UNCHANGED vars
BY DEF Next, GuiStep, WorkerStep, EventLoop, Worker, Receive,
   CallButton, HangButton, CloseWindow, PlaceCall, EndCall, ForgetCall, Tick, OnRegUp,
   OnRegDown, OnRinging, OnEstablished, OnEnded, UseDeletedCall, RemoteRings,
   RemoteAnswers, SessionEnds, LostSessionReports, IncomingCall, AnswerRing,
   RegistrarAccepts, RegistrarRejects, Refresh, Retry

\* One call at a time, a registration before it, an end to wait for: at all times.
LEMMA ClosingInvariance ==
  ASSUME Disturbances \subseteq {"callFails", "reject"}
  PROVE  Spec => []ClosingInv
<1>1. Init => ClosingInv
  BY DEF Init, ClosingInv, NoneCalled, RegisteredFirst, Ending, NoRegBehind, GoingOn,
     EndQueued, Free
<1>2. IInv /\ ClosingInv /\ [Next]_vars => ClosingInv'
  <2>1. SUFFICES ASSUME IInv, ClosingInv, [Next]_vars, app' = "running"
                 PROVE  (NoneCalled /\ RegisteredFirst /\ Ending)'
    BY DEF ClosingInv
  <2>2. app = "running"
    BY <2>1, NothingAfterEnd DEF vars
  <2>3. Limited /\ TypeOK /\ MadeInv
    BY <2>1 DEF Limited, IInv
  <2>4. NoneCalled /\ RegisteredFirst /\ Ending
    BY <2>1, <2>2 DEF ClosingInv
  <2>5. QED
    BY <2>1, <2>3, <2>4, NoneCalledStep, RegisteredStep, EndingStep
<1>3. QED
  BY <1>1, <1>2, Invariance, PTL DEF Spec

\* With calls that fail and a registration that may be rejected, but no other
\* disturbance, a window that is closing waits for the end of one session, and has
\* a registration to give up then: for any number of calls and clicks, and whatever
\* crosses the hang-up (mainwindow.cpp:963-970, 1079-1089,
\* VoIP.cpp:104-118, 176-206).
THEOREM ClosingEnds ==
  ASSUME Disturbances \subseteq {"callFails", "reject"}
  PROVE  Spec => []ClosingIsAwaited
<1>1. ClosingInv => ClosingIsAwaited
  BY ClosingIsRegistered DEF ClosingInv, ClosingIsAwaited, Ending, EndToCome
<1>2. QED
  BY <1>1, ClosingInvariance, PTL

\* The window was not told of the call, or is about to be.
Unknown(c) == inv[c] = "calling" \/ \E i \in 1 .. Len(mail) : mail[i].call = c

\* The end that is queued has come; where the window shows no call, none is up that
\* it was told of.
KnownInv ==
  /\ \A c \in Calls : EndQueued(c) => inv[c] = "gone"
  /\ app = "closed" \/ (app = "running" /\ sipState = "idle") =>
       \A c \in Calls : Up(c) => Unknown(c)

\* A session that has ended stays so.
LEMMA GoneStays ==
  ASSUME Limited, IInv, NoneCalled, [Next]_vars, NEW c \in Calls, inv[c] = "gone"
  PROVE  inv'[c] = "gone"
<1>1. made \in Nat /\ inv[c] # "free" /\ c <= made
  BY DEF IInv, TypeOK, MadeInv, Calls
<1>2. MakeCall => inv'[c] = "gone"
  BY <1>1 DEF MakeCall, IInv, TypeOK, Calls
<1>3. PlaceCall \/ EndCall => inv'[c] = "gone"
  BY EndCallLimited DEF PlaceCall, Placed, IInv, TypeOK
<1>4. QED
  BY <1>2, <1>3, LimitedSteps
  DEF IInv, TypeOK, Up, Placed, Next, GuiStep, WorkerStep, vars, calls,
     CallButton, HangButton, CloseWindow, ForgetCall, Tick, OnRegUp, OnRegDown, OnRinging,
     OnEstablished, OnEnded, UseDeletedCall, RemoteRings, RemoteAnswers,
     SessionEnds, CallUnchanged, RegUnchanged,
     RegistrarAccepts, RegistrarRejects, Retry

\* What takes the window back to showing no call leaves none up.
LEMMA IdleAgain ==
  ASSUME Limited, IInv, NoneCalled, RegisteredFirst, Ending, KnownInv,
         sipState' = "idle", NEW c \in Calls,
         \/ OnRegDown \/ OnEnded
         \/ sipState # "idle" /\ (HangButton \/ EndCall \/ ForgetCall)
  PROVE  ~Up(c)'
<1>1. /\ Up(c) => c = made
      /\ Up(c) => c = call
  <2>1. Up(c) => Placed(c) /\ c = made
    BY DEF Ending, GoingOn, Up, Placed, NoneCalled
  <2>2. QED
    BY <2>1 DEF IInv, PointerInv, TypeOK
<1>2. c # NoCall
  BY CallControlAssumption DEF Calls, NoCall
<1>3. CASE HangButton
  <2>1. ~Up(c)
    BY <1>1, <1>2, <1>3 DEF HangButton, Hang
  <2>2. QED
    BY <1>3, <2>1 DEF HangButton, calls, Up, Placed
<1>4. CASE sipState # "idle" /\ EndCall
  <2>1. ~Up(c) /\ inv' = inv
    BY <1>1, <1>2, <1>4, EndCallLimited DEF IInv
  <2>2. QED
    BY <2>1 DEF Up, Placed
<1>5. CASE ForgetCall
  BY <1>5 DEF ForgetCall, Ending, Up, Placed
<1>6. CASE OnRegDown
  <2>1. ~buttons
    BY <1>6, ReceiveFacts DEF OnRegDown, IInv, RegisteredFirst, NoRegBehind, RegSignals
  <2>2. made = 0 /\ inv[c] = "free"
    BY <2>1, CallControlAssumption DEF RegisteredFirst, IInv, MadeInv, Calls
  <2>3. inv'[c] = "free"
    BY <1>6, <2>2 DEF OnRegDown, calls
  <2>4. QED
    BY <2>3 DEF Up, Placed
<1>7. CASE OnEnded
  <2>1. mail[1].kind = "ended" /\ mail[1] \in Message /\ 1 \in 1 .. Len(mail)
    BY <1>7, ReceiveFacts DEF OnEnded, IInv
  <2>2. PICK d \in Calls : mail[1] = [kind |-> "ended", call |-> d]
    BY <2>1 DEF Message, RegSignals
  <2>3. EndQueued(d)
    BY <2>1, <2>2 DEF EndQueued
  <2>4. d = made /\ inv[d] = "gone"
    BY <2>3 DEF Ending, GoingOn, KnownInv
  <2>5. ~Up(c)
    BY <1>1, <2>4 DEF Up, Placed
  <2>6. QED
    BY <1>7, <2>5 DEF OnEnded, calls, Up, Placed
<1>8. QED
  BY <1>3, <1>4, <1>5, <1>6, <1>7

\* While the window shows no call, a call makes itself known through the queue.
LEMMA KnownByMail ==
  ASSUME Limited, IInv, NoneCalled, [Next]_vars, ~(OnRegDown \/ OnEnded),
         sipState = "idle", sipState' = "idle", NEW c \in Calls,
         Up(c) => Unknown(c), Up(c)'
  PROVE  Unknown(c)'
<1>1. SUFFICES ASSUME inv'[c] \in {"early", "confirmed"}
               PROVE  \E i \in 1 .. Len(mail') : mail'[i].call = c
  BY NoneCalledStep DEF Unknown, Up, Placed, IInv, NoneCalled
<1>2. CASE RemoteRings(c) \/ RemoteAnswers(c)
  <2>1. PICK kind \in {"remoteRing", "established"} : Emit(kind, c)
    BY <1>2 DEF RemoteRings, RemoteAnswers
  <2>2. [kind |-> kind, call |-> c] \in Message
    BY DEF Message, CallSignals
  <2>3. Len(mail') \in 1 .. Len(mail') /\ mail'[Len(mail')].call = c
    BY <2>1, <2>2, EmitFacts DEF IInv
  <2>4. QED
    BY <2>3
<1>3. CASE ~(RemoteRings(c) \/ RemoteAnswers(c))
  <2>1. inv[c] \in {"early", "confirmed"}
    <3>1. CASE EndCall
      BY <1>1, <3>1, EndCallLimited DEF IInv, TypeOK
    <3>2. CASE PlaceCall
      BY <1>1, <3>2 DEF PlaceCall
    <3>3. CASE ~EndCall /\ ~PlaceCall
      BY <1>1, <1>3, <3>3, LimitedSteps
      DEF IInv, TypeOK, Up, Placed, Next, GuiStep, WorkerStep, vars, calls,
         CallButton, HangButton, CloseWindow, ForgetCall, Tick, OnRegUp, OnRegDown,
         OnRinging, OnEstablished, OnEnded, MakeCall, UseDeletedCall, RemoteRings,
         RemoteAnswers, SessionEnds, CallUnchanged, RegUnchanged,
         RegistrarAccepts, RegistrarRejects, Retry
    <3>4. QED
      BY <3>1, <3>2, <3>3
  <2>2. PICK i \in 1 .. Len(mail) : mail[i].call = c
    BY <2>1 DEF Unknown, Up, Placed
  <2>3. CASE mail' = mail
    BY <2>2, <2>3
  <2>4. CASE \E kinds : Receive(kinds)
    <3>1. OnRegUp
      <4>1. Len(mail') = Len(mail) - 1 /\ Len(mail) \in Nat
        BY <2>4, ReceiveFacts DEF IInv
      <4>2. ~OnRinging /\ ~OnEstablished
        BY ReceiveFacts DEF OnRinging, OnEstablished, Receive, IInv
      <4>3. ASSUME NEW kind, NEW d PROVE ~Emit(kind, d)
        BY <4>1 DEF Emit, IInv, TypeOK
      <4>4. mail' # mail
        BY <4>1
      <4>5. QED
        BY <4>2, <4>3, <4>4, LimitedSteps
        DEF Next, GuiStep, WorkerStep, vars, CallButton, HangButton, CloseWindow,
           PlaceCall, EndCall, ForgetCall, Tick, UseDeletedCall, RemoteRings,
           RemoteAnswers, SessionEnds, RegistrarAccepts, RegistrarRejects, Retry
    <3>2. mail[1].kind = "regUp" /\ mail[1] \in Message
      BY <3>1, ReceiveFacts DEF OnRegUp, IInv
    <3>3. mail[1].call # c
      BY <3>2, CallControlAssumption DEF Message, CallSignals, RegSignals, NoCall, Calls
    <3>4. /\ Len(mail) \in Nat /\ Len(mail') = Len(mail) - 1
          /\ \A k \in 1 .. Len(mail') : mail'[k] = mail[k + 1]
      BY <2>4, ReceiveFacts DEF IInv
    <3>5. i - 1 \in 1 .. Len(mail') /\ mail'[i - 1] = mail[i]
      BY <2>2, <3>3, <3>4
    <3>6. QED
      BY <2>2, <3>5
  <2>5. CASE \E kind \in CallSignals \cup RegSignals, d \in Calls \cup {NoCall} :
               [kind |-> kind, call |-> d] \in Message /\ Emit(kind, d)
    <3>1. Len(mail') = Len(mail) + 1 /\ Len(mail) \in Nat /\ mail'[i] = mail[i]
      BY <2>2, <2>5, EmitFacts DEF IInv
    <3>2. QED
      BY <2>2, <3>1
  <2>6. ASSUME NEW kind \in {"remoteRing", "established", "ended"}, NEW d \in Calls
        PROVE  kind \in CallSignals /\ [kind |-> kind, call |-> d] \in Message
    BY DEF Message, CallSignals
  <2>7. ASSUME NEW kind \in RegSignals
        PROVE  [kind |-> kind, call |-> NoCall] \in Message
    BY DEF Message
  <2>8. QED
    BY <2>3, <2>4, <2>5, <2>6, <2>7, MailStep DEF SessionEnds, IInv
<1>4. QED
  BY <1>2, <1>3

\* What the window knows, step by step.
LEMMA KnownStep ==
  ASSUME Limited, IInv, NoneCalled, RegisteredFirst, Ending, KnownInv, [Next]_vars,
         app = "running"
  PROVE  KnownInv'
<1>1. ASSUME NEW c \in Calls, EndQueued(c)' PROVE inv'[c] = "gone"
  <2>1. EndQueued(c) \/ SessionEnds(c)
    BY <1>1, EndsStep DEF IInv
  <2>2. SessionEnds(c) => inv'[c] = "gone"
    BY DEF SessionEnds, IInv, TypeOK
  <2>3. EndQueued(c) => inv'[c] = "gone"
    BY GoneStays DEF KnownInv
  <2>4. QED
    BY <2>1, <2>2, <2>3
<1>2. ASSUME NEW c \in Calls, Up(c)',
             app' = "closed" \/ (app' = "running" /\ sipState' = "idle")
      PROVE  Unknown(c)'
  <2>1. sipState' = "idle"
    <3>1. CASE app' = "running"
      BY <1>2, <3>1
    <3>2. CASE app' = "closed"
      <4>1. ~EndCall
        BY <3>2, EndCallLimited DEF IInv
      <4>2. CASE CloseWindow
        BY <3>2, <4>2 DEF CloseWindow
      <4>3. CASE OnRegDown \/ OnEnded
        BY <3>2, <4>3 DEF OnRegDown, OnEnded, CallEnded, UnregisterAccount
      <4>4. ASSUME ~CloseWindow, ~OnRegDown, ~OnEnded PROVE FALSE
        BY <3>2, <4>1, <4>4, LimitedSteps DEF Next, GuiStep, WorkerStep, vars,
           CallButton, HangButton, PlaceCall, ForgetCall, Tick, OnRegUp, OnRinging,
           OnEstablished, UseDeletedCall, RemoteRings, RemoteAnswers, SessionEnds,
           CallUnchanged, RegUnchanged, RegistrarAccepts, RegistrarRejects, Retry
      <4>5. QED
        BY <4>2, <4>3, <4>4
    <3>3. QED
      BY <1>2, <3>1, <3>2
  <2>2. ~OnRegDown /\ ~OnEnded
    BY <1>2, <2>1, IdleAgain
  <2>3. CASE sipState = "idle"
    <3>1. Up(c) => Unknown(c)
      BY <2>3 DEF KnownInv
    <3>2. QED
      BY <1>2, <2>1, <2>2, <2>3, <3>1, KnownByMail
  <2>4. CASE sipState # "idle"
    <3>1. ~HangButton /\ ~EndCall /\ ~ForgetCall
      BY <1>2, <2>1, <2>4, IdleAgain
    <3>2. ~OnRinging /\ ~OnEstablished /\ ~CloseWindow
      BY <2>1, <2>4, ReceiveFacts
      DEF OnRinging, OnEstablished, CloseWindow, Hang, Receive, IInv
    <3>3. QED
      BY <2>1, <2>2, <2>4, <3>1, <3>2, LimitedSteps
      DEF Next, GuiStep, WorkerStep, vars, CallButton, PlaceCall, Tick, OnRegUp,
         UseDeletedCall, RemoteRings, RemoteAnswers, SessionEnds,
         CallUnchanged, RegUnchanged, RegistrarAccepts, RegistrarRejects, Retry
  <2>5. QED
    BY <2>3, <2>4
<1>3. QED
  BY <1>1, <1>2 DEF KnownInv

\* Under the same conditions the window never closes over a call it was told of: one
\* that is still up when it closes has not rung, or what it reported is still queued
\* (mainwindow.cpp:916-976, 1079-1089).
THEOREM KnownCallIsEnded ==
  ASSUME Disturbances \subseteq {"callFails", "reject"}
  PROVE  Spec => []ClosesOverNoKnownCall
<1>1. Init => KnownInv
  BY DEF Init, KnownInv, EndQueued, Up, Placed
<1>2. IInv /\ ClosingInv /\ KnownInv /\ [Next]_vars => KnownInv'
  <2>1. SUFFICES ASSUME IInv, ClosingInv, KnownInv, [Next]_vars PROVE KnownInv'
    OBVIOUS
  <2>2. Limited
    BY DEF Limited
  <2>3. CASE app = "running"
    BY <2>1, <2>2, <2>3, KnownStep DEF ClosingInv
  <2>4. CASE app # "running"
    <3>1. UNCHANGED vars
      BY <2>1, <2>4, NothingAfterEnd
    <3>2. QED
      BY <2>1, <3>1 DEF vars, calls, KnownInv, EndQueued, Up, Placed, Unknown
  <2>5. QED
    BY <2>3, <2>4
<1>3. KnownInv => ClosesOverNoKnownCall
  <2>1. SUFFICES ASSUME KnownInv, app = "closed", NEW c \in Calls, Up(c)
                 PROVE  Unknown(c)
    BY DEF ClosesOverNoKnownCall, Unknown
  <2>2. QED
    BY <2>1 DEF KnownInv
<1>4. QED
  BY <1>1, <1>2, <1>3, ClosingInvariance, Invariance, PTL DEF Spec

=============================================================================
