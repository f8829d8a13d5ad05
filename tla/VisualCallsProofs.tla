---- MODULE VisualCallsProofs ----
(***************************************************************************)
(* Theorems about the calls of one session and the bridge, for any calls,  *)
(* keys and numbers of frames.                                             *)
(***************************************************************************)
EXTENDS VisualCalls, TLAPS

(* The calls start with nothing sent and no key down. *)
LEMMA InitInv == Init => IInv
<1> SUFFICES ASSUME Init PROVE IInv
  OBVIOUS
<1> USE DEF Init
<1>1. TypeOK
  <2>1. emulator \in BOOLEAN /\ macro \in BOOLEAN /\ heartbeat \in BOOLEAN
    BY Zenon
  <2>2. phase \in [Calls -> Phases] /\ deadline \in [Calls -> Deadlines]
    BY DEF First, Phases, Fresh, Deadlines
  <2>3. report \in [Calls -> Reports]
    BY DEF NoReport, Reports
  <2>4. shot \in [Calls -> Shots] /\ tapped \in [Calls -> Taps]
    BY DEF Nothing, Shots, Taps
  <2>5. pc \in [Calls -> States]
    BY DEF States
  <2> QED
    BY <2>1, <2>2, <2>3, <2>4, <2>5, BoundAssumption DEF TypeOK
<1>2. ChannelInv /\ RanInv /\ KeyInv /\ KeysFollowOrders
  BY BoundAssumption DEF ChannelInv, RanInv, KeyInv, KeysFollowOrders
<1>3. \A c \in Calls : <<c, "command">> # NoRequest
  BY RequestAssumption DEF Requests, Phases
<1>4. SettledBeforeCapture /\ ReportIsTrue /\ EvidenceIsKept
  BY DEF SettledBeforeCapture, ReportIsTrue, EvidenceIsKept, WellTaken, Truthful, Evident, Failed, Nothing,
     NoReport, Composites, Calls
<1>5. \A c \in Calls : CallInv(c)
  BY <1>3 DEF CallInv, First, NoReport, Primed, Asking, Calls, Composites
<1>6. \A c \in Calls : OwnerInv(c)
  BY DEF OwnerInv, Owning
<1>7. \A c \in Calls : OnceInv(c) /\ DenialInv(c)
  BY <1>3 DEF OnceInv, DenialInv, NoReport, Command, May, Answered
<1>8. \A c \in Composites : TapInv(c) /\ LuaInv(c) /\ ShotInv(c)
  BY DEF TapInv, LuaInv, ShotInv, First, Nothing, Answered, Composites, Calls
<1> QED
  BY <1>1, <1>2, <1>4, <1>5, <1>6, <1>7, <1>8 DEF IInv, Composites


(* What an error says is well formed, and so is what is made of it. *)
LEMMA ErrorTypes ==
    ASSUME TypeOK
    PROVE  /\ \A d \in Deadlines : Timeout(d) \in Errors
           /\ \A c \in Calls, e \in Errors : Reported(c, e) \in Errors
           /\ \A o \in {"ok", "not_executed", "unknown", "completed"},
                 s \in {"yes", "no", "unsaid"}, r \in Requests \cup {NoRequest} :
                 Error(o, s, r) \in Errors
<1>1. \A o \in {"ok", "not_executed", "unknown", "completed"},
         s \in {"yes", "no", "unsaid"}, r \in Requests \cup {NoRequest} :
         Error(o, s, r) \in Errors
  BY DEF Error, Errors
<1>2. ASSUME NEW d \in Deadlines PROVE Timeout(d) \in Errors
  BY <1>1 DEF Timeout, Deadlines
<1>3. ASSUME NEW c \in Calls, NEW e \in Errors PROVE Reported(c, e) \in Errors
  <2>1. phase[c] \in Phases /\ evidence[c] \in Requests \cup {NoRequest}
    BY DEF TypeOK
  <2> QED
    BY <1>1, <2>1 DEF Reported, Primary, Phases
<1> QED
  BY <1>1, <1>2, <1>3

(* Telling and failing keep the types. *)
LEMMA FailTypes ==
    ASSUME TypeOK, NEW c \in Calls, NEW e \in Errors
    PROVE  /\ \A at \in Phases \cup {"retire", "result"} :
                 Told(c, e, at) => report' \in [Calls -> Reports]
           /\ \A op \in Operation : Fail(c, e, op) =>
                 /\ report' \in [Calls -> Reports] /\ pc' \in [Calls -> States]
                 /\ operation' \in Operation /\ operation'.id = op.id
                 /\ operation'.pending = op.pending
<1>1. ASSUME NEW x \in Errors, NEW at \in Phases \cup {"retire", "result"}, Told(c, x, at)
      PROVE  report' \in [Calls -> Reports]
  BY <1>1 DEF Told, TypeOK, Errors, Reports
<1>2. phase[c] \in Phases /\ Reported(c, e) \in Errors
  BY ErrorTypes DEF TypeOK
<1>3. ASSUME NEW op \in Operation, Fail(c, e, op)
      PROVE  /\ report' \in [Calls -> Reports] /\ pc' \in [Calls -> States]
             /\ operation' \in Operation /\ operation'.id = op.id
             /\ operation'.pending = op.pending
  <2>1. report' \in [Calls -> Reports]
    BY <1>1, <1>2, <1>3 DEF Fail
  <2>2. pc' \in [Calls -> States]
    BY <1>3 DEF Fail, Goto, TypeOK, States
  <2>3. operation' \in {op, [op EXCEPT !.uncertain = TRUE]}
    BY <1>3 DEF Fail
  <2> QED
    BY <2>1, <2>2, <2>3 DEF Operation
<1> QED
  BY <1>1, <1>2, <1>3

(* A budget that ends with its call keeps the types. *)
LEMMA GoneTypes ==
    ASSUME TypeOK, NEW c \in Calls, Gone(c)
    PROVE  /\ pc' \in [Calls -> States] /\ phase' \in [Calls -> Phases]
           /\ deadline' \in [Calls -> Deadlines] /\ target' \in [Calls -> Nat]
           /\ expired' \subseteq Calls
<1>1. First(c) \in Phases /\ Fresh \in Deadlines /\ "done" \in States
  BY DEF First, Phases, Fresh, Deadlines, States
<1> QED
  BY <1>1 DEF Gone, Goto, TypeOK

(* The records of the journal that the calls write. *)
LEMMA Records ==
    ASSUME TypeOK, NEW c \in Calls
    PROVE  /\ NewOperation(c) \in Operation /\ NewOperation(c).id = c
           /\ NewOperation(c).pending = NoRequest /\ Request(c) \in Requests
           /\ \A p \in Phases : <<c, p>> \in Requests /\ <<c, p>> # NoRequest
           /\ operation # NoOp =>
                 /\ operation \in Operation
                 /\ Sent(c) \in Operation /\ Sent(c).id = operation.id
                 /\ Sent(c).pending = Request(c)
                 /\ Completed \in Operation /\ Completed.id = operation.id
                 /\ Completed.pending = NoRequest
                 /\ LET marked == [operation EXCEPT !.uncertain = TRUE]
                    IN  marked \in Operation /\ marked.id = operation.id
                        /\ marked.pending = operation.pending
                 /\ LET begun == [operation EXCEPT !.started = TRUE]
                    IN  begun \in Operation /\ begun.id = operation.id
                        /\ begun.pending = operation.pending
                 /\ \A b \in BOOLEAN :
                       LET gone == [operation EXCEPT !.pending = NoRequest, !.started = b]
                       IN  gone \in Operation /\ gone.id = operation.id
                           /\ gone.pending = NoRequest
<1>1. Request(c) \in Requests /\ \A p \in Phases : <<c, p>> \in Requests
  BY DEF Request, Requests, TypeOK
<1>2. \A p \in Phases : <<c, p>> # NoRequest
  BY <1>1, RequestAssumption
<1>3. NewOperation(c) \in Operation /\ NewOperation(c).id = c /\ NewOperation(c).pending = NoRequest
  BY DEF NewOperation, Operation
<1>4. ASSUME operation # NoOp
      PROVE  /\ operation \in Operation
             /\ Sent(c) \in Operation /\ Sent(c).id = operation.id
             /\ Sent(c).pending = Request(c)
             /\ Completed \in Operation /\ Completed.id = operation.id
             /\ Completed.pending = NoRequest
             /\ LET marked == [operation EXCEPT !.uncertain = TRUE]
                IN  marked \in Operation /\ marked.id = operation.id
                    /\ marked.pending = operation.pending
             /\ LET begun == [operation EXCEPT !.started = TRUE]
                IN  begun \in Operation /\ begun.id = operation.id
                    /\ begun.pending = operation.pending
             /\ \A b \in BOOLEAN :
                   LET gone == [operation EXCEPT !.pending = NoRequest, !.started = b]
                   IN  gone \in Operation /\ gone.id = operation.id
                       /\ gone.pending = NoRequest
  <2>1. operation \in Operation
    BY <1>4 DEF TypeOK
  <2>2. Sent(c) \in Operation /\ Sent(c).id = operation.id /\ Sent(c).pending = Request(c)
    BY <1>1, <2>1 DEF Sent, Operation
  <2>3. /\ Completed \in Operation /\ Completed.id = operation.id
        /\ Completed.pending = NoRequest
    BY <2>1 DEF Completed, Operation
  <2> QED
    BY <2>1, <2>2, <2>3 DEF Operation
<1> QED
  BY <1>1, <1>2, <1>3, <1>4

(* An answer of the bridge is well formed. *)
LEMMA AnswerTypes ==
    ASSUME TypeOK, running # NoRequest, NEW duration \in Nat, Answers(duration)
    PROVE  /\ running' \in Requests \cup {NoRequest} /\ ran' \subseteq Requests
           /\ response' \in Response \cup {NoResponse}
<1>1. running \in Requests /\ frame \in Nat /\ macro \in BOOLEAN
  BY BoundAssumption DEF TypeOK
<1>2. (~macro) \in BOOLEAN
  BY Zenon
<1>3. \A ok \in BOOLEAN : [id |-> running, ok |-> ok, completed |-> "yes", frame |-> frame,
                          duration |-> duration, settled |-> ~macro] \in Response
  BY <1>1, <1>2 DEF Response
<1> QED
  BY <1>1, <1>3 DEF Answers, TypeOK

(* A handled request is answered. *)
LEMMA HandleAnswers ==
    ASSUME TypeOK, NEW c \in Calls, Handle(c)
    PROVE  running # NoRequest /\ \E duration \in Nat : Answers(duration)
<1>1. running # NoRequest
  BY Records DEF Handle, TapKey, SetKeys, ClearKeys, RunLua, Observe, Screenshot, Handling, Phases
<1>2. \E duration \in Nat : Answers(duration)
  BY BoundAssumption DEF Handle, TapKey, SetKeys, ClearKeys, RunLua, Observe, Screenshot
<1> QED
  BY <1>1, <1>2

(* A step of the bridge keeps the types. *)
LEMMA BridgeTypes ==
    ASSUME IInv, Frame \/ HandlerFails \/ (\E c \in Calls : Handle(c))
    PROVE  TypeOK'
<1> USE DEF IInv
<1>1. CASE Frame
  <2>1. frame' \in 0..MaxFrame /\ keys' \subseteq Keys
    BY <1>1, BoundAssumption DEF Frame, TypeOK
  <2>2. release' \in [Keys -> Nat]
    BY <1>1 DEF Frame, TypeOK
  <2>3. heartbeat' \in BOOLEAN /\ macro' \in BOOLEAN
    BY <1>1, Zenon DEF Frame, TypeOK
  <2>4. claimed' \subseteq Requests
    BY <1>1 DEF Frame, TypeOK
  <2> QED
    BY <1>1, <2>1, <2>2, <2>3, <2>4 DEF Frame, TypeOK, caller
<1>2. CASE HandlerFails
  <2>1. running \in Requests /\ frame \in Nat
    BY <1>2, BoundAssumption DEF HandlerFails, TypeOK
  <2>2. \A said \in {"no", "unsaid"} :
           [id |-> running, ok |-> FALSE, completed |-> said, frame |-> frame, duration |-> 0,
            settled |-> FALSE] \in Response
    BY <2>1 DEF Response
  <2> QED
    BY <1>2, <2>1, <2>2 DEF HandlerFails, TypeOK, console, caller, history
<1>3. ASSUME NEW c \in Calls, Handle(c) PROVE TypeOK'
  <2>1. running # NoRequest /\ \E duration \in Nat : Answers(duration)
    BY <1>3, HandleAnswers
  <2>3. /\ running' \in Requests \cup {NoRequest} /\ ran' \subseteq Requests
        /\ response' \in Response \cup {NoResponse}
    BY <2>1, AnswerTypes
  <2>4. UNCHANGED <<emulator, frame, heartbeat, command, operation, caller, expired, claimed>>
    BY <2>1 DEF Answers
  <2>5. keys' \subseteq Keys /\ release' \in [Keys -> Nat] /\ orders' \in [Keys -> Nat]
        /\ tapped' \in [Calls -> Taps] /\ shot' \in [Calls -> Shots]
    <3>1. CASE TapKey(c)
      <4>1. \A f \in 0..MaxDuration : PressedUntil(f) \in Nat
        BY BoundAssumption DEF PressedUntil, TypeOK
      <4> QED
        BY <3>1, <4>1 DEF TapKey, TypeOK, Taps
    <3>2. CASE SetKeys(c)
      BY <3>2, BoundAssumption DEF SetKeys, TypeOK, Unscheduled, Forever
    <3>3. CASE ClearKeys(c)
      BY <3>3 DEF ClearKeys, TypeOK
    <3>4. CASE RunLua(c) \/ Observe(c)
      BY <3>4 DEF RunLua, Observe, TypeOK
    <3>5. CASE Screenshot(c)
      <4>1. [seen |-> TRUE, frame |-> frame, keys |-> keys, macro |-> macro] \in Shots
        BY BoundAssumption DEF TypeOK, Shots
      <4> QED
        BY <3>5, <4>1 DEF Screenshot, TypeOK
    <3> QED
      BY <1>3, <3>1, <3>2, <3>3, <3>4, <3>5 DEF Handle
  <2>6. macro' \in BOOLEAN
    BY <1>3, Zenon DEF Handle, TapKey, SetKeys, ClearKeys, RunLua, Observe, Screenshot, TypeOK
  <2> QED
    BY <2>3, <2>4, <2>5, <2>6 DEF TypeOK, caller
<1> QED
  BY <1>1, <1>2, <1>3

(* A step of a call keeps the types. *)
LEMMA CallerTypes ==
    ASSUME IInv, NEW c \in Calls,
           Admission(c) \/ SendCommand(c) \/ Compose(c) \/ Leave(c) \/ Expire(c)
    PROVE  TypeOK'
<1> USE DEF console, channel, caller, history
<1>1. TypeOK /\ pc[c] \in States /\ deadline[c] \in Deadlines
  BY DEF IInv, TypeOK
<1>2. pc[c] \in Owning => operation # NoOp
  BY DEF IInv, OwnerInv
<1>3. \A o \in {"not_executed", "unknown", "completed"} :
         /\ [deadline[c] EXCEPT !.outcome = o] \in Deadlines
         /\ [request |-> Request(c), outcome |-> o] \in Deadlines
         /\ [request |-> NoRequest, outcome |-> o] \in Deadlines
         /\ [request |-> evidence[c], outcome |-> o] \in Deadlines
  <2>1. evidence[c] \in Requests \cup {NoRequest}
    BY <1>1 DEF TypeOK
  <2> QED
    BY <1>1, <2>1, Records DEF Deadlines
<1>4. Fresh \in Deadlines /\ Restored(c) \in Deadlines /\ deadline[c].request \in Requests \cup {NoRequest}
  BY <1>1, <1>3 DEF Fresh, Restored, Deadlines
<1>5. NewOperation(c) \in Operation /\ Request(c) \in Requests
  BY <1>1, Records
<1>6. operation # NoOp =>
         /\ operation \in Operation /\ Sent(c) \in Operation /\ Completed \in Operation
         /\ [operation EXCEPT !.uncertain = TRUE] \in Operation
         /\ [operation EXCEPT !.started = TRUE] \in Operation
         /\ \A b \in BOOLEAN :
               [operation EXCEPT !.pending = NoRequest, !.started = b] \in Operation
  BY <1>1, Records
<1>7. /\ \A d \in Deadlines : Timeout(d) \in Errors
      /\ \A o \in {"ok", "not_executed", "unknown", "completed"},
            s \in {"yes", "no", "unsaid"}, r \in Requests \cup {NoRequest} :
            Error(o, s, r) \in Errors
  BY <1>1, ErrorTypes
<1>8. /\ \A e \in Errors, at \in Phases \cup {"retire", "result"} :
            Told(c, e, at) => report' \in [Calls -> Reports]
      /\ \A e \in Errors, op \in Operation : Fail(c, e, op) =>
            /\ report' \in [Calls -> Reports] /\ pc' \in [Calls -> States]
            /\ operation' \in Operation
  BY <1>1, FailTypes
<1>9. Gone(c) =>
         /\ pc' \in [Calls -> States] /\ phase' \in [Calls -> Phases]
         /\ deadline' \in [Calls -> Deadlines] /\ target' \in [Calls -> Nat]
         /\ expired' \subseteq Calls
  BY <1>1, GoneTypes
<1>10. \A w \in States : Goto(c, w) => pc' \in [Calls -> States]
  BY <1>1 DEF Goto, TypeOK
<1>11. First(c) \in Phases /\ phase[c] \in Phases
  BY <1>1 DEF First, Phases, TypeOK
<1>12. CASE Admission(c)
  <2>1. CASE Refused(c)
    BY <2>1, <1>1, <1>7, <1>8, <1>9, <1>11 DEF Refused, TypeOK
  <2>2. CASE Acquire(c)
    BY <2>2, <1>1, <1>5, <1>10 DEF Acquire, TypeOK, States
  <2>3. CASE Spawn(c)
    BY <2>3, <1>1, <1>2, <1>3, <1>6 DEF Spawn, TypeOK, Owning
  <2>4. CASE SpawnFails(c)
    BY <2>4, <1>1, <1>7, <1>8, <1>9 DEF SpawnFails, TypeOK, Phases
  <2> QED
    BY <1>12, <2>1, <2>2, <2>3, <2>4 DEF Admission
<1>13. CASE SendCommand(c)
  <2>1. operation # NoOp
    BY <1>2, <1>13 DEF SendCommand, Send, Sendable, BeginExpires, SendRefused, SendRaises, Sending,
       Answer, PollFails, Expires, Owning
  <2>2. CASE Send(c)
    BY <2>1, <2>2, <1>1, <1>3, <1>5, <1>6, <1>10 DEF Send, TypeOK, States
  <2>3. CASE BeginExpires(c)
    <3>1. deadline' \in [Calls -> Deadlines]
      BY <2>3, <1>1, <1>4 DEF BeginExpires, Begun, TypeOK
    <3>2. Timeout(deadline'[c]) \in Errors
      BY <3>1, <1>7
    <3>3. report' \in [Calls -> Reports] /\ pc' \in [Calls -> States] /\ operation' \in Operation
      BY <2>1, <2>3, <3>2, <1>6, <1>8 DEF BeginExpires
    <3> QED
      BY <2>3, <1>1, <3>1, <3>3 DEF BeginExpires, TypeOK
  <2>4. CASE SendRefused(c)
    <3>1. report' \in [Calls -> Reports] /\ pc' \in [Calls -> States] /\ operation' \in Operation
      BY <2>1, <2>4, <1>6, <1>7, <1>8 DEF SendRefused
    <3> QED
      BY <2>4, <1>1, <1>3, <3>1 DEF SendRefused, TypeOK
  <2>5. CASE SendRaises(c)
    <3>1. report' \in [Calls -> Reports] /\ pc' \in [Calls -> States] /\ operation' \in Operation
      BY <2>1, <2>5, <1>6, <1>7, <1>8 DEF SendRaises
    <3> QED
      BY <2>5, <1>1, <1>3, <1>5, <3>1 DEF SendRaises, TypeOK
  <2>6. CASE Answer(c)
    <3>1. AnswerOutcome \in {"unknown", "completed"}
      BY DEF AnswerOutcome
    <3>2. deadline' \in [Calls -> Deadlines]
      BY <2>6, <3>1, <1>1, <1>3 DEF Answer, TypeOK
    <3>3. Timeout(deadline'[c]) \in Errors
      BY <3>2, <1>7
    <3>5. \A b \in BOOLEAN : BridgeError(c, b) \in Errors
      <4>1. response \in Response
        BY <2>6, <1>1 DEF Answer, Answered, TypeOK
      <4>2. response.completed \in {"yes", "no", "unsaid"}
        BY <4>1 DEF Response
      <4> QED
        BY <3>1, <4>2, <1>5, <1>7 DEF BridgeError
    <3>4. report' \in [Calls -> Reports] /\ pc' \in [Calls -> States] /\ operation' \in Operation
      <4>1. CASE operation' = Completed /\ Goto(c, "answered") /\ UNCHANGED report
        BY <4>1, <2>1, <1>1, <1>6, <1>10 DEF TypeOK, States
      <4>2. CASE \E op \in {operation, Completed}, e \in Errors : Fail(c, e, op)
        BY <4>2, <2>1, <1>6, <1>8
      <4> QED
        BY <2>6, <3>3, <3>5, <4>1, <4>2 DEF Answer
    <3> QED
      BY <2>6, <1>1, <3>2, <3>4 DEF Answer, TypeOK
  <2>7. CASE PollFails(c)
    BY <2>1, <2>7, <1>1, <1>6, <1>7, <1>8 DEF PollFails, TypeOK
  <2>8. CASE Expires(c)
    <3>1. deadline' \in [Calls -> Deadlines] /\ command' \in Requests \cup {NoRequest}
      BY <2>8, <1>1, <1>3 DEF Expires, TypeOK
    <3>2. Timeout(deadline[c]) \in Errors /\ Timeout(deadline'[c]) \in Errors
      BY <3>1, <1>1, <1>7
    <3>3. [operation EXCEPT !.pending = NoRequest, !.started = StartedBefore(c)] \in Operation
      <4>1. StartedBefore(c) \in BOOLEAN
        BY Zenon DEF StartedBefore
      <4> QED
        BY <2>1, <4>1, <1>6
    <3>4. report' \in [Calls -> Reports] /\ pc' \in [Calls -> States] /\ operation' \in Operation
      BY <2>1, <2>8, <3>2, <3>3, <1>6, <1>8 DEF Expires
    <3> QED
      BY <2>8, <1>1, <3>1, <3>4 DEF Expires, TypeOK
  <2> QED
    BY <1>13, <2>2, <2>3, <2>4, <2>5, <2>6, <2>7, <2>8 DEF SendCommand
<1>14. CASE Compose(c)
  <2>1. operation # NoOp
    BY <1>2, <1>14 DEF Compose, AnsweredExpires, AnsweredFails, Ready, Returned, Settle, Polled,
       Captured, Owning
  <2>2. \A p \in Phases : Advance(c, p) => pc' \in [Calls -> States] /\ phase' \in [Calls -> Phases]
    BY <1>1, <1>10 DEF Advance, TypeOK, States
  <2>3. CASE AnsweredExpires(c)
    BY <2>1, <2>3, <1>1, <1>6, <1>7, <1>8 DEF AnsweredExpires, TypeOK
  <2>4. CASE AnsweredFails(c)
    BY <2>1, <2>4, <1>1, <1>6, <1>7, <1>8 DEF AnsweredFails, TypeOK
  <2>5. CASE Ready(c)
    BY <2>2, <2>5, <1>1 DEF Ready, TypeOK, Phases
  <2>6. CASE Returned(c)
    BY <2>6, <1>1, <1>4, <1>10 DEF Returned, TypeOK, States
  <2>7. CASE Settle(c)
    <3>1. response \in Response /\ deadline[c].request \in Requests \cup {NoRequest}
      BY <2>7, <1>1, <1>4 DEF Settle, TypeOK, IInv, OwnerInv, Answered
    <3>2. \A w \in 0..MaxWait : SettlesAt(w) \in Nat
      BY <3>1, BoundAssumption DEF SettlesAt, Response
    <3>3. target' \in [Calls -> Nat] /\ wait' \in [Calls -> Nat]
      BY <2>7, <3>2, <1>1, BoundAssumption DEF Settle, TypeOK
    <3> QED
      BY <2>2, <2>7, <3>1, <3>3, <1>1 DEF Settle, TypeOK, Phases
  <2>8. CASE Polled(c)
    BY <2>2, <2>8, <1>1 DEF Polled, TypeOK, Phases
  <2>9. CASE Captured(c)
    BY <2>9, <1>1, <1>4, <1>10 DEF Captured, TypeOK, States
  <2> QED
    BY <1>14, <2>3, <2>4, <2>5, <2>6, <2>7, <2>8, <2>9 DEF Compose
<1>15. CASE Leave(c)
  <2>1. evidence[c] \in Requests \cup {NoRequest}
    BY <1>1 DEF TypeOK
  <2>2. CASE Activate(c)
    BY <2>2, <1>1, <1>10 DEF Activate, TypeOK, States
  <2>3. CASE ActivationFails(c)
    BY <2>1, <2>3, <1>1, <1>7, <1>8, <1>10 DEF ActivationFails, TypeOK, States
  <2>4. CASE Finish(c)
    BY <2>4, <1>1, <1>10 DEF Finish, TypeOK, States
  <2>5. CASE FinishFails(c)
    <3>1. operation # NoOp
      BY <2>5, <1>2 DEF FinishFails, Owning
    <3>2. report' \in [Calls -> Reports]
      BY <2>1, <2>5, <1>4, <1>7, <1>8 DEF FinishFails
    <3> QED
      BY <2>5, <3>1, <3>2, <1>1, <1>6, <1>9 DEF FinishFails, TypeOK
  <2>6. CASE Return(c)
    BY <2>6, <1>1, <1>3, <1>7, <1>8, <1>9 DEF Return, TypeOK
  <2>7. CASE Unwind(c)
    BY <2>7, <1>1, <1>9 DEF Unwind, TypeOK
  <2>8. CASE Die(c)
    <3>1. NoReport \in Reports
      BY DEF NoReport, Reports
    <3> QED
      BY <2>8, <3>1, <1>1, <1>9 DEF Die, TypeOK
  <2> QED
    BY <1>15, <2>2, <2>3, <2>4, <2>5, <2>6, <2>7, <2>8 DEF Leave
<1>16. CASE Expire(c)
  BY <1>16, <1>1 DEF Expire, TypeOK
<1> QED
  BY <1>12, <1>13, <1>14, <1>15, <1>16

(* What one call sees of itself. *)
Kept(d) ==
    /\ pc'[d] = pc[d] /\ phase'[d] = phase[d] /\ deadline'[d] = deadline[d]
    /\ evidence'[d] = evidence[d] /\ target'[d] = target[d] /\ wait'[d] = wait[d]
    /\ report'[d] = report[d]

(* A call does not touch the state of another. *)
LEMMA OthersSame ==
    ASSUME TypeOK, NEW c \in Calls, NEW d \in Calls, d # c,
           Admission(c) \/ SendCommand(c) \/ Compose(c) \/ Leave(c) \/ Expire(c)
    PROVE  Kept(d)
<1> USE DEF TypeOK, Kept, caller, Goto, Told, Fail, Gone, Advance
<1>1. CASE Admission(c)
  <2>1. CASE Refused(c)
    BY <2>1 DEF Refused
  <2>2. CASE Acquire(c)
    BY <2>2 DEF Acquire
  <2>3. CASE Spawn(c)
    BY <2>3 DEF Spawn
  <2>4. CASE SpawnFails(c)
    BY <2>4 DEF SpawnFails
  <2> QED
    BY <1>1, <2>1, <2>2, <2>3, <2>4 DEF Admission
<1>2. CASE SendCommand(c)
  <2>1. CASE Send(c)
    BY <2>1 DEF Send
  <2>2. CASE BeginExpires(c)
    BY <2>2 DEF BeginExpires
  <2>3. CASE SendRefused(c)
    BY <2>3 DEF SendRefused
  <2>4. CASE SendRaises(c)
    BY <2>4 DEF SendRaises
  <2>5. CASE Answer(c)
    BY <2>5 DEF Answer
  <2>6. CASE PollFails(c)
    BY <2>6 DEF PollFails
  <2>7. CASE Expires(c)
    BY <2>7 DEF Expires
  <2> QED
    BY <1>2, <2>1, <2>2, <2>3, <2>4, <2>5, <2>6, <2>7 DEF SendCommand
<1>3. CASE Compose(c)
  <2>1. CASE AnsweredExpires(c)
    BY <2>1 DEF AnsweredExpires
  <2>2. CASE AnsweredFails(c)
    BY <2>2 DEF AnsweredFails
  <2>3. CASE Ready(c)
    BY <2>3 DEF Ready
  <2>4. CASE Returned(c)
    BY <2>4 DEF Returned
  <2>5. CASE Settle(c)
    BY <2>5 DEF Settle
  <2>6. CASE Polled(c)
    BY <2>6 DEF Polled
  <2>7. CASE Captured(c)
    BY <2>7 DEF Captured
  <2> QED
    BY <1>3, <2>1, <2>2, <2>3, <2>4, <2>5, <2>6, <2>7 DEF Compose
<1>4. CASE Leave(c)
  <2>1. CASE Activate(c)
    BY <2>1 DEF Activate
  <2>2. CASE ActivationFails(c)
    BY <2>2 DEF ActivationFails
  <2>3. CASE Finish(c)
    BY <2>3 DEF Finish
  <2>4. CASE FinishFails(c)
    BY <2>4 DEF FinishFails
  <2>5. CASE Return(c)
    BY <2>5 DEF Return
  <2>6. CASE Unwind(c)
    BY <2>6 DEF Unwind
  <2>7. CASE Die(c)
    BY <2>7 DEF Die
  <2> QED
    BY <1>4, <2>1, <2>2, <2>3, <2>4, <2>5, <2>6, <2>7 DEF Leave
<1>5. CASE Expire(c)
  BY <1>5 DEF Expire
<1> QED
  BY <1>1, <1>2, <1>3, <1>4, <1>5

(* The bridge does not touch the state of a call. *)
LEMMA BridgeSame ==
    ASSUME Frame \/ HandlerFails \/ (\E c \in Calls : Handle(c))
    PROVE  UNCHANGED <<emulator, operation, caller, expired>>
BY DEF Frame, HandlerFails, Handle, TapKey, SetKeys, ClearKeys, RunLua, Observe, Screenshot, Answers

(* A step of the call itself keeps what it knows. *)
LEMMA OwnCallStep ==
    ASSUME IInv, NEW c \in Calls,
           Admission(c) \/ SendCommand(c) \/ Compose(c) \/ Leave(c) \/ Expire(c)
    PROVE  CallInv(c)' /\ Evident(c)'
<1>1. TypeOK /\ CallInv(c) /\ Evident(c) /\ OwnerInv(c)
  BY DEF IInv, EvidenceIsKept
<1>2. /\ pc \in [Calls -> States] /\ phase \in [Calls -> Phases] /\ deadline \in [Calls -> Deadlines]
      /\ report \in [Calls -> Reports] /\ evidence \in [Calls -> Requests \cup {NoRequest}]
  BY <1>1 DEF TypeOK
<1>3. Command(c) # NoRequest /\ Request(c) # NoRequest
  BY <1>1, Records, RequestAssumption DEF Command, Phases, Request
<1> USE DEF CallInv, Asking, Primed, Goto, Request, First
<1>4. ASSUME NEW e, NEW op, Fail(c, e, op), UNCHANGED evidence, pc[c] \in Asking,
             e.outcome # "none"
      PROVE  CallInv(c)' /\ Evident(c)'
  <2>1. pc'[c] = "unwinding"
    BY <1>2, <1>4 DEF Fail
  <2>2. /\ report'[c].outcome = Reported(c, e).outcome /\ report'[c].at = phase[c]
        /\ report'[c].completed = Reported(c, e).completed
        /\ report'[c].command = Reported(c, e).command
    BY <1>2, <1>4 DEF Fail, Told
  <2>3. Reported(c, e).outcome # "none"
    BY <1>2, <1>4 DEF Reported, Error, Phases
  <2>4. CallInv(c)'
    BY <1>1, <1>4, <2>1, <2>2, <2>3 DEF Command
  <2>5. CASE phase[c] \in {"ping", "command"}
    <3>1. evidence[c] = NoRequest
      BY <1>1, <1>4, <2>5
    <3> QED
      BY <1>4, <2>4, <3>1 DEF Evident
  <2>6. CASE phase[c] \in {"poll", "capture"}
    <3>1. evidence[c] = Command(c)
      BY <1>1, <1>4, <2>6
    <3>2. /\ Reported(c, e).completed = "yes" /\ Reported(c, e).command = Command(c)
          /\ Reported(c, e).outcome # "not_executed"
      BY <2>6, <3>1 DEF Reported, Error, Primary
    <3> QED
      BY <2>2, <2>4, <3>2 DEF Evident, Failed, KeepsEvidence, Command
  <2> QED
    BY <1>2, <2>5, <2>6 DEF Phases
<1>5. \A e, at : Told(c, e, at) =>
         /\ report'[c].outcome = e.outcome /\ report'[c].at = at
         /\ report'[c].completed = e.completed /\ report'[c].command = e.command
  BY <1>2 DEF Told
<1>6. \A o, k, r : Error(o, k, r).outcome = o /\ Error(o, k, r).completed = k /\ Error(o, k, r).command = r
  BY DEF Error
<1>7. \A e : e \in Deadlines => Timeout(e).outcome # "none"
  BY <1>6 DEF Timeout, Deadlines
<1>8. Gone(c) => pc'[c] = "done"
  BY <1>2 DEF Gone
<1>9. CASE Admission(c)
  <2>1. CASE Refused(c)
    <3>1. evidence[c] = NoRequest
      BY <1>1, <2>1 DEF Refused
    <3> QED
      BY <1>1, <1>5, <1>6, <1>8, <2>1, <3>1 DEF Refused, Evident
  <2>2. CASE Acquire(c)
    BY <1>1, <1>2, <2>2 DEF Acquire, Evident, Failed, KeepsEvidence, Command
  <2>3. CASE Spawn(c)
    BY <1>1, <1>2, <2>3 DEF Spawn, Evident, Failed, KeepsEvidence, Command
  <2>4. CASE SpawnFails(c)
    <3>1. evidence[c] = NoRequest
      BY <1>1, <2>4 DEF SpawnFails
    <3> QED
      BY <1>1, <1>5, <1>6, <1>8, <2>4, <3>1 DEF SpawnFails, Evident
  <2> QED
    BY <1>9, <2>1, <2>2, <2>3, <2>4 DEF Admission
<1>10. CASE SendCommand(c)
  <2>1. CASE Send(c)
    BY <1>1, <1>2, <2>1 DEF Send, Sendable, Sending, Evident, Failed, KeepsEvidence, Command
  <2>2. CASE BeginExpires(c)
    <3>1. Timeout(deadline'[c]).outcome # "none"
      BY <1>2, <1>6, <2>2 DEF BeginExpires, Begun, Fresh, Timeout
    <3> QED
      BY <1>4, <2>2, <3>1 DEF BeginExpires, Sending
  <2>3. CASE SendRefused(c)
    BY <1>4, <1>6, <2>3 DEF SendRefused, Sending
  <2>4. CASE SendRaises(c)
    BY <1>4, <1>6, <2>4 DEF SendRaises, Sending
  <2>5. CASE Answer(c)
    <3>1. /\ Timeout(deadline'[c]).outcome # "none"
          /\ \A b \in BOOLEAN : BridgeError(c, b).outcome # "none"
      BY <1>2, <1>6, <2>5 DEF Answer, AnswerOutcome, BridgeError, Timeout
    <3>2. CASE operation' = Completed /\ Goto(c, "answered") /\ UNCHANGED report /\ response.ok
      BY <1>1, <1>2, <2>5, <3>2 DEF Answer, AnswerOutcome, Evident, Failed, KeepsEvidence, Command
    <3>3. CASE \E op, e : Fail(c, e, op) /\ e.outcome # "none"
      BY <1>4, <2>5, <3>3 DEF Answer
    <3> QED
      BY <2>5, <3>1, <3>2, <3>3 DEF Answer
  <2>6. CASE PollFails(c)
    BY <1>4, <1>6, <2>6 DEF PollFails
  <2>7. CASE Expires(c)
    <3>1. Timeout(deadline[c]).outcome # "none" /\ Timeout(deadline'[c]).outcome # "none"
      BY <1>1, <1>2, <1>6, <2>7 DEF Expires, Timeout
    <3> QED
      BY <1>4, <2>7, <3>1 DEF Expires
  <2> QED
    BY <1>10, <2>1, <2>2, <2>3, <2>4, <2>5, <2>6, <2>7 DEF SendCommand
<1>11. CASE Compose(c)
  <2>1. CASE AnsweredExpires(c)
    <3>1. Timeout(deadline[c]).outcome # "none"
      BY <1>2, <1>7
    <3> QED
      BY <1>4, <2>1, <3>1 DEF AnsweredExpires
  <2>2. CASE AnsweredFails(c)
    BY <1>4, <1>6, <2>2 DEF AnsweredFails
  <2>3. CASE Ready(c)
    BY <1>1, <1>2, <2>3 DEF Ready, Advance, Evident, Failed, KeepsEvidence, Command
  <2>4. CASE Returned(c)
    BY <1>1, <1>2, <1>3, <2>4 DEF Returned, Evident, Failed, KeepsEvidence, Command
  <2>5. CASE Settle(c)
    BY <1>1, <1>2, <1>3, <2>5 DEF Settle, Advance, Evident, Failed, KeepsEvidence, Command
  <2>6. CASE Polled(c)
    BY <1>1, <1>2, <2>6 DEF Polled, Advance, Evident, Failed, KeepsEvidence, Command
  <2>7. CASE Captured(c)
    BY <1>1, <1>2, <2>7 DEF Captured, Restored, Evident, Failed, KeepsEvidence, Command
  <2> QED
    BY <1>11, <2>1, <2>2, <2>3, <2>4, <2>5, <2>6, <2>7 DEF Compose
<1>12. CASE Leave(c)
  <2>1. CASE Activate(c)
    BY <1>1, <1>2, <2>1 DEF Activate, Evident, Failed, KeepsEvidence, Command
  <2>2. CASE ActivationFails(c)
    BY <1>1, <1>2, <1>5, <1>6, <2>2 DEF ActivationFails, Evident, Failed, KeepsEvidence, Command
  <2>3. CASE Finish(c)
    BY <1>1, <1>2, <2>3 DEF Finish, Evident, Failed, KeepsEvidence, Command
  <2>4. CASE FinishFails(c)
    <3>1. /\ report'[c].at = "retire" /\ report'[c].outcome \in {"unknown", "completed"}
          /\ report'[c].completed # "no" /\ evidence' = evidence
          /\ c \in StartViews =>
                report'[c].completed = "yes" /\ report'[c].command = evidence[c]
      BY <1>5, <1>6, <2>4, KindAssumption DEF FinishFails, Composites
    <3> QED
      BY <1>1, <1>8, <2>4, <3>1 DEF FinishFails, Evident, Failed, KeepsEvidence, Command
  <2>5. CASE Return(c)
    <3>1. /\ report'[c].outcome # "ok" => report'[c].completed = "yes" /\ report'[c].command = Command(c)
          /\ report'[c].outcome \in {"ok", "completed"}
      BY <1>1, <1>3, <1>5, <1>6, <2>5 DEF Return, Timeout
    <3> QED
      BY <1>1, <1>8, <2>5, <3>1 DEF Return, Evident, Failed, KeepsEvidence, Command
  <2>6. CASE Unwind(c)
    BY <1>1, <1>8, <2>6 DEF Unwind, Evident, Failed, KeepsEvidence, Command
  <2>7. CASE Die(c)
    BY <1>1, <1>2, <1>8, <2>7 DEF Die, Evident, Failed, NoReport, Command
  <2> QED
    BY <1>12, <2>1, <2>2, <2>3, <2>4, <2>5, <2>6, <2>7 DEF Leave
<1>13. CASE Expire(c)
  BY <1>1, <1>13 DEF Expire, caller, Evident, Failed, KeepsEvidence, Command
<1> QED
  BY <1>9, <1>10, <1>11, <1>12, <1>13

(* What a call knows by itself, and what it reports of its own command. *)
LEMMA CallStep == IInv /\ [Next]_vars => \A d \in Calls : CallInv(d)' /\ Evident(d)'
<1> SUFFICES ASSUME IInv, [Next]_vars, NEW d \in Calls PROVE CallInv(d)' /\ Evident(d)'
  OBVIOUS
<1>1. TypeOK /\ CallInv(d) /\ Evident(d)
  BY DEF IInv, EvidenceIsKept
<1>2. CASE Kept(d)
  BY <1>1, <1>2 DEF Kept, CallInv, Evident, Failed, KeepsEvidence, Request
<1>3. CASE Frame \/ HandlerFails \/ (\E c \in Calls : Handle(c)) \/ UNCHANGED vars
  BY <1>2, <1>3, BridgeSame DEF vars, caller, Kept
<1>4. ASSUME NEW c \in Calls, c # d,
             Admission(c) \/ SendCommand(c) \/ Compose(c) \/ Leave(c) \/ Expire(c)
      PROVE  CallInv(d)' /\ Evident(d)'
  BY <1>1, <1>2, <1>4, OthersSame
<1>5. CASE Admission(d) \/ SendCommand(d) \/ Compose(d) \/ Leave(d) \/ Expire(d)
  BY <1>5, OwnCallStep
<1> QED
  BY <1>3, <1>4, <1>5 DEF Next

(* The request that is not answered is the one that the journal names. *)
LEMMA Quiet ==
    ASSUME IInv
    PROVE  /\ operation = NoOp => command = NoRequest /\ running = NoRequest
           /\ operation # NoOp /\ operation.pending = NoRequest =>
                 command = NoRequest /\ running = NoRequest
           /\ operation # NoOp /\ operation.pending # NoRequest /\ Answered(operation.pending) =>
                 command = NoRequest /\ running = NoRequest
           /\ command # NoRequest => running = NoRequest
BY DEF IInv, ChannelInv

(* A failing call leaves the operation to the same owner. *)
LEMMA FailOwner ==
    ASSUME TypeOK, NEW c \in Calls, NEW e, NEW op \in Operation, Fail(c, e, op)
    PROVE  /\ operation' \in Operation /\ operation' # NoOp
           /\ operation'.id = op.id /\ operation'.pending = op.pending
           /\ pc'[c] = "unwinding"
<1>1. operation' \in {op, [op EXCEPT !.uncertain = TRUE]}
  BY DEF Fail
<1>2. operation' \in Operation /\ operation'.id = op.id /\ operation'.pending = op.pending
  BY <1>1 DEF Operation
<1>3. pc'[c] = "unwinding"
  BY DEF Fail, Goto, TypeOK
<1> QED
  BY <1>2, <1>3, RecordAssumption

(* A step of a call keeps one request at a time, and its own ownership. *)
LEMMA OwnChannelStep ==
    ASSUME IInv, NEW c \in Calls,
           Admission(c) \/ SendCommand(c) \/ Compose(c) \/ Leave(c) \/ Expire(c)
    PROVE  ChannelInv' /\ OwnerInv(c)'
<1>1. TypeOK /\ ChannelInv /\ OwnerInv(c) /\ CallInv(c)
  BY DEF IInv
<1>2. pc \in [Calls -> States] /\ phase \in [Calls -> Phases]
  BY <1>1 DEF TypeOK
<1>3. /\ NewOperation(c) \in Operation /\ NewOperation(c).id = c
      /\ NewOperation(c).pending = NoRequest
      /\ Request(c) \in Requests /\ Request(c) # NoRequest
      /\ operation # NoOp =>
            /\ operation \in Operation
            /\ Sent(c) \in Operation /\ Sent(c).id = operation.id /\ Sent(c).pending = Request(c)
            /\ Completed \in Operation /\ Completed.id = operation.id
            /\ Completed.pending = NoRequest
            /\ LET begun == [operation EXCEPT !.started = TRUE]
               IN  begun \in Operation /\ begun.id = operation.id
                   /\ begun.pending = operation.pending
  BY <1>1, Records, RequestAssumption
<1>4. \A op \in Operation : op # NoOp
  BY RecordAssumption
<1>5. Request(c) \in {c} \X Phases
  BY <1>2 DEF Request
<1>6. /\ operation = NoOp => command = NoRequest /\ running = NoRequest
      /\ operation # NoOp /\ operation.pending = NoRequest =>
            command = NoRequest /\ running = NoRequest
      /\ operation # NoOp /\ operation.pending # NoRequest /\ Answered(operation.pending) =>
            command = NoRequest /\ running = NoRequest
      /\ command # NoRequest => running = NoRequest
  BY Quiet
<1>7. ASSUME NEW e, NEW op \in Operation, Fail(c, e, op), operation # NoOp,
             pc[c] \in {"owner", "waiting", "answered"}, op.id = operation.id,
             op.pending = operation.pending \/ (command' = NoRequest /\ running' = NoRequest),
             op.pending \in {NoRequest, Request(c)},
             \/ UNCHANGED <<command, running, response>>
             \/ command' = NoRequest /\ running' = NoRequest
      PROVE  ChannelInv' /\ OwnerInv(c)'
  <2>1. /\ operation' # NoOp /\ operation'.id = op.id /\ operation'.pending = op.pending
        /\ pc'[c] = "unwinding"
    BY <1>1, <1>7, FailOwner
  <2>2. OwnerInv(c)'
    BY <1>1, <1>5, <1>7, <2>1 DEF OwnerInv, Owning
  <2>3. ChannelInv'
    BY <1>1, <1>7, <2>1 DEF ChannelInv, Answered
  <2> QED
    BY <2>2, <2>3
<1>failed. ASSUME operation # NoOp, \E e : Fail(c, e, operation),
                  operation.pending \in {NoRequest, Request(c)}, operation.id = c,
                  UNCHANGED <<command, running, response>>
           PROVE  ChannelInv' /\ OwnerInv(c)'
  <2>1. /\ operation' # NoOp /\ operation'.id = c /\ operation'.pending = operation.pending
        /\ pc'[c] = "unwinding"
    BY <1>1, <1>3, <1>failed, FailOwner
  <2>2. OwnerInv(c)'
    BY <1>5, <1>failed, <2>1 DEF OwnerInv, Owning
  <2>3. ChannelInv'
    BY <1>1, <1>failed, <2>1 DEF ChannelInv, Answered
  <2> QED
    BY <2>2, <2>3
<1> USE DEF Owning
<1>8. CASE Admission(c)
  <2>1. CASE Refused(c)
    BY <1>1, <1>2, <2>1 DEF Refused, Gone, Goto, OwnerInv, ChannelInv, Answered, channel
  <2>2. CASE Acquire(c)
    <3>1. command = NoRequest /\ running = NoRequest
      BY <1>6, <2>2 DEF Acquire, Reclaimable
    <3> QED
      BY <1>2, <1>3, <1>4, <2>2, <3>1 DEF Acquire, Goto, OwnerInv, ChannelInv, channel
  <2>3. CASE Spawn(c)
    <3>1. /\ operation' # NoOp /\ operation'.id = c /\ operation'.pending = NoRequest
          /\ command = NoRequest /\ running = NoRequest
      BY <1>1, <1>3, <1>4, <1>6, <2>3 DEF Spawn, OwnerInv
    <3>2. pc'[c] = "owner" /\ UNCHANGED <<command, running>>
      BY <2>3 DEF Spawn, channel
    <3> QED
      BY <3>1, <3>2 DEF OwnerInv, ChannelInv
  <2>4. CASE SpawnFails(c)
    <3>1. command = NoRequest /\ running = NoRequest
      BY <1>1, <1>6, <2>4 DEF SpawnFails, OwnerInv
    <3> QED
      BY <1>2, <2>4, <3>1 DEF SpawnFails, Gone, Goto, OwnerInv, ChannelInv, channel
  <2> QED
    BY <1>8, <2>1, <2>2, <2>3, <2>4 DEF Admission
<1>9. CASE SendCommand(c)
  <2>1. operation # NoOp /\ operation.id = c
    BY <1>1, <1>9 DEF SendCommand, Send, Sendable, BeginExpires, SendRefused, SendRaises, Sending,
       Answer, PollFails, Expires, OwnerInv
  <2>2. ASSUME Sending(c)
        PROVE  operation.pending = NoRequest /\ command = NoRequest /\ running = NoRequest
    BY <1>1, <1>6, <2>1, <2>2 DEF Sending, OwnerInv
  <2>3. CASE Send(c)
    <3>1. running' = NoRequest /\ command' = Request(c) /\ response' = NoResponse
      BY <2>2, <2>3 DEF Send, Sendable
    <3>2. operation' # NoOp /\ operation'.id = c /\ operation'.pending = Request(c)
      BY <1>3, <1>4, <2>1, <2>3 DEF Send
    <3>3. ChannelInv'
      BY <3>1, <3>2 DEF ChannelInv, Answered
    <3>4. pc'[c] = "waiting" /\ Request(c)' = Request(c)
      BY <1>2, <2>3 DEF Send, Goto, Request
    <3> QED
      BY <3>2, <3>3, <3>4 DEF OwnerInv
  <2>4. CASE BeginExpires(c)
    BY <1>3, <1>7, <2>1, <2>2, <2>4 DEF BeginExpires, Sending, channel
  <2>5. CASE SendRefused(c)
    BY <1>3, <1>7, <2>1, <2>2, <2>5 DEF SendRefused, Sending, channel
  <2>6. CASE SendRaises(c)
    <3>1. running' = NoRequest /\ command' \in {NoRequest, Request(c)} /\ response' = NoResponse
      BY <2>2, <2>6 DEF SendRaises
    <3>2. /\ operation' # NoOp /\ operation'.id = c /\ operation'.pending = Request(c)
          /\ pc'[c] = "unwinding"
      BY <1>1, <1>3, <2>1, <2>6, FailOwner DEF SendRaises
    <3>3. ChannelInv'
      BY <3>1, <3>2 DEF ChannelInv, Answered
    <3> QED
      BY <1>5, <3>2, <3>3 DEF OwnerInv
  <2>7. CASE Answer(c)
    <3>1. command = NoRequest /\ running = NoRequest
      BY <1>1, <1>3, <1>6, <2>1, <2>7 DEF Answer, OwnerInv
    <3>2. command' = NoRequest /\ running' = NoRequest /\ response' = response /\ phase' = phase
      BY <2>7, <3>1 DEF Answer, channel
    <3>3. CASE operation' = Completed /\ Goto(c, "answered") /\ response.ok
      <4>1. pc'[c] = "answered" /\ Request(c)' = Request(c) /\ Answered(Request(c))
        BY <1>2, <2>7, <3>2, <3>3 DEF Goto, Request, Answer
      <4> QED
        BY <1>3, <1>4, <2>1, <3>2, <3>3, <4>1 DEF OwnerInv, ChannelInv, Answered
    <3>4. CASE \E op \in {operation, Completed} : \E e : Fail(c, e, op)
      BY <1>1, <1>3, <1>7, <2>1, <2>7, <3>2, <3>4 DEF Answer, OwnerInv
    <3> QED
      BY <2>7, <3>3, <3>4 DEF Answer
  <2>8. CASE PollFails(c)
    <3>1. operation.pending = Request(c) /\ operation \in Operation
      BY <1>1, <1>3, <2>1, <2>8 DEF PollFails, OwnerInv
    <3>2. \E e : Fail(c, e, operation) /\ UNCHANGED <<command, running, response>>
      BY <2>8 DEF PollFails, channel
    <3> QED
      BY <1>failed, <2>1, <3>1, <3>2
  <2>9. CASE Expires(c)
    <3>1. CASE /\ Withdrawable(c) /\ command' = NoRequest
               /\ Fail(c, Timeout(deadline'[c]),
                       [operation EXCEPT !.pending = NoRequest, !.started = StartedBefore(c)])
      <4> DEFINE gone == [operation EXCEPT !.pending = NoRequest, !.started = StartedBefore(c)]
      <4>1. running' = NoRequest
        BY <1>3, <1>6, <2>9, <3>1 DEF Withdrawable, Expires
      <4>2. StartedBefore(c) \in BOOLEAN
        BY Zenon DEF StartedBefore
      <4>3. gone \in Operation /\ gone.id = operation.id /\ gone.pending = NoRequest
        BY <1>1, <2>1, <4>2, Records
      <4> HIDE DEF gone
      <4> QED
        BY <1>7, <2>1, <2>9, <3>1, <4>1, <4>3 DEF Expires, gone
    <3>2. CASE Fail(c, Timeout(deadline[c]), operation) /\ UNCHANGED command
      <4>1. operation.pending = Request(c) /\ operation \in Operation
        BY <1>1, <1>3, <2>1, <2>9 DEF Expires, OwnerInv
      <4>2. \E e : Fail(c, e, operation) /\ UNCHANGED <<command, running, response>>
        BY <2>9, <3>2 DEF Expires
      <4> QED
        BY <1>failed, <2>1, <4>1, <4>2
    <3> QED
      BY <2>9, <3>1, <3>2 DEF Expires
  <2> QED
    BY <1>9, <2>3, <2>4, <2>5, <2>6, <2>7, <2>8, <2>9 DEF SendCommand
<1>10. CASE Compose(c)
  <2>1. /\ pc[c] = "answered" /\ operation # NoOp /\ operation.id = c
        /\ operation.pending = NoRequest /\ UNCHANGED <<command, running, response>>
    BY <1>1, <1>10 DEF Compose, AnsweredExpires, AnsweredFails, Ready, Returned, Settle, Polled,
       Captured, OwnerInv, channel
  <2>2. CASE AnsweredExpires(c) \/ AnsweredFails(c)
    <3>1. \E e : Fail(c, e, operation)
      BY <2>2 DEF AnsweredExpires, AnsweredFails
    <3> QED
      BY <1>failed, <2>1, <3>1
  <2>3. CASE operation' = operation /\ pc'[c] \in {"owner", "activating", "finishing"}
    BY <1>1, <2>1, <2>3 DEF OwnerInv, ChannelInv, Answered
  <2>4. Ready(c) \/ Returned(c) \/ Settle(c) \/ Polled(c) \/ Captured(c) =>
           operation' = operation /\ pc'[c] \in {"owner", "activating", "finishing"}
    BY <1>2 DEF Ready, Returned, Settle, Polled, Captured, Advance, Goto
  <2> QED
    BY <1>10, <2>2, <2>3, <2>4 DEF Compose
<1>11. CASE Leave(c)
  <2>1. UNCHANGED <<command, running, response>>
    BY <1>11 DEF Leave, Activate, ActivationFails, Finish, FinishFails, Return, Unwind, Die, channel
  <2>2. CASE Activate(c) \/ ActivationFails(c)
    <3>1. /\ operation' = operation /\ pc'[c] \in {"finishing", "unwinding"}
          /\ pc[c] = "activating"
      BY <1>2, <2>2 DEF Activate, ActivationFails, Goto
    <3> QED
      BY <1>1, <2>1, <3>1 DEF OwnerInv, ChannelInv, Answered
  <2>3. CASE Finish(c) \/ FinishFails(c)
    <3>1. command = NoRequest /\ running = NoRequest
      BY <1>1, <1>6, <2>3 DEF Finish, FinishFails, OwnerInv
    <3>2. pc'[c] \in {"returning", "done"}
      BY <1>2, <2>3 DEF Finish, FinishFails, Gone, Goto
    <3> QED
      BY <2>1, <3>1, <3>2 DEF OwnerInv, ChannelInv
  <2>4. CASE Return(c) \/ Die(c)
    <3>1. operation' = operation /\ pc'[c] = "done"
      BY <1>2, <2>4 DEF Return, Die, Gone, Goto
    <3> QED
      BY <1>1, <2>1, <3>1 DEF OwnerInv, ChannelInv, Answered
  <2>5. CASE Unwind(c)
    <3>1. pc'[c] = "done" /\ (operation' = operation \/ operation.pending = NoRequest)
      BY <1>2, <2>5 DEF Unwind, Gone, Goto
    <3>2. operation # NoOp
      BY <1>1, <2>5 DEF Unwind, OwnerInv
    <3> QED
      BY <1>1, <1>6, <2>1, <3>1, <3>2 DEF OwnerInv, ChannelInv, Answered
  <2> QED
    BY <1>11, <2>2, <2>3, <2>4, <2>5 DEF Leave
<1>12. CASE Expire(c)
  BY <1>1, <1>12 DEF Expire, OwnerInv, ChannelInv, Answered, channel, caller, Request
<1> QED
  BY <1>8, <1>9, <1>10, <1>11, <1>12

(* Only the owner changes the journal and the response; nobody else owns it. *)
LEMMA OwnerAlone ==
    ASSUME IInv, NEW c \in Calls,
           Admission(c) \/ SendCommand(c) \/ Compose(c) \/ Leave(c) \/ Expire(c)
    PROVE  \/ UNCHANGED <<operation, response, command, running>>
           \/ \A d \in Calls : d # c => pc[d] \notin Owning
<1>1. CASE pc[c] \in Owning
  BY <1>1 DEF IInv, OwnerInv
<1>2. CASE Acquire(c)
  BY <1>2 DEF Acquire, OperationLocked
<1>3. CASE pc[c] \notin Owning /\ ~Acquire(c)
  <2>1. ~SendCommand(c) /\ ~Compose(c)
    BY <1>3 DEF SendCommand, Send, Sendable, BeginExpires, SendRefused, SendRaises, Sending,
       Answer, PollFails, Expires, Compose, AnsweredExpires, AnsweredFails, Ready, Returned,
       Settle, Polled, Captured, Owning
  <2>2. Refused(c) \/ Return(c) \/ Die(c) \/ Expire(c)
    BY <1>3, <2>1 DEF Admission, Spawn, SpawnFails, Leave, Activate, ActivationFails, Finish,
       FinishFails, Unwind, Owning
  <2> QED
    BY <2>2 DEF Refused, Return, Die, Expire, channel
<1> QED
  BY <1>1, <1>2, <1>3

(* The bridge keeps one request at a time. *)
LEMMA BridgeChannelStep ==
    ASSUME IInv, Frame \/ HandlerFails \/ (\E c \in Calls : Handle(c))
    PROVE  /\ ChannelInv' /\ \A d \in Calls : OwnerInv(d)'
<1>1. UNCHANGED <<operation, pc, phase>>
  BY BridgeSame DEF caller
<1>2. \/ running' = command /\ command' = NoRequest /\ response' = response
      \/ running # NoRequest /\ running' = NoRequest /\ command' = command
  <2>1. CASE Frame
    BY <2>1 DEF Frame
  <2>2. CASE HandlerFails
    BY <2>2 DEF HandlerFails
  <2>3. ASSUME NEW c \in Calls, Handle(c) PROVE running # NoRequest /\ running' = NoRequest /\ command' = command
    BY <2>3, Records DEF Handle, TapKey, SetKeys, ClearKeys, RunLua, Observe, Screenshot, Answers,
       Handling, Phases, IInv
  <2> QED
    BY <2>1, <2>2, <2>3
<1>3. ChannelInv'
  BY <1>1, <1>2, Quiet DEF ChannelInv, Answered, IInv
<1>4. ASSUME NEW d \in Calls PROVE OwnerInv(d)'
  <2>1. OwnerInv(d)
    BY DEF IInv
  <2>2. pc[d] = "answered" => running = NoRequest
    BY <2>1, Quiet DEF OwnerInv, Owning
  <2> QED
    BY <1>1, <1>2, <2>1, <2>2 DEF OwnerInv, Answered, Request
<1> QED
  BY <1>3, <1>4

(* Every step keeps one request at a time and one owner. *)
LEMMA ChannelStep == IInv /\ [Next]_vars => ChannelInv' /\ \A d \in Calls : OwnerInv(d)'
<1> SUFFICES ASSUME IInv, [Next]_vars PROVE ChannelInv' /\ \A d \in Calls : OwnerInv(d)'
  OBVIOUS
<1>1. CASE Frame \/ HandlerFails \/ (\E c \in Calls : Handle(c))
  BY <1>1, BridgeChannelStep
<1>2. ASSUME NEW c \in Calls,
             Admission(c) \/ SendCommand(c) \/ Compose(c) \/ Leave(c) \/ Expire(c)
      PROVE  ChannelInv' /\ \A d \in Calls : OwnerInv(d)'
  <2>1. ChannelInv' /\ OwnerInv(c)'
    BY <1>2, OwnChannelStep
  <2>2. ASSUME NEW d \in Calls, d # c PROVE OwnerInv(d)'
    <3>1. pc'[d] = pc[d] /\ phase'[d] = phase[d] /\ OwnerInv(d)
      BY <1>2, <2>2, OthersSame DEF Kept, IInv
    <3>2. CASE UNCHANGED <<operation, response>>
      BY <3>1, <3>2 DEF OwnerInv, Answered, Request
    <3>3. CASE pc[d] \notin Owning
      BY <3>1, <3>3 DEF OwnerInv, Owning
    <3> QED
      BY <1>2, <2>2, <3>2, <3>3, OwnerAlone
  <2> QED
    BY <2>1, <2>2
<1>3. CASE UNCHANGED vars
  BY <1>3 DEF vars, channel, caller, IInv, ChannelInv, OwnerInv, Answered, Request
<1> QED
  BY <1>1, <1>2, <1>3 DEF Next

(* A call runs nothing itself: it may take its own command file away, write
   its next one, and remove the last answer. *)
LEMMA CallerKeeps ==
    ASSUME IInv, NEW c \in Calls,
           Admission(c) \/ SendCommand(c) \/ Compose(c) \/ Leave(c) \/ Expire(c)
    PROVE  /\ UNCHANGED <<console, running, claimed, ran, orders, tapped, shot>>
           /\ response' \in {response, NoResponse}
           /\ \/ command' \in {command, NoRequest}
              \/ command' = Request(c) /\ pc[c] = "owner"
<1> USE DEF channel, history
<1>1. CASE Admission(c)
  BY <1>1 DEF Admission, Refused, Acquire, Spawn, SpawnFails
<1>2. CASE SendCommand(c)
  BY <1>2 DEF SendCommand, Send, Sendable, Sending, BeginExpires, SendRefused, SendRaises, Answer,
     PollFails, Expires
<1>3. CASE Compose(c)
  BY <1>3 DEF Compose, AnsweredExpires, AnsweredFails, Ready, Returned, Settle, Polled, Captured
<1>4. CASE Leave(c)
  BY <1>4 DEF Leave, Activate, ActivationFails, Finish, FinishFails, Return, Unwind, Die
<1>5. CASE Expire(c)
  BY <1>5 DEF Expire
<1> QED
  BY <1>1, <1>2, <1>3, <1>4, <1>5

(* What may have run of the command of a call is not changed by a step of
   another call, and by its own step only while it sends. *)
LEMMA MayStep ==
    ASSUME IInv, NEW c \in Calls, NEW d \in Calls,
           Admission(c) \/ SendCommand(c) \/ Compose(c) \/ Leave(c) \/ Expire(c)
    PROVE  /\ May(Command(d))' =>
                 \/ May(Command(d))
                 \/ c = d /\ pc[c] = "owner" /\ phase[c] = "command" /\ command' = Command(c)
           /\ command' = Command(d) => Command(d) \notin claimed
           /\ command' = Command(d) => command = Command(d) \/ (c = d /\ pc[c] = "owner")
<1>1. Command(d) # NoRequest
  BY Records DEF IInv, Command, Phases
<1>2. OnceInv(d)
  BY DEF IInv
<1>3. CASE command' \in {command, NoRequest}
  BY <1>1, <1>2, <1>3, CallerKeeps DEF May, OnceInv, Command
<1>4. CASE command' = Request(c) /\ pc[c] = "owner"
  BY <1>1, <1>2, <1>4, CallerKeeps DEF May, OnceInv, Command, Request
<1> QED
  BY <1>3, <1>4, CallerKeeps

(* What a call reports is true, and what it denies is not on its way. *)
Honest(c) == Truthful(c) /\ DenialInv(c)

(* The facts about what ran, under a step of the bridge. *)
LEMMA BridgeRanStep ==
    ASSUME IInv, Frame \/ HandlerFails \/ (\E c \in Calls : Handle(c))
    PROVE  RanInv' /\ \A d \in Calls : OnceInv(d)' /\ Honest(d)'
<1>1. TypeOK /\ RanInv
  BY DEF IInv
<1>2. UNCHANGED <<pc, phase, evidence, report>>
  BY BridgeSame DEF caller
<1>3. CASE Frame
  <2>1. RanInv'
    <3>1. frame \in Nat /\ frame' = frame + 1
      BY <1>1, <1>3, BoundAssumption DEF Frame, TypeOK
    <3>2. response # NoResponse => response.frame \in Nat
      BY <1>1 DEF TypeOK, Response
    <3> QED
      BY <1>1, <1>3, <3>1, <3>2 DEF Frame, RanInv
  <2>2. ASSUME NEW d \in Calls PROVE OnceInv(d)' /\ Honest(d)'
    <3>1. OnceInv(d) /\ Honest(d) /\ Command(d) # NoRequest
      BY <1>1, Records DEF IInv, ReportIsTrue, Honest, Command, Phases
    <3>2. May(Command(d))' <=> May(Command(d))
      BY <1>3, <3>1 DEF Frame, May, Command
    <3>3. ran' = ran /\ response' = response /\ command' = NoRequest /\ running' = command
      BY <1>3 DEF Frame
    <3>4. OnceInv(d)'
      BY <1>1, <1>2, <3>1, <3>2, <3>3 DEF OnceInv, RanInv, Command, Answered
    <3> QED
      BY <1>2, <3>1, <3>2, <3>3, <3>4 DEF Honest, Truthful, DenialInv, Command
  <2> QED
    BY <2>1, <2>2
<1>4. CASE HandlerFails \/ (\E c \in Calls : Handle(c))
  <2>1. /\ running # NoRequest /\ running' = NoRequest
        /\ UNCHANGED <<command, claimed, frame>> /\ ran' \in {ran, ran \cup {running}}
        /\ \/ response' = response
           \/ /\ response'.id = running /\ ~response'.ok /\ response'.frame = frame
              /\ response'.completed # "yes" /\ ran' = ran
           \/ /\ response'.id = running /\ response'.completed = "yes"
              /\ ran' = ran \cup {running} /\ response'.frame = frame
    <3>1. CASE HandlerFails
      BY <3>1 DEF HandlerFails, console, history
    <3>2. ASSUME NEW c \in Calls, Handle(c)
          PROVE  /\ running # NoRequest /\ \E duration \in Nat : Answers(duration)
      BY <1>1, <3>2, HandleAnswers
    <3> QED
      BY <1>4, <3>1, <3>2 DEF Answers
  <2>2. RanInv'
    <3>1. frame \in Nat
      BY <1>1, BoundAssumption DEF TypeOK
    <3> QED
      BY <1>1, <2>1, <3>1 DEF RanInv
  <2>3. ASSUME NEW d \in Calls PROVE OnceInv(d)' /\ Honest(d)'
    <3>1. OnceInv(d) /\ Honest(d) /\ Command(d) # NoRequest
      BY <1>1, Records DEF IInv, ReportIsTrue, Honest, Command, Phases
    <3>2. May(Command(d))' <=> May(Command(d))
      BY <2>1 DEF May, Command
    <3>3. ran \subseteq ran'
      BY <2>1
    <3>4. OnceInv(d)'
      <4>1. running = Command(d) => ~Answered(Command(d))
        BY <2>1 DEF IInv, ChannelInv
      <4>2. Answered(Command(d))' /\ response'.completed = "no" => Command(d) \notin ran'
        BY <2>1, <3>1, <4>1 DEF OnceInv, Answered, Command
      <4> QED
        BY <1>2, <2>1, <3>1, <3>2, <3>3, <4>2 DEF OnceInv, Command, Answered
    <3> QED
      BY <1>2, <2>1, <3>1, <3>2, <3>3, <3>4 DEF Honest, Truthful, DenialInv, Command
  <2> QED
    BY <2>2, <2>3
<1> QED
  BY <1>3, <1>4

(* What an error may say of the command of a call. *)
Sound(c, e) ==
    /\ e.outcome = "not_executed" => ~May(Command(c))'
    /\ e.completed = "yes" => Command(c) \in ran
    /\ e.outcome \in {"ok", "completed"} => Command(c) \in ran
    /\ e.completed = "no" => Command(c) \notin ran /\ Command(c) \notin {command', running}
    /\ e.command \in {Command(c), NoRequest}

(* A step of the call itself: what it tells is true. *)
LEMMA OwnRanStep ==
    ASSUME IInv, NEW c \in Calls,
           Admission(c) \/ SendCommand(c) \/ Compose(c) \/ Leave(c) \/ Expire(c)
    PROVE  OnceInv(c)' /\ Honest(c)'
<1>1. TypeOK /\ CallInv(c) /\ OwnerInv(c) /\ OnceInv(c) /\ Honest(c) /\ RanInv
  BY DEF IInv, ReportIsTrue, Honest
<1>2. /\ pc \in [Calls -> States] /\ phase \in [Calls -> Phases] /\ deadline \in [Calls -> Deadlines]
      /\ report \in [Calls -> Reports] /\ evidence \in [Calls -> Requests \cup {NoRequest}]
  BY <1>1 DEF TypeOK
<1>3. Command(c) # NoRequest
  BY <1>1, Records DEF Command, Phases
<1>4. /\ UNCHANGED <<running, claimed, ran>>
      /\ command' = Command(c) => Command(c) \notin claimed
      /\ May(Command(c))' =>
            \/ May(Command(c))
            \/ pc[c] = "owner" /\ phase[c] = "command" /\ command' = Command(c)
      /\ command' = Command(c) => command = Command(c) \/ pc[c] = "owner"
      /\ response' \in {response, NoResponse}
  BY CallerKeeps, MayStep
<1>silent. ~May(Command(c))' => Command(c) \notin ran /\ Command(c) \notin {command', running}
  BY <1>1, <1>3, <1>4 DEF RanInv, May, Command
<1>5. \A e, at : Told(c, e, at) =>
         /\ report'[c].outcome = e.outcome /\ report'[c].completed = e.completed
         /\ report'[c].command = e.command
  BY <1>2 DEF Told
<1>6. \A o, k, r : Error(o, k, r).outcome = o /\ Error(o, k, r).completed = k /\ Error(o, k, r).command = r
  BY DEF Error
<1>7. ASSUME NEW e, NEW at, Told(c, e, at), Sound(c, e) PROVE Honest(c)'
  BY <1>4, <1>5, <1>7 DEF Honest, Truthful, DenialInv, Sound, Command
<1>8. Gone(c) => pc'[c] = "done"
  BY <1>2 DEF Gone, Goto
<1>9. ASSUME evidence' = evidence, pc'[c] \in {"unwinding", "done"} PROVE OnceInv(c)'
  BY <1>1, <1>4, <1>9 DEF OnceInv, Asking, Command, Answered
<1>10. ASSUME NEW e, NEW op, Fail(c, e, op), evidence' = evidence, pc[c] \in Asking,
              phase[c] = "ping" => ~May(Command(c))', phase[c] = "command" => Sound(c, e)
       PROVE  OnceInv(c)' /\ Honest(c)'
  <2>1. Told(c, Reported(c, e), phase[c]) /\ pc'[c] = "unwinding"
    BY <1>2, <1>10 DEF Fail, Goto
  <2>2. Sound(c, Reported(c, e))
    <3>1. CASE phase[c] = "ping"
      BY <1>6, <1>10, <1>silent, <3>1 DEF Reported, Sound
    <3>2. CASE phase[c] = "command"
      BY <1>6, <1>10, <1>silent, <3>2 DEF Reported, Sound
    <3>3. CASE phase[c] \in {"poll", "capture"}
      <4>1. evidence[c] = Command(c) /\ Command(c) \in ran
        BY <1>1, <1>10, <3>3 DEF CallInv, OnceInv, Answered
      <4> QED
        BY <1>6, <3>3, <4>1 DEF Reported, Sound, Primary
    <3> QED
      BY <1>2, <3>1, <3>2, <3>3 DEF Phases
  <2> QED
    BY <1>7, <1>9, <1>10, <2>1, <2>2
<1>11. ASSUME report' = report, May(Command(c))' => May(Command(c)) PROVE Honest(c)'
  BY <1>1, <1>4, <1>11 DEF CallInv, NoReport, Honest, Truthful, DenialInv, Command
<1>12. Sound(c, Error("unknown", "unsaid", NoRequest))
  BY <1>6 DEF Sound
<1>13. ~May(Command(c))' => Sound(c, Error("not_executed", "unsaid", NoRequest))
  BY <1>6 DEF Sound
<1>14. CASE Admission(c)
  <2>1. CASE Refused(c)
    <3>1. ~May(Command(c))'
      BY <1>1, <1>2, <1>4, <2>1 DEF Refused, OnceInv, CallInv, First, Asking, Answered
    <3> QED
      BY <1>7, <1>8, <1>9, <1>13, <2>1, <3>1 DEF Refused
  <2>2. CASE Acquire(c)
    <3>1. /\ UNCHANGED <<report, phase, evidence>> /\ command' = command
          /\ pc[c] = "queued" /\ pc'[c] = "owner"
      BY <1>2, <2>2 DEF Acquire, Goto, channel
    <3>2. OnceInv(c)'
      BY <1>1, <1>4, <3>1 DEF OnceInv, Asking, Command, May, Answered
    <3> QED
      BY <1>4, <1>11, <3>1, <3>2
  <2>3. CASE Spawn(c)
    BY <1>1, <1>4, <1>11, <2>3 DEF Spawn, channel, OnceInv, Command, May, Answered
  <2>4. CASE SpawnFails(c)
    <3>1. ~May(Command(c))'
      BY <1>1, <1>4, <2>4 DEF SpawnFails, OnceInv, Asking, Answered
    <3> QED
      BY <1>7, <1>8, <1>9, <1>13, <2>4, <3>1 DEF SpawnFails
  <2> QED
    BY <1>14, <2>1, <2>2, <2>3, <2>4 DEF Admission
<1>15. CASE SendCommand(c)
  <2>1. phase[c] = "ping" => ~May(Command(c))'
    BY <1>1, <1>4, <1>15 DEF OnceInv, Asking, SendCommand, Send, Sendable, Sending, BeginExpires,
       SendRefused, SendRaises, Answer, PollFails, Expires
  <2>2. CASE Send(c)
    <3>1. /\ UNCHANGED <<report, phase, evidence>> /\ command' = Request(c)
          /\ pc[c] = "owner" /\ pc'[c] = "waiting"
      BY <1>2, <2>2 DEF Send, Sendable, Sending, Goto
    <3>2. OnceInv(c)'
      BY <1>1, <1>4, <2>1, <3>1 DEF OnceInv, Asking, Command, Answered
    <3>3. report[c] = NoReport
      BY <1>1, <3>1 DEF CallInv
    <3> QED
      BY <3>1, <3>2, <3>3 DEF Honest, Truthful, DenialInv, NoReport
  <2>3. CASE BeginExpires(c)
    <3>1. phase[c] = "command" => ~May(Command(c))'
      BY <1>1, <1>4, <1>3, <2>3 DEF BeginExpires, Sending, OnceInv, channel, May, Command, Answered
    <3>2. Timeout(deadline'[c]) = Error("not_executed", "unsaid", NoRequest)
      BY <1>2, <2>3 DEF BeginExpires, Begun, Fresh, Timeout
    <3> QED
      BY <1>10, <1>13, <2>1, <2>3, <3>1, <3>2 DEF BeginExpires, Sending, Asking
  <2>4. CASE SendRefused(c)
    <3>1. phase[c] = "command" => ~May(Command(c))'
      BY <1>1, <1>4, <1>3, <2>4 DEF SendRefused, Sending, OnceInv, channel, May, Command, Answered
    <3> QED
      BY <1>10, <1>13, <2>1, <2>4, <3>1 DEF SendRefused, Sending, Asking
  <2>5. CASE SendRaises(c)
    BY <1>10, <1>12, <2>1, <2>5 DEF SendRaises, Sending, Asking
  <2>6. CASE Answer(c)
    <3>1. response # NoResponse /\ response.id = Request(c) /\ pc[c] = "waiting"
      BY <2>6 DEF Answer, Answered
    <3>2. deadline'[c] = [request |-> Request(c), outcome |-> AnswerOutcome]
      BY <1>1, <1>2, <2>6, <3>1 DEF Answer, CallInv
    <3>3. phase[c] = "command" /\ response.completed = "yes" => Command(c) \in ran
      BY <1>1, <3>1 DEF RanInv, Command, Request
    <3>4. phase[c] = "command" /\ response.ok => Sound(c, Timeout(deadline'[c])) /\ Command(c) \in ran
      BY <1>1, <1>6, <3>1, <3>2, <3>3 DEF RanInv, Timeout, Sound, AnswerOutcome, Command, Request
    <3>5. ASSUME phase[c] = "command", NEW b \in BOOLEAN, ~response.ok
          PROVE  Sound(c, BridgeError(c, b))
      <4>1. Request(c) = Command(c) /\ Answered(Command(c))
        BY <3>1, <3>5 DEF Request, Command, Answered
      <4>2. Command(c) \notin {command', running}
        <5>1. command' = command /\ Command(c) \notin {command, running}
          BY <1>3, <2>6, <4>1 DEF IInv, ChannelInv, Answer, channel
        <5> QED
          BY <5>1
      <4>3. response.completed = "no" => Command(c) \notin ran
        BY <1>1, <4>1 DEF OnceInv, Answered
      <4> QED
        BY <1>6, <3>3, <3>5, <4>1, <4>2, <4>3 DEF BridgeError, Sound, AnswerOutcome
    <3>6. CASE response.ok /\ Goto(c, "answered") /\ report' = report
      <4>1. pc'[c] = "answered" /\ UNCHANGED <<phase, evidence, command>>
        BY <1>2, <2>6, <3>6 DEF Goto, Answer, channel
      <4>2. OnceInv(c)'
        BY <1>1, <1>4, <2>1, <3>1, <3>4, <3>6, <4>1 DEF OnceInv, Asking, Command, Answered
      <4> QED
        BY <1>4, <1>11, <3>1, <3>6, <4>2
    <3>7. ASSUME response.ok, NEW op, Fail(c, Timeout(deadline'[c]), op)
          PROVE  OnceInv(c)' /\ Honest(c)'
      BY <1>10, <2>1, <2>6, <3>1, <3>4, <3>7 DEF Answer, Asking
    <3>8. ASSUME ~response.ok, NEW op, NEW b \in BOOLEAN, Fail(c, BridgeError(c, b), op)
          PROVE  OnceInv(c)' /\ Honest(c)'
      BY <1>10, <2>1, <2>6, <3>1, <3>5, <3>8 DEF Answer, Asking
    <3>9. \A op : (op = Completed) \in BOOLEAN
      BY Zenon
    <3> QED
      BY <2>6, <3>6, <3>7, <3>8, <3>9 DEF Answer
  <2>7. CASE PollFails(c)
    BY <1>10, <1>12, <2>1, <2>7 DEF PollFails, Asking
  <2>8. CASE Expires(c)
    <3>1. deadline[c] = [request |-> Request(c), outcome |-> "unknown"]
      BY <1>1, <2>8 DEF Expires, CallInv
    <3>2. CASE /\ Withdrawable(c) /\ command' = NoRequest
               /\ deadline' = [deadline EXCEPT ![c].outcome = "not_executed"]
               /\ \E op : Fail(c, Timeout(deadline'[c]), op)
      <4>1. Timeout(deadline'[c]) = Error("not_executed", "unsaid", NoRequest)
        BY <1>2, <3>1, <3>2 DEF Timeout
      <4>2. phase[c] = "command" => ~May(Command(c))'
        BY <1>1, <1>3, <1>4, <3>2 DEF Withdrawable, OnceInv, May, Command, Request, Answered
      <4> QED
        BY <1>10, <1>13, <2>1, <2>8, <3>2, <4>1, <4>2 DEF Expires, Asking
    <3>3. CASE Fail(c, Timeout(deadline[c]), operation)
      <4>1. Timeout(deadline[c]) = Error("unknown", "unsaid", NoRequest)
        BY <3>1 DEF Timeout
      <4> QED
        BY <1>10, <1>12, <2>1, <2>8, <3>3, <4>1 DEF Expires, Asking
    <3> QED
      BY <2>8, <3>2, <3>3 DEF Expires
  <2> QED
    BY <1>15, <2>2, <2>3, <2>4, <2>5, <2>6, <2>7, <2>8 DEF SendCommand
<1>16. CASE Compose(c)
  <2>1. pc[c] = "answered" /\ UNCHANGED command
    BY <1>16 DEF Compose, AnsweredExpires, AnsweredFails, Ready, Returned, Settle, Polled, Captured,
       channel
  <2>2. /\ May(Command(c))' => May(Command(c))
        /\ phase[c] = "ping" => ~May(Command(c))'
        /\ phase[c] = "command" => Command(c) \in ran
    BY <1>1, <1>4, <2>1 DEF OnceInv, Asking, Answered
  <2>3. CASE AnsweredExpires(c)
    <3>1. phase[c] = "command" => Timeout(deadline[c]) = Error("completed", "yes", Command(c))
      BY <1>1, <1>3, <2>1 DEF CallInv, Timeout, Request, Command
    <3>2. phase[c] = "command" => Sound(c, Timeout(deadline[c]))
      BY <1>6, <2>2, <3>1 DEF Sound
    <3> QED
      BY <1>10, <2>1, <2>2, <2>3, <3>2 DEF AnsweredExpires, Asking
  <2>4. CASE AnsweredFails(c)
    BY <1>10, <1>12, <2>1, <2>2, <2>4 DEF AnsweredFails, Asking
  <2>5. CASE Ready(c)
    <3>1. /\ pc'[c] = "owner" /\ phase'[c] = "command" /\ UNCHANGED <<report, evidence>>
          /\ phase[c] = "ping"
      BY <1>2, <2>5 DEF Ready, Advance, Goto
    <3> QED
      BY <1>1, <1>4, <1>11, <2>2, <3>1 DEF OnceInv, Asking, Command, Answered
  <2>6. CASE Returned(c)
    <3>1. pc'[c] = "finishing" /\ report' = report /\ phase[c] = "command"
      BY <1>2, <2>6 DEF Returned, Goto
    <3> QED
      BY <1>1, <1>4, <1>11, <2>2, <3>1 DEF OnceInv, Asking, Command, Answered
  <2>7. CASE Settle(c)
    <3>1. /\ pc'[c] = "owner" /\ phase'[c] = "poll" /\ report' = report /\ phase[c] = "command"
      BY <1>2, <2>7 DEF Settle, Advance, Goto
    <3> QED
      BY <1>1, <1>4, <1>11, <2>2, <3>1 DEF OnceInv, Asking, Command, Answered
  <2>8. CASE Polled(c) \/ Captured(c)
    <3>1. /\ phase'[c] \in {"poll", "capture"} /\ UNCHANGED <<report, evidence>>
      BY <1>2, <2>8 DEF Polled, Captured, Advance, Goto
    <3> QED
      BY <1>1, <1>4, <1>11, <2>2, <3>1 DEF OnceInv, Asking, Command, Answered
  <2> QED
    BY <1>16, <2>3, <2>4, <2>5, <2>6, <2>7, <2>8 DEF Compose
<1>17. CASE Leave(c)
  <2>1. UNCHANGED command
    BY <1>17 DEF Leave, Activate, ActivationFails, Finish, FinishFails, Return, Unwind, Die, channel
  <2>2. May(Command(c))' => May(Command(c))
    BY <1>4, <2>1 DEF May, Command
  <2>3. pc[c] \in Primed => evidence[c] = Command(c) /\ Command(c) \in ran
    BY <1>1, <1>3 DEF CallInv, OnceInv, Answered
  <2>4. pc[c] \in Primed => \A o \in {"ok", "unknown", "completed"}, k \in {"yes", "unsaid"},
                              r \in {Command(c), NoRequest} : Sound(c, Error(o, k, r))
    BY <1>6, <2>3 DEF Sound
  <2>5. CASE Activate(c) \/ Finish(c)
    <3>1. pc'[c] \in {"finishing", "returning"} /\ UNCHANGED <<report, evidence>>
      BY <1>2, <2>5 DEF Activate, Finish, Goto
    <3> QED
      BY <1>1, <1>4, <1>11, <2>2, <3>1 DEF OnceInv, Asking, Command, Answered
  <2>6. CASE ActivationFails(c)
    BY <1>2, <1>7, <1>9, <2>3, <2>4, <2>6 DEF ActivationFails, Goto, Primed
  <2>7. CASE FinishFails(c)
    <3>1. deadline[c].request = Command(c)
      BY <1>1, <2>7 DEF FinishFails, CallInv, Primed
    <3> QED
      BY <1>7, <1>8, <1>9, <2>3, <2>4, <2>7, <3>1 DEF FinishFails, Primed
  <2>8. CASE Return(c)
    <3>1. Timeout([deadline[c] EXCEPT !.outcome = "completed"]) = Error("completed", "yes", Command(c))
      BY <1>1, <1>3, <2>8 DEF Return, CallInv, Timeout, Primed
    <3> QED
      BY <1>7, <1>8, <1>9, <2>4, <2>8, <3>1 DEF Return, Primed
  <2>9. CASE Unwind(c)
    BY <1>8, <1>9, <1>11, <2>2, <2>9 DEF Unwind
  <2>10. CASE Die(c)
    <3>1. report'[c] = NoReport /\ evidence'[c] = NoRequest /\ pc'[c] = "done"
      BY <1>2, <1>8, <2>10 DEF Die
    <3>2. Honest(c)'
      BY <3>1 DEF Honest, Truthful, DenialInv, NoReport
    <3> QED
      BY <1>1, <1>4, <3>1, <3>2 DEF OnceInv, Asking, Command, Answered
  <2> QED
    BY <1>17, <2>5, <2>6, <2>7, <2>8, <2>9, <2>10 DEF Leave
<1>18. CASE Expire(c)
  BY <1>1, <1>4, <1>11, <1>18 DEF Expire, channel, caller, OnceInv, Command, May, Answered
<1> QED
  BY <1>14, <1>15, <1>16, <1>17, <1>18

(* Every step keeps the truth about what ran. *)
LEMMA RanStep ==
    IInv /\ [Next]_vars => RanInv' /\ \A d \in Calls : OnceInv(d)' /\ Honest(d)'
<1> SUFFICES ASSUME IInv, [Next]_vars
             PROVE  RanInv' /\ \A d \in Calls : OnceInv(d)' /\ Honest(d)'
  OBVIOUS
<1>1. RanInv /\ \A d \in Calls : OnceInv(d) /\ Honest(d)
  BY DEF IInv, ReportIsTrue, Honest
<1>2. CASE Frame \/ HandlerFails \/ (\E c \in Calls : Handle(c))
  BY <1>2, BridgeRanStep
<1>3. ASSUME NEW c \in Calls,
             Admission(c) \/ SendCommand(c) \/ Compose(c) \/ Leave(c) \/ Expire(c)
      PROVE  RanInv' /\ \A d \in Calls : OnceInv(d)' /\ Honest(d)'
  <2>1. RanInv'
    BY <1>1, <1>3, CallerKeeps DEF RanInv, console
  <2>2. ASSUME NEW d \in Calls, d # c PROVE OnceInv(d)' /\ Honest(d)'
    <3>1. Kept(d)
      BY <1>3, <2>2, OthersSame DEF IInv
    <3>2. /\ May(Command(d))' => May(Command(d))
          /\ command' = Command(d) => Command(d) \notin claimed
          /\ command' = Command(d) => command = Command(d)
      BY <1>3, <2>2, MayStep
    <3>4. response' \in {response, NoResponse}
      BY <1>3, CallerKeeps
    <3>3. UNCHANGED <<running, claimed, ran>>
      BY <1>3, CallerKeeps
    <3> QED
      BY <1>1, <2>2, <3>1, <3>2, <3>3, <3>4 DEF OnceInv, Honest, Truthful, DenialInv, Kept, Command,
         Answered
  <2> QED
    BY <1>3, <2>1, <2>2, OwnRanStep
<1>4. CASE UNCHANGED vars
  <2>1. ASSUME NEW d \in Calls PROVE OnceInv(d)' /\ Honest(d)'
    BY <1>1, <1>4 DEF vars, channel, caller, history, OnceInv, Honest, Truthful, DenialInv, Command, May, Answered
  <2> QED
    BY <1>1, <1>4, <2>1 DEF vars, channel, console, history, RanInv
<1> QED
  BY <1>2, <1>3, <1>4 DEF Next

(* The keys follow the last input on each of them. *)
LEMMA KeyStep == IInv /\ [Next]_vars => KeyInv' /\ KeysFollowOrders'
<1> SUFFICES ASSUME IInv, [Next]_vars PROVE KeyInv' /\ KeysFollowOrders'
  OBVIOUS
<1>1. TypeOK /\ KeyInv /\ KeysFollowOrders
  BY DEF IInv
<1>2. /\ frame \in 0..MaxFrame /\ release \in [Keys -> Nat] /\ orders \in [Keys -> Nat]
      /\ keys \subseteq Keys /\ MaxFrame \in Nat
  BY <1>1, BoundAssumption DEF TypeOK
<1> USE DEF KeyInv, KeysFollowOrders
<1>3. CASE UNCHANGED <<frame, keys, release, orders>>
  BY <1>1, <1>3
<1>4. CASE Frame
  <2>1. frame' = frame + 1 /\ frame < MaxFrame /\ orders' = orders
    BY <1>4 DEF Frame
  <2>2. ASSUME NEW k \in Keys
        PROVE  /\ k \in keys' <=> frame' < orders[k]
               /\ release'[k] # 0 => release'[k] = orders[k] /\ frame' < orders[k]
               /\ k \in keys' /\ release'[k] = 0 => orders[k] = Forever
    <3>1. /\ k \in keys' <=> k \in keys /\ ~(release[k] # 0 /\ frame' >= release[k])
          /\ release'[k] = IF release[k] # 0 /\ frame' >= release[k] THEN 0 ELSE release[k]
      BY <1>2, <1>4 DEF Frame, Due
    <3> QED
      BY <1>1, <1>2, <2>1, <3>1 DEF Forever
  <2> QED
    BY <2>1, <2>2
<1>5. ASSUME NEW c \in Calls, Handle(c) PROVE KeyInv' /\ KeysFollowOrders'
  <2>1. frame' = frame
    BY <1>1, <1>5, HandleAnswers DEF Answers
  <2>2. CASE TapKey(c)
    <3>1. PICK k \in Keys, f \in 0..MaxDuration :
             /\ keys' = keys \cup {k}
             /\ release' = [release EXCEPT ![k] = PressedUntil(f)]
             /\ orders' = [orders EXCEPT ![k] = PressedUntil(f)]
      BY <2>2 DEF TapKey
    <3>2. PressedUntil(f) \in Nat /\ PressedUntil(f) > frame
      BY <1>2, BoundAssumption DEF PressedUntil
    <3> QED
      BY <1>1, <1>2, <2>1, <3>1, <3>2
  <2>3. CASE SetKeys(c)
    <3>1. PICK down \in SUBSET Keys :
             keys' = down /\ orders' = [k \in Keys |-> IF k \in down THEN Forever ELSE 0]
      BY <2>3 DEF SetKeys
    <3>2. release' = [k \in Keys |-> 0]
      BY <2>3 DEF SetKeys, Unscheduled
    <3> QED
      BY <1>2, <2>1, <3>1, <3>2 DEF Forever
  <2>4. CASE ClearKeys(c)
    <3>1. PICK up \in SUBSET Keys :
             /\ keys' = keys \ up
             /\ release' = [k \in Keys |-> IF k \in up THEN 0 ELSE release[k]]
             /\ orders' = [k \in Keys |-> IF k \in up THEN 0 ELSE orders[k]]
      BY <2>4 DEF ClearKeys
    <3> QED
      BY <1>1, <1>2, <2>1, <3>1
  <2>5. CASE RunLua(c) \/ Observe(c) \/ Screenshot(c)
    BY <1>3, <2>1, <2>5 DEF RunLua, Observe, Screenshot
  <2> QED
    BY <1>5, <2>2, <2>3, <2>4, <2>5 DEF Handle
<1>6. CASE HandlerFails \/ UNCHANGED vars
  BY <1>3, <1>6 DEF HandlerFails, vars, console, history
<1>7. ASSUME NEW c \in Calls,
             Admission(c) \/ SendCommand(c) \/ Compose(c) \/ Leave(c) \/ Expire(c)
      PROVE  KeyInv' /\ KeysFollowOrders'
  BY <1>3, <1>7, CallerKeeps DEF console
<1> QED
  BY <1>4, <1>5, <1>6, <1>7 DEF Next

(* A request enters the journal only when its call sends it. *)
LEMMA PendingStep ==
    ASSUME IInv, NEW c \in Calls,
           Admission(c) \/ SendCommand(c) \/ Compose(c) \/ Leave(c) \/ Expire(c),
           operation' # NoOp, operation'.pending # NoRequest
    PROVE  \/ operation # NoOp /\ operation'.pending = operation.pending
           \/ operation'.pending = Request(c) /\ pc[c] = "owner"
<1>1. TypeOK /\ (pc[c] \in Owning => operation # NoOp)
  BY DEF IInv, OwnerInv
<1>2. /\ NewOperation(c) \in Operation /\ NewOperation(c).pending = NoRequest
      /\ operation # NoOp =>
            /\ operation \in Operation /\ Sent(c) \in Operation /\ Sent(c).pending = Request(c)
            /\ Completed \in Operation /\ Completed.pending = NoRequest
            /\ [operation EXCEPT !.uncertain = TRUE].pending = operation.pending
            /\ [operation EXCEPT !.started = TRUE].pending = operation.pending
  BY <1>1, Records
<1>3. ASSUME NEW op \in Operation, \E e : Fail(c, e, op) PROVE operation'.pending = op.pending
  BY <1>1, <1>3, FailOwner
<1> USE DEF Owning
<1>4. CASE Admission(c)
  <2>1. CASE Spawn(c)
    <3>1. operation # NoOp /\ operation'.pending = operation.pending
      BY <1>1, <1>2, <2>1 DEF Spawn
    <3> QED
      BY <3>1
  <2> QED
    BY <1>2, <1>4, <2>1 DEF Admission, Refused, Acquire, SpawnFails
<1>5. CASE SendCommand(c)
  <2>1. CASE Send(c)
    BY <1>1, <1>2, <2>1 DEF Send, Sendable, Sending
  <2>2. CASE BeginExpires(c) \/ PollFails(c)
    <3>1. operation # NoOp /\ \E e : Fail(c, e, operation)
      BY <1>1, <2>2 DEF BeginExpires, PollFails, Sending
    <3> QED
      BY <1>1, <1>2, <3>1, FailOwner
  <2>3. CASE SendRefused(c) \/ SendRaises(c)
    <3>1. /\ operation # NoOp /\ pc[c] = "owner"
          /\ \E op \in {operation, Sent(c)} : \E e : Fail(c, e, op)
      BY <1>1, <2>3 DEF SendRefused, SendRaises, Sending
    <3> QED
      BY <1>2, <1>3, <3>1
  <2>4. CASE Answer(c)
    <3>1. operation # NoOp
      BY <1>1, <2>4 DEF Answer
    <3>2. operation' = Completed \/ \E op \in {operation, Completed} : \E e : Fail(c, e, op)
      BY <2>4 DEF Answer
    <3> QED
      BY <1>2, <1>3, <3>1, <3>2
  <2>5. CASE Expires(c)
    <3> DEFINE gone == [operation EXCEPT !.pending = NoRequest, !.started = StartedBefore(c)]
    <3>1. operation # NoOp
      BY <1>1, <2>5 DEF Expires
    <3>2. StartedBefore(c) \in BOOLEAN
      BY Zenon DEF StartedBefore
    <3>3. gone \in Operation /\ gone.pending = NoRequest
      BY <1>1, <3>1, <3>2, Records
    <3>4. \E op \in {operation, gone} : \E e : Fail(c, e, op)
      BY <2>5 DEF Expires
    <3> HIDE DEF gone
    <3> QED
      BY <1>2, <1>3, <3>1, <3>3, <3>4
  <2> QED
    BY <1>5, <2>1, <2>2, <2>3, <2>4, <2>5 DEF SendCommand
<1>6. CASE Compose(c)
  <2>1. operation # NoOp /\ (operation' = operation \/ \E e : Fail(c, e, operation))
    BY <1>1, <1>6 DEF Compose, AnsweredExpires, AnsweredFails, Ready, Returned, Settle, Polled,
       Captured
  <2> QED
    BY <1>2, <1>3, <2>1
<1>7. CASE Leave(c)
  <2>1. CASE FinishFails(c)
    <3>1. operation # NoOp
      BY <1>1, <2>1 DEF FinishFails
    <3>2. operation' \in {operation, NoOp, [operation EXCEPT !.uncertain = TRUE]}
      BY <2>1 DEF FinishFails
    <3> QED
      BY <1>2, <3>1, <3>2
  <2>2. CASE Unwind(c)
    <3>1. operation' = operation \/ operation' = NoOp
      BY <2>2 DEF Unwind
    <3> QED
      BY <3>1
  <2>3. CASE Activate(c) \/ ActivationFails(c) \/ Finish(c) \/ Return(c) \/ Die(c)
    BY <2>3 DEF Activate, ActivationFails, Finish, Return, Die
  <2> QED
    BY <1>7, <2>1, <2>2, <2>3 DEF Leave
<1>8. CASE Expire(c)
  BY <1>8 DEF Expire
<1> QED
  BY <1>4, <1>5, <1>6, <1>7, <1>8

(* How a call comes to its next phase. *)
LEMMA PhaseStep ==
    ASSUME IInv, NEW c \in Calls,
           Admission(c) \/ SendCommand(c) \/ Compose(c) \/ Leave(c) \/ Expire(c),
           pc'[c] \in Asking
    PROVE  /\ pc[c] \in Asking
           /\ \/ phase'[c] = phase[c] /\ wait'[c] = wait[c] /\ target'[c] = target[c]
              \/ Ready(c) \/ Settle(c) \/ Polled(c)
<1>1. /\ pc \in [Calls -> States] /\ phase \in [Calls -> Phases]
      /\ target \in [Calls -> Nat] /\ wait \in [Calls -> Nat]
  BY DEF IInv, TypeOK
<1> USE DEF Asking, Goto, Gone, Fail
<1>2. CASE Admission(c)
  BY <1>1, <1>2 DEF Admission, Refused, Acquire, Spawn, SpawnFails
<1>3. CASE SendCommand(c)
  BY <1>1, <1>3 DEF SendCommand, Send, Sendable, Sending, BeginExpires, SendRefused, SendRaises,
     Answer, PollFails, Expires
<1>4. CASE Compose(c)
  BY <1>1, <1>4 DEF Compose, AnsweredExpires, AnsweredFails, Returned, Captured, Ready, Settle, Polled
<1>5. CASE Leave(c)
  BY <1>1, <1>5 DEF Leave, Activate, ActivationFails, Finish, FinishFails, Return, Unwind, Die
<1>6. CASE Expire(c)
  BY <1>6 DEF Expire, caller
<1> QED
  BY <1>2, <1>3, <1>4, <1>5, <1>6

(* What the settled views rest on. *)
SettleInv ==
    /\ \A c \in TapViews : TapInv(c)
    /\ \A c \in Composites \ TapViews : LuaInv(c)
    /\ \A c \in Composites : ShotInv(c) /\ WellTaken(c)

(* While a call asks, only its own request can be running. *)
LEMMA OnlyOwn ==
    ASSUME IInv, NEW d \in Calls, running # NoRequest
    PROVE  /\ pc[d] \in {"owner", "waiting", "answered"} => running = Request(d)
           /\ pc[d] = "queued" => running # Command(d) /\ Command(d) \notin ran
           /\ operation # NoOp /\ operation.pending = Capture(d) => running = Capture(d)
           /\ ~Answered(running)
<1>1. operation # NoOp /\ operation.pending = running /\ ~Answered(running) /\ running \in claimed
  BY DEF IInv, ChannelInv, RanInv
<1>2. pc[d] \in {"owner", "waiting", "answered"} => running = Request(d)
  BY <1>1 DEF IInv, OwnerInv
<1>3. pc[d] = "queued" => ~May(Command(d))
  BY DEF IInv, CallInv, OnceInv, First, Asking
<1> QED
  BY <1>1, <1>2, <1>3 DEF May, IInv, RanInv

(* A frame, and a handler that raises, keep the settled views. *)
LEMMA FrameSettleStep == ASSUME IInv, Frame \/ HandlerFails PROVE SettleInv'
<1>1. TypeOK /\ SettleInv
  BY DEF IInv, SettleInv, SettledBeforeCapture
<1>2. UNCHANGED <<operation, pc, phase, target, wait, orders, tapped, shot, ran>>
  BY BridgeSame DEF caller, Frame, HandlerFails, history
<1>3. frame \in Nat /\ frame' \in {frame, frame + 1} /\ (macro' => macro)
  <2>1. frame \in Nat /\ frame' \in {frame, frame + 1}
    <3>1. frame \in Nat
      BY <1>1, BoundAssumption DEF TypeOK
    <3>2. frame' = frame \/ frame' = frame + 1
      BY DEF Frame, HandlerFails, console
    <3> QED
      BY <3>1, <3>2
  <2>2. macro' => macro
    BY Zenon DEF Frame, HandlerFails, console
  <2> QED
    BY <2>1, <2>2
<1>4. response' = response \/ (~response'.ok /\ ~response'.settled)
  <2>1. CASE HandlerFails
    BY <2>1 DEF HandlerFails
  <2> QED
    BY <2>1 DEF Frame
<1>5. /\ orders \in [Keys -> Nat] /\ wait \in [Calls -> Nat]
      /\ \A c \in Calls : tapped[c].until \in Nat /\ tapped[c].keys \subseteq Keys
  BY <1>1 DEF TypeOK, Taps
<1>6. ASSUME NEW c \in TapViews PROVE TapInv(c)'
  <2>1. TapInv(c) /\ c \in Calls
    BY <1>1, <1>6 DEF SettleInv, Calls, Composites
  <2>2. TapSettled(c) => TapSettled(c)'
    BY <1>2, <1>3, <1>5, <2>1 DEF TapSettled
  <2> QED
    BY <1>2, <1>4, <2>1, <2>2 DEF TapInv, Answered
<1>7. ASSUME NEW c \in Composites \ TapViews PROVE LuaInv(c)'
  <2>1. LuaInv(c)
    BY <1>1, <1>7 DEF SettleInv
  <2> QED
    BY <1>2, <1>3, <1>4, <2>1 DEF LuaInv, Answered, Request
<1>8. ASSUME NEW c \in Composites PROVE ShotInv(c)' /\ WellTaken(c)'
  BY <1>1, <1>2, <1>8 DEF SettleInv, ShotInv, WellTaken
<1> QED
  BY <1>6, <1>7, <1>8 DEF SettleInv

(* A handler touches what a view waits for only before its own settling. *)
LEMMA HandleSettleStep == ASSUME IInv, NEW x \in Calls, Handle(x) PROVE SettleInv'
<1>1. TypeOK /\ SettleInv /\ KeysFollowOrders
  BY DEF IInv, SettleInv, SettledBeforeCapture
<1>2. UNCHANGED <<operation, pc, phase, target, wait>>
  BY BridgeSame DEF caller
<1>3. running # NoRequest
  BY <1>1, HandleAnswers
<1>4. PICK duration \in Nat : Answers(duration)
  BY <1>1, HandleAnswers
<1>5. /\ frame' = frame /\ ran' = ran \cup {running}
      /\ \/ response' = response
         \/ /\ response'.id = running /\ response'.frame = frame
            /\ response'.duration = duration /\ response'.settled = ~macro
  BY <1>4 DEF Answers
<1>6. /\ orders \in [Keys -> Nat] /\ wait \in [Calls -> Nat] /\ frame \in Nat
      /\ tapped \in [Calls -> Taps] /\ shot \in [Calls -> Shots]
      /\ \A c \in Calls : tapped[c].until \in Nat /\ tapped[c].keys \subseteq Keys
  BY <1>1, BoundAssumption DEF TypeOK, Taps
<1>7. \A d \in Calls :
         /\ pc[d] \in {"owner", "waiting", "answered"} => running = Request(d)
         /\ pc[d] = "queued" => running # Command(d) /\ Command(d) \notin ran
         /\ operation # NoOp /\ operation.pending = Capture(d) => running = Capture(d)
         /\ ~Answered(running)
  BY <1>3, OnlyOwn
<1>8. running = <<x, "command">> \/ (macro' = macro /\ orders' = orders /\ tapped' = tapped)
  BY DEF Handle, TapKey, SetKeys, ClearKeys, RunLua, Observe, Screenshot, Handling, Command
<1>9. \A d \in Calls : tapped'[d] # tapped[d] => d = x /\ running = Command(d)
  BY <1>6 DEF Handle, TapKey, SetKeys, ClearKeys, RunLua, Observe, Screenshot, Handling, Command
<1>10. \A d \in Calls : shot'[d] # shot[d] =>
          /\ d = x /\ running = Capture(d) /\ UNCHANGED <<macro, orders, tapped>>
          /\ shot'[d] = [seen |-> TRUE, frame |-> frame, keys |-> keys, macro |-> macro]
  BY <1>6 DEF Handle, TapKey, SetKeys, ClearKeys, RunLua, Observe, Screenshot, Handling, Capture
<1>11. \A d \in Calls : running = Capture(d) => d = x
  BY DEF Handle, TapKey, SetKeys, ClearKeys, RunLua, Observe, Screenshot, Handling, Capture
<1>still. \A d \in Calls :
             /\ running = Capture(d) => macro' = macro /\ orders' = orders
             /\ running = Request(d) /\ running # Command(d) => macro' = macro /\ orders' = orders
  BY <1>8 DEF Capture, Request, Command
<1>12. ASSUME NEW c \in TapViews PROVE TapInv(c)'
  <2>1. TapInv(c) /\ c \in Calls
    BY <1>1, <1>12 DEF SettleInv, Calls, Composites
  <2>2. CASE running = Command(c)
    <3>1. TapKey(c)
      BY <1>12, <2>2, KindAssumption DEF Handle, TapKey, SetKeys, ClearKeys, RunLua, Observe, Screenshot,
         Handling, Command, Composites
    <3>2. PICK k \in Keys, f \in 0..MaxDuration :
             /\ orders' = [orders EXCEPT ![k] = PressedUntil(f)]
             /\ tapped' = [tapped EXCEPT ![c] = [keys |-> {k}, until |-> PressedUntil(f)]]
             /\ Answers(IF f < 1 THEN 1 ELSE f)
      BY <3>1 DEF TapKey
    <3>3. tapped'[c].until = PressedUntil(f) /\ tapped'[c].keys = {k} /\ orders'[k] = PressedUntil(f)
      BY <1>6, <2>1, <3>2
    <3>4. response' = response \/ tapped'[c].until = response'.frame + response'.duration
      BY <3>2, <3>3 DEF Answers, PressedUntil
    <3>5. PressedUntil(f) \in Nat
      BY <1>6, BoundAssumption DEF PressedUntil
    <3>6. pc[c] \in Asking => phase[c] = "command"
      BY <1>7, <2>1, <2>2 DEF Asking, Request, Command
    <3>7. ~(operation # NoOp /\ operation.pending = Capture(c))
      BY <1>7, <2>1, <2>2 DEF Capture, Command
    <3>8. Answered(Command(c))' /\ response'.ok => tapped'[c].until = response'.frame + response'.duration
      BY <1>7, <2>1, <2>2, <3>4 DEF Answered, Command
    <3>9. \A j \in tapped'[c].keys : orders'[j] <= tapped'[c].until
      BY <3>3, <3>5
    <3> QED
      BY <1>2, <3>6, <3>7, <3>8, <3>9 DEF TapInv, Answered, Command, Capture
  <2>3. CASE running # Command(c)
    <3>1. tapped'[c] = tapped[c]
      BY <1>9, <2>1, <2>3
    <3>2. Answered(Command(c))' => response' = response
      BY <1>5, <2>3 DEF Answered, Command
    <3>3. pc[c] \in Asking /\ pc[c] # "queued" => orders' = orders
      BY <1>7, <1>still, <2>1, <2>3 DEF Asking
    <3>4. pc[c] = "queued" => Command(c) \notin ran'
      BY <1>5, <1>7, <2>1 DEF Command
    <3>5. operation # NoOp /\ operation.pending = Capture(c) => orders' = orders
      BY <1>7, <1>still, <2>1
    <3>6. pc[c] = "queued" => phase[c] = "command"
      BY <1>12, <2>1, KindAssumption DEF IInv, CallInv, First, Composites
    <3>7. Command(c) \in ran' => Command(c) \in ran
      BY <1>5, <2>3
    <3> QED
      BY <1>2, <1>5, <2>1, <3>1, <3>2, <3>3, <3>4, <3>5, <3>6, <3>7
         DEF TapInv, TapSettled, Answered, Command, Capture
  <2> QED
    BY <2>2, <2>3
<1>13. ASSUME NEW c \in Composites \ TapViews PROVE LuaInv(c)'
  <2>1. LuaInv(c) /\ c \in Calls
    BY <1>1, <1>13 DEF SettleInv, Calls
  <2>2. pc[c] = "queued" => phase[c] \in {"ping", "command"}
    BY <2>1 DEF IInv, CallInv, First
  <2>3. pc[c] \in Asking /\ phase[c] \in {"poll", "capture"} => running = Request(c) /\ macro' = macro
    BY <1>7, <1>8, <2>1, <2>2 DEF Asking, Request
  <2>4. operation # NoOp /\ operation.pending = Capture(c) => macro' = macro
    BY <1>7, <1>still, <2>1
  <2>5. pc[c] \in Asking /\ phase[c] = "poll" /\ Answered(Request(c))' /\ response'.settled => ~macro'
    <3>1. CASE response' = response
      BY <1>2, <1>7, <2>1, <2>3, <3>1 DEF Answered, Request
    <3>2. CASE response'.settled = ~macro
      <4>1. response'.settled => ~macro
        BY <3>2, Zenon
      <4> QED
        BY <2>3, <4>1
    <3> QED
      BY <1>5, <3>1, <3>2
  <2>6. Request(c)' = Request(c)
    BY <1>2 DEF Request
  <2> QED
    BY <1>2, <2>1, <2>3, <2>4, <2>5, <2>6 DEF LuaInv, Capture
<1>14. ASSUME NEW c \in Composites PROVE ShotInv(c)' /\ WellTaken(c)'
  <2>1. ShotInv(c) /\ WellTaken(c) /\ c \in Calls /\ OnceInv(c)
    BY <1>1, <1>14 DEF SettleInv, Calls, IInv
  <2>2. CASE shot'[c] = shot[c]
    <3>1. shot[c].seen => tapped'[c] = tapped[c]
      BY <1>9, <2>1 DEF ShotInv, OnceInv
    <3> QED
      BY <1>2, <1>5, <2>1, <2>2, <3>1 DEF ShotInv, WellTaken, Command, Capture
  <2>3. CASE shot'[c] # shot[c]
    <3>1. /\ running = Capture(c) /\ UNCHANGED <<macro, orders, tapped>>
          /\ shot'[c] = [seen |-> TRUE, frame |-> frame, keys |-> keys, macro |-> macro]
      BY <1>10, <2>1, <2>3
    <3>2. operation # NoOp /\ operation.pending = Capture(c)
      BY <1>3, <3>1 DEF IInv, ChannelInv
    <3>3. Command(c) \in ran
      BY <2>1, <3>2 DEF ShotInv
    <3>4. pc[c] \in Asking => phase[c] = "capture"
      BY <1>7, <2>1, <3>1, <3>3 DEF Asking, Request, Capture
    <3>5. ShotInv(c)'
      BY <1>2, <1>5, <3>3, <3>4 DEF ShotInv, Command, Capture
    <3>6. CASE c \in TapViews
      <4>1. TapSettled(c)
        BY <1>1, <3>2, <3>6 DEF SettleInv, TapInv
      <4>2. keys \cap tapped[c].keys = {}
        BY <1>1, <1>6, <2>1, <4>1 DEF TapSettled, KeysFollowOrders
      <4> QED
        BY <1>2, <3>1, <3>5, <3>6, <4>1, <4>2 DEF WellTaken, TapSettled
    <3>7. CASE c \notin TapViews
      <4>1. ~macro
        BY <1>1, <1>14, <3>2, <3>7 DEF SettleInv, LuaInv
      <4> QED
        BY <3>1, <3>5, <3>7, <4>1 DEF WellTaken
    <3> QED
      BY <3>6, <3>7
  <2> QED
    BY <2>2, <2>3
<1> QED
  BY <1>12, <1>13, <1>14 DEF SettleInv

(* A step of a call keeps the settled views: another's trivially, its own when
   it takes the target from the answer and compares the frame of a poll. *)
LEMMA CallerSettleStep ==
    ASSUME IInv, NEW c \in Calls,
           Admission(c) \/ SendCommand(c) \/ Compose(c) \/ Leave(c) \/ Expire(c)
    PROVE  SettleInv'
<1>1. TypeOK /\ SettleInv
  BY DEF IInv, SettleInv, SettledBeforeCapture
<1>2. /\ frame' = frame /\ macro' = macro /\ orders' = orders /\ tapped' = tapped
      /\ shot' = shot /\ ran' = ran /\ response' \in {response, NoResponse}
  BY CallerKeeps DEF console
<1>3. \A d \in Calls : d # c => Kept(d)
  BY <1>1, OthersSame
<1>4. operation' # NoOp /\ operation'.pending # NoRequest =>
         \/ operation # NoOp /\ operation'.pending = operation.pending
         \/ operation'.pending = Request(c) /\ pc[c] = "owner"
  BY PendingStep
<1>5. \A d \in Calls : Capture(d) # NoRequest /\ Command(d) # NoRequest
  BY <1>1, Records DEF Capture, Command, Phases
<1>6. \A d \in Calls : operation' # NoOp /\ operation'.pending = Capture(d) =>
         \/ operation # NoOp /\ operation.pending = Capture(d)
         \/ d = c /\ phase[c] = "capture" /\ pc[c] = "owner"
  BY <1>4, <1>5 DEF Capture, Request
<1>7. pc'[c] \in Asking =>
         /\ pc[c] \in Asking
         /\ \/ phase'[c] = phase[c] /\ wait'[c] = wait[c] /\ target'[c] = target[c]
            \/ Ready(c) \/ Settle(c) \/ Polled(c)
  BY PhaseStep
<1>8. /\ pc \in [Calls -> States] /\ phase \in [Calls -> Phases]
      /\ target \in [Calls -> Nat] /\ wait \in [Calls -> Nat] /\ frame \in Nat
      /\ orders \in [Keys -> Nat] /\ tapped[c].until \in Nat /\ tapped[c].keys \subseteq Keys
  BY <1>1, BoundAssumption DEF TypeOK, Taps
<1>9. ASSUME wait'[c] # wait[c]
      PROVE  Settle(c)
  <2>1. wait' = wait \/ Settle(c)
    BY DEF Admission, Refused, Acquire, Spawn, SpawnFails, SendCommand, Send, BeginExpires,
       SendRefused, SendRaises, Answer, PollFails, Expires, Compose, AnsweredExpires, AnsweredFails,
       Ready, Returned, Polled, Captured, Leave, Activate, ActivationFails, Finish, FinishFails,
       Return, Unwind, Die, Expire, caller
  <2> QED
    BY <1>9, <2>1
<1>10. pc[c] = "answered" =>
          /\ operation # NoOp /\ operation.pending = NoRequest
          /\ response # NoResponse /\ response.id = Request(c) /\ response.ok
  BY DEF IInv, OwnerInv, Owning, Answered
<1>11. response # NoResponse => response \in Response /\ response.frame <= frame
  BY <1>1 DEF TypeOK, IInv, RanInv
<1>12. Settle(c) =>
          /\ pc[c] = "answered" /\ phase[c] = "command" /\ pc'[c] = "owner" /\ phase'[c] = "poll"
          /\ wait'[c] \in Nat /\ target'[c] = response.frame + response.duration + wait'[c]
          /\ operation' = operation
  BY <1>8, BoundAssumption DEF Settle, Advance, Goto, SettlesAt
<1>13. Polled(c) =>
          /\ pc[c] = "answered" /\ phase[c] = "poll" /\ pc'[c] = "owner"
          /\ phase'[c] = IF Settled(c) THEN "capture" ELSE "poll"
          /\ target' = target /\ wait' = wait
  BY <1>8 DEF Polled, Advance, Goto
<1>14. Ready(c) => phase[c] = "ping" /\ phase'[c] = "command"
  BY <1>8 DEF Ready, Advance
<1>15. pc[c] \in Asking /\ phase[c] \in {"poll", "capture"} => Command(c) \in ran
  BY <1>5 DEF IInv, CallInv, OnceInv
<1>16. ASSUME NEW d \in TapViews PROVE TapInv(d)'
  <2>1. TapInv(d) /\ d \in Calls
    BY <1>1, <1>16 DEF SettleInv, Calls, Composites
  <2>2. Answered(Command(d))' /\ response'.ok => tapped'[d].until = response'.frame + response'.duration
    BY <1>2, <2>1 DEF TapInv, Answered, Command
  <2>3. CASE d # c
    BY <1>2, <1>3, <1>6, <2>1, <2>2, <2>3 DEF Kept, TapInv, TapSettled, Command, Capture
  <2>4. CASE d = c
    <3>1. pc'[c] \in Asking /\ Command(c) \in ran =>
             \A k \in tapped[c].keys : orders[k] <= tapped[c].until
      BY <1>7, <2>1, <2>4 DEF TapInv
    <3>2. pc'[c] \in Asking /\ phase'[c] = "poll" => target'[c] = tapped[c].until + wait'[c]
      <4>1. CASE Settle(c)
        <5>1. tapped[c].until = response.frame + response.duration
          BY <1>10, <1>12, <2>1, <2>4, <4>1 DEF TapInv, Answered, Command, Request
        <5> QED
          BY <1>12, <4>1, <5>1
      <4>2. CASE Polled(c) \/ Ready(c)
        BY <1>13, <1>14, <2>1, <2>4, <4>2 DEF TapInv, Asking
      <4> QED
        BY <1>7, <2>1, <2>4, <4>1, <4>2 DEF TapInv
    <3>3. pc'[c] \in Asking /\ phase'[c] = "capture" => TapSettled(c) /\ wait'[c] = wait[c]
      <4>1. ASSUME Polled(c), Settled(c) PROVE TapSettled(c) /\ wait'[c] = wait[c]
        <5>1. response.frame >= target[c] /\ target[c] = tapped[c].until + wait[c]
          BY <1>13, <1>16, <2>1, <2>4, <4>1 DEF Settled, TapInv, Asking
        <5>2. response.frame \in Nat /\ response.frame <= frame
          BY <1>10, <1>11, <1>13, <4>1 DEF Response
        <5>3. \A k \in tapped[c].keys : orders[k] <= tapped[c].until
          BY <1>13, <1>15, <2>1, <2>4, <4>1 DEF TapInv, Asking
        <5> QED
          BY <1>8, <1>13, <4>1, <5>1, <5>2, <5>3 DEF TapSettled
      <4> QED
        BY <1>7, <1>12, <1>13, <1>14, <2>1, <2>4, <4>1 DEF TapInv
    <3>4. operation' # NoOp /\ operation'.pending = Capture(c) => TapSettled(c) /\ wait'[c] = wait[c]
      <4>1. ~Settle(c) => wait'[c] = wait[c]
        BY <1>9
      <4>2. Settle(c) => operation'.pending = NoRequest
        BY <1>10, <1>12
      <4>3. operation' # NoOp /\ operation'.pending = Capture(c) => TapSettled(c)
        BY <1>6, <2>1, <2>4 DEF TapInv, Asking
      <4> QED
        BY <1>5, <4>1, <4>2, <4>3
    <3> QED
      BY <1>2, <2>2, <2>4, <3>1, <3>2, <3>3, <3>4 DEF TapInv, TapSettled, Command, Capture
  <2> QED
    BY <2>3, <2>4
<1>17. ASSUME NEW d \in Composites \ TapViews PROVE LuaInv(d)'
  <2>1. LuaInv(d) /\ d \in Calls
    BY <1>1, <1>17 DEF SettleInv, Calls
  <2>2. CASE d # c
    BY <1>2, <1>3, <1>6, <2>1, <2>2 DEF Kept, LuaInv, Answered, Request, Capture
  <2>3. CASE d = c
    <3>1. pc'[c] \in Asking /\ phase'[c] = "poll" /\ Answered(<<c, "poll">>)' /\ response'.settled => ~macro
      <4>1. Answered(<<c, "poll">>)' => response' = response /\ Answered(<<c, "poll">>)
        BY <1>2 DEF Answered
      <4>2. Settle(c) => ~Answered(<<c, "poll">>)
        BY <1>10, <1>12 DEF Answered, Request
      <4>3. Polled(c) /\ Settled(c) => phase'[c] = "capture"
        BY <1>13
      <4>4. Polled(c) /\ ~Settled(c) => ~response.settled
        BY <1>17, <2>3 DEF Settled
      <4> QED
        BY <1>7, <1>14, <2>1, <2>3, <4>1, <4>2, <4>3, <4>4 DEF LuaInv, Request
    <3>2. pc'[c] \in Asking /\ phase'[c] = "capture" => ~macro
      <4>1. ASSUME Polled(c), Settled(c) PROVE ~macro
        BY <1>10, <1>13, <1>17, <2>1, <2>3, <4>1 DEF LuaInv, Asking, Answered, Settled, Request
      <4> QED
        BY <1>7, <1>12, <1>13, <1>14, <2>1, <2>3, <4>1 DEF LuaInv
    <3>3. operation' # NoOp /\ operation'.pending = Capture(c) => ~macro
      BY <1>6, <2>1, <2>3 DEF LuaInv, Asking
    <3> QED
      BY <1>2, <2>3, <3>1, <3>2, <3>3 DEF LuaInv, Request, Answered, Capture
  <2> QED
    BY <2>2, <2>3
<1>18. ASSUME NEW d \in Composites PROVE ShotInv(d)' /\ WellTaken(d)'
  <2>1. ShotInv(d) /\ WellTaken(d) /\ d \in Calls
    BY <1>1, <1>18 DEF SettleInv, Calls
  <2>2. CASE d # c
    BY <1>2, <1>3, <1>6, <2>1, <2>2 DEF Kept, ShotInv, WellTaken, Command, Capture
  <2>3. CASE d = c
    <3>1. pc'[c] \in Asking /\ phase'[c] # "capture" => ~shot[c].seen
      BY <1>7, <1>12, <1>13, <1>14, <2>1, <2>3 DEF ShotInv
    <3>2. operation' # NoOp /\ operation'.pending = Capture(c) => Command(c) \in ran
      BY <1>6, <1>15, <2>1, <2>3 DEF ShotInv, Asking
    <3>3. shot[c].seen => wait'[c] = wait[c]
      BY <1>9, <1>12, <2>1, <2>3 DEF ShotInv, Asking
    <3> QED
      BY <1>2, <2>1, <2>3, <3>1, <3>2, <3>3 DEF ShotInv, WellTaken, Command, Capture
  <2> QED
    BY <2>2, <2>3
<1> QED
  BY <1>16, <1>17, <1>18 DEF SettleInv

(* Every step keeps the settled views. *)
LEMMA SettleStep == IInv /\ [Next]_vars => SettleInv'
<1> SUFFICES ASSUME IInv, [Next]_vars PROVE SettleInv'
  OBVIOUS
<1>1. CASE UNCHANGED vars
  <2>1. SettleInv
    BY DEF IInv, SettleInv, SettledBeforeCapture
  <2> QED
    BY <1>1, <2>1 DEF vars, console, channel, caller, history, SettleInv, TapInv, LuaInv, ShotInv,
       WellTaken, TapSettled, Answered, Request, Command, Capture
<1> QED
  BY <1>1, FrameSettleStep, HandleSettleStep, CallerSettleStep DEF Next

(* Every step keeps the types. *)
LEMMA TypeStep == IInv /\ [Next]_vars => TypeOK'
<1>1. TypeOK /\ UNCHANGED vars => TypeOK'
  BY DEF vars, console, channel, caller, history, TypeOK
<1> QED
  BY <1>1, BridgeTypes, CallerTypes DEF Next, IInv
----
(* The invariant holds in every reachable state: the bridge and the calls keep
   one request at a time, what each call knows agrees with what ran, and no
   handler runs between the settling and the capture of a view. *)
THEOREM Invariant == Spec => []IInv
<1>1. Init => IInv
  BY InitInv
<1>2. IInv /\ [Next]_vars => IInv'
  <2> SUFFICES ASSUME IInv, [Next]_vars PROVE IInv'
    OBVIOUS
  <2>1. TypeOK'
    BY TypeStep
  <2>2. \A d \in Calls : CallInv(d)' /\ Evident(d)'
    BY CallStep
  <2>3. ChannelInv' /\ \A d \in Calls : OwnerInv(d)'
    BY ChannelStep
  <2>4. RanInv' /\ \A d \in Calls : OnceInv(d)' /\ Truthful(d)' /\ DenialInv(d)'
    BY RanStep DEF Honest
  <2>5. KeyInv' /\ KeysFollowOrders'
    BY KeyStep
  <2>6. SettleInv'
    BY SettleStep
  <2> QED
    BY <2>1, <2>2, <2>3, <2>4, <2>5, <2>6
       DEF IInv, EvidenceIsKept, ReportIsTrue, SettleInv, SettledBeforeCapture
<1> QED
  BY <1>1, <1>2, PTL DEF Spec

(* Every variable keeps its type. *)
THEOREM TypeCorrect == Spec => []TypeOK
<1>1. IInv => TypeOK
  BY DEF IInv
<1> QED
  BY <1>1, Invariant, PTL

(* The keys that are down are those that the last input on each key wants
   (apply_key_releases, set_keys and clear_keys of the bridge). *)
THEOREM KeysFollow == Spec => []KeysFollowOrders
<1>1. IInv => KeysFollowOrders
  BY DEF IInv
<1> QED
  BY <1>1, Invariant, PTL

(* A view of a tap is captured after its release and wait_frames, a view of
   Lua after its macro ended (input_tap_and_view, run_lua_and_view and
   start_with_lua_and_view). *)
THEOREM Settling == Spec => []SettledBeforeCapture
<1>1. IInv => SettledBeforeCapture
  BY DEF IInv
<1> QED
  BY <1>1, Invariant, PTL

(* What a caller is told of its own command is true, whichever phase of the
   call failed (send_command, the composites and the deadline they share). *)
THEOREM Reporting == Spec => []ReportIsTrue
<1>1. IInv => ReportIsTrue
  BY DEF IInv
<1> QED
  BY <1>1, Invariant, PTL

(* A failure after the answer of the command says that it completed, and which
   request it was (_composite_error and the restored deadline). *)
THEOREM Evidence == Spec => []EvidenceIsKept
<1>1. IInv => EvidenceIsKept
  BY DEF IInv
<1> QED
  BY <1>1, Invariant, PTL
----
(* The refinement of SerialExecution. *)

(* A step of the bridge runs the command that the journal names, or none. *)
LEMMA BridgePromiseStep ==
    ASSUME IInv, Frame \/ HandlerFails \/ (\E c \in Calls : Handle(c))
    PROVE  [Promise!AbsNext]_(Promise!absVars)
<1>1. Outstanding' = Outstanding
  BY BridgeSame DEF Outstanding
<1>2. CASE ran' = ran
  BY <1>1, <1>2 DEF CommandsRan, Promise!absVars
<1>3. CASE ran' = ran \cup {running} /\ running # NoRequest
  <2>1. operation # NoOp /\ operation.pending = running
    BY <1>3 DEF IInv, ChannelInv
  <2>2. ASSUME NEW c \in Calls, running = Command(c)
        PROVE  c \in Outstanding \ CommandsRan /\ CommandsRan' = CommandsRan \cup {c}
    <3>1. Command(c) \notin ran
      BY <2>2 DEF IInv, OnceInv
    <3>2. \A d \in Calls : Command(d) = Command(c) => d = c
      BY DEF Command
    <3> QED
      BY <1>3, <2>1, <2>2, <3>1, <3>2 DEF Outstanding, CommandsRan
  <2>3. CASE \A c \in Calls : running # Command(c)
    BY <1>1, <1>3, <2>3 DEF CommandsRan, Promise!absVars
  <2> QED
    BY <1>1, <2>2, <2>3 DEF Promise!AbsNext, Promise!Run
<1>4. ran' = ran \/ (ran' = ran \cup {running} /\ running # NoRequest)
  <2>1. CASE Frame \/ HandlerFails
    BY <2>1 DEF Frame, HandlerFails, history
  <2>2. ASSUME NEW c \in Calls, Handle(c)
        PROVE  ran' = ran \cup {running} /\ running # NoRequest
    BY <2>2, HandleAnswers DEF IInv, Answers
  <2> QED
    BY <2>1, <2>2
<1> QED
  BY <1>2, <1>3, <1>4

(* A step of a call admits its command to a journal that names none, keeps what
   the journal names, or has the journal let it go. *)
LEMMA CallerPromiseStep ==
    ASSUME IInv, NEW c \in Calls,
           Admission(c) \/ SendCommand(c) \/ Compose(c) \/ Leave(c) \/ Expire(c)
    PROVE  [Promise!AbsNext]_(Promise!absVars)
<1>1. CommandsRan' = CommandsRan
  BY CallerKeeps DEF CommandsRan
<1>2. \A d \in Calls : Command(d) # NoRequest
  BY Records DEF IInv, Command, Phases
<1>3. CASE Outstanding' = {}
  BY <1>1, <1>3 DEF Promise!AbsNext, Promise!Settle
<1>4. CASE Outstanding' # {}
  <2>1. operation' # NoOp /\ operation'.pending # NoRequest
    BY <1>2, <1>4 DEF Outstanding
  <2>2. CASE operation # NoOp /\ operation'.pending = operation.pending
    <3>1. Outstanding' = Outstanding
      BY <2>1, <2>2 DEF Outstanding
    <3> QED
      BY <1>1, <3>1 DEF Promise!absVars
  <2>3. CASE operation'.pending = Request(c) /\ pc[c] = "owner"
    <3>1. operation # NoOp /\ operation.pending = NoRequest
      BY <2>3 DEF IInv, OwnerInv, Owning
    <3>2. phase[c] = "command" /\ Outstanding' = {c}
      BY <1>4, <2>1, <2>3 DEF Outstanding, Request, Command
    <3>3. Outstanding = {}
      BY <1>2, <3>1 DEF Outstanding
    <3>4. c \notin CommandsRan
      BY <2>3, <3>2 DEF IInv, OnceInv, RanInv, May, CommandsRan
    <3> QED
      BY <1>1, <3>2, <3>3, <3>4 DEF Promise!AbsNext, Promise!Admit
  <2> QED
    BY <2>1, <2>2, <2>3, PendingStep
<1> QED
  BY <1>3, <1>4

(* The commands of all calls run one at a time, each at most once, and only while
   the journal names them: what SessionTransaction proves of its finer steps holds
   of the calls that are built from them (send_command, the composites). *)
THEOREM CallsKeepPromise == Spec => ImplementsPromise
<1>1. Init => Promise!AbsInit
  BY DEF Init, Promise!AbsInit, Outstanding, CommandsRan
<1>2. IInv /\ [Next]_vars => [Promise!AbsNext]_(Promise!absVars)
  <2> SUFFICES ASSUME IInv, [Next]_vars PROVE [Promise!AbsNext]_(Promise!absVars)
    OBVIOUS
  <2>1. CASE UNCHANGED vars
    BY <2>1 DEF vars, history, Promise!absVars, Outstanding, CommandsRan
  <2> QED
    BY <2>1, BridgePromiseStep, CallerPromiseStep DEF Next
<1> QED
  BY <1>1, <1>2, Invariant, PTL DEF Spec, ImplementsPromise, Promise!AbsSpec
====
