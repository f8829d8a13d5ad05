---- MODULE VisualCalls ----
(***************************************************************************)
(* The calls of one session, from the budget of the public boundary to the *)
(* report of the caller, composed with the emulator's bridge: input calls, *)
(* the composites that settle and capture (input_tap_and_view,             *)
(* run_lua_and_view, start_with_lua_and_view), the deadline object that    *)
(* all phases of a call share, and the frame callback that releases taps,  *)
(* claims commands and answers them.                                       *)
(*                                                                         *)
(* Time is one event per call: its budget has run out.  A nested budget    *)
(* may only make that event earlier.  The journal is SessionTransaction's, *)
(* here without its file faults and its fence.  Lua that a call runs may   *)
(* start a macro, which a later frame ends; it presses no keys.            *)
(***************************************************************************)
EXTENDS Naturals

CONSTANTS
    Inputs,         \* calls of input_tap, input_set and input_clear
    TapViews,       \* calls of input_tap_and_view
    LuaViews,       \* calls of run_lua_and_view
    StartViews,     \* calls of start_with_lua_and_view, for one session id
    Together,       \* bound: the sets of calls that are made together
    Keys,           \* the keys of the console
    Interval,       \* heartbeat_interval
    MaxDuration,    \* bound: frames of a tap
    MaxWait,        \* bound: wait_frames
    MaxFrame,       \* bound: frames the emulator runs
    NoOp,           \* "operation": null in the journal
    NoRequest,      \* no request
    NoResponse      \* no response.json

Composites == TapViews \cup LuaViews \cup StartViews
Calls == Inputs \cup Composites
Phases == {"ping", "command", "poll", "capture"}
Requests == Calls \X Phases

ASSUME KindAssumption ==
    /\ Inputs \cap Composites = {}
    /\ TapViews \cap LuaViews = {} /\ TapViews \cap StartViews = {}
    /\ LuaViews \cap StartViews = {}
ASSUME TogetherAssumption == Together \subseteq SUBSET Calls
ASSUME BoundAssumption ==
    /\ MaxDuration \in Nat /\ MaxWait \in Nat /\ MaxFrame \in Nat
    /\ Interval \in Nat \ {0}
ASSUME RequestAssumption == NoRequest \notin Requests

Operation == [id : Calls, started : BOOLEAN, pending : Requests \cup {NoRequest},
              uncertain : BOOLEAN]
Response == [id : Requests, ok : BOOLEAN, completed : {"yes", "no", "unsaid"}, frame : Nat,
             duration : Nat, settled : BOOLEAN]
States == {"queued", "owner", "waiting", "answered", "activating", "finishing",
           "returning", "unwinding", "done"}
Deadlines == [request : Requests \cup {NoRequest},
              outcome : {"not_executed", "unknown", "completed"}]
Errors == [outcome : {"none", "ok", "not_executed", "unknown", "completed"},
           completed : {"yes", "no", "unsaid"}, command : Requests \cup {NoRequest}]
Reports == [outcome : {"none", "ok", "not_executed", "unknown", "completed"},
            completed : {"yes", "no", "unsaid"}, command : Requests \cup {NoRequest},
            at : Phases \cup {"none", "retire", "result"}]
Taps == [keys : SUBSET Keys, until : Nat]
Shots == [seen : BOOLEAN, frame : Nat, keys : SUBSET Keys, macro : BOOLEAN]
ASSUME RecordAssumption == NoOp \notin Operation /\ NoResponse \notin Response

VARIABLES
    emulator,       \* whether the process of the session was spawned
    frame,          \* the frames the bridge has counted
    keys,           \* the keys the emulator holds down
    release,        \* release_at: the frame that releases a key, 0 for none
    macro,          \* a macro that Lua started is active
    heartbeat,      \* heartbeat.json exists
    command,        \* command.lua
    running,        \* the request the bridge has claimed and is handling
    response,       \* response.json
    operation,      \* the journal
    pc, phase,      \* where each call is, and in which of its requests
    deadline,       \* the request and the outcome its deadline object carries
    expired,        \* the calls whose budget has run out
    evidence,       \* command_request_id of each call
    target, wait,   \* the frame a tap settles at, and the wait_frames in it
    report,         \* what each caller is told
    claimed, ran,   \* requests the bridge took, and those whose handler returned
    orders,         \* the frame until which the last input on a key wants it down
    tapped,         \* the key and the last frame of the tap of each call
    shot            \* what the emulator showed when it was captured

console == <<frame, keys, release, macro, heartbeat>>
channel == <<command, running, response>>
caller == <<pc, phase, deadline, evidence, target, wait, report>>
history == <<claimed, ran, orders, tapped, shot>>
vars == <<emulator, console, channel, operation, caller, expired, history>>

(* An input that ends with no frame. *)
Forever == MaxFrame + 1

Fresh == [request |-> NoRequest, outcome |-> "not_executed"]
NoReport == [outcome |-> "none", completed |-> "unsaid", command |-> NoRequest, at |-> "none"]
Nothing == [seen |-> FALSE, frame |-> 0, keys |-> {}, macro |-> FALSE]

TypeOK ==
    /\ emulator \in BOOLEAN /\ macro \in BOOLEAN /\ heartbeat \in BOOLEAN
    /\ frame \in 0..MaxFrame
    /\ keys \subseteq Keys
    /\ release \in [Keys -> Nat]
    /\ command \in Requests \cup {NoRequest}
    /\ running \in Requests \cup {NoRequest}
    /\ response \in Response \cup {NoResponse}
    /\ operation \in Operation \cup {NoOp}
    /\ pc \in [Calls -> States] /\ phase \in [Calls -> Phases]
    /\ deadline \in [Calls -> Deadlines]
    /\ expired \subseteq Calls
    /\ evidence \in [Calls -> Requests \cup {NoRequest}]
    /\ target \in [Calls -> Nat] /\ wait \in [Calls -> Nat]
    /\ report \in [Calls -> Reports]
    /\ claimed \subseteq Requests /\ ran \subseteq Requests
    /\ orders \in [Keys -> Nat]
    /\ tapped \in [Calls -> Taps] /\ shot \in [Calls -> Shots]

First(c) == IF c \in StartViews THEN "ping" ELSE "command"

(* Without a startup call the session is running already. *)
Init ==
    /\ \E made \in Together :
          /\ emulator = (made \cap StartViews = {})
          /\ pc = [c \in Calls |-> IF c \in made THEN "queued" ELSE "done"]
    /\ frame = 0 /\ keys = {} /\ release = [k \in Keys |-> 0]
    /\ macro = FALSE /\ heartbeat = FALSE
    /\ command = NoRequest /\ running = NoRequest /\ response = NoResponse
    /\ operation = NoOp
    /\ phase = [c \in Calls |-> First(c)]
    /\ deadline = [c \in Calls |-> Fresh]
    /\ expired = {}
    /\ evidence = [c \in Calls |-> NoRequest]
    /\ target = [c \in Calls |-> 0] /\ wait = [c \in Calls |-> 0]
    /\ report = [c \in Calls |-> NoReport]
    /\ claimed = {} /\ ran = {}
    /\ orders = [k \in Keys |-> 0]
    /\ tapped = [c \in Calls |-> [keys |-> {}, until |-> 0]]
    /\ shot = [c \in Calls |-> Nothing]
----
(* The bridge: one frame, and the command that the frame claimed. *)

(* apply_key_releases *)
Due(f) == {k \in Keys : release[k] # 0 /\ f >= release[k]}

(* Releases come first, then the heartbeat, then the claim, which takes the
   command file if there is one.  Callbacks of Lua may end a macro.  A heartbeat
   that cannot be written only denies a withdrawal, and Expires may anyway. *)
Frame ==
    /\ emulator /\ running = NoRequest /\ frame < MaxFrame
    /\ frame' = frame + 1
    /\ keys' = keys \ Due(frame')
    /\ release' = [k \in Keys |-> IF k \in Due(frame') THEN 0 ELSE release[k]]
    /\ heartbeat' = (heartbeat \/ frame' = 1 \/ frame' % Interval = 0)
    /\ macro' \in {macro, FALSE}
    /\ running' = command /\ command' = NoRequest
    /\ claimed' = IF command = NoRequest THEN claimed ELSE claimed \cup {command}
    /\ UNCHANGED <<emulator, response, operation, caller, expired, ran, orders, tapped, shot>>

Handling(c, p) == running = <<c, p>>

(* process_command: the result, the fixed text that replaces a result that is
   no JSON, or no file when the answer cannot be written. *)
Answers(duration) ==
    /\ running' = NoRequest
    /\ ran' = ran \cup {running}
    /\ response' \in {response} \cup
          {[id |-> running, ok |-> ok, completed |-> "yes", frame |-> frame,
            duration |-> duration, settled |-> ~macro] : ok \in BOOLEAN}
    /\ UNCHANGED <<emulator, frame, heartbeat, command, operation, caller, expired, claimed>>

(* The handler raised, half way or at its start: a text is passed on as it is, and
   any other error is replaced by the fixed text, which says command_completed
   false. *)
HandlerFails ==
    /\ running # NoRequest
    /\ running' = NoRequest
    /\ response' \in {response} \cup
          {[id |-> running, ok |-> FALSE, completed |-> said, frame |-> frame,
            duration |-> 0, settled |-> FALSE] : said \in {"no", "unsaid"}}
    /\ UNCHANGED <<emulator, console, command, operation, caller, expired, history>>

(* tap_key, at least one frame long. *)
PressedUntil(f) == frame + (IF f < 1 THEN 1 ELSE f)

TapKey(c) ==
    /\ c \in Inputs \cup TapViews /\ Handling(c, "command")
    /\ \E k \in Keys, f \in 0..MaxDuration :
          /\ keys' = keys \cup {k}
          /\ release' = [release EXCEPT ![k] = PressedUntil(f)]
          /\ orders' = [orders EXCEPT ![k] = PressedUntil(f)]
          /\ tapped' = [tapped EXCEPT ![c] = [keys |-> {k}, until |-> PressedUntil(f)]]
          /\ Answers(IF f < 1 THEN 1 ELSE f)
    /\ UNCHANGED <<macro, shot>>

(* Mutant: a scheduled release outlives the input that replaces its key. *)
Scheduled == release

(* set_keys, and clear_keys without keys, replace every key and cancel every
   scheduled release. *)
Unscheduled == [k \in Keys |-> 0]

SetKeys(c) ==
    /\ c \in Inputs /\ Handling(c, "command")
    /\ \E down \in SUBSET Keys :
          /\ keys' = down
          /\ orders' = [k \in Keys |-> IF k \in down THEN Forever ELSE 0]
    /\ release' = Unscheduled
    /\ Answers(0)
    /\ UNCHANGED <<macro, tapped, shot>>

(* clear_keys cancels the release of what it clears. *)
ClearKeys(c) ==
    /\ c \in Inputs /\ Handling(c, "command")
    /\ \E up \in SUBSET Keys :
          /\ keys' = keys \ up
          /\ release' = [k \in Keys |-> IF k \in up THEN 0 ELSE release[k]]
          /\ orders' = [k \in Keys |-> IF k \in up THEN 0 ELSE orders[k]]
    /\ Answers(0)
    /\ UNCHANGED <<macro, tapped, shot>>

RunLua(c) ==
    /\ c \in LuaViews \cup StartViews /\ Handling(c, "command")
    /\ macro' \in BOOLEAN
    /\ Answers(0)
    /\ UNCHANGED <<keys, release, orders, tapped, shot>>

(* ping, or the Lua of a settle poll. *)
Observe(c) ==
    /\ Handling(c, "ping") \/ Handling(c, "poll")
    /\ Answers(0)
    /\ UNCHANGED <<keys, release, macro, orders, tapped, shot>>

Screenshot(c) ==
    /\ Handling(c, "capture")
    /\ shot' = [shot EXCEPT ![c] =
                   [seen |-> TRUE, frame |-> frame, keys |-> keys, macro |-> macro]]
    /\ Answers(0)
    /\ UNCHANGED <<keys, release, macro, orders, tapped>>
----
(* The caller's side. *)

Request(c) == <<c, phase[c]>>
Goto(c, where) == pc' = [pc EXCEPT ![c] = where]
NewOperation(c) == [id |-> c, started |-> FALSE, pending |-> NoRequest, uncertain |-> FALSE]

Answered(request) == response # NoResponse /\ response.id = request

(* _reclaimable *)
Reclaimable(op) ==
    /\ ~(op.id \in Composites /\ op.started)
    /\ IF op.pending # NoRequest THEN Answered(op.pending) ELSE ~op.uncertain

Owning == {"owner", "waiting", "answered", "activating", "finishing", "unwinding"}
OperationLocked == \E c \in Calls : pc[c] \in Owning

(* Errors: the outcome, command_completed, command_request_id. *)
Error(outcome, completed, request) ==
    [outcome |-> outcome, completed |-> completed, command |-> request]

(* The CommandTimeout that a deadline raises. *)
Timeout(d) ==
    IF d.outcome = "completed"
       THEN Error(d.outcome, IF d.request # NoRequest THEN "yes" ELSE "unsaid", d.request)
       ELSE Error(d.outcome, "unsaid", NoRequest)

(* Mutant: the request and the outcome of the last phase stay. *)
BegunAsIs(d) == d

(* Deadline.begin *)
Begun(d) == Fresh

(* Mutant: command_request_id is read when the failure is reported. *)
PrimaryNow(c) == deadline[c].request

Primary(c) == evidence[c]

(* How a composite re-reports the error of one of its phases: a readiness ping
   is not the requested Lua, and what ran before stays said. *)
Reported(c, e) ==
    CASE phase[c] = "ping" -> Error("unknown", "no", NoRequest)
      [] phase[c] = "command" ->
            IF c \in StartViews /\ e.outcome = "not_executed"
               THEN Error("unknown", "no", NoRequest) ELSE e
      [] phase[c] = "poll" -> Error("unknown", "yes", Primary(c))
      [] phase[c] = "capture" -> Error("completed", "yes", Primary(c))

Told(c, e, at) ==
    report' = [report EXCEPT ![c] = [outcome |-> e.outcome, completed |-> e.completed,
                                     command |-> e.command, at |-> at]]

(* An unsettled composite is marked before it is left. *)
Fail(c, e, op) ==
    /\ Told(c, Reported(c, e), phase[c])
    /\ operation' \in {op, IF phase[c] = "poll" THEN [op EXCEPT !.uncertain = TRUE] ELSE op}
    /\ Goto(c, "unwinding")

(* The end of a budget in the queue is Refused's. *)
Expire(c) ==
    /\ c \notin expired /\ pc[c] \notin {"queued", "unwinding", "done"}
    /\ expired' = expired \cup {c}
    /\ UNCHANGED <<emulator, console, channel, operation, caller, history>>

(* The deadline object goes with its call. *)
Gone(c) ==
    /\ Goto(c, "done")
    /\ phase' = [phase EXCEPT ![c] = First(c)]
    /\ deadline' = [deadline EXCEPT ![c] = Fresh]
    /\ target' = [target EXCEPT ![c] = 0]
    /\ expired' = expired \ {c}

(* The budget ended in the queue, the session is busy, dead or absent, or the
   call was cancelled before a worker took it. *)
Refused(c) ==
    /\ pc[c] = "queued"
    /\ Told(c, Error("not_executed", "unsaid", NoRequest), First(c))
    /\ Gone(c)
    /\ UNCHANGED <<emulator, console, channel, operation, evidence, wait, history>>

Acquire(c) ==
    /\ pc[c] = "queued" /\ ~OperationLocked
    /\ IF c \in StartViews THEN ~emulator /\ operation = NoOp
       ELSE emulator /\ (operation # NoOp => Reclaimable(operation))
    /\ operation' = NewOperation(c)
    /\ Goto(c, "owner")
    /\ UNCHANGED <<emulator, console, channel, phase, deadline, evidence, target, wait, report,
                   expired, history>>

(* Popen, under the startup guard, which journals before it that the operation has
   started. *)
Spawn(c) ==
    /\ pc[c] = "owner" /\ phase[c] = "ping" /\ ~emulator /\ c \notin expired
    /\ emulator' = TRUE
    /\ operation' = [operation EXCEPT !.started = TRUE]
    /\ deadline' = [deadline EXCEPT ![c].outcome = "unknown"]
    /\ UNCHANGED <<console, channel, pc, phase, evidence, target, wait, report,
                   expired, history>>

(* Nothing was spawned: the reservation is rolled back. *)
SpawnFails(c) ==
    /\ pc[c] = "owner" /\ phase[c] = "ping" /\ ~emulator
    /\ Told(c, Error("not_executed", "unsaid", NoRequest), "ping")
    /\ operation' = NoOp
    /\ Gone(c)
    /\ UNCHANGED <<emulator, console, channel, evidence, wait, history>>
----
(* send_command *)

Sending(c) == pc[c] = "owner" /\ emulator
Sent(c) == [operation EXCEPT !.started = TRUE, !.pending = Request(c)]
Completed == [operation EXCEPT !.pending = NoRequest, !.uncertain = FALSE]

Sendable(c) == Sending(c) /\ command = NoRequest /\ c \notin expired

Send(c) ==
    /\ Sendable(c)
    /\ operation' = Sent(c)
    /\ command' = Request(c) /\ response' = NoResponse
    /\ deadline' = [deadline EXCEPT ![c] = [request |-> Request(c), outcome |-> "unknown"]]
    /\ Goto(c, "waiting")
    /\ UNCHANGED <<emulator, console, running, phase, evidence, target, wait, report,
                   expired, history>>

(* The first check of the phase, in begin or in send_command. *)
BeginExpires(c) ==
    /\ Sending(c) /\ c \in expired
    /\ deadline' = [deadline EXCEPT ![c] = Begun(deadline[c])]
    /\ Fail(c, Timeout(deadline'[c]), operation)
    /\ UNCHANGED <<emulator, console, channel, phase, evidence, target, wait, expired, history>>

(* Before the command file is written; the journal may name the request. *)
SendRefused(c) ==
    /\ Sending(c)
    /\ deadline' = [deadline EXCEPT ![c] = [request |-> Request(c), outcome |-> "not_executed"]]
    /\ \E op \in {operation, Sent(c)} :
          Fail(c, Error("not_executed", "unsaid", NoRequest), op)
    /\ UNCHANGED <<emulator, console, channel, phase, evidence, target, wait, expired, history>>

(* Writing the command file raised: it may be there. *)
SendRaises(c) ==
    /\ Sending(c) /\ command = NoRequest
    /\ deadline' = [deadline EXCEPT ![c] = [request |-> Request(c), outcome |-> "unknown"]]
    /\ command' \in {command, Request(c)} /\ response' = NoResponse
    /\ Fail(c, Error("unknown", "unsaid", NoRequest), Sent(c))
    /\ UNCHANGED <<emulator, console, running, phase, evidence, target, wait, expired, history>>

(* complete(response): what the bridge says decides the outcome. *)
AnswerOutcome ==
    IF response.ok \/ response.completed = "yes" THEN "completed" ELSE "unknown"

(* The failure that the bridge reports is kept as the primary error, with what it
   says of completion.  Only when the budget or the journal failed as well is the
   request of a completed command named (preserve_response_failure). *)
BridgeError(c, journalled) ==
    Error(AnswerOutcome, response.completed,
          IF response.completed = "yes" /\ (c \in expired \/ ~journalled)
             THEN Request(c) ELSE NoRequest)

(* The record of the answer in the journal may fail. *)
Answer(c) ==
    /\ pc[c] = "waiting" /\ Answered(Request(c))
    /\ deadline' = [deadline EXCEPT ![c].outcome = AnswerOutcome]
    /\ \/ response.ok /\ c \notin expired
          /\ operation' = Completed /\ Goto(c, "answered") /\ UNCHANGED report
       \/ response.ok
          /\ \E op \in {operation, Completed} :
                /\ op = Completed => c \in expired
                /\ Fail(c, Timeout(deadline'[c]), op)
       \/ ~response.ok
          /\ \E op \in {operation, Completed} : Fail(c, BridgeError(c, op = Completed), op)
    /\ UNCHANGED <<emulator, console, channel, phase, evidence, target, wait, expired, history>>

(* The process or a file failed under the poll. *)
PollFails(c) ==
    /\ pc[c] = "waiting"
    /\ Fail(c, Error("unknown", "unsaid", NoRequest), operation)
    /\ UNCHANGED <<emulator, console, channel, phase, deadline, evidence, target, wait,
                   expired, history>>

(* Mutant: a command file that is not there counts as withdrawn. *)
WithdrawableTaken(c) == command \in {Request(c), NoRequest} /\ heartbeat

(* The rename of the file that a bridge with the claim handshake did not take. *)
Withdrawable(c) == command = Request(c) /\ heartbeat

(* The "started" that publish found: a startup has journalled its own. *)
StartedBefore(c) == phase[c] # First(c) \/ c \in StartViews

(* Expiry without an answer: the request is withdrawn, or its fate is unknown. *)
Expires(c) ==
    /\ pc[c] = "waiting" /\ c \in expired /\ ~Answered(Request(c))
    /\ \/ /\ Withdrawable(c)
          /\ command' = NoRequest
          /\ deadline' = [deadline EXCEPT ![c].outcome = "not_executed"]
          /\ Fail(c, Timeout(deadline'[c]),
                  [operation EXCEPT !.pending = NoRequest, !.started = StartedBefore(c)])
       \/ /\ Fail(c, Timeout(deadline[c]), operation)
          /\ UNCHANGED <<command, deadline>>
    /\ UNCHANGED <<emulator, console, running, response, phase, evidence, target, wait,
                   expired, history>>
----
(* Between the requests of a call. *)

(* The checks on the way out of the nested budgets. *)
AnsweredExpires(c) ==
    /\ pc[c] = "answered" /\ c \in expired
    /\ Fail(c, Timeout(deadline[c]), operation)
    /\ UNCHANGED <<emulator, console, channel, phase, deadline, evidence, target, wait,
                   expired, history>>

(* The ready metadata cannot be written, or the image is not valid. *)
AnsweredFails(c) ==
    /\ pc[c] = "answered" /\ phase[c] \in {"ping", "capture"}
    /\ Fail(c, Error("unknown", "unsaid", NoRequest), operation)
    /\ UNCHANGED <<emulator, console, channel, phase, deadline, evidence, target, wait,
                   expired, history>>

Advance(c, next) == phase' = [phase EXCEPT ![c] = next] /\ Goto(c, "owner")

Ready(c) ==
    /\ pc[c] = "answered" /\ phase[c] = "ping"
    /\ Advance(c, "command")
    /\ UNCHANGED <<emulator, console, channel, operation, deadline, evidence, target, wait,
                   report, expired, history>>

Returned(c) ==
    /\ pc[c] = "answered" /\ phase[c] = "command" /\ c \in Inputs
    /\ evidence' = [evidence EXCEPT ![c] = deadline[c].request]
    /\ Goto(c, "finishing")
    /\ UNCHANGED <<emulator, console, channel, operation, phase, deadline, target, wait,
                   report, expired, history>>

(* Mutant: the frames of the tap itself are forgotten. *)
SettlesEarly(w) == response.frame + w

(* tap_frame + duration + wait_frames *)
SettlesAt(w) == response.frame + response.duration + w

Settle(c) ==
    /\ pc[c] = "answered" /\ phase[c] = "command" /\ c \in Composites
    /\ evidence' = [evidence EXCEPT ![c] = deadline[c].request]
    /\ \E w \in 0..MaxWait :
          /\ wait' = [wait EXCEPT ![c] = w]
          /\ target' = [target EXCEPT ![c] = SettlesAt(w)]
    /\ Advance(c, "poll")
    /\ UNCHANGED <<emulator, console, channel, operation, deadline, report, expired, history>>

(* _wait_for_frame looks at the frame of the answer, _settle_lua at its value. *)
Settled(c) == IF c \in TapViews THEN response.frame >= target[c] ELSE response.settled

Polled(c) ==
    /\ pc[c] = "answered" /\ phase[c] = "poll"
    /\ Advance(c, IF Settled(c) THEN "capture" ELSE "poll")
    /\ UNCHANGED <<emulator, console, channel, operation, deadline, evidence, target, wait,
                   report, expired, history>>

(* The deadline names the primary command again. *)
Restored(c) == [request |-> evidence[c], outcome |-> "completed"]

Captured(c) ==
    /\ pc[c] = "answered" /\ phase[c] = "capture"
    /\ deadline' = [deadline EXCEPT ![c] = Restored(c)]
    /\ Goto(c, IF c \in StartViews THEN "activating" ELSE "finishing")
    /\ UNCHANGED <<emulator, console, channel, operation, phase, evidence, target, wait, report,
                   expired, history>>
----
(* The end of a call. *)

Activate(c) ==
    /\ pc[c] = "activating" /\ c \notin expired
    /\ Goto(c, "finishing")
    /\ UNCHANGED <<emulator, console, channel, operation, phase, deadline, evidence, target, wait,
                   report, expired, history>>

(* _post_start_failure: the activation failed after the command. *)
ActivationFails(c) ==
    /\ pc[c] = "activating"
    /\ \E o \in {"unknown", "completed"} : Told(c, Error(o, "yes", evidence[c]), "retire")
    /\ Goto(c, "unwinding")
    /\ UNCHANGED <<emulator, console, channel, operation, phase, deadline, evidence, target, wait,
                   expired, history>>

Finish(c) ==
    /\ pc[c] = "finishing"
    /\ operation' = NoOp
    /\ Goto(c, "returning")
    /\ UNCHANGED <<emulator, console, channel, phase, deadline, evidence, target, wait, report,
                   expired, history>>

(* Retiring failed: the state lock stayed busy, a staging file could not be removed,
   or the journal could not be read or written.  A startup composite repeats what
   completed (_activate_startup).  Of the other views only a failing journal is
   reported with the deadline's evidence (operation_timeout), and a plain input has
   left its deadline already (error_context). *)
FinishFails(c) ==
    /\ pc[c] = "finishing"
    /\ operation' \in {operation, NoOp, [operation EXCEPT !.uncertain = TRUE]}
    /\ \E o \in {"unknown", "completed"} :
          \/ c \in StartViews /\ Told(c, Error(o, "yes", evidence[c]), "retire")
          \/ /\ c \notin StartViews /\ (c \in Inputs => o = "unknown")
             /\ Told(c, Error(o, "unsaid", NoRequest), "retire")
          \/ /\ c \in TapViews \cup LuaViews /\ o = "completed"
             /\ Told(c, Error(o, "yes", deadline[c].request), "retire")
    /\ Gone(c)
    /\ UNCHANGED <<emulator, console, channel, evidence, wait, history>>

(* The last checks are those of the result, back on the event loop. *)
Return(c) ==
    /\ pc[c] = "returning"
    /\ IF c \in expired THEN Told(c, Timeout([deadline[c] EXCEPT !.outcome = "completed"]), "result")
       ELSE Told(c, Error("ok", "unsaid", NoRequest), "result")
    /\ Gone(c)
    /\ UNCHANGED <<emulator, console, channel, operation, evidence, wait, history>>

(* _finish of a failed call, if the lock and the journal let it. *)
Unwind(c) ==
    /\ pc[c] = "unwinding"
    /\ LET kept == \/ c \in Composites /\ operation.started
                   \/ operation.pending # NoRequest \/ operation.uncertain
       IN operation' \in {operation, IF kept THEN operation ELSE NoOp}
    /\ Gone(c)
    /\ UNCHANGED <<emulator, console, channel, evidence, wait, report, history>>

(* The process of the caller dies with its memory: nobody is told anything. *)
Die(c) ==
    /\ pc[c] \notin {"queued", "done"}
    /\ Gone(c)
    /\ report' = [report EXCEPT ![c] = NoReport]
    /\ evidence' = [evidence EXCEPT ![c] = NoRequest]
    /\ UNCHANGED <<emulator, console, channel, operation, wait, history>>
----
Handle(c) ==
    TapKey(c) \/ SetKeys(c) \/ ClearKeys(c) \/ RunLua(c) \/ Observe(c) \/ Screenshot(c)
Admission(c) == Refused(c) \/ Acquire(c) \/ Spawn(c) \/ SpawnFails(c)
SendCommand(c) ==
    \/ Send(c) \/ BeginExpires(c) \/ SendRefused(c) \/ SendRaises(c)
    \/ Answer(c) \/ PollFails(c) \/ Expires(c)
Compose(c) ==
    \/ AnsweredExpires(c) \/ AnsweredFails(c) \/ Ready(c) \/ Returned(c)
    \/ Settle(c) \/ Polled(c) \/ Captured(c)
Leave(c) ==
    \/ Activate(c) \/ ActivationFails(c) \/ Finish(c) \/ FinishFails(c)
    \/ Return(c) \/ Unwind(c) \/ Die(c)

Next ==
    \/ Frame \/ HandlerFails
    \/ \E c \in Calls : Handle(c) \/ Admission(c) \/ SendCommand(c) \/ Compose(c)
                        \/ Leave(c) \/ Expire(c)

Spec == Init /\ [][Next]_vars
----
(* Properties. *)

(* The emulator holds exactly the keys that the last input on each key wants
   down in this frame: a scheduled release neither outlives a later input nor
   comes late (apply_key_releases, set_keys and clear_keys). *)
KeysFollowOrders == \A k \in Keys : k \in keys <=> frame < orders[k]

WellTaken(c) ==
    shot[c].seen =>
        /\ c \in TapViews =>
              shot[c].frame >= tapped[c].until + wait[c] /\ shot[c].keys \cap tapped[c].keys = {}
        /\ c \notin TapViews => ~shot[c].macro

(* A view of a tap is taken wait_frames after its release, with the key up,
   and a view of Lua after its macro ended (README, "wait_frames is applied
   after release before the screenshot is captured"). *)
SettledBeforeCapture == \A c \in Composites : WellTaken(c)

Command(c) == <<c, "command">>
May(request) == request = command \/ request \in claimed

Truthful(c) ==
    /\ report[c].outcome = "not_executed" => ~May(Command(c))
    /\ report[c].completed = "yes" => Command(c) \in ran
    /\ report[c].outcome \in {"ok", "completed"} => Command(c) \in ran
    /\ report[c].completed = "no" => Command(c) \notin ran
    /\ report[c].command \in {Command(c), NoRequest}

(* What a caller is told about its own command is true and stays true, whichever
   phase failed and whatever the deadline object carried then: a ping, a poll or a
   capture is never passed for the command, not_executed is proof that it never
   begins, and command_completed false that its handler never returns. *)
ReportIsTrue == \A c \in Calls : Truthful(c)

Failed(c) == report[c].outcome \notin {"none", "ok"}
KeepsEvidence(c) == report[c].completed = "yes" /\ report[c].command = Command(c)

(* README, Operation deadlines: "When a primary Lua/input command completed before a
   later failure, `command_completed: true` and `command_request_id` retain that
   evidence". *)
EvidenceIsRetained == \A c \in Calls : evidence[c] # NoRequest /\ Failed(c) => KeepsEvidence(c)

Evident(c) ==
    evidence[c] # NoRequest /\ Failed(c) =>
        /\ report[c].outcome # "not_executed" /\ report[c].completed # "no"
        /\ KeepsEvidence(c) \/ (report[c].at = "retire" /\ c \notin StartViews)

(* Where that sentence holds, and what is left of it where it does not: after the
   command was answered a failure to settle, to capture, to activate or to return in
   time names the command and says that it completed; only the retirement of an
   input or of a view without startup may be silent of it (finding 6), and no
   failure denies it (_composite_error, _post_start_failure, operation_timeout). *)
EvidenceIsKept == \A c \in Calls : Evident(c)

(* The calls keep the promise of SerialExecution for their commands, and the
   record of the journal alone is what keeps it: a command is outstanding while
   the journal names it, whatever phase, call or budget failed since, and no
   handler returns for a command that the journal has let go (send_command,
   transaction). *)
Outstanding == {c \in Calls : operation # NoOp /\ operation.pending = Command(c)}
CommandsRan == {c \in Calls : Command(c) \in ran}
Promise == INSTANCE SerialExecution
              WITH Served <- Calls, mode <- "ready",
                   outstanding <- Outstanding, ran <- CommandsRan
ImplementsPromise == Promise!AbsSpec
----
(* The inductive invariant. *)

Asking == {"queued", "owner", "waiting", "answered"}
Primed == {"activating", "finishing", "returning"}

(* What a call knows by itself. *)
CallInv(c) ==
    /\ evidence[c] \in {NoRequest, Command(c)}
    /\ report[c].outcome # "none" => pc[c] \in {"unwinding", "done"}
    /\ report[c].outcome = "none" => report[c] = NoReport
    /\ pc[c] = "queued" => phase[c] = First(c)
    /\ pc[c] \in Asking => (evidence[c] = NoRequest <=> phase[c] \in {"ping", "command"})
    /\ pc[c] \in Asking /\ phase[c] = "ping" => c \in StartViews
    /\ pc[c] \in Asking /\ phase[c] \in {"poll", "capture"} => c \in Composites
    /\ pc[c] = "waiting" => deadline[c] = [request |-> Request(c), outcome |-> "unknown"]
    /\ pc[c] = "answered" => deadline[c] = [request |-> Request(c), outcome |-> "completed"]
    /\ pc[c] \in Primed =>
          evidence[c] = Command(c) /\ deadline[c] = [request |-> Command(c), outcome |-> "completed"]

(* One request at a time: the journal names the one that may still run. *)
ChannelInv ==
    /\ command # NoRequest =>
          /\ running = NoRequest /\ ~Answered(command)
          /\ operation # NoOp /\ operation.pending = command
    /\ running # NoRequest =>
          ~Answered(running) /\ operation # NoOp /\ operation.pending = running
OwnerInv(c) ==
    /\ pc[c] \in Owning => operation # NoOp /\ operation.id = c
    /\ pc[c] \in {"owner", "answered", "activating", "finishing"} =>
          operation.pending = NoRequest
    /\ pc[c] = "waiting" => operation.pending = Request(c)
    /\ pc[c] = "answered" => Answered(Request(c)) /\ response.ok
    /\ pc[c] = "unwinding" => operation.pending \in {c} \X Phases \cup {NoRequest}

(* What ran, and what cannot have run. *)
RanInv ==
    /\ ran \subseteq claimed
    /\ running # NoRequest => running \in claimed
    /\ response # NoResponse /\ response.ok => response.completed = "yes"
    /\ response # NoResponse /\ response.completed = "yes" => response.id \in ran
    /\ response # NoResponse => response.frame <= frame
OnceInv(c) ==
    /\ command = Command(c) => Command(c) \notin claimed
    /\ running = Command(c) => Command(c) \notin ran
    /\ pc[c] \in Asking /\ phase[c] = "ping" => ~May(Command(c))
    /\ pc[c] \in {"queued", "owner"} /\ phase[c] = "command" => ~May(Command(c))
    /\ evidence[c] # NoRequest => Command(c) \in ran
    /\ pc[c] = "answered" /\ phase[c] = "command" => Command(c) \in ran
    /\ Answered(Command(c)) /\ response.completed = "no" => Command(c) \notin ran

(* What is denied is not on its way either. *)
DenialInv(c) == report[c].completed = "no" => Command(c) \notin {command, running}

(* A scheduled release is the one that the last input on the key wants. *)
KeyInv ==
    \A k \in Keys :
        /\ release[k] # 0 => release[k] = orders[k] /\ frame < orders[k]
        /\ k \in keys /\ release[k] = 0 => orders[k] = Forever

Capture(c) == <<c, "capture">>
TapSettled(c) ==
    frame >= tapped[c].until + wait[c] /\ \A k \in tapped[c].keys : orders[k] <= frame

(* From the answer of the command to the capture nothing else is handled. *)
TapInv(c) ==
    /\ Answered(Command(c)) /\ response.ok =>
          tapped[c].until = response.frame + response.duration
    /\ pc[c] \in Asking /\ Command(c) \in ran =>
          \A k \in tapped[c].keys : orders[k] <= tapped[c].until
    /\ pc[c] \in Asking /\ phase[c] = "poll" => target[c] = tapped[c].until + wait[c]
    /\ pc[c] \in Asking /\ phase[c] = "capture" => TapSettled(c)
    /\ operation # NoOp /\ operation.pending = Capture(c) => TapSettled(c)
LuaInv(c) ==
    /\ pc[c] \in Asking /\ phase[c] = "poll" /\ Answered(Request(c)) /\ response.settled => ~macro
    /\ pc[c] \in Asking /\ phase[c] = "capture" => ~macro
    /\ operation # NoOp /\ operation.pending = Capture(c) => ~macro
ShotInv(c) ==
    /\ shot[c].seen => Command(c) \in ran
    /\ pc[c] \in Asking /\ phase[c] # "capture" => ~shot[c].seen
    /\ operation # NoOp /\ operation.pending = Capture(c) => Command(c) \in ran

IInv ==
    /\ TypeOK /\ ChannelInv /\ RanInv /\ KeyInv
    /\ KeysFollowOrders /\ SettledBeforeCapture /\ ReportIsTrue /\ EvidenceIsKept
    /\ \A c \in Calls : CallInv(c) /\ OwnerInv(c) /\ OnceInv(c) /\ DenialInv(c)
    /\ \A c \in TapViews : TapInv(c)
    /\ \A c \in Composites \ TapViews : LuaInv(c)
    /\ \A c \in Composites : ShotInv(c)
====
