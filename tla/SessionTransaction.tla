---- MODULE SessionTransaction ----
(***************************************************************************)
(* One generation of one mgba-live-mcp session directory: the workers that *)
(* own it through session_transactions.Transaction, the commands they send *)
(* to the Lua bridge with SessionManager.send_command, the bridge, and the *)
(* recovery stops that fence the generation.  transaction.json is the pair *)
(* <<status, operation>>; command.lua, response.json and heartbeat.json    *)
(* are command, response and heartbeat.  A worker issues at most one       *)
(* request per phase, so a request is a pair <<operation, phase>>.         *)
(***************************************************************************)
EXTENDS Naturals

CONSTANTS
    Ops,            \* operation ids, one per root transaction ever attempted
    Composites,     \* the operations entered with composite=True
    Stops,          \* recovery-stop attempts
    Nobody,         \* holder of a free flock
    NoOp,           \* "operation": null in the journal
    NoRequest,      \* an absent file or "pending_request": null
    Foreign,        \* a command file this host did not write
    MaxForeign,     \* bound: how many foreign command files appear
    FileFaults      \* whether reading or writing a session file may raise

Phases == {"command", "settle", "snapshot"}
Request == Ops \X Phases
Outcomes == {"none", "completed", "not_executed", "unknown"}

ASSUME OpsAssumption == Composites \subseteq Ops
ASSUME HolderAssumption == Nobody \notin Ops \cup Stops /\ Ops \cap Stops = {}
ASSUME RequestAssumption ==
    NoRequest \notin Request /\ Foreign \notin Request /\ Foreign # NoRequest
ASSUME BoundAssumption == MaxForeign \in Nat /\ FileFaults \in BOOLEAN

Operation == [id : Ops, composite : BOOLEAN, started : BOOLEAN,
              pending : Request \cup {NoRequest}, uncertain : BOOLEAN]
ASSUME NoOpAssumption == NoOp \notin Operation

VARIABLES
    status,     \* journal "state"
    operation,  \* journal "operation"
    opLock, stateLock, stopLock,    \* flock holders
    pc,         \* where each worker is
    phase,      \* which of its requests it is on
    saved,      \* Transaction._pending_started
    report,     \* what the caller of a request is told
    command,    \* command.lua
    private,    \* .command.lua.withdraw.<uuid> of the withdrawing worker
    response,   \* response.json: [id, ok]
    heartbeat,  \* whether heartbeat.json advertises rename-v1
    alive,      \* the emulator process group
    bridge,     \* "idle", "loaded" (claimed) or "ran" (executed, not answered)
    claimed,    \* the request the bridge has claimed
    executed,   \* every request whose handler ran
    foreign,    \* foreign command files so far
    stopPc      \* where each recovery stop is

journal == <<status, operation>>
locks == <<opLock, stateLock, stopLock>>
worker == <<pc, phase, saved, report>>
emulator == <<heartbeat, alive, bridge, claimed, executed>>
files == <<command, private, response, foreign>>
vars == <<journal, locks, worker, emulator, files, stopPc>>

NoResponse == [id |-> NoRequest, ok |-> FALSE]

Places == {"idle", "owner", "publishing", "writing", "waiting", "expired",
           "withdrawing", "withdrawn", "unsettled", "unwinding", "returning",
           "done", "crashed"}
StopPlaces == {"idle", "fencing", "fenced", "terminated", "retiring", "stopped", "failed"}
Reports == [outcome : Outcomes, lateFence : BOOLEAN]
File == Request \cup {NoRequest, Foreign}

JournalType ==
    /\ status \in {"ready", "stopping", "stopped"}
    /\ operation \in Operation \cup {NoOp}
LockType ==
    /\ opLock \in Ops \cup {Nobody}
    /\ stateLock \in Ops \cup Stops \cup {Nobody}
    /\ stopLock \in Stops \cup {Nobody}
WorkerType ==
    /\ pc \in [Ops -> Places]
    /\ phase \in [Ops -> Phases]
    /\ saved \in [Ops -> BOOLEAN]
    /\ report \in [Request -> Reports]
EmulatorType ==
    /\ heartbeat \in BOOLEAN /\ alive \in BOOLEAN
    /\ bridge \in {"idle", "loaded", "ran"}
    /\ claimed \in File
    /\ executed \subseteq File
FileType ==
    /\ command \in File
    /\ private \in File
    /\ response \in [id : File, ok : BOOLEAN]
    /\ foreign \in 0..MaxForeign

TypeOK ==
    /\ JournalType
    /\ LockType
    /\ WorkerType
    /\ EmulatorType
    /\ FileType
    /\ stopPc \in [Stops -> StopPlaces]

(* A started session, ready and unowned, its bridge not yet heard of. *)
Init ==
    /\ status = "ready"
    /\ operation = NoOp
    /\ opLock = Nobody /\ stateLock = Nobody /\ stopLock = Nobody
    /\ pc = [o \in Ops |-> "idle"]
    /\ phase = [o \in Ops |-> "command"]
    /\ saved = [o \in Ops |-> FALSE]
    /\ report = [r \in Request |-> [outcome |-> "none", lateFence |-> FALSE]]
    /\ command = NoRequest /\ private = NoRequest /\ response = NoResponse
    /\ heartbeat = FALSE /\ alive = TRUE
    /\ bridge = "idle" /\ claimed = NoRequest /\ executed = {}
    /\ foreign = 0
    /\ stopPc = [s \in Stops |-> "idle"]
----
(* Helpers. *)

Req(o) == <<o, phase[o]>>
Primary(o) == <<o, "command">>

(* Definitions marked "Mutant" are plausible bugs; no specification uses them. *)

(* Mutant: publication does not look at the fence. *)
OwnedThoughFenced(o) == operation # NoOp /\ operation.id = o

(* _owned_operation with require_ready: the journal still names this worker. *)
Owned(o) == status = "ready" /\ operation # NoOp /\ operation.id = o

(* write_json of the journal, an atomic replace.  A raising write may have
   been published before its durability check failed. *)
WriteResults(old, new) ==
    {w \in [disk : {old, new}, raised : BOOLEAN] :
        (w.raised => FileFaults) /\ (~w.raised => w.disk = new)}

(* Everybody waits at most 0.5 s for the state lock.  Only another process can
   have it here: a worker takes it again after letting it go. *)
StateLockBusy == stateLock # Nobody

(* What a failed request leads to: _composite_error marks a failed settle
   uncertain, every other exception unwinds to the root transaction. *)
FailPc(o) == IF o \in Composites /\ phase[o] = "settle" THEN "unsettled" ELSE "unwinding"

Goto(o, where) == pc' = [pc EXCEPT ![o] = where]
Tell(r, outcome, late) ==
    report' = [report EXCEPT ![r] = [outcome |-> outcome, lateFence |-> late]]
Fail(o, outcome, late) == Goto(o, FailPc(o)) /\ Tell(Req(o), outcome, late)

NewOperation(o) ==
    [id |-> o, composite |-> o \in Composites, started |-> FALSE,
     pending |-> NoRequest, uncertain |-> FALSE]

Resolved(op) == op.pending = NoRequest /\ ~op.uncertain

(* Mutant: a command file that vanished counts as completion. *)
ReclaimableOnceClaimed(op) ==
    /\ ~(op.composite /\ op.started)
    /\ IF op.pending = NoRequest THEN ~op.uncertain ELSE command # op.pending

(* Mutant: an answered composite is reclaimed before its settle and capture. *)
ReclaimableComposite(op) ==
    IF op.pending = NoRequest THEN ~op.uncertain ELSE response.id = op.pending

(* Mutant: a dead owner's request is forgotten. *)
ReclaimableByDeath(op) == ~(op.composite /\ op.started) /\ ~op.uncertain

(* Only a correlated response proves that abandoned work is over. *)
Reclaimable(op) ==
    /\ ~(op.composite /\ op.started)
    /\ IF op.pending = NoRequest THEN ~op.uncertain ELSE response.id = op.pending

(* Mutant: complete() retires the whole operation. *)
CompletedAndRetired == NoOp

(* What the worker writes to its journal record. *)
Started(o) == [operation EXCEPT !.started = TRUE, !.pending = Req(o)]
Restored(o) == [operation EXCEPT !.started = saved[o], !.pending = NoRequest]
Completed == [operation EXCEPT !.pending = NoRequest, !.uncertain = FALSE]
Uncertain == [operation EXCEPT !.uncertain = TRUE]
----
(* Admission: transaction(). *)

Admissible == status = "ready" /\ (operation # NoOp => Reclaimable(operation))

(* Abandoned work that is provably resolved is replaced.  After the journal
   write the deadline may raise: the record stays, the lease is dropped. *)
Acquire(o) ==
    /\ pc[o] = "idle"
    /\ opLock = Nobody /\ stateLock = Nobody
    /\ Admissible
    /\ \E w \in WriteResults(operation, NewOperation(o)) :
          /\ operation' = w.disk
          /\ \/ ~w.raised /\ opLock' = o /\ Goto(o, "owner") /\ UNCHANGED report
             \/ /\ UNCHANGED opLock
                /\ Goto(o, "done")
                /\ Tell(Primary(o), IF w.raised THEN "unknown" ELSE "not_executed", FALSE)
    /\ UNCHANGED <<status, stateLock, stopLock, phase, saved, emulator, files, stopPc>>

AcquireRefused(o) ==
    /\ pc[o] = "idle"
    /\ opLock # Nobody \/ (stateLock = Nobody /\ ~Admissible)
    /\ Goto(o, "done")
    /\ Tell(Primary(o), "not_executed", FALSE)
    /\ UNCHANGED <<journal, locks, phase, saved, emulator, files, stopPc>>

(* A stop kept the state lock for 0.5 s: session_busy at that stage, unlike at the
   operation lock, carries execution_outcome unknown. *)
AcquireBusy(o) ==
    /\ pc[o] = "idle"
    /\ opLock = Nobody /\ StateLockBusy
    /\ Goto(o, "done")
    /\ Tell(Primary(o), "unknown", FALSE)
    /\ UNCHANGED <<journal, locks, phase, saved, emulator, files, stopPc>>
----
(* Publication: Transaction.publish and the publish callback of send_command.
   The state lock is held from the journal write to the end of the callback. *)

CanPublish(o) == Owned(o) /\ Resolved(operation)

PublishJournal(o) ==
    /\ pc[o] = "owner"
    /\ stateLock = Nobody
    /\ CanPublish(o)
    /\ saved' = [saved EXCEPT ![o] = operation.started]
    /\ \E w \in WriteResults(operation, Started(o)) :
          /\ operation' = w.disk
          /\ \/ ~w.raised /\ stateLock' = o /\ Goto(o, "publishing") /\ UNCHANGED report
             \/ w.raised /\ UNCHANGED stateLock /\ Fail(o, "not_executed", FALSE)
    /\ UNCHANGED <<status, opLock, stopLock, phase, emulator, files, stopPc>>

(* The deadline expired, the process died or ownership was lost beforehand; or a
   stop kept the state lock. *)
DispatchRefused(o) ==
    /\ pc[o] = "owner"
    /\ \/ Fail(o, "not_executed", FALSE)
       \/ StateLockBusy /\ Fail(o, "unknown", FALSE)
    /\ UNCHANGED <<journal, locks, phase, saved, emulator, files, stopPc>>

(* The callback found no command file and unlinked the stale response. *)
BeginCommand(o) ==
    /\ pc[o] = "publishing"
    /\ command = NoRequest
    /\ response' = NoResponse
    /\ Goto(o, "writing")
    /\ UNCHANGED <<journal, locks, phase, saved, report, emulator, command,
                   private, foreign, stopPc>>

(* An unclaimed command file is not overwritten; the journal stays pending. *)
CommandExists(o) ==
    /\ pc[o] = "publishing"
    /\ command # NoRequest
    /\ stateLock' = Nobody
    /\ Fail(o, "not_executed", FALSE)
    /\ UNCHANGED <<journal, opLock, stopLock, phase, saved, emulator, files, stopPc>>

(* command.lua is replaced, whatever appeared since the check; a deadline that
   passes after the replacement goes straight to reconciliation. *)
WriteCommand(o) ==
    /\ pc[o] = "writing"
    /\ command' = Req(o)
    /\ stateLock' = Nobody
    /\ Goto(o, "waiting") \/ Goto(o, "expired")
    /\ UNCHANGED <<journal, opLock, stopLock, phase, saved, report, emulator,
                   private, response, foreign, stopPc>>

(* Any other failure of the write is ambiguous: it stays pending. *)
WriteCommandFails(o) ==
    /\ pc[o] = "writing"
    /\ command' \in {command, Req(o)}
    /\ stateLock' = Nobody
    /\ Fail(o, "unknown", FALSE)
    /\ UNCHANGED <<journal, opLock, stopLock, phase, saved, emulator,
                   private, response, foreign, stopPc>>

(* request_published False: the deadline passed before the replacement. *)
PublishExpired(o) ==
    /\ pc[o] \in {"publishing", "writing"}
    /\ \E w \in WriteResults(operation, Restored(o)) : operation' = w.disk
    /\ stateLock' = Nobody
    /\ Fail(o, "not_executed", FALSE)
    /\ UNCHANGED <<status, opLock, stopLock, phase, saved, emulator, files, stopPc>>
----
(* The poll loop of send_command, and Transaction.complete. *)

(* Mutants: any response counts; a handler that raised counts as not run; the
   settle poll resends the command. *)
AnsweredByAnyone(o) == response # NoResponse
AnswerOutcomeOfFailure == IF response.ok THEN "completed" ELSE "not_executed"
SamePhase(o) == phase[o]

Answered(o) == response.id = Req(o)
AnswerOutcome == IF response.ok THEN "completed" ELSE "unknown"
OwnsPending(o) == Owned(o) /\ operation.pending = Req(o)
NextPhase(o) == IF phase[o] = "command" THEN "settle" ELSE "snapshot"

(* The response was recorded and the worker goes on: a single command (and
   the last capture of a composite) returns, a composite enters its next phase. *)
Complete(o) ==
    /\ pc[o] = "waiting"
    /\ Answered(o) /\ OwnsPending(o)
    /\ stateLock = Nobody
    /\ operation' = Completed
    /\ Tell(Req(o), AnswerOutcome, FALSE)
    /\ \/ /\ o \notin Composites \/ (phase[o] = "snapshot" /\ response.ok)
          /\ Goto(o, "returning")
          /\ UNCHANGED phase
       \/ /\ o \in Composites /\ phase[o] # "snapshot" /\ response.ok
          /\ Goto(o, "owner")
          /\ phase' = [phase EXCEPT ![o] = NextPhase(o)]
    /\ UNCHANGED <<status, locks, saved, emulator, files, stopPc>>

(* The response was correlated, but the caller gets an error: a Lua error, the
   deadline, or a journal write that raised. *)
CompleteWithError(o) ==
    /\ pc[o] \in {"waiting", "expired"}
    /\ Answered(o) /\ OwnsPending(o)
    /\ stateLock = Nobody
    /\ \E w \in WriteResults(operation, Completed) : operation' = w.disk
    /\ Fail(o, AnswerOutcome, FALSE)
    /\ UNCHANGED <<status, locks, phase, saved, emulator, files, stopPc>>

(* complete() is refused: fenced since the ownership check, or a stop is about to
   fence and keeps the state lock. *)
CompleteFenced(o) ==
    /\ pc[o] \in {"waiting", "expired"}
    /\ Answered(o)
    /\ StateLockBusy \/ ~OwnsPending(o)
    /\ Fail(o, AnswerOutcome, FALSE)
    /\ UNCHANGED <<journal, locks, phase, saved, emulator, files, stopPc>>

(* operation.check() in the loop raises session_stopping or session_stopped,
   whose phase "admission" carries execution_outcome not_executed. *)
CheckFenced(o) ==
    /\ pc[o] = "waiting"
    /\ stateLock = Nobody
    /\ ~Owned(o)
    /\ Fail(o, "not_executed", TRUE)
    /\ UNCHANGED <<journal, locks, phase, saved, emulator, files, stopPc>>

ProcessDead(o) ==
    /\ pc[o] = "waiting"
    /\ ~alive
    /\ Fail(o, "unknown", FALSE)
    /\ UNCHANGED <<journal, locks, phase, saved, emulator, files, stopPc>>

(* The process or a file could not be inspected, or the state lock was busy. *)
PollRaises(o) ==
    /\ pc[o] = "waiting"
    /\ Fail(o, "unknown", FALSE)
    /\ UNCHANGED <<journal, locks, phase, saved, emulator, files, stopPc>>

(* Mutant: the deadline is looked at only between two native calls. *)
ExpireWhenIdle(o) ==
    /\ pc[o] = "waiting" /\ bridge = "idle"
    /\ Goto(o, "expired")
    /\ UNCHANGED <<journal, locks, phase, saved, report, emulator, files, stopPc>>

Expire(o) ==
    /\ pc[o] = "waiting"
    /\ Goto(o, "expired")
    /\ UNCHANGED <<journal, locks, phase, saved, report, emulator, files, stopPc>>
----
(* Reconciliation after expiry: Transaction.withdraw races the native claim. *)

CanWithdraw(o) == OwnsPending(o) /\ heartbeat /\ command = Req(o)

(* Nothing to withdraw, the journal or the heartbeat could not be read, or a stop
   kept the state lock. *)
ReconcileUnknown(o) ==
    /\ pc[o] = "expired"
    /\ ~CanWithdraw(o) \/ FileFaults \/ StateLockBusy
    /\ Fail(o, "unknown", FALSE)
    /\ UNCHANGED <<journal, locks, phase, saved, emulator, files, stopPc>>

(* command.lua opened and its header matched. *)
WithdrawOpen(o) ==
    /\ pc[o] = "expired"
    /\ stateLock = Nobody
    /\ CanWithdraw(o)
    /\ stateLock' = o
    /\ Goto(o, "withdrawing")
    /\ UNCHANGED <<journal, opLock, stopLock, phase, saved, report, emulator, files, stopPc>>

(* Mutant: native won, so the worker polls for the response again. *)
WithdrawLostPolls(o) ==
    /\ pc[o] = "withdrawing"
    /\ command = NoRequest
    /\ stateLock' = Nobody
    /\ Goto(o, "waiting")
    /\ UNCHANGED <<journal, opLock, stopLock, phase, saved, report, emulator, files, stopPc>>

(* Native won: an open descriptor is not a cancellation. *)
WithdrawLost(o) ==
    /\ pc[o] = "withdrawing"
    /\ command = NoRequest
    /\ stateLock' = Nobody
    /\ Fail(o, "unknown", FALSE)
    /\ UNCHANGED <<journal, opLock, stopLock, phase, saved, emulator, files, stopPc>>

WithdrawRename(o) ==
    /\ pc[o] = "withdrawing"
    /\ command # NoRequest
    /\ private' = command
    /\ command' = NoRequest
    /\ Goto(o, "withdrawn")
    /\ UNCHANGED <<journal, locks, phase, saved, report, emulator, response, foreign, stopPc>>

(* The renamed file is this request; the outcome is not_executed even when the
   journal write that follows raises (request_withdrawn). *)
WithdrawCommit(o) ==
    /\ pc[o] = "withdrawn"
    /\ private = Req(o)
    /\ private' = NoRequest
    /\ \E w \in WriteResults(operation, Restored(o)) : operation' = w.disk
    /\ stateLock' = Nobody
    /\ Fail(o, "not_executed", FALSE)
    /\ UNCHANGED <<status, opLock, stopLock, phase, saved, emulator, command,
                   response, foreign, stopPc>>

(* A raced-in foreign file is linked back unless a newer command is there. *)
WithdrawForeign(o) ==
    /\ pc[o] = "withdrawn"
    /\ private # Req(o)
    /\ private' = NoRequest
    /\ command' = IF command = NoRequest THEN private ELSE command
    /\ stateLock' = Nobody
    /\ Fail(o, "unknown", FALSE)
    /\ UNCHANGED <<journal, opLock, stopLock, phase, saved, emulator, response, foreign, stopPc>>
----
(* Leaving the root transaction: mark_uncertain and _finish. *)

MarkUncertain(o) ==
    /\ pc[o] = "unsettled"
    /\ Goto(o, "unwinding")
    /\ \/ /\ stateLock = Nobody /\ Owned(o)
          /\ \E w \in WriteResults(operation, Uncertain) : operation' = w.disk
       \/ (StateLockBusy \/ ~Owned(o)) /\ UNCHANGED operation
    /\ UNCHANGED <<status, locks, phase, saved, report, emulator, files, stopPc>>

Release(o) == opLock' = Nobody /\ Goto(o, "done")

(* Retire the operation.  When that write raises, _finish writes the operation
   back as uncertain, which may raise as well. *)
Retirements ==
    {NoOp} \cup {d \in {operation, Uncertain} : FileFaults}

(* The root body returned. *)
Finish(o) ==
    /\ pc[o] = "returning"
    /\ stateLock = Nobody
    /\ Owned(o) /\ Resolved(operation)
    /\ operation' = NoOp
    /\ Release(o)
    /\ UNCHANGED <<status, stateLock, stopLock, phase, saved, report, emulator, files, stopPc>>

(* Retiring raised: a single command is reported through error_context. *)
FinishRaises(o) ==
    /\ FileFaults
    /\ pc[o] = "returning"
    /\ stateLock = Nobody
    /\ Owned(o) /\ Resolved(operation)
    /\ operation' \in Retirements
    /\ Release(o)
    /\ Tell(Primary(o), IF o \in Composites THEN "completed" ELSE "unknown", FALSE)
    /\ UNCHANGED <<status, stateLock, stopLock, phase, saved, emulator, files, stopPc>>

(* A stop kept the state lock: nothing is retired. *)
FinishBusy(o) ==
    /\ pc[o] = "returning"
    /\ StateLockBusy
    /\ Release(o)
    /\ Tell(Primary(o), "unknown", FALSE)
    /\ UNCHANGED <<journal, stateLock, stopLock, phase, saved, emulator, files, stopPc>>

(* Fenced after completion: the ready check of _finish raises. *)
FinishFenced(o) ==
    /\ pc[o] = "returning"
    /\ stateLock = Nobody
    /\ ~Owned(o)
    /\ Release(o)
    /\ Tell(Primary(o), "not_executed", TRUE)
    /\ UNCHANGED <<journal, stateLock, stopLock, phase, saved, emulator, files, stopPc>>

(* An exception unwinds the root: unresolved work and a started composite stay
   journaled; anything _finish itself raises is swallowed. *)
FinishFailed(o) ==
    /\ pc[o] = "unwinding"
    /\ LET retire == ~StateLockBusy /\ Owned(o) /\ Resolved(operation)
                     /\ ~(operation.composite /\ operation.started)
       IN  operation' \in IF retire THEN Retirements ELSE {operation}
    /\ Release(o)
    /\ UNCHANGED <<status, stateLock, stopLock, phase, saved, report, emulator, files, stopPc>>

(* The worker's process is killed; the kernel drops its flocks, the files stay.
   A withdrawn private file keeps its unique name and is never read again. *)
Crash(o) ==
    /\ pc[o] \notin {"idle", "done", "crashed"}
    /\ Goto(o, "crashed")
    /\ opLock' = IF opLock = o THEN Nobody ELSE opLock
    /\ stateLock' = IF stateLock = o THEN Nobody ELSE stateLock
    /\ private' = IF stateLock = o THEN NoRequest ELSE private
    /\ UNCHANGED <<journal, stopLock, phase, saved, report, emulator, command,
                   response, foreign, stopPc>>
----
(* mgba_live_bridge.lua: one frame callback at a time in one process. *)

WriteHeartbeat ==
    /\ alive /\ ~heartbeat
    /\ heartbeat' = TRUE
    /\ UNCHANGED <<journal, locks, worker, alive, bridge, claimed, executed, files, stopPc>>

(* parse_command_file: rename is the claim. *)
Claim ==
    /\ alive /\ bridge = "idle"
    /\ command # NoRequest
    /\ claimed' = command
    /\ command' = NoRequest
    /\ bridge' = "loaded"
    /\ UNCHANGED <<journal, locks, worker, heartbeat, alive, executed, private,
                   response, foreign, stopPc>>

Execute ==
    /\ alive /\ bridge = "loaded"
    /\ executed' = executed \cup {claimed}
    /\ bridge' = "ran"
    /\ UNCHANGED <<journal, locks, worker, heartbeat, alive, claimed, files, stopPc>>

(* process_command: a response that cannot be encoded or written is lost. *)
Respond ==
    /\ alive /\ bridge = "ran"
    /\ \/ \E ok \in BOOLEAN : response' = [id |-> claimed, ok |-> ok]
       \/ UNCHANGED response
    /\ bridge' = "idle"
    /\ claimed' = NoRequest
    /\ UNCHANGED <<journal, locks, worker, heartbeat, alive, executed, command,
                   private, foreign, stopPc>>

(* Mutant: the group is taken for gone without a confirmation. *)
MaybeDie == alive' \in {alive, FALSE} /\ bridge' = "idle" /\ claimed' = NoRequest

Die == alive' = FALSE /\ bridge' = "idle" /\ claimed' = NoRequest

EmulatorExits ==
    /\ alive
    /\ Die
    /\ UNCHANGED <<journal, locks, worker, heartbeat, executed, files, stopPc>>

(* Another program drops a command file, replacing whatever is there. *)
ForeignCommand ==
    /\ foreign < MaxForeign
    /\ foreign' = foreign + 1
    /\ command' = Foreign
    /\ UNCHANGED <<journal, locks, worker, emulator, private, response, stopPc>>
----
(* Recovery stop: SessionManager.stop over recovery() and Recovery.finish. *)

StopGoto(s, where) == stopPc' = [stopPc EXCEPT ![s] = where]

(* The fence does not wait for the operation lock.  The state lock is held from
   the read of the journal to its durable replacement. *)
FenceLock(s) ==
    /\ stopPc[s] = "idle"
    /\ stopLock = Nobody /\ stateLock = Nobody
    /\ stopLock' = s /\ stateLock' = s
    /\ StopGoto(s, "fencing")
    /\ UNCHANGED <<journal, opLock, worker, emulator, files>>

Fence(s) ==
    /\ stopPc[s] = "fencing"
    /\ \E w \in WriteResults(status, "stopping") :
          /\ status' = w.disk
          /\ \/ ~w.raised /\ UNCHANGED stopLock /\ StopGoto(s, "fenced")
             \/ w.raised /\ stopLock' = Nobody /\ StopGoto(s, "failed")
    /\ stateLock' = Nobody
    /\ UNCHANGED <<operation, opLock, worker, emulator, files>>

(* session_busy: another stop, or somebody who kept the state lock 0.5 s. *)
FenceRefused(s) ==
    /\ stopPc[s] = "idle"
    /\ stopLock # Nobody \/ StateLockBusy
    /\ StopGoto(s, "failed")
    /\ UNCHANGED <<journal, locks, worker, emulator, files>>

(* Mutant: the stop waits for the owner of the operation lock. *)
TerminateAfterOwner(s) ==
    /\ stopPc[s] = "fenced" /\ opLock = Nobody
    /\ Die
    /\ StopGoto(s, "terminated")
    /\ UNCHANGED <<journal, locks, worker, heartbeat, executed, files>>

(* terminate_owned_process confirmed that the whole group is gone. *)
Terminate(s) ==
    /\ stopPc[s] = "fenced"
    /\ Die
    /\ StopGoto(s, "terminated")
    /\ UNCHANGED <<journal, locks, worker, heartbeat, executed, files>>

(* Refused or unconfirmed termination, a file that could not be read or removed, a
   state lock that stayed busy, or a crash of the stopping process: the journal is
   left as it is. *)
StopFails(s) ==
    /\ stopPc[s] \in {"fencing", "fenced", "terminated", "retiring"}
    /\ stopLock' = Nobody
    /\ stateLock' = IF stateLock = s THEN Nobody ELSE stateLock
    /\ StopGoto(s, "failed")
    /\ UNCHANGED <<journal, opLock, worker, emulator, files>>

(* Recovery.finish holds the state lock over its read, the removal of staged
   files and its write. *)
RetireLock(s) ==
    /\ stopPc[s] = "terminated"
    /\ stateLock = Nobody
    /\ stateLock' = s
    /\ StopGoto(s, "retiring")
    /\ UNCHANGED <<journal, opLock, stopLock, worker, emulator, files>>

(* The journal record is one atomic replace. *)
RecoveryFinish(s) ==
    /\ stopPc[s] = "retiring"
    /\ \E w \in WriteResults(journal, <<"stopped", NoOp>>) :
          /\ status' = w.disk[1]
          /\ operation' = w.disk[2]
          /\ StopGoto(s, IF w.raised THEN "failed" ELSE "stopped")
    /\ stopLock' = Nobody /\ stateLock' = Nobody
    /\ UNCHANGED <<opLock, worker, emulator, files>>
----
(* The steps a live worker takes on its own, each bounded by a finite deadline
   or by the 0.5 s it waits for the state lock. *)
WorkerStep(o) ==
    \/ PublishJournal(o) \/ DispatchRefused(o)
    \/ BeginCommand(o) \/ CommandExists(o) \/ WriteCommand(o) \/ WriteCommandFails(o)
    \/ PublishExpired(o)
    \/ Complete(o) \/ CompleteWithError(o) \/ CompleteFenced(o)
    \/ CheckFenced(o) \/ ProcessDead(o) \/ Expire(o)
    \/ ReconcileUnknown(o) \/ WithdrawOpen(o) \/ WithdrawLost(o)
    \/ WithdrawRename(o) \/ WithdrawCommit(o) \/ WithdrawForeign(o)
    \/ MarkUncertain(o) \/ Finish(o) \/ FinishRaises(o) \/ FinishBusy(o)
    \/ FinishFenced(o) \/ FinishFailed(o)

(* The steps of a stop once it has its locks. *)
StopStep(s) == Fence(s) \/ Terminate(s) \/ RetireLock(s) \/ RecoveryFinish(s)

Bridge == WriteHeartbeat \/ Claim \/ Execute \/ Respond

Next ==
    \/ \E o \in Ops :
          \/ Acquire(o) \/ AcquireRefused(o) \/ AcquireBusy(o)
          \/ WorkerStep(o) \/ PollRaises(o) \/ Crash(o)
    \/ Bridge \/ EmulatorExits \/ ForeignCommand
    \/ \E s \in Stops : StopStep(s) \/ FenceLock(s) \/ FenceRefused(s) \/ StopFails(s)

Spec == Init /\ [][Next]_vars

(* A live stop keeps taking steps; nothing is assumed of the workers, which may
   be hung while they hold the operation lock, of the emulator or of crashes. *)
StopSpec == Spec /\ \A s \in Stops : WF_vars(StopStep(s))
----
(* Properties. *)

Live(o) == pc[o] \notin {"idle", "done", "crashed"}

(* r may still run: its file is unclaimed, or the bridge is working on it. *)
MayRun(r) == command = r \/ (claimed = r /\ bridge # "idle")

(* "Unresolved work stays fenced": whatever crashes, expires, is withdrawn or
   half written, a request that may still run is the one the ready journal
   holds pending, so no successor can be admitted beside it. *)
UnresolvedWorkIsFenced ==
    \A r \in Request :
        MayRun(r) => \/ status # "ready"
                     \/ operation # NoOp /\ operation.pending = r

(* A worker that has not been fenced owns the journal: reclaiming abandoned
   work (transaction) never retires an operation whose worker is alive. *)
LiveWorkerOwnsJournal ==
    \A o \in Ops : Live(o) /\ status = "ready" => Owned(o)

(* Command execution outcome (send_command, withdraw): except for the report of
   a late fence, not_executed is proof, now and for ever after. *)
NotExecutedIsProof ==
    \A r \in Request :
        report[r].outcome = "not_executed" /\ ~report[r].lateFence
            => r \notin executed /\ ~MayRun(r)

(* README "execution_outcome is not_executed only when nonexecution is proven":
   the same with no exception, which check() and _finish break. *)
NotExecutedOnlyWhenProven ==
    \A r \in Request : report[r].outcome = "not_executed" => r \notin executed

(* completed is reported only for a request whose handler ran, however late the
   answer and whatever response file was left behind. *)
CompletedIsProof ==
    \A r \in Request : report[r].outcome = "completed" => r \in executed

(* A stopped journal means the emulator group is gone: nothing of the retired
   generation runs again (stop, Recovery.finish). *)
StoppedIsQuiet == status = "stopped" => ~alive

(* Stop's fence is for ever, also when it fails, crashes or is retried, and a
   late worker never publishes into the fenced generation (publish). *)
FenceIsFinal ==
    [][status # "ready" =>
          /\ status' # "ready"
          /\ command' \in {command, NoRequest, Foreign}]_vars

(* A request runs at most once: nothing is replayed by expiry, reclaiming or
   recovery. *)
NoReplay ==
    [][\A r \in Request : r \in executed => ~(command' = r /\ command # r)]_vars

(* From the moment a composite's command runs until its capture is recorded or
   recovery stop fences the session, no other operation's request runs. *)
CompositeIsNotInterleaved ==
    [][\A o \in Composites : \A r \in (executed' \ executed) \cap Request :
          ( /\ Primary(o) \in executed
            /\ report[<<o, "snapshot">>].outcome # "completed"
            /\ status = "ready" )
          => r[1] = o]_vars

(* A worker that keeps taking its steps gives up the session at its deadline, even
   when the emulator is hung, no stop comes and every other process is hung too
   (Deadline.check in the poll loop of send_command). *)
OwnershipEnds ==
    \A o \in Ops : WF_vars(WorkerStep(o)) => [](opLock = o => <>(opLock # o))

(* A stop that has its locks retires the session, unless it is itself refused or
   killed, although the owner of the operation lock may never let go (recovery,
   Recovery.finish). *)
StopEnds ==
    \A s \in Stops : [](stopPc[s] = "fencing" => <>(stopPc[s] \in {"stopped", "failed"}))

(* What OwnershipEnds and StopEnds rest on, whoever is hung or killed.  Whoever keeps
   the state lock from one step to the next, a worker between a journal record and
   its command file or a stop at its two writes, has already the one other flock it
   needs: no two processes wait for each other, and the 0.5 s wait of the others is
   for a process that has only to run.  No stop meets a lock kept by a worker once
   it has fenced, and a root body that returned finds its journal resolved. *)
LocksAreOrdered ==
    /\ \A o \in Ops : stateLock = o => opLock = o
    /\ \A s \in Stops : stateLock = s => stopLock = s /\ stopPc[s] \in {"fencing", "retiring"}
    /\ \A s \in Stops : stopPc[s] \in {"fenced", "terminated"} => stateLock = Nobody
    /\ \A o \in Ops : pc[o] = "returning" /\ Owned(o) => Resolved(operation)

RequestsLeft == [command |-> 2, settle |-> 1, snapshot |-> 0]
StepsLeft ==
    [idle |-> 11, owner |-> 10, publishing |-> 9, writing |-> 8, waiting |-> 7, expired |-> 6,
     withdrawing |-> 5, withdrawn |-> 4, unsettled |-> 3, unwinding |-> 2, returning |-> 1,
     done |-> 0, crashed |-> 0]
WorkLeft(o) == 11 * RequestsLeft[phase[o]] + StepsLeft[pc[o]]

(* Every step of a worker takes it nearer to the end of its call, and nobody else
   sends it back: no retry, resumed poll or second withdrawal, also not when the
   state lock was busy (send_command, _Directory.lock). *)
WorkersProgress ==
    /\ []LocksAreOrdered
    /\ [][\A o \in Ops :
            UNCHANGED <<pc[o], phase[o]>> \/ WorkLeft(o)' \in 0..(WorkLeft(o) - 1)]_vars

(* The session implements the promise: a request is outstanding while a living
   emulator may still run it. *)
Outstanding == {r \in Request : alive /\ MayRun(r)}
Promise == INSTANCE SerialExecution
              WITH Served <- Request, mode <- status,
                   outstanding <- Outstanding, ran <- executed \cap Request
ImplementsPromise == Promise!AbsSpec
====
