---- MODULE SessionTransactionInv ----
(***************************************************************************)
(* The inductive invariant of SessionTransaction: why the fence holds.     *)
(***************************************************************************)
EXTENDS SessionTransaction

Guarding(o) == pc[o] \in {"publishing", "writing", "withdrawing", "withdrawn"}

(* Flocks are held exactly while the code is inside their with-blocks, and no
   worker holds the state lock of a fenced generation. *)
LockInv ==
    /\ \A o \in Ops : opLock = o <=> Live(o)
    /\ \A o \in Ops : stateLock = o <=> Guarding(o)
    /\ stateLock \in Ops => status = "ready"
StopLockInv ==
    \A s \in Stops :
        /\ stateLock = s <=> stopPc[s] \in {"fencing", "retiring"}
        /\ stopLock = s <=> stopPc[s] \in {"fencing", "fenced", "terminated", "retiring"}

(* Under the state lock the journal says that this worker's request is pending. *)
PendingInv ==
    \A o \in Ops : Guarding(o) => Owned(o) /\ operation.pending = Req(o)

Later(p, q) == \/ q = "command" /\ p \in {"settle", "snapshot"}
               \/ q = "settle" /\ p = "snapshot"

(* No trace of the request anywhere. *)
Untouched(r) ==
    /\ report[r].outcome = "none" /\ r \notin executed
    /\ command # r /\ private # r /\ claimed # r /\ response.id # r

(* A request leaves no trace before its publication. *)
FreshInv ==
    \A o \in Ops :
        /\ pc[o] = "idle" => phase[o] = "command"
        /\ pc[o] \in {"idle", "owner", "publishing", "writing"} => Untouched(Req(o))
        /\ \A p \in Phases : Later(p, phase[o]) => Untouched(<<o, p>>)

(* A request is in one place: command.lua, the private withdrawal path or the
   bridge; a response is written last. *)
PlaceInv ==
    /\ bridge = "idle" => claimed = NoRequest
    /\ bridge = "ran" => claimed \in executed
    /\ \A r \in Request :
          /\ command = r => r \notin executed /\ private # r /\ claimed # r
          /\ private = r => r \notin executed /\ claimed # r
          /\ claimed = r => response.id # r /\ (bridge = "loaded" => r \notin executed)
          /\ response.id = r => r \in executed

(* Withdrawal renames either this worker's request or a foreign file. *)
WithdrawInv ==
    /\ \A o \in Ops : pc[o] = "withdrawn" => private \in {Req(o), Foreign}
    /\ private # NoRequest => \E o \in Ops : pc[o] = "withdrawn"

(* A composite reaches its later phases only after its command ran. *)
CompositeInv ==
    \A o \in Composites :
        /\ phase[o] # "command" => Primary(o) \in executed
        /\ pc[o] = "returning" => phase[o] = "snapshot"

(* A stop past its fence has fenced; past termination the group is gone. *)
StopInv ==
    \A s \in Stops :
        /\ stopPc[s] \in {"fenced", "terminated", "retiring"} => status # "ready"
        /\ stopPc[s] \in {"terminated", "retiring"} => ~alive

(* A composite whose command ran owns the ready journal as started, until its
   capture is recorded.  It follows from IInv and is proved beside it. *)
Snapshot(o) == <<o, "snapshot">>
Unfinished(o) ==
    status = "ready" /\ Primary(o) \in executed /\ report[Snapshot(o)].outcome # "completed"
RecordInv ==
    operation # NoOp =>
        /\ operation.composite <=> operation.id \in Composites
        /\ operation.pending # NoRequest =>
              operation.started /\ operation.pending[1] = operation.id
SavedInv ==
    \A o \in Composites :
        /\ Guarding(o) \/ pc[o] \in {"waiting", "expired"} => phase[o] = "command" \/ saved[o]
        /\ report[Snapshot(o)].outcome = "completed" =>
              pc[o] \in {"unwinding", "returning", "done", "crashed"}
        /\ pc[o] = "returning" => report[Snapshot(o)].outcome = "completed"
HeldInv ==
    /\ RecordInv
    /\ SavedInv
    /\ \A o \in Composites :
          Unfinished(o) => operation # NoOp /\ operation.id = o /\ operation.started

(* At most one request may run, also in a fenced session.  It follows a step
   behind IInv and is proved beside it. *)
SerialInv == \A q, r \in Request : MayRun(q) /\ MayRun(r) => q = r

IInv ==
    /\ TypeOK
    /\ LockInv
    /\ StopLockInv
    /\ PendingInv
    /\ FreshInv
    /\ PlaceInv
    /\ WithdrawInv
    /\ CompositeInv
    /\ StopInv
    /\ UnresolvedWorkIsFenced
    /\ LiveWorkerOwnsJournal
    /\ NotExecutedIsProof
    /\ CompletedIsProof
    /\ StoppedIsQuiet
====
