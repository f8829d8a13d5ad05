---- MODULE SessionTransactionProofs ----
(***************************************************************************)
(* The theorems about one generation of a session directory.              *)
(***************************************************************************)
EXTENDS SessionTransactionInvProofs

(* A started session satisfies the invariant. *)
LEMMA InitInv == Init => IInv
<1> SUFFICES ASSUME Init PROVE IInv
  OBVIOUS
<1>1. TypeOK
  <2>1. JournalType /\ LockType /\ EmulatorType
    BY DEF Init, JournalType, LockType, EmulatorType, File
  <2>2. WorkerType
    BY DEF Init, WorkerType, Places, Phases, Reports, Outcomes
  <2>3. FileType
    BY BoundAssumption DEF Init, FileType, File, NoResponse
  <2> QED
    BY <2>1, <2>2, <2>3 DEF Init, TypeOK, StopPlaces
<1>2. \A r \in Request : ~MayRun(r) /\ Untouched(r)
  BY RequestAssumption DEF Init, MayRun, Untouched, NoResponse
<1>3. LockInv /\ StopLockInv /\ PendingInv /\ WithdrawInv /\ CompositeInv /\ StopInv
  BY HolderAssumption, OpsAssumption
     DEF Init, LockInv, StopLockInv, PendingInv, WithdrawInv, CompositeInv, StopInv,
     Guarding, Live
<1>4. FreshInv
  BY <1>2 DEF Init, FreshInv, Request, Req, Phases
<1>5. PlaceInv
  BY <1>2 DEF Init, PlaceInv, Untouched
<1>6. UnresolvedWorkIsFenced /\ LiveWorkerOwnsJournal /\ NotExecutedIsProof
      /\ CompletedIsProof /\ StoppedIsQuiet
  BY <1>2 DEF Init, UnresolvedWorkIsFenced, LiveWorkerOwnsJournal, NotExecutedIsProof,
       CompletedIsProof, StoppedIsQuiet, Live
<1> QED
  BY <1>1, <1>3, <1>4, <1>5, <1>6 DEF IInv

(* The invariant that carries every theorem below: flocks are held exactly inside
   their with-blocks, the journal names the request being published or withdrawn,
   and a request is in one place at a time. *)
THEOREM Invariant == Spec => []IInv
BY InitInv, InvStep, PTL DEF Spec

(* The journal, the locks, the files and the reports keep their types. *)
THEOREM TypeCorrect == Spec => []TypeOK
<1>1. IInv => TypeOK
  BY DEF IInv
<1> QED
  BY <1>1, Invariant, PTL

(* "Unresolved work stays fenced": for any number of operations, stops, crashes,
   withdrawals and half-done writes, a request that may still run is the one a ready
   journal holds pending, so transaction() admits no successor beside it. *)
THEOREM UnresolvedWorkStaysFenced == Spec => []UnresolvedWorkIsFenced
<1>1. IInv => UnresolvedWorkIsFenced
  BY DEF IInv
<1> QED
  BY <1>1, Invariant, PTL

(* Reclaiming abandoned work never retires the operation of a live worker. *)
THEOREM LiveOwnership == Spec => []LiveWorkerOwnsJournal
<1>1. IInv => LiveWorkerOwnsJournal
  BY DEF IInv
<1> QED
  BY <1>1, Invariant, PTL

(* Apart from the report of a late fence, a caller told not_executed can rely on it
   for ever: the request has not run and no file or bridge still holds it. *)
THEOREM NotExecutedProves == Spec => []NotExecutedIsProof
<1>1. IInv => NotExecutedIsProof
  BY DEF IInv
<1> QED
  BY <1>1, Invariant, PTL

(* A caller told completed can rely on it: the handler ran. *)
THEOREM CompletedProves == Spec => []CompletedIsProof
<1>1. IInv => CompletedIsProof
  BY DEF IInv
<1> QED
  BY <1>1, Invariant, PTL

(* A session is journaled stopped only after its emulator group is gone. *)
THEOREM StoppedProves == Spec => []StoppedIsQuiet
<1>1. IInv => StoppedIsQuiet
  BY DEF IInv
<1> QED
  BY <1>1, Invariant, PTL
----
(* What a step does to command.lua, to the bridge and to what has run. *)

WritesCommand(o) ==
    /\ pc[o] = "writing" /\ command' = Req(o)
    /\ UNCHANGED <<status, alive, claimed, bridge, executed>>

DropsCommand ==
    /\ command' \in {NoRequest, Foreign}
    /\ UNCHANGED <<status, alive, claimed, bridge, executed>>

LosesClaim ==
    /\ bridge' = "idle" /\ claimed' = NoRequest
    /\ alive' = FALSE \/ (alive' = alive /\ bridge = "ran")
    /\ UNCHANGED <<status, command, executed>>

(* Only the publisher puts a request of this host into command.lua. *)
LEMMA CommandStep ==
    ASSUME IInv, [Next]_vars
    PROVE  \/ UNCHANGED <<alive, command, claimed, bridge, executed>>
           \/ \E o \in Ops : WritesCommand(o)
           \/ DropsCommand
           \/ Claim \/ Execute
           \/ LosesClaim
<1>1. ASSUME NEW o \in Ops,
             \/ Acquire(o) \/ AcquireRefused(o) \/ AcquireBusy(o) \/ PublishJournal(o)
             \/ DispatchRefused(o)
             \/ BeginCommand(o) \/ CommandExists(o) \/ PublishExpired(o)
             \/ Complete(o) \/ CompleteWithError(o) \/ CompleteFenced(o)
             \/ CheckFenced(o) \/ ProcessDead(o) \/ PollRaises(o) \/ Expire(o)
      PROVE  UNCHANGED <<alive, command, claimed, bridge, executed>>
  BY <1>1 DEF Acquire, AcquireRefused, AcquireBusy, PublishJournal, DispatchRefused,
       BeginCommand,
       CommandExists, PublishExpired, Complete, CompleteWithError, CompleteFenced,
       CheckFenced, ProcessDead, PollRaises, Expire, emulator, files
<1>2. ASSUME NEW o \in Ops,
             \/ ReconcileUnknown(o) \/ WithdrawOpen(o) \/ WithdrawLost(o) \/ WithdrawCommit(o)
             \/ MarkUncertain(o) \/ Finish(o) \/ FinishRaises(o) \/ FinishFenced(o)
             \/ FinishBusy(o)
             \/ FinishFailed(o) \/ Crash(o)
      PROVE  UNCHANGED <<alive, command, claimed, bridge, executed>>
  BY <1>2 DEF ReconcileUnknown, WithdrawOpen, WithdrawLost, WithdrawCommit, MarkUncertain,
       Finish, FinishRaises, FinishFenced, FinishBusy, FinishFailed, Crash, emulator, files
<1>3. ASSUME NEW o \in Ops, WriteCommand(o) \/ WriteCommandFails(o)
      PROVE  WritesCommand(o) \/ UNCHANGED <<alive, command, claimed, bridge, executed>>
  BY <1>3 DEF WriteCommand, WriteCommandFails, WritesCommand, emulator, journal
<1>4. ASSUME NEW o \in Ops, WithdrawRename(o)
      PROVE  DropsCommand
  BY <1>4 DEF WithdrawRename, DropsCommand, emulator, journal
<1>5. ASSUME NEW o \in Ops, WithdrawForeign(o)
      PROVE  DropsCommand \/ UNCHANGED <<alive, command, claimed, bridge, executed>>
  <2>1. private \in {Req(o), Foreign} /\ private # Req(o)
    BY <1>5 DEF WithdrawForeign, IInv, WithdrawInv
  <2> QED
    BY <1>5, <2>1 DEF WithdrawForeign, DropsCommand, emulator, journal
<1>6. CASE WriteHeartbeat
  BY <1>6 DEF WriteHeartbeat, files
<1>7. CASE Respond \/ EmulatorExits
  BY <1>7 DEF Respond, EmulatorExits, Die, LosesClaim, journal, files
<1>8. CASE ForeignCommand
  BY <1>8 DEF ForeignCommand, DropsCommand, journal, emulator
<1>9. ASSUME NEW s \in Stops,
             \/ Fence(s) \/ FenceRefused(s) \/ FenceLock(s)
             \/ StopFails(s) \/ RetireLock(s) \/ RecoveryFinish(s)
      PROVE  UNCHANGED <<alive, command, claimed, bridge, executed>>
  BY <1>9 DEF Fence, FenceRefused, FenceLock, StopFails, RetireLock, RecoveryFinish,
       emulator, files
<1>10. ASSUME NEW s \in Stops, Terminate(s)
       PROVE  LosesClaim
  BY <1>10 DEF Terminate, Die, LosesClaim, journal, files
<1>11. CASE UNCHANGED vars
  BY <1>11 DEF vars, emulator, files
<1> QED
  BY <1>1, <1>2, <1>3, <1>4, <1>5, <1>6, <1>7, <1>8, <1>9, <1>10, <1>11
     DEF Next, WorkerStep, StopStep, Bridge

(* Only a stop changes the state of the journal: to stopping at its fence, to
   stopped after the group is confirmed gone. *)
LEMMA StatusStep ==
    ASSUME IInv, [Next]_vars
    PROVE  \/ status' = status
           \/ status' = "stopping"
           \/ status' = "stopped" /\ status # "ready" /\ ~alive
<1>1. ASSUME NEW o \in Ops,
             \/ Acquire(o) \/ AcquireRefused(o) \/ AcquireBusy(o)
             \/ PollRaises(o) \/ Crash(o)
      PROVE  status' = status
  BY <1>1 DEF Acquire, AcquireRefused, AcquireBusy, PollRaises, Crash, journal
<1>2. ASSUME NEW o \in Ops, WorkerStep(o)
      PROVE  status' = status
  BY <1>2 DEF WorkerStep, PublishJournal, DispatchRefused, BeginCommand, CommandExists,
       WriteCommand, WriteCommandFails, PublishExpired, Complete, CompleteWithError,
       CompleteFenced, CheckFenced, ProcessDead, Expire, ReconcileUnknown, WithdrawOpen,
       WithdrawLost, WithdrawRename, WithdrawCommit, WithdrawForeign, MarkUncertain, Finish,
       FinishRaises, FinishFenced, FinishBusy, FinishFailed, journal
<1>3. CASE Bridge \/ EmulatorExits \/ ForeignCommand \/ UNCHANGED vars
  BY <1>3 DEF Bridge, WriteHeartbeat, Claim, Execute, Respond, EmulatorExits, ForeignCommand,
       vars, journal
<1>4. ASSUME NEW s \in Stops, Fence(s)
      PROVE  status' \in {status, "stopping"}
  BY <1>4, WriteResultsDisk DEF Fence
<1>5. ASSUME NEW s \in Stops,
             \/ FenceRefused(s) \/ FenceLock(s) \/ Terminate(s)
             \/ StopFails(s) \/ RetireLock(s)
      PROVE  status' = status
  BY <1>5 DEF FenceRefused, FenceLock, Terminate, StopFails, RetireLock, journal
<1>6. ASSUME NEW s \in Stops, RecoveryFinish(s)
      PROVE  status' = status \/ (status' = "stopped" /\ status # "ready" /\ ~alive)
  <2>1. status # "ready" /\ ~alive
    BY <1>6 DEF RecoveryFinish, IInv, StopInv
  <2>2. PICK w \in WriteResults(journal, <<"stopped", NoOp>>) : status' = w.disk[1]
    BY <1>6 DEF RecoveryFinish
  <2>3. w.disk \in {journal, <<"stopped", NoOp>>}
    BY WriteResultsDisk
  <2> QED
    BY <2>1, <2>2, <2>3 DEF journal
<1> QED
  BY <1>1, <1>2, <1>3, <1>4, <1>5, <1>6 DEF Next, StopStep

(* A publisher at its write holds the ready journal, and its request is fresh. *)
LEMMA PublisherIsFresh ==
    ASSUME IInv, NEW o \in Ops, pc[o] = "writing"
    PROVE  /\ status = "ready" /\ operation # NoOp /\ operation.pending = Req(o)
           /\ Req(o) \in Request /\ Untouched(Req(o))
<1>1. Req(o) \in Request
  BY RequestType DEF IInv, TypeOK
<1>2. Owned(o) /\ operation.pending = Req(o)
  BY DEF IInv, PendingInv, Guarding
<1>3. Untouched(Req(o))
  BY DEF IInv, FreshInv
<1> QED
  BY <1>1, <1>2, <1>3 DEF Owned
----
(* Stop's fence is for ever, also when it fails, crashes or is retried: no step
   leads back to ready, and no late worker publishes into the fenced generation. *)
THEOREM FenceHolds == Spec => FenceIsFinal
<1>1. ASSUME IInv, [Next]_vars, status # "ready"
      PROVE  status' # "ready" /\ command' \in {command, NoRequest, Foreign}
  <2>1. status' # "ready"
    BY <1>1, StatusStep
  <2>2. \A o \in Ops : ~WritesCommand(o)
    BY <1>1, PublisherIsFresh DEF WritesCommand
  <2>3. command' \in {command, NoRequest, Foreign}
    BY <1>1, <2>2, CommandStep DEF DropsCommand, Claim, Execute, LosesClaim, files
  <2> QED
    BY <2>1, <2>3
<1> QED
  BY <1>1, Invariant, PTL DEF Spec, FenceIsFinal

(* A request is never sent again once it has run, whether its worker expired, died,
   was reclaimed or was stopped. *)
THEOREM NothingIsReplayed == Spec => NoReplay
<1>1. ASSUME IInv, [Next]_vars
      PROVE  \A r \in Request : r \in executed => ~(command' = r /\ command # r)
  <2>1. SUFFICES ASSUME NEW r \in Request, r \in executed
                 PROVE  ~(command' = r /\ command # r)
    OBVIOUS
  <2>2. \A o \in Ops : WritesCommand(o) => command' # r
    BY <1>1, <2>1, PublisherIsFresh DEF WritesCommand, Untouched
  <2> QED
    BY <1>1, <2>1, <2>2, CommandStep, RequestAssumption
       DEF DropsCommand, Claim, Execute, LosesClaim, files
<1> QED
  BY <1>1, Invariant, PTL DEF Spec, NoReplay
----
(* The refinement: a session implements SerialExecution. *)

(* Once fenced, what may run only shrinks; a ready journal names the one request
   that may run. *)
LEMMA SerialStep ==
    ASSUME IInv, IInv', SerialInv, [Next]_vars
    PROVE  SerialInv'
<1>1. CASE status' = "ready"
  BY <1>1 DEF IInv, UnresolvedWorkIsFenced, SerialInv
<1>2. CASE status' # "ready"
  <2>1. \A o \in Ops : ~WritesCommand(o)
    BY <1>2, PublisherIsFresh DEF WritesCommand
  <2>2. ASSUME NEW r \in Request, MayRun(r)'
        PROVE  MayRun(r)
    BY <2>1, <2>2, CommandStep, RequestAssumption
       DEF MayRun, DropsCommand, Claim, Execute, LosesClaim, files
  <2> QED
    BY <2>2 DEF SerialInv
<1> QED
  BY <1>1, <1>2

(* At most one request may run at any time, also in a fenced session. *)
THEOREM OneRequestMayRun == Spec => []SerialInv
<1>1. Init => SerialInv
  BY RequestAssumption DEF Init, SerialInv, MayRun
<1>2. IInv /\ IInv' /\ SerialInv /\ [Next]_vars => SerialInv'
  BY SerialStep
<1> QED
  BY <1>1, <1>2, Invariant, PTL DEF Spec

(* The emulator loses what it was working on, or dies: nothing is outstanding. *)
LEMMA LossSettles ==
    ASSUME IInv, SerialInv, LosesClaim
    PROVE  Outstanding' = {} \/ Outstanding' = Outstanding
<1>1. CASE alive' = FALSE
  BY <1>1 DEF Outstanding
<1>2. CASE alive' = alive /\ bridge = "ran" /\ claimed \in Request
  <2>1. \A r \in Request : ~MayRun(r)'
    BY <1>2 DEF LosesClaim, MayRun, SerialInv, IInv, PlaceInv
  <2> QED
    BY <2>1 DEF Outstanding
<1>3. CASE alive' = alive /\ claimed \notin Request
  <2>1. \A r \in Request : MayRun(r)' <=> MayRun(r)
    BY <1>3, RequestAssumption DEF LosesClaim, MayRun
  <2> QED
    BY <1>3, <2>1 DEF Outstanding
<1> QED
  BY <1>1, <1>2, <1>3 DEF LosesClaim

(* A withdrawn or overwritten command file was the one outstanding request. *)
LEMMA DropSettles ==
    ASSUME IInv, SerialInv, DropsCommand
    PROVE  Outstanding' = {} \/ Outstanding' = Outstanding
<1>1. CASE command \in Request
  <2>1. \A r \in Request : ~MayRun(r)'
    BY <1>1, RequestAssumption DEF DropsCommand, MayRun, SerialInv, IInv, PlaceInv
  <2> QED
    BY <2>1 DEF Outstanding
<1>2. CASE command \notin Request
  <2>1. \A r \in Request : MayRun(r)' <=> MayRun(r)
    BY <1>2, RequestAssumption DEF DropsCommand, MayRun
  <2> QED
    BY <2>1 DEF Outstanding, DropsCommand
<1> QED
  BY <1>1, <1>2

(* Writing command.lua admits the publisher's request, if the emulator lives. *)
LEMMA WriteAdmits ==
    ASSUME IInv, SerialInv', NEW o \in Ops, WritesCommand(o)
    PROVE  \/ Outstanding' = Outstanding
           \/ Outstanding = {} /\ Outstanding' = {Req(o)}
<1>1. /\ status = "ready" /\ operation # NoOp /\ operation.pending = Req(o)
      /\ Req(o) \in Request /\ Untouched(Req(o))
  BY PublisherIsFresh DEF WritesCommand
<1>2. ~MayRun(Req(o))
  BY <1>1 DEF Untouched, MayRun
<1>3. \A r \in Request : ~MayRun(r)
  BY <1>1, <1>2 DEF IInv, UnresolvedWorkIsFenced
<1>4. \A r \in Request : MayRun(r)' <=> r = Req(o)
  BY <1>1, <1>3 DEF WritesCommand, MayRun
<1>5. CASE alive
  BY <1>1, <1>3, <1>4, <1>5 DEF Outstanding, WritesCommand
<1>6. CASE ~alive
  BY <1>6 DEF Outstanding, WritesCommand
<1> QED
  BY <1>5, <1>6 DEF IInv, TypeOK, EmulatorType

(* Every step is a step of the promise or leaves it unchanged. *)
LEMMA PromiseStep ==
    ASSUME IInv, SerialInv, SerialInv', [Next]_vars
    PROVE  [Promise!AbsNext]_(Promise!absVars)
<1>1. CASE UNCHANGED <<alive, command, claimed, bridge, executed>>
  <2>1. Outstanding' = Outstanding /\ UNCHANGED executed
    BY <1>1 DEF Outstanding, MayRun
  <2>2. ~alive => Outstanding = {}
    BY DEF Outstanding
  <2>3. status \in {"ready", "stopping", "stopped"}
    BY DEF IInv, TypeOK, JournalType
  <2> QED
    BY <2>1, <2>2, <2>3, StatusStep
       DEF Promise!AbsNext, Promise!absVars, Promise!Stop, Promise!Retire
<1>2. ASSUME NEW o \in Ops, WritesCommand(o)
      PROVE  [Promise!AbsNext]_(Promise!absVars)
  <2>1. status = "ready" /\ Req(o) \in Request /\ Req(o) \notin executed
    BY <1>2, PublisherIsFresh DEF WritesCommand, Untouched
  <2>2. \/ Outstanding' = Outstanding
        \/ Outstanding = {} /\ Outstanding' = {Req(o)}
    BY <1>2, WriteAdmits
  <2>3. UNCHANGED <<status, executed>>
    BY <1>2 DEF WritesCommand
  <2> QED
    BY <2>1, <2>2, <2>3 DEF Promise!AbsNext, Promise!absVars, Promise!Admit
<1>3. CASE DropsCommand
  <2>1. UNCHANGED <<status, executed>>
    BY <1>3 DEF DropsCommand
  <2> QED
    BY <1>3, <2>1, DropSettles DEF Promise!AbsNext, Promise!absVars, Promise!Settle
<1>4. CASE Claim
  <2>1. UNCHANGED <<status, executed, alive>>
    BY <1>4 DEF Claim, journal
  <2>2. \A r \in Request : MayRun(r)' <=> MayRun(r)
    BY <1>4, RequestAssumption DEF Claim, MayRun
  <2> QED
    BY <2>1, <2>2 DEF Outstanding, Promise!absVars
<1>5. CASE Execute
  <2>1. /\ UNCHANGED <<status, alive, command, claimed>>
        /\ alive /\ bridge = "loaded" /\ bridge' = "ran"
        /\ executed' = executed \cup {claimed}
    BY <1>5 DEF Execute, journal, files
  <2>2. Outstanding' = Outstanding
    BY <2>1 DEF Outstanding, MayRun
  <2>3. CASE claimed \in Request
    <3>1. claimed \in Outstanding \ (executed \cap Request)
      BY <2>1, <2>3 DEF Outstanding, MayRun, IInv, PlaceInv
    <3>2. (executed \cap Request)' = (executed \cap Request) \cup {claimed}
      BY <2>1, <2>3
    <3> QED
      BY <2>1, <2>2, <2>3, <3>1, <3>2 DEF Promise!AbsNext, Promise!Run
  <2>4. CASE claimed \notin Request
    BY <2>1, <2>2, <2>4 DEF Promise!absVars
  <2> QED
    BY <2>3, <2>4
<1>6. CASE LosesClaim
  <2>1. UNCHANGED <<status, executed>>
    BY <1>6 DEF LosesClaim
  <2> QED
    BY <1>6, <2>1, LossSettles DEF Promise!AbsNext, Promise!absVars, Promise!Settle
<1> QED
  BY <1>1, <1>2, <1>3, <1>4, <1>5, <1>6, CommandStep

(* A session keeps its promise: requests run one at a time, each at most once, only
   when admitted to a ready session, and a session is retired only with no request
   outstanding. *)
THEOREM SessionKeepsPromise == Spec => ImplementsPromise
<1>1. Init => Promise!AbsInit
  BY RequestAssumption DEF Init, Promise!AbsInit, Outstanding, MayRun
<1>2. IInv /\ SerialInv /\ SerialInv' /\ [Next]_vars => [Promise!AbsNext]_(Promise!absVars)
  BY PromiseStep
<1> QED
  BY <1>1, <1>2, Invariant, OneRequestMayRun, PTL DEF Spec, ImplementsPromise, Promise!AbsSpec
----
(* A composite is not interleaved: HeldInv. *)

(* What the journal writes of a worker do to the other fields of the record. *)
LEMMA RecordFlags ==
    ASSUME TypeOK, operation # NoOp, NEW o \in Ops
    PROVE  /\ Started(o).started /\ Started(o).composite = operation.composite
           /\ Restored(o).started = saved[o] /\ Restored(o).composite = operation.composite
           /\ Completed.started = operation.started
           /\ Completed.composite = operation.composite
           /\ Uncertain.started = operation.started
           /\ Uncertain.composite = operation.composite
           /\ Uncertain.pending = operation.pending
<1>1. operation \in Operation
  BY DEF TypeOK, JournalType
<1> QED
  BY <1>1 DEF Operation, Started, Restored, Completed, Uncertain

(* Which worker may replace the journaled operation, and by what. *)
Takes(o) == /\ pc[o] = "idle" /\ Admissible /\ operation' = NewOperation(o)
Starts(o) == /\ pc[o] = "owner" /\ Owned(o) /\ operation' = Started(o)
Restores(o) == /\ \/ pc[o] \in {"publishing", "writing"}
                  \/ pc[o] = "withdrawn" /\ private = Req(o)
               /\ operation' = Restored(o)
Notes(o) == /\ Owned(o) /\ operation' \in {Completed, Uncertain}
Retires(o) == /\ Owned(o) /\ operation' = NoOp
              /\ \/ pc[o] = "returning"
                 \/ ~(operation.composite /\ operation.started)

LEMMA JournalStep ==
    ASSUME IInv, [Next]_vars
    PROVE  \/ operation' = operation
           \/ status # "ready" /\ operation' = NoOp
           \/ \E o \in Ops : Takes(o) \/ Starts(o) \/ Restores(o) \/ Notes(o) \/ Retires(o)
<1>1. ASSUME NEW o \in Ops, Acquire(o) PROVE operation' = operation \/ Takes(o)
  BY <1>1, WriteResultsDisk DEF Acquire, Takes
<1>2. ASSUME NEW o \in Ops, PublishJournal(o) PROVE operation' = operation \/ Starts(o)
  BY <1>2, WriteResultsDisk DEF PublishJournal, CanPublish, Starts
<1>3. ASSUME NEW o \in Ops, PublishExpired(o) PROVE operation' = operation \/ Restores(o)
  BY <1>3, WriteResultsDisk DEF PublishExpired, Restores
<1>4. ASSUME NEW o \in Ops, WithdrawCommit(o) PROVE operation' = operation \/ Restores(o)
  BY <1>4, WriteResultsDisk DEF WithdrawCommit, Restores
<1>5. ASSUME NEW o \in Ops, Complete(o) \/ CompleteWithError(o)
      PROVE  operation' = operation \/ Notes(o)
  BY <1>5, WriteResultsDisk DEF Complete, CompleteWithError, OwnsPending, Notes
<1>6. ASSUME NEW o \in Ops, MarkUncertain(o) PROVE operation' = operation \/ Notes(o)
  BY <1>6, WriteResultsDisk DEF MarkUncertain, Notes
<1>7. ASSUME NEW o \in Ops, Finish(o) \/ FinishRaises(o) \/ FinishFailed(o)
      PROVE  operation' = operation \/ Notes(o) \/ Retires(o)
  BY <1>7 DEF Finish, FinishRaises, FinishFailed, Retirements, Notes, Retires
<1>8. ASSUME NEW o \in Ops,
             \/ AcquireRefused(o) \/ AcquireBusy(o) \/ DispatchRefused(o)
             \/ BeginCommand(o) \/ CommandExists(o)
             \/ WriteCommand(o) \/ WriteCommandFails(o) \/ CompleteFenced(o) \/ CheckFenced(o)
             \/ ProcessDead(o) \/ PollRaises(o) \/ Expire(o) \/ ReconcileUnknown(o)
             \/ WithdrawOpen(o) \/ WithdrawLost(o) \/ WithdrawRename(o) \/ WithdrawForeign(o)
             \/ FinishFenced(o) \/ FinishBusy(o) \/ Crash(o)
      PROVE  operation' = operation
  BY <1>8 DEF AcquireRefused, AcquireBusy, DispatchRefused, BeginCommand, CommandExists,
       WriteCommand,
       WriteCommandFails, CompleteFenced, CheckFenced, ProcessDead, PollRaises, Expire,
       ReconcileUnknown, WithdrawOpen, WithdrawLost, WithdrawRename, WithdrawForeign,
       FinishFenced, FinishBusy, Crash, journal
<1>9. CASE Bridge \/ EmulatorExits \/ ForeignCommand \/ UNCHANGED vars
  BY <1>9 DEF Bridge, WriteHeartbeat, Claim, Execute, Respond, EmulatorExits, ForeignCommand,
       vars, journal
<1>10. ASSUME NEW s \in Stops,
              \/ Fence(s) \/ FenceRefused(s) \/ FenceLock(s)
              \/ Terminate(s) \/ StopFails(s) \/ RetireLock(s)
       PROVE  operation' = operation
  BY <1>10 DEF Fence, FenceRefused, FenceLock, Terminate, StopFails, RetireLock, journal
<1>11. ASSUME NEW s \in Stops, RecoveryFinish(s)
       PROVE  operation' = operation \/ (status # "ready" /\ operation' = NoOp)
  <2>1. status # "ready"
    BY <1>11 DEF RecoveryFinish, IInv, StopInv
  <2>2. PICK w \in WriteResults(journal, <<"stopped", NoOp>>) : operation' = w.disk[2]
    BY <1>11 DEF RecoveryFinish
  <2>3. w.disk \in {journal, <<"stopped", NoOp>>}
    BY WriteResultsDisk
  <2> QED
    BY <2>1, <2>2, <2>3 DEF journal
<1> QED
  BY <1>1, <1>2, <1>3, <1>4, <1>5, <1>6, <1>7, <1>8, <1>9, <1>10, <1>11 DEF Next,
       WorkerStep, StopStep

(* The record names a composite as one, and a pending request as its own. *)
LEMMA RecordStep ==
    ASSUME IInv, RecordInv, [Next]_vars
    PROVE  RecordInv'
<1>1. TypeOK
  BY DEF IInv
<1>2. CASE operation' = operation \/ operation' = NoOp
  BY <1>2 DEF RecordInv
<1>3. ASSUME NEW o \in Ops, Takes(o) PROVE RecordInv'
  BY <1>3 DEF Takes, NewOperation, RecordInv
<1>4. ASSUME NEW o \in Ops, Starts(o) PROVE RecordInv'
  <2>1. operation # NoOp /\ operation.id = o
    BY <1>4 DEF Starts, Owned
  <2>2. Req(o)[1] = o
    BY DEF Req
  <2> QED
    BY <1>1, <1>4, <2>1, <2>2, RecordFields, RecordFlags DEF Starts, RecordInv
<1>5. ASSUME NEW o \in Ops, Restores(o) PROVE RecordInv'
  <2>1. operation # NoOp
    BY <1>5 DEF Restores, IInv, PendingInv, Guarding, Owned
  <2> QED
    BY <1>1, <1>5, <2>1, RecordFields, RecordFlags DEF Restores, RecordInv
<1>6. ASSUME NEW o \in Ops, Notes(o) PROVE RecordInv'
  BY <1>1, <1>6, RecordFields, RecordFlags DEF Notes, Owned, RecordInv
<1> QED
  BY <1>2, <1>3, <1>4, <1>5, <1>6, JournalStep DEF Retires

(* A capture once recorded as completed stays so, and only the worker of the
   composite records it, on its way out. *)
LEMMA SavedStep ==
    ASSUME IInv, IInv', HeldInv, [Next]_vars
    PROVE  /\ SavedInv'
           /\ \A o \in Composites :
                 report[Snapshot(o)].outcome = "completed"
                    => report'[Snapshot(o)].outcome = "completed"
<1>t. /\ TypeOK /\ TypeOK' /\ WorkerType /\ Composites \subseteq Ops
      /\ \A o \in Ops : Snapshot(o) \in Request /\ Primary(o) \in Request /\ Req(o) \in Request
      /\ \A o, c \in Ops : /\ Snapshot(o) # Primary(c)
                           /\ Snapshot(o) = Req(c) <=> o = c /\ phase[c] = "snapshot"
  BY OpsAssumption DEF IInv, TypeOK, WorkerType, Request, Phases, Snapshot, Primary, Req
<1>s. SavedInv
  BY DEF HeldInv
<1> DEFINE Goal == /\ SavedInv'
                   /\ \A o \in Composites :
                         report[Snapshot(o)].outcome = "completed"
                            => report'[Snapshot(o)].outcome = "completed"
<1>1. CASE UNCHANGED <<pc, phase, saved, report>>
  BY <1>1, <1>s DEF SavedInv, Guarding
<1>2. ASSUME NEW o \in Ops, Acquire(o) \/ AcquireRefused(o) \/ AcquireBusy(o)
      PROVE  Goal
  <2>1. /\ pc[o] = "idle" /\ UNCHANGED <<phase, saved>>
        /\ \E where \in {"owner", "done"} : pc' = [pc EXCEPT ![o] = where]
        /\ report' = report \/ \E x : report' = [report EXCEPT ![Primary(o)] = x]
    BY <1>2 DEF Acquire, AcquireRefused, AcquireBusy, Goto, Tell
  <2>2. \A c \in Composites : report'[Snapshot(c)] = report[Snapshot(c)]
    BY <1>t, <2>1 DEF WorkerType
  <2> QED
    BY <1>s, <1>t, <2>1, <2>2 DEF SavedInv, Guarding, WorkerType
<1>3. ASSUME NEW o \in Ops, PublishJournal(o)
      PROVE  Goal
  <2>1. /\ pc[o] = "owner" /\ Owned(o) /\ phase' = phase
        /\ saved' = [saved EXCEPT ![o] = operation.started]
        /\ \E where \in {"publishing", FailPc(o)} : pc' = [pc EXCEPT ![o] = where]
        /\ report' = report \/ Tell(Req(o), "not_executed", FALSE)
    BY <1>3 DEF PublishJournal, CanPublish, Fail, Goto
  <2>2. \A c \in Composites : report[Snapshot(c)].outcome = "completed" => c # o
    BY <1>s, <2>1 DEF SavedInv
  <2>3. \A c \in Composites : c # o => report'[Snapshot(c)] = report[Snapshot(c)]
    BY <1>t, <2>1 DEF WorkerType, Tell
  <2>4. o \in Composites => report'[Snapshot(o)].outcome # "completed"
    BY <1>t, <2>1, <2>2 DEF WorkerType, Tell
  <2>5. o \in Composites => phase[o] = "command" \/ saved'[o]
    <3>1. SUFFICES ASSUME o \in Composites, phase[o] # "command" PROVE operation.started
      BY <1>t, <2>1 DEF WorkerType
    <3>2. Unfinished(o)
      BY <2>1, <2>2, <3>1 DEF IInv, CompositeInv, Owned, Unfinished
    <3> QED
      BY <3>1, <3>2 DEF HeldInv
  <2>6. FailPc(o) \in {"unsettled", "unwinding"}
    BY DEF FailPc
  <2>7. \A c \in Ops : c # o => pc'[c] = pc[c] /\ saved'[c] = saved[c]
    BY <1>t, <2>1 DEF WorkerType
  <2>8. pc'[o] \in {"publishing", "unsettled", "unwinding"}
    BY <1>t, <2>1, <2>6 DEF WorkerType
  <2> QED
    BY <1>s, <1>t, <2>1, <2>2, <2>3, <2>4, <2>5, <2>7, <2>8 DEF SavedInv, Guarding
<1>4. ASSUME NEW o \in Ops,
             UNCHANGED <<phase, saved, report>>,
             \/ /\ pc[o] \in {"publishing", "writing", "waiting", "expired", "withdrawing"}
                /\ \E where \in {"writing", "waiting", "expired", "withdrawing", "withdrawn"} :
                      Goto(o, where)
             \/ pc[o] = "unsettled" /\ Goto(o, "unwinding")
             \/ pc[o] \in {"returning", "unwinding"} /\ Goto(o, "done")
             \/ Goto(o, "crashed")
      PROVE  Goal
  BY <1>4, <1>s, <1>t DEF SavedInv, Guarding, WorkerType, Goto
<1>5. ASSUME NEW o \in Ops, NEW outcome \in {"not_executed", "unknown"}, NEW late \in BOOLEAN,
             UNCHANGED <<phase, saved>>,
             pc[o] \notin {"unwinding", "returning", "done", "crashed"},
             Fail(o, outcome, late)
      PROVE  Goal
  <2>1. FailPc(o) \in {"unsettled", "unwinding"}
    BY DEF FailPc
  <2>2. \A c \in Composites : c # o => report'[Snapshot(c)] = report[Snapshot(c)]
    BY <1>5, <1>t DEF WorkerType, Fail, Tell
  <2>3. o \in Composites => report[Snapshot(o)].outcome # "completed"
    BY <1>5, <1>s DEF SavedInv
  <2>4. o \in Composites => report'[Snapshot(o)].outcome # "completed"
    BY <1>5, <1>t, <2>3 DEF WorkerType, Fail, Tell
  <2>5. pc'[o] = FailPc(o) /\ \A c \in Ops : c # o => pc'[c] = pc[c]
    BY <1>5, <1>t DEF WorkerType, Fail, Goto
  <2> QED
    BY <1>5, <1>s, <1>t, <2>1, <2>2, <2>3, <2>4, <2>5 DEF SavedInv, Guarding
<1>6. ASSUME NEW o \in Ops, CompleteWithError(o) \/ CompleteFenced(o)
      PROVE  Goal
  <2>1. /\ pc[o] \in {"waiting", "expired"} /\ UNCHANGED <<phase, saved>>
        /\ Fail(o, AnswerOutcome, FALSE)
    BY <1>6 DEF CompleteWithError, CompleteFenced
  <2>2. \A c \in Composites : c # o => report'[Snapshot(c)] = report[Snapshot(c)]
    BY <1>t, <2>1 DEF WorkerType, Fail, Tell
  <2>3. o \in Composites => report[Snapshot(o)].outcome # "completed"
    BY <1>s, <2>1 DEF SavedInv
  <2>4. o \in Composites /\ report'[Snapshot(o)].outcome = "completed" => phase[o] = "snapshot"
    BY <1>t, <2>1, <2>3 DEF WorkerType, Fail, Tell
  <2>5. phase[o] = "snapshot" => FailPc(o) = "unwinding"
    BY DEF FailPc
  <2>6. pc'[o] = FailPc(o) /\ \A c \in Ops : c # o => pc'[c] = pc[c]
    BY <1>t, <2>1 DEF WorkerType, Fail, Goto
  <2>7. FailPc(o) \in {"unsettled", "unwinding"}
    BY DEF FailPc
  <2> QED
    BY <1>s, <1>t, <2>1, <2>2, <2>3, <2>4, <2>5, <2>6, <2>7 DEF SavedInv, Guarding
<1>7. ASSUME NEW o \in Ops, Complete(o)
      PROVE  Goal
  <2>1. /\ pc[o] = "waiting" /\ saved' = saved
        /\ Tell(Req(o), AnswerOutcome, FALSE)
        /\ \/ /\ o \notin Composites \/ (phase[o] = "snapshot" /\ response.ok)
              /\ Goto(o, "returning") /\ phase' = phase
           \/ /\ o \in Composites /\ phase[o] # "snapshot"
              /\ Goto(o, "owner") /\ phase' = [phase EXCEPT ![o] = NextPhase(o)]
    BY <1>7 DEF Complete
  <2>2. \A c \in Composites : c # o => report'[Snapshot(c)] = report[Snapshot(c)]
    BY <1>t, <2>1 DEF WorkerType, Tell
  <2>3. o \in Composites => report[Snapshot(o)].outcome # "completed"
    BY <1>s, <2>1 DEF SavedInv
  <2>4. \A c \in Ops : c # o => pc'[c] = pc[c] /\ phase'[c] = phase[c]
    BY <1>t, <2>1 DEF WorkerType, Goto
  <2>5. ASSUME o \in Composites, pc'[o] = "returning"
        PROVE  report'[Snapshot(o)].outcome = "completed"
    <3>1. phase[o] = "snapshot" /\ response.ok
      BY <1>t, <2>1, <2>5 DEF WorkerType, Goto
    <3> QED
      BY <1>t, <2>1, <2>5, <3>1 DEF WorkerType, Tell, AnswerOutcome
  <2>6. o \in Composites /\ report'[Snapshot(o)].outcome = "completed" => pc'[o] = "returning"
    BY <1>t, <2>1, <2>3 DEF WorkerType, Tell, Goto
  <2>7. pc'[o] \in {"owner", "returning"}
    BY <1>t, <2>1 DEF WorkerType, Goto
  <2> QED
    BY <1>s, <1>t, <2>1, <2>2, <2>3, <2>4, <2>5, <2>6, <2>7 DEF SavedInv, Guarding
<1>8. ASSUME NEW o \in Ops, FinishRaises(o) \/ FinishFenced(o) \/ FinishBusy(o)
      PROVE  Goal
  <2>1. /\ pc[o] = "returning" /\ UNCHANGED <<phase, saved>> /\ Goto(o, "done")
        /\ \E x : report' = [report EXCEPT ![Primary(o)] = x]
    BY <1>8 DEF FinishRaises, FinishFenced, FinishBusy, Release, Tell
  <2>2. \A c \in Composites : report'[Snapshot(c)] = report[Snapshot(c)]
    BY <1>t, <2>1 DEF WorkerType
  <2> QED
    BY <1>s, <1>t, <2>1, <2>2 DEF SavedInv, Guarding, WorkerType, Goto
<1>9. ASSUME NEW o \in Ops,
             \/ BeginCommand(o) \/ WriteCommand(o) \/ Expire(o) \/ WithdrawOpen(o)
             \/ WithdrawRename(o) \/ MarkUncertain(o) \/ Finish(o) \/ FinishFailed(o)
             \/ Crash(o)
      PROVE  Goal
  <2>1. UNCHANGED <<phase, saved, report>>
    BY <1>9 DEF BeginCommand, WriteCommand, Expire, WithdrawOpen, WithdrawRename,
         MarkUncertain, Finish, FinishFailed, Crash
  <2>2. \/ /\ pc[o] \in {"publishing", "writing", "waiting", "expired", "withdrawing"}
           /\ \E where \in {"writing", "waiting", "expired", "withdrawing", "withdrawn"} :
                 Goto(o, where)
        \/ pc[o] = "unsettled" /\ Goto(o, "unwinding")
        \/ pc[o] \in {"returning", "unwinding"} /\ Goto(o, "done")
        \/ Goto(o, "crashed")
    BY <1>9 DEF BeginCommand, WriteCommand, Expire, WithdrawOpen, WithdrawRename,
         MarkUncertain, Finish, FinishFailed, Release, Crash
  <2> QED
    BY <1>4, <2>1, <2>2
<1>10. ASSUME NEW o \in Ops,
              \/ DispatchRefused(o) \/ CommandExists(o) \/ WriteCommandFails(o)
              \/ PublishExpired(o) \/ CheckFenced(o) \/ ProcessDead(o) \/ PollRaises(o)
              \/ ReconcileUnknown(o) \/ WithdrawLost(o) \/ WithdrawCommit(o)
              \/ WithdrawForeign(o)
       PROVE  Goal
  <2>1. /\ UNCHANGED <<phase, saved>>
        /\ pc[o] \notin {"unwinding", "returning", "done", "crashed"}
    BY <1>10 DEF DispatchRefused, CommandExists, WriteCommandFails, PublishExpired,
         CheckFenced,
         ProcessDead, PollRaises, ReconcileUnknown, WithdrawLost, WithdrawCommit,
         WithdrawForeign
  <2>2. \E outcome \in {"not_executed", "unknown"}, late \in BOOLEAN : Fail(o, outcome, late)
    BY <1>10 DEF DispatchRefused, CommandExists, WriteCommandFails, PublishExpired,
         CheckFenced,
         ProcessDead, PollRaises, ReconcileUnknown, WithdrawLost, WithdrawCommit,
         WithdrawForeign
  <2> QED
    BY <1>5, <2>1, <2>2
<1>11. CASE Bridge \/ EmulatorExits \/ ForeignCommand \/ UNCHANGED vars
  BY <1>1, <1>11 DEF Bridge, WriteHeartbeat, Claim, Execute, Respond, EmulatorExits,
       ForeignCommand, vars, worker
<1>12. ASSUME NEW s \in Stops,
              Fence(s) \/ FenceRefused(s) \/ FenceLock(s) \/ Terminate(s) \/ StopFails(s)
              \/ RetireLock(s) \/ RecoveryFinish(s)
       PROVE  Goal
  BY <1>1, <1>12 DEF Fence, FenceRefused, FenceLock, Terminate, StopFails, RetireLock,
       RecoveryFinish, worker
<1> QED
  BY <1>2, <1>3, <1>6, <1>7, <1>8, <1>9, <1>10, <1>11, <1>12 DEF Next, WorkerStep, StopStep

(* Until its capture is recorded, a composite whose command ran keeps the journal. *)
LEMMA HeldStep ==
    ASSUME IInv, IInv', HeldInv, [Next]_vars
    PROVE  HeldInv'
<1>1. RecordInv' /\ SavedInv'
  BY RecordStep, SavedStep DEF HeldInv
<1>2. SUFFICES ASSUME NEW o \in Composites, Unfinished(o)'
               PROVE  operation' # NoOp /\ operation'.id = o /\ operation'.started
  BY <1>1 DEF HeldInv
<1>3. /\ o \in Ops /\ TypeOK /\ Primary(o) \in Request
      /\ status = "ready" /\ Primary(o) \in executed'
      /\ report[Snapshot(o)].outcome # "completed"
  BY <1>2, OpsAssumption, RequestType, StatusStep, SavedStep
     DEF Unfinished, Snapshot, Primary, IInv, TypeOK
<1>4. CASE Primary(o) \notin executed
  <2>1. Execute
    BY <1>3, <1>4, CommandStep DEF WritesCommand, DropsCommand, Claim, LosesClaim
  <2>2. operation' = operation /\ claimed = Primary(o) /\ bridge = "loaded"
    BY <1>3, <1>4, <2>1 DEF Execute, journal
  <2>3. operation # NoOp /\ operation.pending = Primary(o)
    BY <1>3, <2>2 DEF IInv, UnresolvedWorkIsFenced, MayRun
  <2> QED
    BY <1>3, <2>2, <2>3, RequestAssumption DEF HeldInv, RecordInv, Primary
<1>5. CASE Primary(o) \in executed
  <2>1. operation # NoOp /\ operation.id = o /\ operation.started /\ operation.composite
    BY <1>3, <1>5 DEF HeldInv, RecordInv, Unfinished
  <2>2. ASSUME NEW p \in Ops, Takes(p)
        PROVE  FALSE
    BY <2>1, <2>2 DEF Takes, Admissible, Reclaimable
  <2>3. ASSUME NEW p \in Ops, Starts(p) \/ Notes(p)
        PROVE  operation' # NoOp /\ operation'.id = o /\ operation'.started
    BY <1>3, <2>1, <2>3, RecordFields, RecordFlags, JournalRecords, NoOpAssumption
       DEF Starts, Notes
  <2>4. ASSUME NEW p \in Ops, Restores(p)
        PROVE  operation' # NoOp /\ operation'.id = o /\ operation'.started
    <3>1. p = o /\ Guarding(o)
      BY <2>1, <2>4 DEF Restores, IInv, PendingInv, Guarding, Owned
    <3>2. phase[o] = "command" => Req(o) = Primary(o)
      BY DEF Req, Primary
    <3>3. Primary(o) \in executed => ~(phase[o] = "command")
      <4>1. pc[o] \in {"publishing", "writing"} => Untouched(Req(o))
        BY <1>3 DEF IInv, FreshInv
      <4>2. private = Primary(o) => Primary(o) \notin executed
        BY <1>3 DEF IInv, PlaceInv
      <4> QED
        BY <2>4, <3>1, <3>2, <4>1, <4>2 DEF Restores, Untouched
    <3>4. saved[o]
      BY <1>5, <3>1, <3>3 DEF HeldInv, SavedInv
    <3> QED
      BY <1>3, <2>1, <2>4, <3>1, <3>4, RecordFields, RecordFlags, JournalRecords,
           NoOpAssumption
         DEF Restores
  <2>5. ASSUME NEW p \in Ops, Retires(p)
        PROVE  FALSE
    <3>1. p = o /\ pc[o] = "returning"
      BY <2>1, <2>5 DEF Retires, Owned
    <3> QED
      BY <1>3, <3>1 DEF HeldInv, SavedInv
  <2> QED
    BY <1>3, <2>1, <2>2, <2>3, <2>4, <2>5, JournalStep
<1> QED
  BY <1>4, <1>5

(* From the moment a composite's command runs until its capture is recorded or a
   recovery stop fences the session, no other operation's request runs: the settle and
   the snapshot see what the command did and nothing else (transaction, composite). *)
THEOREM CompositesHold == Spec => CompositeIsNotInterleaved
<1>1. Init => HeldInv
  BY OpsAssumption DEF Init, HeldInv, RecordInv, SavedInv, Unfinished, Guarding, Snapshot,
     Request, Phases
<1>2. IInv /\ IInv' /\ HeldInv /\ [Next]_vars => HeldInv'
  BY HeldStep
<1>3. ASSUME IInv, HeldInv, [Next]_vars
      PROVE  \A o \in Composites : \A r \in (executed' \ executed) \cap Request :
                ( /\ Primary(o) \in executed
                  /\ report[<<o, "snapshot">>].outcome # "completed"
                  /\ status = "ready" )
                => r[1] = o
  <2>1. SUFFICES ASSUME NEW o \in Composites, NEW r \in (executed' \ executed) \cap Request,
                        Unfinished(o)
                 PROVE  r[1] = o
    BY DEF Unfinished, Snapshot
  <2>2. Execute
    BY <1>3, <2>1, CommandStep DEF WritesCommand, DropsCommand, Claim, LosesClaim
  <2>3. operation # NoOp /\ operation.pending = r
    BY <1>3, <2>1, <2>2 DEF Execute, IInv, UnresolvedWorkIsFenced, MayRun, Unfinished
  <2> QED
    BY <1>3, <2>1, <2>3, RequestAssumption DEF HeldInv, RecordInv
<1> QED
  BY <1>1, <1>2, <1>3, Invariant, PTL DEF Spec, CompositeIsNotInterleaved
----
(* The safety half of OwnershipEnds and StopEnds: ordered locks, and work that only shrinks. *)

(* How a worker moves: into its call, down it, on to the next request of a composite,
   or to the end of the root body. *)
Enters(o) ==
    /\ pc[o] = "idle" /\ (Goto(o, "owner") \/ Goto(o, "done"))
    /\ UNCHANGED phase
    /\ opLock = Nobody \/ UNCHANGED operation
Descends(o) ==
    /\ Live(o)
    /\ \E place \in Places \ {"returning"} :
          Goto(o, place) /\ UNCHANGED phase /\ StepsLeft[place] < StepsLeft[pc[o]]
Advances(o) ==
    /\ pc[o] = "waiting" /\ phase[o] # "snapshot"
    /\ Goto(o, "owner") /\ phase' = [phase EXCEPT ![o] = NextPhase(o)]
Returns(o) ==
    /\ pc[o] = "waiting" /\ Goto(o, "returning") /\ UNCHANGED phase
    /\ operation # NoOp /\ operation' = Completed

LEMMA FailDescends ==
    ASSUME NEW o \in Ops, UNCHANGED phase, Goto(o, FailPc(o)),
           pc[o] \in {"owner", "publishing", "writing", "waiting", "expired", "withdrawing",
                      "withdrawn"}
    PROVE  Descends(o)
<1>1. FailPc(o) \in {"unsettled", "unwinding"}
  BY DEF FailPc
<1> QED
  BY <1>1 DEF Descends, Places, StepsLeft, Live

(* Every step of a worker moves it so; no other step moves any worker. *)
LEMMA MoveStep ==
    ASSUME IInv, [Next]_vars
    PROVE  \/ UNCHANGED <<pc, phase>> /\ (status = "ready" => UNCHANGED operation)
           \/ \E o \in Ops : Enters(o) \/ Descends(o) \/ Advances(o) \/ Returns(o)
<1>1. ASSUME NEW o \in Ops,
             \/ DispatchRefused(o) \/ CommandExists(o) \/ WriteCommandFails(o)
             \/ PublishExpired(o) \/ CompleteWithError(o) \/ CompleteFenced(o)
             \/ CheckFenced(o) \/ ProcessDead(o) \/ PollRaises(o) \/ ReconcileUnknown(o)
             \/ WithdrawLost(o) \/ WithdrawCommit(o) \/ WithdrawForeign(o)
      PROVE  Descends(o)
  BY <1>1, FailDescends DEF DispatchRefused, CommandExists, WriteCommandFails, PublishExpired,
       CompleteWithError, CompleteFenced, CheckFenced, ProcessDead, PollRaises,
       ReconcileUnknown, WithdrawLost, WithdrawCommit, WithdrawForeign, Fail
<1>2. ASSUME NEW o \in Ops, PublishJournal(o) PROVE Descends(o)
  <2>1. UNCHANGED phase /\ pc[o] = "owner"
        /\ (Goto(o, "publishing") \/ Goto(o, FailPc(o)))
    BY <1>2 DEF PublishJournal, Fail
  <2> QED
    BY <2>1, FailDescends DEF Descends, Places, StepsLeft, Live
<1>3. ASSUME NEW o \in Ops, Acquire(o) \/ AcquireRefused(o) \/ AcquireBusy(o) PROVE Enters(o)
  BY <1>3 DEF Acquire, AcquireRefused, AcquireBusy, Enters, journal
<1>4. ASSUME NEW o \in Ops,
             \/ BeginCommand(o) \/ WriteCommand(o) \/ Expire(o) \/ WithdrawOpen(o)
             \/ WithdrawRename(o) \/ MarkUncertain(o)
      PROVE  Descends(o)
  BY <1>4 DEF BeginCommand, WriteCommand, Expire, WithdrawOpen, WithdrawRename,
       MarkUncertain, Descends, Places, StepsLeft, Live
<1>5. ASSUME NEW o \in Ops,
             Finish(o) \/ FinishRaises(o) \/ FinishFenced(o) \/ FinishBusy(o)
             \/ FinishFailed(o)
      PROVE  Descends(o)
  <2>1. UNCHANGED phase /\ pc[o] \in {"returning", "unwinding"} /\ Goto(o, "done")
    BY <1>5 DEF Finish, FinishRaises, FinishFenced, FinishBusy, FinishFailed, Release
  <2> QED
    BY <2>1 DEF Descends, Places, StepsLeft, Live
<1>6. ASSUME NEW o \in Ops, Complete(o) PROVE Advances(o) \/ Returns(o)
  BY <1>6 DEF Complete, OwnsPending, Owned, Advances, Returns
<1>7. ASSUME NEW o \in Ops, Crash(o) PROVE Descends(o)
  <2>1. UNCHANGED phase /\ Goto(o, "crashed") /\ pc[o] \in Places \ {"idle", "done", "crashed"}
    BY <1>7 DEF Crash, IInv, TypeOK, WorkerType
  <2> QED
    BY <2>1 DEF Descends, Places, StepsLeft, Live
<1>8. CASE Bridge \/ EmulatorExits \/ ForeignCommand \/ UNCHANGED vars
  BY <1>8 DEF Bridge, WriteHeartbeat, Claim, Execute, Respond, EmulatorExits,
       ForeignCommand, vars, worker, journal
<1>9. ASSUME NEW s \in Stops,
             \/ Fence(s) \/ FenceRefused(s) \/ FenceLock(s)
             \/ Terminate(s) \/ StopFails(s) \/ RetireLock(s)
      PROVE  UNCHANGED <<pc, phase, operation>>
  BY <1>9 DEF Fence, FenceRefused, FenceLock, Terminate, StopFails, RetireLock, worker, journal
<1>10. ASSUME NEW s \in Stops, RecoveryFinish(s)
       PROVE  UNCHANGED <<pc, phase>> /\ status # "ready"
  BY <1>10 DEF RecoveryFinish, worker, IInv, StopInv
<1> QED
  BY <1>1, <1>2, <1>3, <1>4, <1>5, <1>6, <1>7, <1>8, <1>9, <1>10 DEF Next, WorkerStep, StopStep

(* Every move uses up work, and leaves every other worker where it is. *)
LEMMA WorkStep ==
    ASSUME IInv, IInv', [Next]_vars, NEW o \in Ops
    PROVE  UNCHANGED <<pc[o], phase[o]>> \/ WorkLeft(o)' \in 0..(WorkLeft(o) - 1)
<1>t. /\ pc \in [Ops -> Places] /\ phase \in [Ops -> Phases]
      /\ pc' \in [Ops -> Places] /\ phase' \in [Ops -> Phases]
  BY DEF IInv, TypeOK, WorkerType
<1>1. /\ \A place \in Places : StepsLeft[place] \in 0..11
      /\ \A p \in Phases : RequestsLeft[p] \in 0..2
  BY DEF StepsLeft, RequestsLeft, Places, Phases
<1>2. ASSUME NEW p \in Ops, Enters(p) \/ Descends(p) \/ Advances(p) \/ Returns(p), p # o
      PROVE  UNCHANGED <<pc[o], phase[o]>>
  BY <1>2, <1>t DEF Enters, Descends, Advances, Returns, Goto
<1>3. ASSUME NEW places \in 0..11, NEW placesThen \in 0..11,
             NEW requests \in 0..2, NEW requestsThen \in 0..2,
             \/ requestsThen = requests /\ placesThen < places
             \/ requestsThen < requests /\ placesThen <= 10
      PROVE  11 * requestsThen + placesThen \in 0..(11 * requests + places - 1)
  BY <1>3
<1>4. CASE Enters(o) \/ Descends(o) \/ Returns(o)
  <2>1. phase'[o] = phase[o] /\ StepsLeft[pc'[o]] < StepsLeft[pc[o]]
    BY <1>4, <1>t DEF Enters, Descends, Returns, Goto, StepsLeft
  <2> QED
    BY <1>1, <1>3, <1>t, <2>1 DEF WorkLeft
<1>5. CASE Advances(o)
  <2>1. StepsLeft[pc'[o]] = 10 /\ RequestsLeft[phase'[o]] < RequestsLeft[phase[o]]
    BY <1>5, <1>t DEF Advances, Goto, NextPhase, StepsLeft, RequestsLeft, Phases
  <2> QED
    BY <1>1, <1>3, <1>t, <2>1 DEF WorkLeft
<1> QED
  BY <1>2, <1>4, <1>5, MoveStep

(* What a root body that returned has left in the journal. *)
ReturnedInv == \A o \in Ops : pc[o] = "returning" /\ Owned(o) => Resolved(operation)

(* Only the owner changes the journal record, and it returns after completing. *)
LEMMA ReturnedStep ==
    ASSUME IInv, ReturnedInv, [Next]_vars PROVE ReturnedInv'
<1>t. TypeOK /\ LockInv /\ pc \in [Ops -> Places]
  BY DEF IInv, TypeOK, WorkerType
<1>1. SUFFICES ASSUME NEW o \in Ops, pc'[o] = "returning", Owned(o)' PROVE Resolved(operation)'
  BY DEF ReturnedInv
<1>2. status = "ready"
  BY <1>1, StatusStep DEF Owned
<1>3. ASSUME pc[o] = "returning", UNCHANGED operation PROVE Resolved(operation)'
  BY <1>1, <1>2, <1>3 DEF ReturnedInv, Owned, Resolved
<1>4. CASE UNCHANGED <<pc, phase, operation>>
  BY <1>1, <1>3, <1>4
<1>5. ASSUME NEW p \in Ops, Enters(p) PROVE Resolved(operation)'
  <2>1. p # o /\ pc[o] = "returning"
    BY <1>1, <1>5, <1>t DEF Enters, Goto
  <2>2. opLock = o
    BY <1>t, <2>1 DEF LockInv, Live
  <2> QED
    BY <1>3, <1>5, <2>1, <2>2, HolderAssumption DEF Enters
<1>6. ASSUME NEW p \in Ops, Descends(p) \/ Advances(p) PROVE FALSE
  <2>1. Live(p) /\ (p = o => pc'[o] # "returning") /\ (p # o => pc[o] = "returning")
    BY <1>1, <1>6, <1>t DEF Descends, Advances, Goto, Live
  <2> QED
    BY <1>1, <1>t, <2>1 DEF LockInv, Live
<1>7. ASSUME NEW p \in Ops, Returns(p) PROVE Resolved(operation)'
  <2>1. operation \in Operation
    BY <1>7, <1>t DEF Returns, TypeOK, JournalType
  <2> QED
    BY <1>7, <2>1 DEF Returns, Completed, Resolved, Operation
<1> QED
  BY <1>2, <1>4, <1>5, <1>6, <1>7, MoveStep

(* The order of the flocks, read off the invariant. *)
LEMMA LocksAreOrderedInv == IInv /\ ReturnedInv => LocksAreOrdered
<1> SUFFICES ASSUME IInv, ReturnedInv PROVE LocksAreOrdered
  OBVIOUS
<1>1. LockInv /\ StopLockInv /\ StopInv /\ stateLock \in Ops \cup Stops \cup {Nobody}
  BY DEF IInv, TypeOK, LockType
<1>2. ASSUME NEW o \in Ops, stateLock = o PROVE opLock = o
  BY <1>1, <1>2 DEF LockInv, Guarding, Live
<1>3. ASSUME NEW s \in Stops, stateLock = s
      PROVE  stopLock = s /\ stopPc[s] \in {"fencing", "retiring"}
  BY <1>1, <1>3 DEF StopLockInv
<1>4. ASSUME NEW s \in Stops, stopPc[s] \in {"fenced", "terminated"} PROVE stateLock = Nobody
  <2>1. stateLock \notin Ops
    BY <1>1, <1>4 DEF LockInv, StopInv
  <2>2. ASSUME NEW t \in Stops, stateLock = t PROVE FALSE
    <3>1. stopLock = t /\ stopLock = s
      BY <1>1, <1>4, <2>2 DEF StopLockInv
    <3> QED
      BY <1>1, <1>4, <2>2, <3>1 DEF StopLockInv
  <2> QED
    BY <1>1, <2>1, <2>2
<1> QED
  BY <1>2, <1>3, <1>4 DEF LocksAreOrdered, ReturnedInv

(* The safety half of OwnershipEnds and StopEnds, for any number of workers, stops and
   crashes.  The flocks are taken in one order, so that whoever waits for the state lock
   waits for a process that needs no other lock, and a stop that has fenced meets no
   worker there; and the steps of a worker, refused or not, are bounded from its
   admission on (send_command, Deadline.check).  Fairness adds only that they run. *)
THEOREM ProgressIsSafe == Spec => WorkersProgress
<1>1. Init => ReturnedInv
  BY DEF Init, ReturnedInv
<1>2. IInv /\ ReturnedInv /\ [Next]_vars => ReturnedInv'
  BY ReturnedStep
<1>3. ASSUME IInv, IInv', [Next]_vars
      PROVE  \A o \in Ops :
                UNCHANGED <<pc[o], phase[o]>> \/ WorkLeft(o)' \in 0..(WorkLeft(o) - 1)
  BY <1>3, WorkStep
<1>4. Spec => []ReturnedInv
  BY <1>1, <1>2, Invariant, PTL DEF Spec
<1>5. IInv /\ IInv' /\ [Next]_vars =>
        [\A o \in Ops :
            UNCHANGED <<pc[o], phase[o]>> \/ WorkLeft(o)' \in 0..(WorkLeft(o) - 1)]_vars
  BY <1>3
<1> QED
  BY <1>4, <1>5, LocksAreOrderedInv, Invariant, PTL DEF Spec, WorkersProgress
====
