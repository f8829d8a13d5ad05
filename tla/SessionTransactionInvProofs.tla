---- MODULE SessionTransactionInvProofs ----
(***************************************************************************)
(* The proof that the invariant of SessionTransactionInv is inductive.     *)
(***************************************************************************)
EXTENDS SessionTransactionTypeProofs

(* A step of worker o that leaves the other workers, and every other untouched
   request, alone keeps the unpublished requests untouched. *)
LEMMA FreshKept ==
    ASSUME IInv, TypeOK', NEW o \in Ops,
           \A p \in Ops : p # o => phase'[p] = phase[p] /\ pc'[p] = pc[p],
           \A r \in Request : r # Req(o) /\ Untouched(r) => Untouched(r)',
           phase'[o] = phase[o] \/ Later(phase'[o], phase[o]),
           pc'[o] # "idle",
           phase'[o] = phase[o] /\ pc'[o] \in {"owner", "publishing", "writing"}
               => Untouched(Req(o))'
    PROVE  FreshInv'
<1> SUFFICES ASSUME NEW p \in Ops
             PROVE  /\ pc'[p] = "idle" => phase'[p] = "command"
                    /\ pc'[p] \in {"idle", "owner", "publishing", "writing"}
                          => Untouched(Req(p))'
                    /\ \A q \in Phases : Later(q, phase'[p]) => Untouched(<<p, q>>)'
  BY DEF FreshInv
<1>1. phase[o] \in Phases /\ phase'[o] \in Phases /\ phase[p] \in Phases
  BY DEF IInv, TypeOK, WorkerType
<1>2. \A q \in Phases : <<p, q>> \in Request
  BY DEF Request
<1>3. \A q \in Phases : Later(q, phase[p]) => Untouched(<<p, q>>)
  BY DEF IInv, FreshInv
<1>4. CASE p # o
  <2>1. Req(p) # Req(o) /\ \A q \in Phases : <<p, q>> # Req(o)
    BY <1>4 DEF Req
  <2>2. pc'[p] = pc[p] /\ phase'[p] = phase[p]
    BY <1>4
  <2>3. \A q \in Phases : Untouched(<<p, q>>) => Untouched(<<p, q>>)'
    BY <1>2, <2>1
  <2> QED
    <3>1. pc'[p] \in {"idle", "owner", "publishing", "writing"} => Untouched(<<p, phase[p]>>)
      BY <2>2 DEF IInv, FreshInv, Req
    <3>2. pc'[p] = "idle" => phase'[p] = "command"
      BY <2>2 DEF IInv, FreshInv
    <3>3. \A q \in Phases : q = phase[p] /\ Untouched(<<p, q>>)' => Untouched(Req(p))'
      BY <2>2 DEF Untouched, Req
    <3>4. pc'[p] \in {"idle", "owner", "publishing", "writing"} => Untouched(Req(p))'
      BY <1>1, <2>3, <3>1, <3>3
    <3> QED
      BY <1>3, <2>2, <2>3, <3>2, <3>4
<1>5. CASE p = o
  <2>1. \A q \in Phases : Later(q, phase[o]) => <<o, q>> # Req(o)
    BY <1>1 DEF Later, Req
  <2>2. \A q \in Phases : Later(q, phase[o]) => Untouched(<<o, q>>)'
    BY <1>2, <1>3, <1>5, <2>1
  <2>3. \A q \in Phases : Later(q, phase'[o]) => Later(q, phase[o])
    BY <1>1 DEF Later
  <2>4. pc'[o] \in {"idle", "owner", "publishing", "writing"} => Untouched(Req(o))'
    <3>1. CASE phase'[o] = phase[o]
      BY <3>1
    <3>2. CASE Later(phase'[o], phase[o])
      <4>1. \A q \in Phases : q = phase'[o] /\ Untouched(<<o, q>>)' => Untouched(Req(o))'
        BY DEF Untouched, Req
      <4> QED
        BY <1>1, <2>2, <3>2, <4>1
    <3> QED
      BY <3>1, <3>2
  <2>5. pc'[o] # "idle"
    OBVIOUS
  <2> QED
    BY <1>1, <1>5, <2>5, <2>2, <2>3, <2>4
<1> QED
  BY <1>4, <1>5

(* Which variables each part of the invariant reads. *)
LEMMA InvFrame ==
    ASSUME IInv
    PROVE  /\ UNCHANGED <<opLock, pc, stateLock, status>> => LockInv'
           /\ UNCHANGED <<operation, pc, phase, status>> => PendingInv'
           /\ UNCHANGED <<claimed, command, executed, pc, phase, private, report, response>> =>
                          FreshInv'
           /\ UNCHANGED <<bridge, claimed, command, executed, private, response>> => PlaceInv'
           /\ UNCHANGED <<pc, phase, private>> => WithdrawInv'
           /\ UNCHANGED <<executed, pc, phase>> => CompositeInv'
           /\ UNCHANGED <<alive, status, stopPc>> => StopInv'
           /\ UNCHANGED <<bridge, claimed, command, operation, status>> => UnresolvedWorkIsFenced'
           /\ UNCHANGED <<operation, pc, status>> => LiveWorkerOwnsJournal'
           /\ UNCHANGED <<bridge, claimed, command, executed, report>> => NotExecutedIsProof'
           /\ UNCHANGED <<executed, report>> => CompletedIsProof'
           /\ UNCHANGED <<alive, status>> => StoppedIsQuiet'
BY DEF IInv, LockInv, PendingInv, FreshInv, PlaceInv, WithdrawInv, CompositeInv, StopInv,
       UnresolvedWorkIsFenced, LiveWorkerOwnsJournal, NotExecutedIsProof, CompletedIsProof,
       StoppedIsQuiet, Guarding, Live, Owned, Req, Primary, Untouched, MayRun

(* Workers pass the state lock among themselves: the flocks of the stops stay theirs. *)
LEMMA StopLockKept ==
    ASSUME IInv, UNCHANGED <<stopLock, stopPc>>,
           stateLock' = stateLock \/ {stateLock, stateLock'} \subseteq Ops \cup {Nobody}
    PROVE  StopLockInv'
BY HolderAssumption DEF IInv, StopLockInv

(* A stop holds its flocks exactly from FenceLock to Fence, and from RetireLock to the
   end; the stop lock keeps every other stop out. *)
LEMMA StopLockStep == IInv /\ [Next]_vars => StopLockInv'
<1> SUFFICES ASSUME IInv, [Next]_vars PROVE StopLockInv'
  OBVIOUS
<1>1. ASSUME NEW o \in Ops,
             \/ Acquire(o) \/ AcquireRefused(o) \/ AcquireBusy(o) \/ DispatchRefused(o)
             \/ BeginCommand(o) \/ Complete(o) \/ CompleteWithError(o) \/ CompleteFenced(o)
             \/ CheckFenced(o) \/ ProcessDead(o) \/ PollRaises(o) \/ Expire(o)
             \/ ReconcileUnknown(o) \/ WithdrawRename(o) \/ MarkUncertain(o)
      PROVE  StopLockInv'
  BY <1>1, StopLockKept DEF Acquire, AcquireRefused, AcquireBusy, DispatchRefused, BeginCommand,
       Complete, CompleteWithError, CompleteFenced, CheckFenced, ProcessDead, PollRaises, Expire,
       ReconcileUnknown, WithdrawRename, MarkUncertain, locks
<1>2. ASSUME NEW o \in Ops,
             \/ Finish(o) \/ FinishRaises(o) \/ FinishBusy(o) \/ FinishFenced(o)
             \/ FinishFailed(o)
      PROVE  StopLockInv'
  BY <1>2, StopLockKept DEF Finish, FinishRaises, FinishBusy, FinishFenced, FinishFailed
<1>3. ASSUME NEW o \in Ops, PublishJournal(o) \/ WithdrawOpen(o) \/ Crash(o)
      PROVE  StopLockInv'
  BY <1>3, StopLockKept DEF PublishJournal, WithdrawOpen, Crash, Fail
<1>4. ASSUME NEW o \in Ops,
             \/ CommandExists(o) \/ WriteCommand(o) \/ WriteCommandFails(o)
             \/ PublishExpired(o) \/ WithdrawLost(o) \/ WithdrawCommit(o) \/ WithdrawForeign(o)
      PROVE  StopLockInv'
  <2>1. Guarding(o) /\ stateLock' = Nobody /\ UNCHANGED <<stopLock, stopPc>>
    BY <1>4 DEF CommandExists, WriteCommand, WriteCommandFails, PublishExpired, WithdrawLost,
         WithdrawCommit, WithdrawForeign, Guarding
  <2>2. stateLock = o
    BY <2>1 DEF IInv, LockInv
  <2> QED
    BY <2>1, <2>2, StopLockKept
<1>5. CASE Bridge \/ EmulatorExits \/ ForeignCommand \/ UNCHANGED vars
  BY <1>5, StopLockKept DEF Bridge, WriteHeartbeat, Claim, Execute, Respond, EmulatorExits,
       ForeignCommand, vars, locks
<1>t. /\ stopPc \in [Stops -> StopPlaces] /\ StopLockInv /\ Nobody \notin Stops
      /\ \A t \in Stops : stateLock = t \/ stopLock = t =>
            stopPc[t] \in {"fencing", "fenced", "terminated", "retiring"}
  BY HolderAssumption DEF IInv, TypeOK, StopLockInv
<1>6. ASSUME NEW s \in Stops, FenceLock(s) PROVE StopLockInv'
  BY <1>6, <1>t DEF FenceLock, StopGoto, StopLockInv
<1>7. ASSUME NEW s \in Stops, Fence(s) PROVE StopLockInv'
  <2>1. stateLock = s /\ stopLock = s /\ stateLock' = Nobody
    BY <1>7, <1>t DEF Fence, StopLockInv
  <2>2. \/ stopLock' = s /\ stopPc' = [stopPc EXCEPT ![s] = "fenced"]
        \/ stopLock' = Nobody /\ stopPc' = [stopPc EXCEPT ![s] = "failed"]
    BY <1>7, <2>1 DEF Fence, StopGoto
  <2> QED
    BY <1>t, <2>1, <2>2 DEF StopLockInv
<1>8. ASSUME NEW s \in Stops, FenceRefused(s) PROVE StopLockInv'
  BY <1>8, <1>t DEF FenceRefused, StopGoto, StopLockInv, locks
<1>9. ASSUME NEW s \in Stops, Terminate(s) PROVE StopLockInv'
  BY <1>9, <1>t DEF Terminate, StopGoto, StopLockInv, locks
<1>10. ASSUME NEW s \in Stops, StopFails(s) PROVE StopLockInv'
  <2>1. stopLock = s /\ stopLock' = Nobody
    BY <1>10, <1>t DEF StopFails, StopLockInv
  <2> QED
    BY <1>10, <1>t, <2>1 DEF StopFails, StopGoto, StopLockInv
<1>11. ASSUME NEW s \in Stops, RetireLock(s) PROVE StopLockInv'
  BY <1>11, <1>t DEF RetireLock, StopGoto, StopLockInv
<1>12. ASSUME NEW s \in Stops, RecoveryFinish(s) PROVE StopLockInv'
  <2>1. stateLock = s /\ stopLock = s /\ stateLock' = Nobody /\ stopLock' = Nobody
    BY <1>12, <1>t DEF RecoveryFinish, StopLockInv
  <2>2. \E where \in {"failed", "stopped"} : stopPc' = [stopPc EXCEPT ![s] = where]
    BY <1>12 DEF RecoveryFinish, StopGoto
  <2> QED
    BY <1>t, <2>1, <2>2 DEF StopLockInv
<1> QED
  BY <1>1, <1>2, <1>3, <1>4, <1>5, <1>6, <1>7, <1>8, <1>9, <1>10, <1>11, <1>12
     DEF Next, WorkerStep, StopStep

(* While a stop holds the state lock no worker is inside its with-block. *)
LEMMA StopExcludes ==
    ASSUME IInv, NEW s \in Stops, stopPc[s] \in {"fencing", "retiring"}
    PROVE  /\ stateLock = s /\ stateLock \notin Ops
           /\ \A o \in Ops : ~Guarding(o)
BY HolderAssumption DEF IInv, LockInv, StopLockInv

(* The inductive step: one step per action, and under it one step per part of the
   invariant that the action can disturb. *)
LEMMA InvStep == IInv /\ [Next]_vars => IInv'
<1> SUFFICES ASSUME IInv, [Next]_vars PROVE IInv'
  OBVIOUS
<1>t. TypeOK' /\ TypeOK /\ StopLockInv'
  BY TypeStep, StopLockStep DEF IInv
<1>1. ASSUME NEW o \in Ops, Acquire(o) PROVE IInv'
  <2>a. Req(o) \in Request /\ Primary(o) \in Request
    BY <1>t, RequestType DEF TypeOK
  <2>b. /\ operation' \in {operation, NewOperation(o)} /\ NewOperation(o) # NoOp
        /\ NewOperation(o).id = o /\ NewOperation(o).pending = NoRequest
        /\ \/ /\ operation' = NewOperation(o) /\ opLock' = o
              /\ pc' = [pc EXCEPT ![o] = "owner"] /\ report' = report
           \/ /\ opLock' = opLock /\ pc' = [pc EXCEPT ![o] = "done"]
              /\ \E outcome \in {"unknown", "not_executed"} : Tell(Primary(o), outcome, FALSE)
    <3>1. PICK w \in WriteResults(operation, NewOperation(o)) :
          /\ operation' = w.disk
          /\ \/ ~w.raised /\ opLock' = o /\ Goto(o, "owner") /\ UNCHANGED report
             \/ /\ UNCHANGED opLock
                /\ Goto(o, "done")
                /\ Tell(Primary(o), IF w.raised THEN "unknown" ELSE "not_executed", FALSE)
      BY <1>1 DEF Acquire
    <3>2. operation' \in {operation, NewOperation(o)} /\ (~w.raised =>
          operation' = NewOperation(o))
      BY <3>1, WriteResultsDisk
    <3>3. /\ NewOperation(o) # NoOp /\ NewOperation(o).id = o
          /\ NewOperation(o).pending = NoRequest
      BY NewOperationType, NoOpAssumption
    <3> QED
      BY <3>1, <3>2, <3>3 DEF Goto
  <2>c. /\ pc[o] = "idle" /\ opLock = Nobody /\ stateLock = Nobody /\ Admissible
        /\ UNCHANGED <<status, stateLock, phase, executed, command, private, claimed, bridge,
                       response>>
    BY <1>1 DEF Acquire, emulator, files
  <2>1. PlaceInv' /\ StopInv' /\ StoppedIsQuiet'
    BY <1>1, InvFrame DEF Acquire, journal, locks, worker, emulator, files
  <2>2. LockInv'
    BY <1>1, HolderAssumption, <2>b
       DEF IInv, Acquire, Tell, LockInv, Guarding, Live, TypeOK, WorkerType
  <2>3. PendingInv'
    BY <1>1, HolderAssumption, <2>b
       DEF IInv, Acquire, Tell, PendingInv, LockInv, Guarding, TypeOK, WorkerType
  <2>4. FreshInv'
    <3>1. \A r \in Request : r # Req(o) /\ Untouched(r) => Untouched(r)'
      <4>1. SUFFICES ASSUME NEW r \in Request, r # Req(o), Untouched(r) PROVE Untouched(r)'
        OBVIOUS
      <4>2. report'[r] = report[r]
        BY <1>t, <2>a, <2>b, <2>c, <4>1
           DEF Tell, TypeOK, WorkerType, Primary, Req, IInv, FreshInv
      <4> QED
        BY <2>c, <4>1, <4>2 DEF Untouched
    <3>2. /\ \A p \in Ops : p # o => phase'[p] = phase[p] /\ pc'[p] = pc[p]
          /\ phase'[o] = phase[o]
          /\ pc'[o] # "idle"
      BY <1>t, <2>b, <2>c DEF FailPc, TypeOK, WorkerType
    <3>3. pc'[o] \in {"owner", "publishing", "writing"} => Untouched(Req(o))'
      <4>1. Untouched(Req(o))
        BY <2>c DEF IInv, FreshInv
      <4>2. Req(o)' = Req(o)
        BY <2>c DEF Req
      <4>3. pc'[o] \in {"owner", "publishing", "writing"} => report' = report
        BY <1>t, <2>b, <2>c DEF FailPc, TypeOK, WorkerType
      <4> QED
        BY <2>c, <4>1, <4>2, <4>3 DEF Untouched
    <3> QED
      BY <1>t, <3>1, <3>2, <3>3, FreshKept
  <2>5. WithdrawInv'
    BY <1>1, <2>b DEF IInv, Acquire, Tell, WithdrawInv, Req, MayRun, files, TypeOK, WorkerType
  <2>6. CompositeInv'
    BY <1>1, OpsAssumption, <2>b DEF IInv, Acquire, CompositeInv, emulator, TypeOK, WorkerType
  <2>7. UnresolvedWorkIsFenced'
    <3>1. \A r \in Request : ~MayRun(r)
      <4>1. SUFFICES ASSUME NEW r \in Request, MayRun(r) PROVE FALSE
        OBVIOUS
      <4>2. status = "ready" /\ operation # NoOp /\ operation.pending = r
        BY <2>c, <4>1 DEF Admissible, IInv, UnresolvedWorkIsFenced
      <4>3. response.id = r
        BY <2>c, <4>2, RequestAssumption DEF Admissible, Reclaimable
      <4> QED
        BY <4>1, <4>3 DEF IInv, PlaceInv, MayRun
    <3>2. \A r \in Request : ~MayRun(r)'
      BY <2>c, <3>1 DEF MayRun
    <3> QED
      BY <3>2 DEF UnresolvedWorkIsFenced
  <2>8. LiveWorkerOwnsJournal'
    BY <1>1, HolderAssumption, <2>b
       DEF IInv, Acquire, Tell, LiveWorkerOwnsJournal, LockInv, Live, Owned, TypeOK, WorkerType
  <2>9. NotExecutedIsProof'
    BY <1>1, <2>a, <2>b
       DEF IInv, Acquire, Tell, NotExecutedIsProof, MayRun, FreshInv, Untouched, Req, Primary,
           emulator, files, TypeOK, WorkerType
  <2>10. CompletedIsProof'
    BY <1>1, <2>b DEF IInv, Acquire, Tell, CompletedIsProof, emulator, TypeOK, WorkerType
  <2> QED
    BY <1>t, <2>1, <2>2, <2>3, <2>4, <2>5, <2>6, <2>7, <2>8, <2>9, <2>10 DEF IInv
<1>2. ASSUME NEW o \in Ops, AcquireRefused(o) PROVE IInv'
  <2>a. Req(o) \in Request /\ Primary(o) \in Request
    BY <1>t, RequestType DEF TypeOK
  <2>1. PlaceInv' /\ StopInv' /\ UnresolvedWorkIsFenced' /\ StoppedIsQuiet'
    BY <1>2, InvFrame DEF AcquireRefused, journal, emulator, files
  <2>2. LockInv'
    BY <1>2 DEF IInv, AcquireRefused, Goto, LockInv, Guarding, Live, journal, locks
  <2>3. PendingInv'
    BY <1>2
       DEF IInv, AcquireRefused, Goto, PendingInv, Guarding, Owned, Req, journal, WorkerType
  <2>4. FreshInv'
    BY <1>2
       DEF IInv, AcquireRefused, Goto, Tell, FreshInv, Untouched, Later, Req, Primary, emulator,
           files, TypeOK, WorkerType
  <2>5. WithdrawInv'
    BY <1>2 DEF IInv, AcquireRefused, Goto, WithdrawInv, Req, MayRun, files, TypeOK, WorkerType
  <2>6. CompositeInv'
    BY <1>2, OpsAssumption DEF IInv, AcquireRefused, Goto, CompositeInv, emulator
  <2>7. LiveWorkerOwnsJournal'
    BY <1>2 DEF IInv, AcquireRefused, Goto, LiveWorkerOwnsJournal, Live, Owned, journal
  <2>8. NotExecutedIsProof'
    BY <1>2
       DEF IInv, AcquireRefused, Tell, NotExecutedIsProof, MayRun, FreshInv, Untouched, Req,
           Primary, emulator, files, TypeOK, WorkerType
  <2>9. CompletedIsProof'
    BY <1>2 DEF IInv, AcquireRefused, Tell, CompletedIsProof, emulator
  <2> QED
    BY <1>t, <2>1, <2>2, <2>3, <2>4, <2>5, <2>6, <2>7, <2>8, <2>9 DEF IInv
<1>2b. ASSUME NEW o \in Ops, AcquireBusy(o) PROVE IInv'
  <2>a. Req(o) \in Request /\ Primary(o) \in Request
    BY <1>t, RequestType DEF TypeOK
  <2>1. PlaceInv' /\ StopInv' /\ UnresolvedWorkIsFenced' /\ StoppedIsQuiet'
    BY <1>2b, InvFrame DEF AcquireBusy, journal, emulator, files
  <2>2. LockInv'
    BY <1>2b DEF IInv, AcquireBusy, Goto, LockInv, Guarding, Live, journal, locks
  <2>3. PendingInv'
    BY <1>2b
       DEF IInv, AcquireBusy, Goto, PendingInv, Guarding, Owned, Req, journal, WorkerType
  <2>4. FreshInv'
    BY <1>2b
       DEF IInv, AcquireBusy, Goto, Tell, FreshInv, Untouched, Later, Req, Primary, emulator,
           files, TypeOK, WorkerType
  <2>5. WithdrawInv'
    BY <1>2b DEF IInv, AcquireBusy, Goto, WithdrawInv, Req, MayRun, files, TypeOK, WorkerType
  <2>6. CompositeInv'
    BY <1>2b, OpsAssumption DEF IInv, AcquireBusy, Goto, CompositeInv, emulator
  <2>7. LiveWorkerOwnsJournal'
    BY <1>2b DEF IInv, AcquireBusy, Goto, LiveWorkerOwnsJournal, Live, Owned, journal
  <2>8. NotExecutedIsProof'
    BY <1>2b
       DEF IInv, AcquireBusy, Tell, NotExecutedIsProof, MayRun, FreshInv, Untouched, Req,
           Primary, emulator, files, TypeOK, WorkerType
  <2>9. CompletedIsProof'
    BY <1>2b DEF IInv, AcquireBusy, Tell, CompletedIsProof, emulator
  <2> QED
    BY <1>t, <2>1, <2>2, <2>3, <2>4, <2>5, <2>6, <2>7, <2>8, <2>9 DEF IInv
<1>3. ASSUME NEW o \in Ops, PublishJournal(o) PROVE IInv'
  <2>a. Req(o) \in Request /\ Primary(o) \in Request
    BY <1>t, RequestType DEF TypeOK
  <2>b. /\ operation # NoOp /\ operation' \in {operation, Started(o)} /\ Started(o) # NoOp
        /\ Started(o).id = operation.id /\ Started(o).pending = Req(o)
        /\ \/ /\ operation' = Started(o) /\ stateLock' = o
              /\ pc' = [pc EXCEPT ![o] = "publishing"] /\ report' = report
           \/ /\ stateLock' = stateLock /\ pc' = [pc EXCEPT ![o] = FailPc(o)]
              /\ Tell(Req(o), "not_executed", FALSE)
    <3>1. PICK w \in WriteResults(operation, Started(o)) :
          /\ operation' = w.disk
          /\ \/ ~w.raised /\ stateLock' = o /\ Goto(o, "publishing") /\ UNCHANGED report
             \/ w.raised /\ UNCHANGED stateLock /\ Fail(o, "not_executed", FALSE)
      BY <1>3 DEF PublishJournal
    <3>2. operation' \in {operation, Started(o)} /\ (~w.raised => operation' = Started(o))
      BY <3>1, WriteResultsDisk
    <3>3. operation # NoOp
      BY <1>3 DEF PublishJournal, CanPublish, Owned
    <3>4. /\ Started(o) # NoOp /\ Started(o).id = operation.id
          /\ Started(o).pending = Req(o)
      BY <1>t, <3>3, JournalRecords, RecordFields, NoOpAssumption
    <3>5. CASE w.raised
      BY <3>1, <3>2, <3>3, <3>4, <3>5 DEF Fail, Goto
    <3>6. CASE ~w.raised
      BY <3>1, <3>2, <3>3, <3>4, <3>6 DEF Goto
    <3> QED
      BY <3>5, <3>6
  <2>c. /\ pc[o] = "owner" /\ stateLock = Nobody /\ Owned(o) /\ Resolved(operation)
        /\ UNCHANGED <<status, opLock, phase, executed, command, private, claimed, bridge,
                       response>>
    BY <1>3 DEF PublishJournal, CanPublish, emulator, files
  <2>1. PlaceInv' /\ StopInv' /\ StoppedIsQuiet'
    BY <1>3, InvFrame DEF PublishJournal, journal, locks, worker, emulator, files
  <2>2. LockInv'
    <3>1. status = "ready"
      BY <2>c DEF Owned
    <3>2. CASE stateLock' = o
      BY <2>b, <2>c, <3>1, <3>2 DEF IInv, LockInv, Guarding, Live, TypeOK, WorkerType
    <3>3. CASE stateLock' # o
      <4>1. stateLock' = Nobody
        BY <2>b, <2>c, <3>3
      <4> QED
        BY <2>b, <2>c, <4>1, <3>1, <3>3
           DEF IInv, LockInv, Guarding, Live, FailPc, TypeOK, WorkerType
    <3> QED
      BY <3>2, <3>3
  <2>3. PendingInv'
    <3>1. \A p \in Ops : ~Guarding(p)
      BY <2>c, HolderAssumption DEF IInv, LockInv
    <3>2. Req(o)' = Req(o)
      BY <2>c DEF Req
    <3>3. \A p \in Ops : Guarding(p)' => p = o
      BY <1>t, <2>b, <3>1 DEF Guarding, TypeOK, WorkerType
    <3>4. Guarding(o)' => stateLock' = o
      BY <1>t, <2>b DEF Guarding, FailPc, TypeOK, WorkerType
    <3>5. stateLock' = o => Owned(o)' /\ operation'.pending = Req(o)'
      <4>1. CASE stateLock' = o
        BY <2>b, <2>c, <3>2, <4>1, HolderAssumption DEF Owned
      <4> QED
        BY <4>1
    <3> QED
      BY <3>3, <3>4, <3>5 DEF PendingInv
  <2>4. FreshInv'
    <3>1. \A r \in Request : r # Req(o) /\ Untouched(r) => Untouched(r)'
      <4>1. SUFFICES ASSUME NEW r \in Request, r # Req(o), Untouched(r) PROVE Untouched(r)'
        OBVIOUS
      <4>2. report'[r] = report[r]
        BY <1>t, <2>a, <2>b, <2>c, <4>1 DEF Tell, TypeOK, WorkerType
      <4> QED
        BY <2>c, <4>1, <4>2 DEF Untouched
    <3>2. /\ \A p \in Ops : p # o => phase'[p] = phase[p] /\ pc'[p] = pc[p]
          /\ phase'[o] = phase[o]
          /\ pc'[o] # "idle"
      BY <1>t, <2>b, <2>c DEF FailPc, TypeOK, WorkerType
    <3>3. pc'[o] \in {"owner", "publishing", "writing"} => Untouched(Req(o))'
      <4>1. Untouched(Req(o))
        BY <2>c DEF IInv, FreshInv
      <4>2. Req(o)' = Req(o)
        BY <2>c DEF Req
      <4>3. pc'[o] \in {"owner", "publishing", "writing"} => report' = report
        BY <1>t, <2>b, <2>c DEF FailPc, TypeOK, WorkerType
      <4> QED
        BY <2>c, <4>1, <4>2, <4>3 DEF Untouched
    <3> QED
      BY <1>t, <3>1, <3>2, <3>3, FreshKept
  <2>5. WithdrawInv'
    BY <1>3, <2>b
       DEF IInv, PublishJournal, Tell, FailPc, WithdrawInv, Req, MayRun, worker, emulator,
           files, TypeOK, WorkerType
  <2>6. CompositeInv'
    BY <1>3, OpsAssumption, <2>b
       DEF IInv, PublishJournal, FailPc, CompositeInv, emulator, TypeOK, WorkerType
  <2>7. UnresolvedWorkIsFenced'
    <3>1. \A r \in Request : ~MayRun(r)
      BY <2>c, RequestAssumption DEF Owned, Resolved, IInv, UnresolvedWorkIsFenced
    <3>2. \A r \in Request : ~MayRun(r)'
      BY <2>c, <3>1 DEF MayRun
    <3> QED
      BY <3>2 DEF UnresolvedWorkIsFenced
  <2>8. LiveWorkerOwnsJournal'
    <3>1. \A p \in Ops : Live(p)' => p = o
      BY <2>b, <2>c DEF Live, IInv, LockInv, TypeOK, WorkerType
    <3>2. Owned(o)'
      BY <2>b, <2>c DEF Owned
    <3> QED
      BY <3>1, <3>2 DEF LiveWorkerOwnsJournal
  <2>9. NotExecutedIsProof'
    BY <1>3, <2>b
       DEF IInv, PublishJournal, Tell, NotExecutedIsProof, MayRun, FreshInv, Untouched,
           emulator, files, TypeOK, WorkerType
  <2>10. CompletedIsProof'
    BY <1>3, <2>b DEF IInv, PublishJournal, Tell, CompletedIsProof, emulator, TypeOK, WorkerType
  <2> QED
    BY <1>t, <2>1, <2>2, <2>3, <2>4, <2>5, <2>6, <2>7, <2>8, <2>9, <2>10 DEF IInv
<1>4. ASSUME NEW o \in Ops, DispatchRefused(o) PROVE IInv'
  <2>a. Req(o) \in Request /\ Primary(o) \in Request
    BY <1>t, RequestType DEF TypeOK
  <2>b. /\ pc[o] = "owner" /\ FailPc(o) \in {"unsettled", "unwinding"}
        /\ pc' = [pc EXCEPT ![o] = FailPc(o)]
        /\ \E outcome \in {"unknown", "not_executed"} : Tell(Req(o), outcome, FALSE)
    BY <1>4 DEF DispatchRefused, Fail, Goto, FailPc
  <2>c. UNCHANGED <<status, operation, opLock, stateLock, phase, alive, executed, command,
                    private, claimed, bridge, response, stopPc>>
    BY <1>4 DEF DispatchRefused, journal, locks, emulator, files
  <2>d. \E outcome \in {"unknown", "not_executed"} :
           report' = [report EXCEPT ![Req(o)] = [outcome |-> outcome, lateFence |-> FALSE]]
    BY <2>b DEF Tell
  <2>1. PlaceInv' /\ StopInv' /\ UnresolvedWorkIsFenced' /\ StoppedIsQuiet'
    BY <2>c, InvFrame
  <2>2. LockInv'
    BY <1>t, <2>b, <2>c DEF IInv, LockInv, Guarding, Live, TypeOK, WorkerType
  <2>3. PendingInv'
    BY <1>t, <2>b, <2>c DEF IInv, PendingInv, Guarding, Owned, Req, TypeOK, WorkerType
  <2>4. FreshInv'
    <3>1. \A r \in Request : r # Req(o) /\ Untouched(r) => Untouched(r)'
      BY <1>t, <2>a, <2>c, <2>d DEF Untouched, TypeOK, WorkerType
    <3>2. /\ \A p \in Ops : p # o => phase'[p] = phase[p] /\ pc'[p] = pc[p]
          /\ phase'[o] = phase[o] /\ pc'[o] \in {"unsettled", "unwinding"}
      BY <1>t, <2>b, <2>c DEF TypeOK, WorkerType
    <3> QED
      BY <1>t, <3>1, <3>2, FreshKept
  <2>5. WithdrawInv'
    BY <1>t, <2>b, <2>c DEF IInv, WithdrawInv, Req, TypeOK, WorkerType
  <2>6. CompositeInv'
    BY <1>t, <2>b, <2>c, OpsAssumption DEF IInv, CompositeInv, Primary, TypeOK, WorkerType
  <2>7. LiveWorkerOwnsJournal'
    BY <1>t, <2>b, <2>c DEF IInv, LiveWorkerOwnsJournal, Live, Owned, TypeOK, WorkerType
  <2>8. NotExecutedIsProof'
    BY <1>t, <2>a, <2>b, <2>c, <2>d
       DEF IInv, NotExecutedIsProof, MayRun, FreshInv, Untouched, TypeOK, WorkerType
  <2>9. CompletedIsProof'
    BY <1>t, <2>a, <2>c, <2>d DEF IInv, CompletedIsProof, TypeOK, WorkerType
  <2> QED
    BY <1>t, <2>1, <2>2, <2>3, <2>4, <2>5, <2>6, <2>7, <2>8, <2>9 DEF IInv
<1>5. ASSUME NEW o \in Ops, BeginCommand(o) PROVE IInv'
  <2>a. Req(o) \in Request /\ Primary(o) \in Request
    BY <1>t, RequestType DEF TypeOK
  <2>1. StopInv' /\ UnresolvedWorkIsFenced' /\ NotExecutedIsProof' /\ CompletedIsProof' /\
        StoppedIsQuiet'
    BY <1>5, InvFrame DEF BeginCommand, journal, emulator
  <2>2. LockInv'
    BY <1>5 DEF IInv, BeginCommand, Goto, LockInv, Guarding, Live, journal, locks
  <2>3. PendingInv'
    BY <1>5 DEF IInv, BeginCommand, Goto, PendingInv, Guarding, Owned, Req, journal, WorkerType
  <2>4. FreshInv'
    <3>1. \A r \in Request : r # Req(o) /\ Untouched(r) => Untouched(r)'
      BY <1>5 DEF BeginCommand, Untouched, IInv, emulator, NoResponse
    <3>2. /\ \A p \in Ops : p # o => phase'[p] = phase[p] /\ pc'[p] = pc[p]
          /\ phase'[o] = phase[o] \/ Later(phase'[o], phase[o])
          /\ pc'[o] # "idle"
      BY <1>5 DEF BeginCommand, Goto, Phases
    <3>3. Untouched(Req(o))'
      <4>1. Untouched(Req(o))
        BY <1>5 DEF BeginCommand, IInv, FreshInv
      <4>2. Req(o)' = Req(o)
        BY <1>5 DEF BeginCommand, Req, worker
      <4> QED
        BY <1>5, <4>1, <4>2 DEF BeginCommand, Untouched, NoResponse, emulator
    <3> QED
      BY <1>t, <3>1, <3>2, <3>3, FreshKept
  <2>5. PlaceInv'
    BY <1>5, RequestAssumption DEF IInv, BeginCommand, NoResponse, PlaceInv, Untouched, emulator
  <2>6. WithdrawInv'
    BY <1>5 DEF IInv, BeginCommand, Goto, WithdrawInv, Req, MayRun, files, TypeOK, WorkerType
  <2>7. CompositeInv'
    BY <1>5, OpsAssumption DEF IInv, BeginCommand, Goto, CompositeInv, emulator
  <2>8. LiveWorkerOwnsJournal'
    BY <1>5 DEF IInv, BeginCommand, Goto, LiveWorkerOwnsJournal, Live, Owned, journal
  <2> QED
    BY <1>t, <2>1, <2>2, <2>3, <2>4, <2>5, <2>6, <2>7, <2>8 DEF IInv
<1>6. ASSUME NEW o \in Ops, CommandExists(o) PROVE IInv'
  <2>a. Req(o) \in Request /\ Primary(o) \in Request
    BY <1>t, RequestType DEF TypeOK
  <2>1. PlaceInv' /\ StopInv' /\ UnresolvedWorkIsFenced' /\ StoppedIsQuiet'
    BY <1>6, InvFrame DEF CommandExists, journal, locks, worker, emulator, files
  <2>2. LockInv'
    BY <1>6, HolderAssumption
       DEF IInv, CommandExists, Goto, Fail, FailPc, LockInv, Guarding, Live, TypeOK, WorkerType
  <2>3. PendingInv'
    BY <1>6
       DEF IInv, CommandExists, Goto, Fail, PendingInv, Guarding, Owned, Req, journal, files,
           TypeOK, WorkerType
  <2>4. FreshInv'
    BY <1>6
       DEF IInv, CommandExists, Goto, Tell, Fail, FailPc, FreshInv, Untouched, Later, Req,
           emulator, files, TypeOK, WorkerType
  <2>5. WithdrawInv'
    BY <1>6
       DEF IInv, CommandExists, Goto, Fail, FailPc, WithdrawInv, Req, MayRun, worker, emulator,
           files, TypeOK, WorkerType
  <2>6. CompositeInv'
    BY <1>6, OpsAssumption
       DEF IInv, CommandExists, Goto, Fail, FailPc, CompositeInv, emulator, WorkerType
  <2>7. LiveWorkerOwnsJournal'
    BY <1>6
       DEF IInv, CommandExists, Goto, Fail, LiveWorkerOwnsJournal, Live, Owned, journal, TypeOK,
           WorkerType
  <2>8. NotExecutedIsProof'
    BY <1>6
       DEF IInv, CommandExists, Tell, Fail, NotExecutedIsProof, MayRun, FreshInv, Untouched,
           emulator, files, TypeOK, WorkerType
  <2>9. CompletedIsProof'
    BY <1>6 DEF IInv, CommandExists, Tell, Fail, CompletedIsProof, emulator, WorkerType
  <2> QED
    BY <1>t, <2>1, <2>2, <2>3, <2>4, <2>5, <2>6, <2>7, <2>8, <2>9 DEF IInv
<1>7. ASSUME NEW o \in Ops, WriteCommand(o) PROVE IInv'
  <2>a. Req(o) \in Request /\ Primary(o) \in Request
    BY <1>t, RequestType DEF TypeOK
  <2>1. StopInv' /\ CompletedIsProof' /\ StoppedIsQuiet'
    BY <1>7, InvFrame DEF WriteCommand, journal, locks, worker, emulator
  <2>2. LockInv'
    BY <1>7, HolderAssumption
       DEF IInv, WriteCommand, Goto, LockInv, Guarding, Live, TypeOK, WorkerType
  <2>3. PendingInv'
    BY <1>7 DEF IInv, WriteCommand, Goto, PendingInv, Guarding, Req, TypeOK, WorkerType
  <2>4. FreshInv'
    BY <1>7
       DEF IInv, WriteCommand, Goto, FreshInv, Untouched, Later, Req, emulator, TypeOK,
           WorkerType
  <2>5. PlaceInv'
    BY <1>7 DEF IInv, WriteCommand, PlaceInv, FreshInv, Untouched, emulator
  <2>6. WithdrawInv'
    BY <1>7 DEF IInv, WriteCommand, Goto, WithdrawInv, Req, MayRun, TypeOK, WorkerType
  <2>7. CompositeInv'
    BY <1>7, OpsAssumption
       DEF IInv, WriteCommand, Goto, CompositeInv, emulator, TypeOK, WorkerType
  <2>8. UnresolvedWorkIsFenced'
    BY <1>7
       DEF IInv, WriteCommand, UnresolvedWorkIsFenced, MayRun, PendingInv, Untouched, Guarding,
           Owned, journal, emulator, WorkerType
  <2>9. LiveWorkerOwnsJournal'
    BY <1>7
       DEF IInv, WriteCommand, Goto, LiveWorkerOwnsJournal, Live, Owned, journal, TypeOK,
           WorkerType
  <2>10. NotExecutedIsProof'
    BY <1>7 DEF IInv, WriteCommand, NotExecutedIsProof, MayRun, FreshInv, Untouched, emulator
  <2> QED
    BY <1>t, <2>1, <2>2, <2>3, <2>4, <2>5, <2>6, <2>7, <2>8, <2>9, <2>10 DEF IInv
<1>8. ASSUME NEW o \in Ops, WriteCommandFails(o) PROVE IInv'
  <2>a. Req(o) \in Request /\ Primary(o) \in Request
    BY <1>t, RequestType DEF TypeOK
  <2>1. StopInv' /\ StoppedIsQuiet'
    BY <1>8, InvFrame DEF WriteCommandFails, journal, locks, worker, emulator
  <2>2. LockInv'
    BY <1>8, HolderAssumption
       DEF IInv, WriteCommandFails, Goto, Fail, FailPc, LockInv, Guarding, Live, TypeOK,
           WorkerType
  <2>3. PendingInv'
    BY <1>8
       DEF IInv, WriteCommandFails, Goto, Fail, PendingInv, Guarding, Owned, Req, journal,
           files, TypeOK, WorkerType
  <2>4. FreshInv'
    BY <1>8
       DEF IInv, WriteCommandFails, Goto, Tell, Fail, FailPc, FreshInv, Untouched, Later, Req,
           emulator, TypeOK, WorkerType
  <2>5. PlaceInv'
    BY <1>8 DEF IInv, WriteCommandFails, PlaceInv, FreshInv, Untouched, emulator, WorkerType
  <2>6. WithdrawInv'
    BY <1>8
       DEF IInv, WriteCommandFails, Goto, Fail, FailPc, WithdrawInv, Req, MayRun, worker,
           emulator, files, TypeOK, WorkerType
  <2>7. CompositeInv'
    BY <1>8, OpsAssumption
       DEF IInv, WriteCommandFails, Goto, Fail, FailPc, CompositeInv, emulator, WorkerType
  <2>8. UnresolvedWorkIsFenced'
    BY <1>8
       DEF IInv, WriteCommandFails, UnresolvedWorkIsFenced, MayRun, PendingInv, Untouched,
           Guarding, Owned, journal, emulator, files, TypeOK, WorkerType
  <2>9. LiveWorkerOwnsJournal'
    BY <1>8
       DEF IInv, WriteCommandFails, Goto, Fail, LiveWorkerOwnsJournal, Live, Owned, journal,
           TypeOK, WorkerType
  <2>10. NotExecutedIsProof'
    BY <1>8
       DEF IInv, WriteCommandFails, Tell, Fail, NotExecutedIsProof, MayRun, Untouched, emulator,
           TypeOK, WorkerType
  <2>11. CompletedIsProof'
    BY <1>8 DEF IInv, WriteCommandFails, Tell, Fail, CompletedIsProof, emulator, WorkerType
  <2> QED
    BY <1>t, <2>1, <2>2, <2>3, <2>4, <2>5, <2>6, <2>7, <2>8, <2>9, <2>10, <2>11 DEF IInv
<1>9. ASSUME NEW o \in Ops, PublishExpired(o) PROVE IInv'
  <2>a. Req(o) \in Request /\ Primary(o) \in Request
    BY <1>t, RequestType DEF TypeOK
  <2>b. /\ operation # NoOp /\ operation' \in {operation, Restored(o)} /\ Restored(o) # NoOp
        /\ Restored(o).id = operation.id /\ Restored(o).pending = NoRequest
    BY <1>9, WriteResultsDisk, JournalRecords, RecordFields, NoOpAssumption
       DEF PublishExpired, IInv, PendingInv, Guarding, Owned
  <2>1. PlaceInv' /\ StopInv' /\ StoppedIsQuiet'
    BY <1>9, InvFrame DEF PublishExpired, journal, locks, worker, emulator, files
  <2>2. LockInv'
    BY <1>9, HolderAssumption, <2>b
       DEF IInv, PublishExpired, Goto, Fail, FailPc, LockInv, Guarding, Live, TypeOK, WorkerType
  <2>3. PendingInv'
    BY <1>9, <2>b
       DEF IInv, PublishExpired, Goto, Fail, FailPc, PendingInv, Guarding, Req, files, TypeOK,
           WorkerType
  <2>4. FreshInv'
    BY <1>9, <2>b
       DEF IInv, PublishExpired, Goto, Tell, Fail, FailPc, FreshInv, Untouched, Later, Req,
           emulator, files, TypeOK, WorkerType
  <2>5. WithdrawInv'
    BY <1>9, <2>b
       DEF IInv, PublishExpired, Goto, Fail, FailPc, WithdrawInv, Req, MayRun, worker, emulator,
           files, TypeOK, WorkerType
  <2>6. CompositeInv'
    BY <1>9, OpsAssumption, <2>b
       DEF IInv, PublishExpired, Goto, Fail, FailPc, CompositeInv, emulator, WorkerType
  <2>7. UnresolvedWorkIsFenced'
    BY <1>9, <2>b
       DEF IInv, PublishExpired, UnresolvedWorkIsFenced, MayRun, PendingInv, FreshInv,
           Untouched, Guarding, emulator, files, TypeOK, WorkerType
  <2>8. LiveWorkerOwnsJournal'
    BY <1>9, <2>b
       DEF IInv, PublishExpired, Goto, Fail, LiveWorkerOwnsJournal, Live, Owned, TypeOK,
           WorkerType
  <2>9. NotExecutedIsProof'
    BY <1>9, <2>b
       DEF IInv, PublishExpired, Tell, Fail, NotExecutedIsProof, MayRun, FreshInv, Untouched,
           emulator, files, TypeOK, WorkerType
  <2>10. CompletedIsProof'
    BY <1>9, <2>b DEF IInv, PublishExpired, Tell, Fail, CompletedIsProof, emulator, WorkerType
  <2> QED
    BY <1>t, <2>1, <2>2, <2>3, <2>4, <2>5, <2>6, <2>7, <2>8, <2>9, <2>10 DEF IInv
<1>10. ASSUME NEW o \in Ops, Complete(o) PROVE IInv'
  <2>a. Req(o) \in Request /\ Primary(o) \in Request
    BY <1>t, RequestType DEF TypeOK
  <2>b. /\ operation # NoOp /\ operation' \in {operation, Completed} /\ Completed # NoOp
        /\ Completed.id = operation.id /\ Completed.pending = NoRequest
    BY <1>10, <1>t, WriteResultsDisk, JournalRecords, RecordFields, NoOpAssumption
       DEF Complete, OwnsPending, Owned
  <2>1. PlaceInv' /\ StopInv' /\ StoppedIsQuiet'
    BY <1>10, InvFrame DEF Complete, journal, emulator, files
  <2>2. LockInv'
    BY <1>10, <2>b DEF IInv, Complete, Goto, LockInv, Guarding, Live, locks, TypeOK, WorkerType
  <2>3. PendingInv'
    BY <1>10, <2>b
       DEF IInv, Complete, Goto, PendingInv, Guarding, Live, Owned, LiveWorkerOwnsJournal,
           emulator, files, TypeOK, WorkerType
  <2>4. FreshInv'
    <3>1. \A r \in Request : r # Req(o) /\ Untouched(r) => Untouched(r)'
      BY <1>10 DEF Complete, Tell, Untouched, IInv, emulator, files
    <3>2. /\ \A p \in Ops : p # o => phase'[p] = phase[p] /\ pc'[p] = pc[p]
          /\ phase'[o] = phase[o] \/ Later(phase'[o], phase[o])
          /\ pc'[o] # "idle"
      BY <1>10, <1>t
         DEF Complete, Fail, FailPc, Goto, TypeOK, WorkerType, Later, NextPhase, Phases
    <3>3. phase'[o] = phase[o] /\ pc'[o] \in {"owner", "publishing", "writing"} =>
          Untouched(Req(o))'
      BY <1>10 DEF Complete, Goto, TypeOK, WorkerType, IInv, Untouched, NextPhase, Phases
    <3> QED
      BY <1>t, <3>1, <3>2, <3>3, FreshKept
  <2>5. WithdrawInv'
    BY <1>10, <2>b
       DEF IInv, Complete, Goto, WithdrawInv, Req, MayRun, locks, worker, emulator, files,
           TypeOK, WorkerType
  <2>6. CompositeInv'
    BY <1>10, OpsAssumption, <2>a, <2>b
       DEF IInv, Complete, Answered, Goto, CompositeInv, PlaceInv, Req, Primary, emulator,
           TypeOK, WorkerType
  <2>7. UnresolvedWorkIsFenced'
    BY <1>10, <2>b
       DEF IInv, Complete, OwnsPending, Answered, UnresolvedWorkIsFenced, MayRun, PlaceInv,
           Untouched, worker, emulator, files, TypeOK, WorkerType
  <2>8. LiveWorkerOwnsJournal'
    BY <1>10, <2>b
       DEF IInv, Complete, Goto, LiveWorkerOwnsJournal, Live, Owned, files, TypeOK, WorkerType
  <2>9. NotExecutedIsProof'
    BY <1>10, <2>b
       DEF IInv, Complete, AnswerOutcome, Tell, NotExecutedIsProof, MayRun, Untouched, emulator,
           files, TypeOK, WorkerType
  <2>10. CompletedIsProof'
    BY <1>10, <2>b
       DEF IInv, Complete, Answered, Tell, CompletedIsProof, PlaceInv, emulator, TypeOK,
           WorkerType
  <2> QED
    BY <1>t, <2>1, <2>2, <2>3, <2>4, <2>5, <2>6, <2>7, <2>8, <2>9, <2>10 DEF IInv
<1>11. ASSUME NEW o \in Ops, CompleteWithError(o) PROVE IInv'
  <2>a. Req(o) \in Request /\ Primary(o) \in Request
    BY <1>t, RequestType DEF TypeOK
  <2>b. /\ operation # NoOp /\ operation' \in {operation, Completed} /\ Completed # NoOp
        /\ Completed.id = operation.id /\ Completed.pending = NoRequest
    BY <1>11, <1>t, WriteResultsDisk, JournalRecords, RecordFields, NoOpAssumption
       DEF CompleteWithError, OwnsPending, Owned
  <2>1. PlaceInv' /\ StopInv' /\ StoppedIsQuiet'
    BY <1>11, InvFrame DEF CompleteWithError, journal, emulator, files
  <2>2. LockInv'
    BY <1>11, <2>b
       DEF IInv, CompleteWithError, Goto, Fail, FailPc, LockInv, Guarding, Live, locks,
           emulator, files, TypeOK, WorkerType
  <2>3. PendingInv'
    BY <1>11, <2>b
       DEF IInv, CompleteWithError, Goto, Fail, FailPc, PendingInv, Guarding, Live, Owned,
           LiveWorkerOwnsJournal, locks, worker, emulator, files, TypeOK, WorkerType
  <2>4. FreshInv'
    BY <1>11, <2>b
       DEF IInv, CompleteWithError, Goto, Tell, Fail, FailPc, FreshInv, Untouched, Later, Req,
           emulator, files, TypeOK, WorkerType
  <2>5. WithdrawInv'
    BY <1>11, <2>b
       DEF IInv, CompleteWithError, Goto, Fail, FailPc, WithdrawInv, Req, MayRun, Owned,
           journal, locks, worker, emulator, files, TypeOK, WorkerType
  <2>6. CompositeInv'
    BY <1>11, OpsAssumption, <2>b
       DEF IInv, CompleteWithError, Goto, Fail, FailPc, CompositeInv, emulator, files, TypeOK,
           WorkerType
  <2>7. UnresolvedWorkIsFenced'
    BY <1>11, <2>b
       DEF IInv, CompleteWithError, OwnsPending, Answered, UnresolvedWorkIsFenced, MayRun,
           PlaceInv, Untouched, journal, locks, worker, emulator, files, TypeOK, WorkerType
  <2>8. LiveWorkerOwnsJournal'
    BY <1>11, <2>b
       DEF IInv, CompleteWithError, Goto, Fail, LiveWorkerOwnsJournal, Live, Owned, worker,
           emulator, files, TypeOK, WorkerType
  <2>9. NotExecutedIsProof'
    BY <1>11, <2>b
       DEF IInv, CompleteWithError, AnswerOutcome, Tell, Fail, NotExecutedIsProof, MayRun,
           Untouched, worker, emulator, files, TypeOK, WorkerType
  <2>10. CompletedIsProof'
    BY <1>11, <2>b
       DEF IInv, CompleteWithError, Answered, Tell, Fail, CompletedIsProof, PlaceInv, emulator,
           files, TypeOK, WorkerType
  <2> QED
    BY <1>t, <2>1, <2>2, <2>3, <2>4, <2>5, <2>6, <2>7, <2>8, <2>9, <2>10 DEF IInv
<1>12. ASSUME NEW o \in Ops, CompleteFenced(o) PROVE IInv'
  <2>a. Req(o) \in Request /\ Primary(o) \in Request
    BY <1>t, RequestType DEF TypeOK
  <2>1. PlaceInv' /\ StopInv' /\ UnresolvedWorkIsFenced' /\ StoppedIsQuiet'
    BY <1>12, InvFrame DEF CompleteFenced, journal, emulator, files
  <2>2. LockInv'
    BY <1>12
       DEF IInv, CompleteFenced, Goto, Fail, FailPc, LockInv, Guarding, Live, journal, locks,
           emulator, files, TypeOK, WorkerType
  <2>3. PendingInv'
    BY <1>12
       DEF IInv, CompleteFenced, Goto, Fail, FailPc, PendingInv, Guarding, Owned, Req, journal,
           locks, worker, emulator, files, TypeOK, WorkerType
  <2>4. FreshInv'
    BY <1>12
       DEF IInv, CompleteFenced, Goto, Tell, Fail, FailPc, FreshInv, Untouched, Later, Req,
           emulator, files, TypeOK, WorkerType
  <2>5. WithdrawInv'
    BY <1>12
       DEF IInv, CompleteFenced, Goto, Fail, FailPc, WithdrawInv, Req, MayRun, Owned, journal,
           locks, worker, emulator, files, TypeOK, WorkerType
  <2>6. CompositeInv'
    BY <1>12, OpsAssumption
       DEF IInv, CompleteFenced, Goto, Fail, FailPc, CompositeInv, emulator, files, TypeOK,
           WorkerType
  <2>7. LiveWorkerOwnsJournal'
    BY <1>12
       DEF IInv, CompleteFenced, Goto, Fail, LiveWorkerOwnsJournal, Live, Owned, journal,
           worker, emulator, files, TypeOK, WorkerType
  <2>8. NotExecutedIsProof'
    BY <1>12
       DEF IInv, CompleteFenced, AnswerOutcome, Tell, Fail, NotExecutedIsProof, MayRun,
           Untouched, worker, emulator, files, TypeOK, WorkerType
  <2>9. CompletedIsProof'
    BY <1>12
       DEF IInv, CompleteFenced, Answered, Tell, Fail, CompletedIsProof, PlaceInv, emulator,
           files, TypeOK, WorkerType
  <2> QED
    BY <1>t, <2>1, <2>2, <2>3, <2>4, <2>5, <2>6, <2>7, <2>8, <2>9 DEF IInv
<1>13. ASSUME NEW o \in Ops, CheckFenced(o) PROVE IInv'
  <2>a. Req(o) \in Request /\ Primary(o) \in Request
    BY <1>t, RequestType DEF TypeOK
  <2>1. PlaceInv' /\ StopInv' /\ UnresolvedWorkIsFenced' /\ StoppedIsQuiet'
    BY <1>13, InvFrame DEF CheckFenced, journal, emulator, files
  <2>2. LockInv'
    BY <1>13
       DEF IInv, CheckFenced, Goto, Fail, FailPc, LockInv, Guarding, Live, journal, locks,
           WorkerType
  <2>3. PendingInv'
    BY <1>13
       DEF IInv, CheckFenced, Goto, Fail, FailPc, PendingInv, Guarding, Owned, Req, journal,
           files, TypeOK, WorkerType
  <2>4. FreshInv'
    BY <1>13
       DEF IInv, CheckFenced, Goto, Tell, Fail, FailPc, FreshInv, Untouched, Later, Req,
           emulator, files
  <2>5. WithdrawInv'
    BY <1>13
       DEF IInv, CheckFenced, Goto, Fail, FailPc, WithdrawInv, Req, MayRun, worker, emulator,
           files, TypeOK, WorkerType
  <2>6. CompositeInv'
    BY <1>13, OpsAssumption
       DEF IInv, CheckFenced, Goto, Fail, FailPc, CompositeInv, emulator, WorkerType
  <2>7. LiveWorkerOwnsJournal'
    BY <1>13 DEF IInv, CheckFenced, LiveWorkerOwnsJournal, Live, journal, TypeOK, WorkerType
  <2>8. NotExecutedIsProof'
    BY <1>13
       DEF IInv, CheckFenced, Tell, Fail, NotExecutedIsProof, MayRun, Untouched, emulator,
           files, TypeOK, WorkerType
  <2>9. CompletedIsProof'
    BY <1>13 DEF IInv, CheckFenced, Tell, Fail, CompletedIsProof, emulator, WorkerType
  <2> QED
    BY <1>t, <2>1, <2>2, <2>3, <2>4, <2>5, <2>6, <2>7, <2>8, <2>9 DEF IInv
<1>14. ASSUME NEW o \in Ops, ProcessDead(o) PROVE IInv'
  <2>a. Req(o) \in Request /\ Primary(o) \in Request
    BY <1>t, RequestType DEF TypeOK
  <2>1. PlaceInv' /\ StopInv' /\ UnresolvedWorkIsFenced' /\ StoppedIsQuiet'
    BY <1>14, InvFrame DEF ProcessDead, journal, emulator, files
  <2>2. LockInv'
    BY <1>14
       DEF IInv, ProcessDead, Goto, Fail, FailPc, LockInv, Guarding, Live, journal, locks,
           WorkerType
  <2>3. PendingInv'
    BY <1>14
       DEF IInv, ProcessDead, Goto, Fail, FailPc, PendingInv, Guarding, Owned, Req, journal,
           files, TypeOK, WorkerType
  <2>4. FreshInv'
    BY <1>14
       DEF IInv, ProcessDead, Goto, Tell, Fail, FailPc, FreshInv, Untouched, Later, Req,
           emulator, files
  <2>5. WithdrawInv'
    BY <1>14
       DEF IInv, ProcessDead, Goto, Fail, FailPc, WithdrawInv, Req, MayRun, worker, emulator,
           files, TypeOK, WorkerType
  <2>6. CompositeInv'
    BY <1>14, OpsAssumption
       DEF IInv, ProcessDead, Goto, Fail, FailPc, CompositeInv, emulator, WorkerType
  <2>7. LiveWorkerOwnsJournal'
    BY <1>14
       DEF IInv, ProcessDead, Goto, Fail, LiveWorkerOwnsJournal, Live, Owned, journal, TypeOK,
           WorkerType
  <2>8. NotExecutedIsProof'
    BY <1>14
       DEF IInv, ProcessDead, Tell, Fail, NotExecutedIsProof, MayRun, Untouched, emulator,
           files, TypeOK, WorkerType
  <2>9. CompletedIsProof'
    BY <1>14 DEF IInv, ProcessDead, Tell, Fail, CompletedIsProof, emulator, WorkerType
  <2> QED
    BY <1>t, <2>1, <2>2, <2>3, <2>4, <2>5, <2>6, <2>7, <2>8, <2>9 DEF IInv
<1>15. ASSUME NEW o \in Ops, PollRaises(o) PROVE IInv'
  <2>a. Req(o) \in Request /\ Primary(o) \in Request
    BY <1>t, RequestType DEF TypeOK
  <2>1. PlaceInv' /\ StopInv' /\ UnresolvedWorkIsFenced' /\ StoppedIsQuiet'
    BY <1>15, InvFrame DEF PollRaises, journal, emulator, files
  <2>2. LockInv'
    BY <1>15
       DEF IInv, PollRaises, Goto, Fail, FailPc, LockInv, Guarding, Live, journal, locks,
           WorkerType
  <2>3. PendingInv'
    BY <1>15
       DEF IInv, PollRaises, Goto, Fail, FailPc, PendingInv, Guarding, Owned, Req, journal,
           files, TypeOK, WorkerType
  <2>4. FreshInv'
    BY <1>15
       DEF IInv, PollRaises, Goto, Tell, Fail, FailPc, FreshInv, Untouched, Later, Req,
           emulator, files
  <2>5. WithdrawInv'
    BY <1>15
       DEF IInv, PollRaises, Goto, Fail, FailPc, WithdrawInv, Req, MayRun, worker, emulator,
           files, TypeOK, WorkerType
  <2>6. CompositeInv'
    BY <1>15, OpsAssumption
       DEF IInv, PollRaises, Goto, Fail, FailPc, CompositeInv, emulator, WorkerType
  <2>7. LiveWorkerOwnsJournal'
    BY <1>15
       DEF IInv, PollRaises, Goto, Fail, LiveWorkerOwnsJournal, Live, Owned, journal, TypeOK,
           WorkerType
  <2>8. NotExecutedIsProof'
    BY <1>15
       DEF IInv, PollRaises, Tell, Fail, NotExecutedIsProof, MayRun, Untouched, emulator, files,
           TypeOK, WorkerType
  <2>9. CompletedIsProof'
    BY <1>15 DEF IInv, PollRaises, Tell, Fail, CompletedIsProof, emulator, WorkerType
  <2> QED
    BY <1>t, <2>1, <2>2, <2>3, <2>4, <2>5, <2>6, <2>7, <2>8, <2>9 DEF IInv
<1>16. ASSUME NEW o \in Ops, Expire(o) PROVE IInv'
  <2>a. Req(o) \in Request /\ Primary(o) \in Request
    BY <1>t, RequestType DEF TypeOK
  <2>1. PlaceInv' /\ StopInv' /\ UnresolvedWorkIsFenced' /\ NotExecutedIsProof' /\
        CompletedIsProof' /\ StoppedIsQuiet'
    BY <1>16, InvFrame DEF Expire, journal, emulator, files
  <2>2. LockInv'
    BY <1>16 DEF IInv, Expire, Goto, LockInv, Guarding, Live, journal, locks
  <2>3. PendingInv'
    BY <1>16 DEF IInv, Expire, Goto, PendingInv, Guarding, Owned, Req, journal
  <2>4. FreshInv'
    BY <1>16 DEF IInv, Expire, Goto, FreshInv, Untouched, Later, Req, emulator, files
  <2>5. WithdrawInv'
    BY <1>16 DEF IInv, Expire, Goto, WithdrawInv, Req, MayRun, files, TypeOK, WorkerType
  <2>6. CompositeInv'
    BY <1>16, OpsAssumption DEF IInv, Expire, Goto, CompositeInv, emulator
  <2>7. LiveWorkerOwnsJournal'
    BY <1>16 DEF IInv, Expire, Goto, LiveWorkerOwnsJournal, Live, Owned, journal
  <2> QED
    BY <1>t, <2>1, <2>2, <2>3, <2>4, <2>5, <2>6, <2>7 DEF IInv
<1>17. ASSUME NEW o \in Ops, ReconcileUnknown(o) PROVE IInv'
  <2>a. Req(o) \in Request /\ Primary(o) \in Request
    BY <1>t, RequestType DEF TypeOK
  <2>1. PlaceInv' /\ StopInv' /\ UnresolvedWorkIsFenced' /\ StoppedIsQuiet'
    BY <1>17, InvFrame DEF ReconcileUnknown, journal, emulator, files
  <2>2. LockInv'
    BY <1>17
       DEF IInv, ReconcileUnknown, Goto, Fail, FailPc, LockInv, Guarding, Live, journal, locks,
           files, TypeOK, WorkerType
  <2>3. PendingInv'
    BY <1>17
       DEF IInv, ReconcileUnknown, Goto, Fail, FailPc, PendingInv, Guarding, Owned, Req,
           journal, worker, emulator, files, TypeOK, WorkerType
  <2>4. FreshInv'
    BY <1>17
       DEF IInv, ReconcileUnknown, Goto, Tell, Fail, FailPc, FreshInv, Untouched, Later, Req,
           emulator, files, TypeOK, WorkerType
  <2>5. WithdrawInv'
    BY <1>17
       DEF IInv, ReconcileUnknown, Goto, Fail, FailPc, WithdrawInv, Req, MayRun, journal, locks,
           worker, emulator, files, TypeOK, WorkerType
  <2>6. CompositeInv'
    BY <1>17, OpsAssumption
       DEF IInv, ReconcileUnknown, Goto, Fail, FailPc, CompositeInv, emulator, files, TypeOK,
           WorkerType
  <2>7. LiveWorkerOwnsJournal'
    BY <1>17
       DEF IInv, ReconcileUnknown, Goto, Fail, LiveWorkerOwnsJournal, Live, Owned, journal,
           emulator, files, TypeOK, WorkerType
  <2>8. NotExecutedIsProof'
    BY <1>17
       DEF IInv, ReconcileUnknown, Tell, Fail, NotExecutedIsProof, MayRun, Untouched, emulator,
           files, TypeOK, WorkerType
  <2>9. CompletedIsProof'
    BY <1>17
       DEF IInv, ReconcileUnknown, Tell, Fail, CompletedIsProof, emulator, files, TypeOK,
           WorkerType
  <2> QED
    BY <1>t, <2>1, <2>2, <2>3, <2>4, <2>5, <2>6, <2>7, <2>8, <2>9 DEF IInv
<1>18. ASSUME NEW o \in Ops, WithdrawOpen(o) PROVE IInv'
  <2>a. Req(o) \in Request /\ Primary(o) \in Request
    BY <1>t, RequestType DEF TypeOK
  <2>1. PlaceInv' /\ StopInv' /\ UnresolvedWorkIsFenced' /\ NotExecutedIsProof' /\
        CompletedIsProof' /\ StoppedIsQuiet'
    BY <1>18, InvFrame DEF WithdrawOpen, journal, locks, worker, emulator, files
  <2>2. LockInv'
    BY <1>18
       DEF IInv, WithdrawOpen, CanWithdraw, OwnsPending, Goto, LockInv, Guarding, Live, Owned,
           journal, TypeOK, WorkerType
  <2>3. PendingInv'
    BY <1>18
       DEF IInv, WithdrawOpen, CanWithdraw, OwnsPending, Goto, PendingInv, Guarding, Owned, Req,
           journal, TypeOK, WorkerType
  <2>4. FreshInv'
    BY <1>18 DEF IInv, WithdrawOpen, Goto, FreshInv, Untouched, Later, Req, emulator, files
  <2>5. WithdrawInv'
    BY <1>18
       DEF IInv, WithdrawOpen, Goto, WithdrawInv, Req, MayRun, emulator, files, TypeOK,
           WorkerType
  <2>6. CompositeInv'
    BY <1>18, OpsAssumption DEF IInv, WithdrawOpen, Goto, CompositeInv, emulator
  <2>7. LiveWorkerOwnsJournal'
    BY <1>18
       DEF IInv, WithdrawOpen, Goto, LiveWorkerOwnsJournal, Live, Owned, journal, WorkerType
  <2> QED
    BY <1>t, <2>1, <2>2, <2>3, <2>4, <2>5, <2>6, <2>7 DEF IInv
<1>19. ASSUME NEW o \in Ops, WithdrawLost(o) PROVE IInv'
  <2>a. Req(o) \in Request /\ Primary(o) \in Request
    BY <1>t, RequestType DEF TypeOK
  <2>1. PlaceInv' /\ StopInv' /\ UnresolvedWorkIsFenced' /\ StoppedIsQuiet'
    BY <1>19, InvFrame DEF WithdrawLost, journal, locks, worker, emulator, files
  <2>2. LockInv'
    BY <1>19, HolderAssumption
       DEF IInv, WithdrawLost, Goto, Fail, FailPc, LockInv, Guarding, Live, TypeOK, WorkerType
  <2>3. PendingInv'
    BY <1>19
       DEF IInv, WithdrawLost, Goto, Fail, PendingInv, Guarding, Owned, Req, journal, files,
           TypeOK, WorkerType
  <2>4. FreshInv'
    BY <1>19
       DEF IInv, WithdrawLost, Goto, Tell, Fail, FailPc, FreshInv, Untouched, Later, Req,
           emulator, files
  <2>5. WithdrawInv'
    BY <1>19
       DEF IInv, WithdrawLost, Goto, Fail, FailPc, WithdrawInv, Req, MayRun, worker, emulator,
           files, TypeOK, WorkerType
  <2>6. CompositeInv'
    BY <1>19, OpsAssumption
       DEF IInv, WithdrawLost, Goto, Fail, FailPc, CompositeInv, emulator, WorkerType
  <2>7. LiveWorkerOwnsJournal'
    BY <1>19
       DEF IInv, WithdrawLost, Goto, Fail, LiveWorkerOwnsJournal, Live, Owned, journal, TypeOK,
           WorkerType
  <2>8. NotExecutedIsProof'
    BY <1>19
       DEF IInv, WithdrawLost, Tell, Fail, NotExecutedIsProof, MayRun, Untouched, emulator,
           files, TypeOK, WorkerType
  <2>9. CompletedIsProof'
    BY <1>19 DEF IInv, WithdrawLost, Tell, Fail, CompletedIsProof, emulator, WorkerType
  <2> QED
    BY <1>t, <2>1, <2>2, <2>3, <2>4, <2>5, <2>6, <2>7, <2>8, <2>9 DEF IInv
<1>20. ASSUME NEW o \in Ops, WithdrawRename(o) PROVE IInv'
  <2>a. Req(o) \in Request /\ Primary(o) \in Request
    BY <1>t, RequestType DEF TypeOK
  <2>1. StopInv' /\ CompletedIsProof' /\ StoppedIsQuiet'
    BY <1>20, InvFrame DEF WithdrawRename, journal, emulator
  <2>2. LockInv'
    BY <1>20 DEF IInv, WithdrawRename, Goto, LockInv, Guarding, Live, journal, locks
  <2>3. PendingInv'
    BY <1>20 DEF IInv, WithdrawRename, Goto, PendingInv, Guarding, Owned, Req, journal
  <2>4. FreshInv'
    <3>1. \A r \in Request : r # Req(o) /\ Untouched(r) => Untouched(r)'
      BY <1>20, RequestAssumption DEF WithdrawRename, Untouched, IInv, emulator
    <3>2. /\ \A p \in Ops : p # o => phase'[p] = phase[p] /\ pc'[p] = pc[p]
          /\ phase'[o] = phase[o] \/ Later(phase'[o], phase[o])
          /\ pc'[o] # "idle"
      BY <1>20 DEF WithdrawRename, Goto, Phases
    <3>3. phase'[o] = phase[o] /\ pc'[o] \in {"owner", "publishing", "writing"} =>
          Untouched(Req(o))'
      BY <1>20 DEF WithdrawRename, Goto, IInv, Untouched
    <3> QED
      BY <1>t, <3>1, <3>2, <3>3, FreshKept
  <2>5. PlaceInv'
    BY <1>20, RequestAssumption DEF IInv, WithdrawRename, PlaceInv, Untouched, emulator
  <2>6. WithdrawInv'
    <3>1. pc' = [pc EXCEPT ![o] = "withdrawn"] /\ private' = command /\ phase' = phase
      BY <1>20 DEF WithdrawRename, Goto
    <3>2. \A p \in Ops : pc[p] # "withdrawn" \/ p = o
      BY <1>20 DEF WithdrawRename, IInv, LockInv, Guarding
    <3>3. command \in {Req(o), Foreign}
      <4>1. Owned(o) /\ operation.pending = Req(o) /\ command # NoRequest
        BY <1>20 DEF WithdrawRename, IInv, PendingInv, Guarding
      <4>2. command \in Request => operation.pending = command
        BY <4>1 DEF IInv, UnresolvedWorkIsFenced, MayRun, Owned
      <4> QED
        BY <1>t, <4>1, <4>2 DEF TypeOK, FileType, File
    <3> QED
      BY <1>t, <3>1, <3>2, <3>3 DEF WithdrawInv, Req, TypeOK, WorkerType
  <2>7. CompositeInv'
    BY <1>20, OpsAssumption DEF IInv, WithdrawRename, Goto, CompositeInv, emulator
  <2>8. UnresolvedWorkIsFenced'
    BY <1>20, RequestAssumption
       DEF IInv, WithdrawRename, UnresolvedWorkIsFenced, MayRun, Untouched, journal, emulator,
           WorkerType
  <2>9. LiveWorkerOwnsJournal'
    BY <1>20 DEF IInv, WithdrawRename, Goto, LiveWorkerOwnsJournal, Live, Owned, journal
  <2>10. NotExecutedIsProof'
    BY <1>20, RequestAssumption
       DEF IInv, WithdrawRename, NotExecutedIsProof, MayRun, Untouched, emulator
  <2> QED
    BY <1>t, <2>1, <2>2, <2>3, <2>4, <2>5, <2>6, <2>7, <2>8, <2>9, <2>10 DEF IInv
<1>21. ASSUME NEW o \in Ops, WithdrawCommit(o) PROVE IInv'
  <2>a. Req(o) \in Request /\ Primary(o) \in Request
    BY <1>t, RequestType DEF TypeOK
  <2>b. /\ operation # NoOp /\ operation' \in {operation, Restored(o)} /\ Restored(o) # NoOp
        /\ Restored(o).id = operation.id /\ Restored(o).pending = NoRequest
    BY <1>21, WriteResultsDisk, JournalRecords, RecordFields, NoOpAssumption
       DEF WithdrawCommit, IInv, PendingInv, Guarding, Owned
  <2>1. StopInv' /\ StoppedIsQuiet'
    BY <1>21, InvFrame DEF WithdrawCommit, journal, locks, worker, emulator
  <2>2. LockInv'
    BY <1>21, HolderAssumption, <2>b
       DEF IInv, WithdrawCommit, Goto, Fail, FailPc, LockInv, Guarding, Live, TypeOK, WorkerType
  <2>3. PendingInv'
    BY <1>21, <2>b
       DEF IInv, WithdrawCommit, Goto, Fail, FailPc, PendingInv, Guarding, Req, files, TypeOK,
           WorkerType
  <2>4. FreshInv'
    <3>1. \A r \in Request : r # Req(o) /\ Untouched(r) => Untouched(r)'
      BY <1>21, RequestAssumption DEF WithdrawCommit, Fail, Tell, Untouched, IInv, emulator
    <3>2. /\ \A p \in Ops : p # o => phase'[p] = phase[p] /\ pc'[p] = pc[p]
          /\ phase'[o] = phase[o] \/ Later(phase'[o], phase[o])
          /\ pc'[o] # "idle"
      BY <1>21 DEF WithdrawCommit, Fail, FailPc, Goto, Phases
    <3>3. phase'[o] = phase[o] /\ pc'[o] \in {"owner", "publishing", "writing"} =>
          Untouched(Req(o))'
      BY <1>21 DEF WithdrawCommit, Fail, FailPc, Goto, IInv, Untouched
    <3> QED
      BY <1>t, <3>1, <3>2, <3>3, FreshKept
  <2>5. PlaceInv'
    BY <1>21, RequestAssumption, <2>b
       DEF IInv, WithdrawCommit, PlaceInv, Untouched, emulator, WorkerType
  <2>6. WithdrawInv'
    BY <1>21, <2>b
       DEF IInv, WithdrawCommit, Goto, Fail, FailPc, WithdrawInv, Guarding, PendingInv, MayRun,
           Owned, worker, emulator, files, TypeOK, WorkerType
  <2>7. CompositeInv'
    BY <1>21, OpsAssumption, <2>b
       DEF IInv, WithdrawCommit, Goto, Fail, FailPc, CompositeInv, emulator, WorkerType
  <2>8. UnresolvedWorkIsFenced'
    BY <1>21, <2>b
       DEF IInv, WithdrawCommit, UnresolvedWorkIsFenced, MayRun, PlaceInv, PendingInv,
           Untouched, Guarding, emulator, files, TypeOK, WorkerType
  <2>9. LiveWorkerOwnsJournal'
    BY <1>21, <2>b
       DEF IInv, WithdrawCommit, Goto, Fail, LiveWorkerOwnsJournal, Live, Owned, TypeOK,
           WorkerType
  <2>10. NotExecutedIsProof'
    BY <1>21, <2>b
       DEF IInv, WithdrawCommit, Tell, Fail, NotExecutedIsProof, MayRun, Untouched, PlaceInv,
           emulator, TypeOK, WorkerType
  <2>11. CompletedIsProof'
    BY <1>21, <2>b DEF IInv, WithdrawCommit, Tell, Fail, CompletedIsProof, emulator, WorkerType
  <2> QED
    BY <1>t, <2>1, <2>2, <2>3, <2>4, <2>5, <2>6, <2>7, <2>8, <2>9, <2>10, <2>11 DEF IInv
<1>22. ASSUME NEW o \in Ops, WithdrawForeign(o) PROVE IInv'
  <2>a. Req(o) \in Request /\ Primary(o) \in Request
    BY <1>t, RequestType DEF TypeOK
  <2>1. StopInv' /\ StoppedIsQuiet'
    BY <1>22, InvFrame DEF WithdrawForeign, journal, locks, worker, emulator
  <2>2. LockInv'
    BY <1>22, HolderAssumption
       DEF IInv, WithdrawForeign, Goto, Fail, FailPc, LockInv, Guarding, Live, TypeOK,
           WorkerType
  <2>3. PendingInv'
    BY <1>22
       DEF IInv, WithdrawForeign, Goto, Fail, PendingInv, Guarding, Owned, Req, journal, files,
           TypeOK, WorkerType
  <2>4. FreshInv'
    <3>1. \A r \in Request : r # Req(o) /\ Untouched(r) => Untouched(r)'
      BY <1>22, RequestAssumption DEF WithdrawForeign, Fail, Tell, Untouched, IInv, emulator
    <3>2. /\ \A p \in Ops : p # o => phase'[p] = phase[p] /\ pc'[p] = pc[p]
          /\ phase'[o] = phase[o] \/ Later(phase'[o], phase[o])
          /\ pc'[o] # "idle"
      BY <1>22 DEF WithdrawForeign, Fail, FailPc, Goto, Phases
    <3>3. phase'[o] = phase[o] /\ pc'[o] \in {"owner", "publishing", "writing"} =>
          Untouched(Req(o))'
      BY <1>22 DEF WithdrawForeign, Fail, FailPc, Goto, IInv, Untouched
    <3> QED
      BY <1>t, <3>1, <3>2, <3>3, FreshKept
  <2>5. PlaceInv'
    BY <1>22, RequestAssumption
       DEF IInv, WithdrawForeign, PlaceInv, Untouched, emulator, WorkerType
  <2>6. WithdrawInv'
    BY <1>22
       DEF IInv, WithdrawForeign, Goto, Fail, FailPc, WithdrawInv, Guarding, PendingInv, MayRun,
           Owned, worker, emulator, files, TypeOK, WorkerType
  <2>7. CompositeInv'
    BY <1>22, OpsAssumption
       DEF IInv, WithdrawForeign, Goto, Fail, FailPc, CompositeInv, emulator, WorkerType
  <2>8. UnresolvedWorkIsFenced'
    BY <1>22, RequestAssumption
       DEF IInv, WithdrawForeign, UnresolvedWorkIsFenced, WithdrawInv, MayRun, Untouched,
           journal, emulator, files, TypeOK, WorkerType
  <2>9. LiveWorkerOwnsJournal'
    BY <1>22
       DEF IInv, WithdrawForeign, Goto, Fail, LiveWorkerOwnsJournal, Live, Owned, journal,
           TypeOK, WorkerType
  <2>10. NotExecutedIsProof'
    BY <1>22, RequestAssumption
       DEF IInv, WithdrawForeign, Tell, Fail, NotExecutedIsProof, WithdrawInv, MayRun,
           Untouched, emulator, TypeOK, WorkerType
  <2>11. CompletedIsProof'
    BY <1>22 DEF IInv, WithdrawForeign, Tell, Fail, CompletedIsProof, emulator, WorkerType
  <2> QED
    BY <1>t, <2>1, <2>2, <2>3, <2>4, <2>5, <2>6, <2>7, <2>8, <2>9, <2>10, <2>11 DEF IInv
<1>23. ASSUME NEW o \in Ops, MarkUncertain(o) PROVE IInv'
  <2>a. Req(o) \in Request /\ Primary(o) \in Request
    BY <1>t, RequestType DEF TypeOK
  <2>b. \/ operation' = operation
        \/ /\ operation # NoOp /\ operation' = Uncertain /\ Uncertain # NoOp
           /\ Uncertain.id = operation.id /\ Uncertain.pending = operation.pending
    BY <1>23, <1>t, WriteResultsDisk, JournalRecords, RecordFields, NoOpAssumption
       DEF MarkUncertain, Owned
  <2>1. PlaceInv' /\ StopInv' /\ NotExecutedIsProof' /\ CompletedIsProof' /\ StoppedIsQuiet'
    BY <1>23, InvFrame DEF MarkUncertain, journal, emulator, files
  <2>2. LockInv'
    BY <1>23, <2>b DEF IInv, MarkUncertain, Goto, LockInv, Guarding, Live, locks
  <2>3. PendingInv'
    BY <1>23, <2>b DEF IInv, MarkUncertain, Goto, PendingInv, Guarding, Owned, Req
  <2>4. FreshInv'
    BY <1>23, <2>b
       DEF IInv, MarkUncertain, Goto, FreshInv, Untouched, Later, Req, emulator, files
  <2>5. WithdrawInv'
    BY <1>23, <2>b
       DEF IInv, MarkUncertain, Goto, WithdrawInv, Req, MayRun, files, TypeOK, WorkerType
  <2>6. CompositeInv'
    BY <1>23, OpsAssumption, <2>b DEF IInv, MarkUncertain, Goto, CompositeInv, emulator
  <2>7. UnresolvedWorkIsFenced'
    BY <1>23, <2>b
       DEF IInv, MarkUncertain, UnresolvedWorkIsFenced, MayRun, Untouched, emulator, files,
           WorkerType
  <2>8. LiveWorkerOwnsJournal'
    BY <1>23, <2>b DEF IInv, MarkUncertain, Goto, LiveWorkerOwnsJournal, Live, Owned
  <2> QED
    BY <1>t, <2>1, <2>2, <2>3, <2>4, <2>5, <2>6, <2>7, <2>8 DEF IInv
<1>24. ASSUME NEW o \in Ops, Finish(o) PROVE IInv'
  <2>a. Req(o) \in Request /\ Primary(o) \in Request
    BY <1>t, RequestType DEF TypeOK
  <2>b. \/ operation' = operation
        \/ /\ operation # NoOp /\ operation.pending = NoRequest
           /\ operation' \in {NoOp, Uncertain} /\ Uncertain.pending = NoRequest
    BY <1>24, <1>t, RecordFields DEF Finish, Resolved, Retirements
  <2>1. PlaceInv' /\ StopInv' /\ NotExecutedIsProof' /\ CompletedIsProof' /\ StoppedIsQuiet'
    BY <1>24, InvFrame DEF Finish, journal, locks, worker, emulator, files
  <2>2. LockInv'
    BY <1>24, <2>b DEF IInv, Finish, Goto, Release, LockInv, Guarding, Live, TypeOK, WorkerType
  <2>3. PendingInv'
    BY <1>24, <2>b DEF IInv, Finish, Goto, Release, PendingInv, Guarding, Owned, WorkerType
  <2>4. FreshInv'
    BY <1>24, <2>b
       DEF IInv, Finish, Goto, Release, FreshInv, Untouched, Later, Req, emulator, files
  <2>5. WithdrawInv'
    BY <1>24, <2>b
       DEF IInv, Finish, Goto, Release, WithdrawInv, Req, MayRun, files, TypeOK, WorkerType
  <2>6. CompositeInv'
    BY <1>24, OpsAssumption, <2>b DEF IInv, Finish, Goto, Release, CompositeInv, emulator
  <2>7. UnresolvedWorkIsFenced'
    BY <1>24, <2>b
       DEF IInv, Finish, UnresolvedWorkIsFenced, WithdrawInv, MayRun, PlaceInv, PendingInv,
           Untouched, Guarding, Owned, emulator, files, TypeOK, WorkerType
  <2>8. LiveWorkerOwnsJournal'
    BY <1>24, <2>b
       DEF IInv, Finish, Goto, Release, LiveWorkerOwnsJournal, Live, Owned, TypeOK, WorkerType
  <2> QED
    BY <1>t, <2>1, <2>2, <2>3, <2>4, <2>5, <2>6, <2>7, <2>8 DEF IInv
<1>25. ASSUME NEW o \in Ops, FinishRaises(o) PROVE IInv'
  <2>a. Req(o) \in Request /\ Primary(o) \in Request
    BY <1>t, RequestType DEF TypeOK
  <2>b. \/ operation' = operation
        \/ /\ operation # NoOp /\ operation.pending = NoRequest
           /\ operation' \in {NoOp, Uncertain} /\ Uncertain.pending = NoRequest
    BY <1>25, <1>t, RecordFields DEF FinishRaises, Owned, Resolved, Retirements
  <2>1. PlaceInv' /\ StopInv' /\ StoppedIsQuiet'
    BY <1>25, InvFrame DEF FinishRaises, journal, locks, worker, emulator, files
  <2>2. LockInv'
    BY <1>25, <2>b
       DEF IInv, FinishRaises, Goto, Release, LockInv, Guarding, Live, TypeOK, WorkerType
  <2>3. PendingInv'
    BY <1>25, <2>b
       DEF IInv, FinishRaises, Goto, Release, PendingInv, Guarding, Owned, TypeOK, WorkerType
  <2>4. FreshInv'
    BY <1>25, <2>b
       DEF IInv, FinishRaises, Goto, Tell, Release, FreshInv, Untouched, Later, Req, Primary,
           emulator, files
  <2>5. WithdrawInv'
    BY <1>25, <2>b
       DEF IInv, FinishRaises, Goto, Release, WithdrawInv, Req, MayRun, emulator, files, TypeOK,
           WorkerType
  <2>6. CompositeInv'
    BY <1>25, OpsAssumption, <2>b DEF IInv, FinishRaises, Goto, Release, CompositeInv, emulator
  <2>7. UnresolvedWorkIsFenced'
    BY <1>25, <2>b
       DEF IInv, FinishRaises, UnresolvedWorkIsFenced, WithdrawInv, MayRun, PlaceInv,
           PendingInv, Untouched, Guarding, Owned, emulator, files, TypeOK, WorkerType
  <2>8. LiveWorkerOwnsJournal'
    BY <1>25, <2>b
       DEF IInv, FinishRaises, Goto, Release, LiveWorkerOwnsJournal, Live, Owned, TypeOK,
           WorkerType
  <2>9. NotExecutedIsProof'
    BY <1>25, <2>b
       DEF IInv, FinishRaises, Tell, NotExecutedIsProof, MayRun, Untouched, emulator, files,
           TypeOK, WorkerType
  <2>10. CompletedIsProof'
    BY <1>25, <2>b DEF IInv, FinishRaises, Tell, CompletedIsProof, CompositeInv, emulator
  <2> QED
    BY <1>t, <2>1, <2>2, <2>3, <2>4, <2>5, <2>6, <2>7, <2>8, <2>9, <2>10 DEF IInv
<1>26. ASSUME NEW o \in Ops, FinishFenced(o) PROVE IInv'
  <2>a. Req(o) \in Request /\ Primary(o) \in Request
    BY <1>t, RequestType DEF TypeOK
  <2>1. PlaceInv' /\ StopInv' /\ UnresolvedWorkIsFenced' /\ StoppedIsQuiet'
    BY <1>26, InvFrame DEF FinishFenced, journal, locks, worker, emulator, files
  <2>2. LockInv'
    BY <1>26, HolderAssumption
       DEF IInv, FinishFenced, Goto, Release, LockInv, Guarding, Live, journal, TypeOK,
           WorkerType
  <2>3. PendingInv'
    BY <1>26
       DEF IInv, FinishFenced, Goto, Release, PendingInv, Guarding, Owned, Req, journal, TypeOK,
           WorkerType
  <2>4. FreshInv'
    BY <1>26
       DEF IInv, FinishFenced, Goto, Tell, Release, FreshInv, Untouched, Later, Req, Primary,
           emulator, files
  <2>5. WithdrawInv'
    BY <1>26
       DEF IInv, FinishFenced, Goto, Release, WithdrawInv, Req, MayRun, emulator, files, TypeOK,
           WorkerType
  <2>6. CompositeInv'
    BY <1>26, OpsAssumption DEF IInv, FinishFenced, Goto, Release, CompositeInv, emulator
  <2>7. LiveWorkerOwnsJournal'
    BY <1>26 DEF IInv, FinishFenced, LiveWorkerOwnsJournal, Live, journal, WorkerType
  <2>8. NotExecutedIsProof'
    BY <1>26
       DEF IInv, FinishFenced, Tell, NotExecutedIsProof, MayRun, Untouched, emulator, files,
           TypeOK, WorkerType
  <2>9. CompletedIsProof'
    BY <1>26 DEF IInv, FinishFenced, Tell, CompletedIsProof, emulator
  <2> QED
    BY <1>t, <2>1, <2>2, <2>3, <2>4, <2>5, <2>6, <2>7, <2>8, <2>9 DEF IInv
<1>26b. ASSUME NEW o \in Ops, FinishBusy(o) PROVE IInv'
  <2>a. Req(o) \in Request /\ Primary(o) \in Request
    BY <1>t, RequestType DEF TypeOK
  <2>1. PlaceInv' /\ StopInv' /\ UnresolvedWorkIsFenced' /\ StoppedIsQuiet'
    BY <1>26b, InvFrame DEF FinishBusy, journal, locks, worker, emulator, files
  <2>2. LockInv'
    BY <1>26b, HolderAssumption
       DEF IInv, FinishBusy, Goto, Release, LockInv, Guarding, Live, journal, TypeOK,
           WorkerType
  <2>3. PendingInv'
    BY <1>26b
       DEF IInv, FinishBusy, Goto, Release, PendingInv, Guarding, Owned, Req, journal, TypeOK,
           WorkerType
  <2>4. FreshInv'
    BY <1>26b
       DEF IInv, FinishBusy, Goto, Tell, Release, FreshInv, Untouched, Later, Req, Primary,
           emulator, files
  <2>5. WithdrawInv'
    BY <1>26b
       DEF IInv, FinishBusy, Goto, Release, WithdrawInv, Req, MayRun, emulator, files, TypeOK,
           WorkerType
  <2>6. CompositeInv'
    BY <1>26b, OpsAssumption DEF IInv, FinishBusy, Goto, Release, CompositeInv, emulator
  <2>7. LiveWorkerOwnsJournal'
    BY <1>26b
       DEF IInv, FinishBusy, Goto, Release, LiveWorkerOwnsJournal, Live, Owned, journal, TypeOK,
           WorkerType
  <2>8. NotExecutedIsProof'
    BY <1>26b
       DEF IInv, FinishBusy, Tell, NotExecutedIsProof, MayRun, Untouched, emulator, files,
           TypeOK, WorkerType
  <2>9. CompletedIsProof'
    BY <1>26b DEF IInv, FinishBusy, Tell, CompletedIsProof, emulator
  <2> QED
    BY <1>t, <2>1, <2>2, <2>3, <2>4, <2>5, <2>6, <2>7, <2>8, <2>9 DEF IInv
<1>27. ASSUME NEW o \in Ops, FinishFailed(o) PROVE IInv'
  <2>a. Req(o) \in Request /\ Primary(o) \in Request
    BY <1>t, RequestType DEF TypeOK
  <2>b. \/ operation' = operation
        \/ /\ operation # NoOp /\ operation.pending = NoRequest
           /\ operation' \in {NoOp, Uncertain} /\ Uncertain.pending = NoRequest
    BY <1>27, <1>t, RecordFields DEF FinishFailed, Owned, Resolved, Retirements
  <2>1. PlaceInv' /\ StopInv' /\ NotExecutedIsProof' /\ CompletedIsProof' /\ StoppedIsQuiet'
    BY <1>27, InvFrame DEF FinishFailed, journal, locks, worker, emulator, files
  <2>2. LockInv'
    <3>1. /\ pc[o] = "unwinding" /\ pc' = [pc EXCEPT ![o] = "done"] /\ opLock' = Nobody
          /\ UNCHANGED <<status, stateLock>>
      BY <1>27 DEF FinishFailed, Release, Goto
    <3> QED
      BY <1>t, <3>1, HolderAssumption DEF IInv, LockInv, Guarding, Live, TypeOK, WorkerType
  <2>3. PendingInv'
    BY <1>27, <2>b
       DEF IInv, FinishFailed, Goto, Release, PendingInv, Guarding, Owned, Req, WorkerType
  <2>4. FreshInv'
    BY <1>27, <2>b
       DEF IInv, FinishFailed, Goto, Release, FreshInv, Untouched, Later, Req, emulator, files
  <2>5. WithdrawInv'
    BY <1>27, <2>b
       DEF IInv, FinishFailed, Goto, Release, WithdrawInv, Req, MayRun, files, TypeOK,
           WorkerType
  <2>6. CompositeInv'
    BY <1>27, OpsAssumption, <2>b DEF IInv, FinishFailed, Goto, Release, CompositeInv, emulator
  <2>7. UnresolvedWorkIsFenced'
    BY <1>27, <2>b
       DEF IInv, FinishFailed, UnresolvedWorkIsFenced, WithdrawInv, MayRun, PlaceInv,
           PendingInv, Untouched, Guarding, Owned, emulator, files, TypeOK, WorkerType
  <2>8. LiveWorkerOwnsJournal'
    BY <1>27, <2>b
       DEF IInv, FinishFailed, Goto, Release, LiveWorkerOwnsJournal, Live, Owned, TypeOK,
           WorkerType
  <2> QED
    BY <1>t, <2>1, <2>2, <2>3, <2>4, <2>5, <2>6, <2>7, <2>8 DEF IInv
<1>28. ASSUME NEW o \in Ops, Crash(o) PROVE IInv'
  <2>a. Req(o) \in Request /\ Primary(o) \in Request
    BY <1>t, RequestType DEF TypeOK
  <2>1. StopInv' /\ UnresolvedWorkIsFenced' /\ NotExecutedIsProof' /\ CompletedIsProof' /\
        StoppedIsQuiet'
    BY <1>28, InvFrame DEF Crash, journal, locks, worker, emulator
  <2>2. LockInv'
    BY <1>28, HolderAssumption
       DEF IInv, Crash, Goto, LockInv, Guarding, Live, journal, TypeOK, WorkerType
  <2>3. PendingInv'
    BY <1>28 DEF IInv, Crash, Goto, PendingInv, Guarding, Owned, Req, journal
  <2>4. FreshInv'
    <3>1. \A r \in Request : r # Req(o) /\ Untouched(r) => Untouched(r)'
      BY <1>28, RequestAssumption DEF Crash, Untouched, IInv, emulator
    <3>2. /\ \A p \in Ops : p # o => phase'[p] = phase[p] /\ pc'[p] = pc[p]
          /\ phase'[o] = phase[o] \/ Later(phase'[o], phase[o])
          /\ pc'[o] # "idle"
      BY <1>28 DEF Crash, Goto, Phases
    <3>3. phase'[o] = phase[o] /\ pc'[o] \in {"owner", "publishing", "writing"} =>
          Untouched(Req(o))'
      BY <1>28 DEF Crash, Goto, TypeOK, WorkerType, IInv, Untouched
    <3> QED
      BY <1>t, <3>1, <3>2, <3>3, FreshKept
  <2>5. PlaceInv'
    BY <1>28, RequestAssumption DEF IInv, Crash, PlaceInv, Untouched, emulator
  <2>6. WithdrawInv'
    BY <1>28
       DEF IInv, Crash, Goto, WithdrawInv, LockInv, Guarding, Req, MayRun, TypeOK, WorkerType
  <2>7. CompositeInv'
    BY <1>28, OpsAssumption DEF IInv, Crash, Goto, CompositeInv, emulator
  <2>8. LiveWorkerOwnsJournal'
    BY <1>28 DEF IInv, Crash, Goto, LiveWorkerOwnsJournal, Live, Owned, journal
  <2> QED
    BY <1>t, <2>1, <2>2, <2>3, <2>4, <2>5, <2>6, <2>7, <2>8 DEF IInv
<1>29. ASSUME WriteHeartbeat PROVE IInv'
  <2>1. LockInv' /\ PendingInv' /\ FreshInv' /\ PlaceInv' /\ WithdrawInv' /\ CompositeInv' /\
        StopInv' /\ UnresolvedWorkIsFenced' /\ LiveWorkerOwnsJournal' /\ NotExecutedIsProof' /\
            CompletedIsProof' /\ StoppedIsQuiet'
    BY <1>29, InvFrame DEF WriteHeartbeat, journal, locks, worker, emulator, files
  <2> QED
    BY <1>t, <2>1 DEF IInv
<1>30. ASSUME Claim PROVE IInv'
  <2>1. LockInv' /\ PendingInv' /\ WithdrawInv' /\ CompositeInv' /\ StopInv' /\
        LiveWorkerOwnsJournal' /\ CompletedIsProof' /\ StoppedIsQuiet'
    BY <1>30, InvFrame DEF Claim, journal, locks, worker, emulator
  <2>2. FreshInv'
    <3>1. ASSUME NEW r \in Request, Untouched(r) PROVE Untouched(r)'
      BY <1>30, <3>1 DEF Claim, Untouched, IInv, PlaceInv, worker
    <3>2. UNCHANGED <<pc, phase>>
      BY <1>30 DEF Claim, worker
    <3> QED
      BY <3>1, <3>2 DEF IInv, FreshInv, Req, Request, TypeOK, WorkerType
  <2>3. PlaceInv'
    BY <1>30, RequestAssumption DEF IInv, Claim, PlaceInv, Untouched
  <2>4. UnresolvedWorkIsFenced'
    BY <1>30, RequestAssumption
       DEF IInv, Claim, UnresolvedWorkIsFenced, MayRun, Untouched, journal
  <2>5. NotExecutedIsProof'
    BY <1>30, RequestAssumption DEF IInv, Claim, NotExecutedIsProof, MayRun, Untouched, worker
  <2> QED
    BY <1>t, <2>1, <2>2, <2>3, <2>4, <2>5 DEF IInv
<1>31. ASSUME Execute PROVE IInv'
  <2>1. LockInv' /\ PendingInv' /\ WithdrawInv' /\ StopInv' /\ LiveWorkerOwnsJournal' /\
        StoppedIsQuiet'
    BY <1>31, InvFrame DEF Execute, journal, locks, worker, emulator, files
  <2>2. FreshInv'
    BY <1>31 DEF IInv, Execute, FreshInv, Untouched, Later, Req, worker, files
  <2>3. PlaceInv'
    BY <1>31 DEF IInv, Execute, PlaceInv, Untouched, files
  <2>4. CompositeInv'
    BY <1>31 DEF IInv, Execute, CompositeInv, worker
  <2>5. UnresolvedWorkIsFenced'
    BY <1>31 DEF IInv, Execute, UnresolvedWorkIsFenced, MayRun, Untouched, journal, files
  <2>6. NotExecutedIsProof'
    BY <1>31 DEF IInv, Execute, NotExecutedIsProof, MayRun, Untouched, worker, files
  <2>7. CompletedIsProof'
    BY <1>31 DEF IInv, Execute, CompletedIsProof, worker
  <2> QED
    BY <1>t, <2>1, <2>2, <2>3, <2>4, <2>5, <2>6, <2>7 DEF IInv
<1>32. ASSUME Respond PROVE IInv'
  <2>1. LockInv' /\ PendingInv' /\ WithdrawInv' /\ CompositeInv' /\ StopInv' /\
        LiveWorkerOwnsJournal' /\ CompletedIsProof' /\ StoppedIsQuiet'
    BY <1>32, InvFrame DEF Respond, journal, locks, worker, emulator
  <2>2. FreshInv'
    <3>1. ASSUME NEW r \in Request, Untouched(r) PROVE Untouched(r)'
      BY <1>32, <3>1, RequestAssumption DEF Respond, Untouched, IInv, worker
    <3>2. UNCHANGED <<pc, phase>>
      BY <1>32 DEF Respond, worker
    <3> QED
      BY <3>1, <3>2 DEF IInv, FreshInv, Req, Request, TypeOK, WorkerType
  <2>3. PlaceInv'
    BY <1>32, RequestAssumption DEF IInv, Respond, PlaceInv, Untouched
  <2>4. UnresolvedWorkIsFenced'
    BY <1>32 DEF IInv, Respond, UnresolvedWorkIsFenced, MayRun, Untouched, journal
  <2>5. NotExecutedIsProof'
    BY <1>32 DEF IInv, Respond, NotExecutedIsProof, MayRun, Untouched, worker
  <2> QED
    BY <1>t, <2>1, <2>2, <2>3, <2>4, <2>5 DEF IInv
<1>33. ASSUME EmulatorExits PROVE IInv'
  <2>1. LockInv' /\ PendingInv' /\ WithdrawInv' /\ CompositeInv' /\ LiveWorkerOwnsJournal' /\
        CompletedIsProof'
    BY <1>33, InvFrame DEF EmulatorExits, journal, locks, worker, emulator, files
  <2>2. FreshInv'
    <3>1. ASSUME NEW r \in Request, Untouched(r) PROVE Untouched(r)'
      BY <1>33, <3>1, RequestAssumption DEF EmulatorExits, Untouched, Die, IInv, worker, files
    <3>2. UNCHANGED <<pc, phase>>
      BY <1>33 DEF EmulatorExits, worker
    <3> QED
      BY <3>1, <3>2 DEF IInv, FreshInv, Req, Request, TypeOK, WorkerType
  <2>3. PlaceInv'
    BY <1>33, RequestAssumption DEF IInv, EmulatorExits, Die, PlaceInv, Untouched, files
  <2>4. StopInv'
    BY <1>33 DEF IInv, EmulatorExits, StopInv, journal
  <2>5. UnresolvedWorkIsFenced'
    BY <1>33
       DEF IInv, EmulatorExits, Die, UnresolvedWorkIsFenced, MayRun, Untouched, journal, files
  <2>6. NotExecutedIsProof'
    BY <1>33 DEF IInv, EmulatorExits, Die, NotExecutedIsProof, MayRun, Untouched, worker, files
  <2>7. StoppedIsQuiet'
    BY <1>33 DEF IInv, EmulatorExits, StoppedIsQuiet, journal
  <2> QED
    BY <1>t, <2>1, <2>2, <2>3, <2>4, <2>5, <2>6, <2>7 DEF IInv
<1>34. ASSUME ForeignCommand PROVE IInv'
  <2>1. LockInv' /\ PendingInv' /\ WithdrawInv' /\ CompositeInv' /\ StopInv' /\
        LiveWorkerOwnsJournal' /\ CompletedIsProof' /\ StoppedIsQuiet'
    BY <1>34, InvFrame DEF ForeignCommand, journal, locks, worker, emulator
  <2>2. FreshInv'
    <3>1. ASSUME NEW r \in Request, Untouched(r) PROVE Untouched(r)'
      BY <1>34, <3>1, RequestAssumption
         DEF ForeignCommand, Untouched, IInv, worker, emulator, NoResponse
    <3>2. UNCHANGED <<pc, phase>>
      BY <1>34 DEF ForeignCommand, worker
    <3> QED
      BY <3>1, <3>2 DEF IInv, FreshInv, Req, Request, TypeOK, WorkerType
  <2>3. PlaceInv'
    BY <1>34, RequestAssumption DEF IInv, ForeignCommand, PlaceInv, Untouched, emulator
  <2>4. UnresolvedWorkIsFenced'
    BY <1>34, RequestAssumption
       DEF IInv, ForeignCommand, UnresolvedWorkIsFenced, MayRun, Untouched, journal, emulator
  <2>5. NotExecutedIsProof'
    BY <1>34, RequestAssumption
       DEF IInv, ForeignCommand, NotExecutedIsProof, MayRun, Untouched, worker, emulator
  <2> QED
    BY <1>t, <2>1, <2>2, <2>3, <2>4, <2>5 DEF IInv
<1>34a. ASSUME NEW s \in Stops, FenceLock(s) PROVE IInv'
  <2>1. PendingInv' /\ FreshInv' /\ PlaceInv' /\ WithdrawInv' /\ CompositeInv' /\
        UnresolvedWorkIsFenced' /\ LiveWorkerOwnsJournal' /\ NotExecutedIsProof' /\
            CompletedIsProof' /\ StoppedIsQuiet'
    BY <1>34a, InvFrame DEF FenceLock, journal, worker, emulator, files
  <2>2. LockInv'
    BY <1>34a, HolderAssumption DEF IInv, FenceLock, LockInv, Guarding, Live, worker
  <2>3. StopInv'
    BY <1>34a DEF IInv, FenceLock, StopGoto, StopInv, TypeOK, journal, emulator
  <2> QED
    BY <1>t, <2>1, <2>2, <2>3 DEF IInv
<1>35. ASSUME NEW s \in Stops, Fence(s) PROVE IInv'
  <2>b. \/ stopPc' = [stopPc EXCEPT ![s] = "fenced"] /\ status' = "stopping"
        \/ stopPc' = [stopPc EXCEPT ![s] = "failed"] /\ status' \in {status, "stopping"}
    BY <1>35, <1>t, WriteResultsDisk DEF Fence, StopGoto
  <2>1. FreshInv' /\ PlaceInv' /\ WithdrawInv' /\ CompositeInv' /\ NotExecutedIsProof' /\
        CompletedIsProof'
    BY <1>35, InvFrame DEF Fence, journal, locks, worker, emulator, files
  <2>2. LockInv'
    BY <1>35, <2>b, StopExcludes, HolderAssumption
       DEF IInv, Fence, LockInv, Guarding, Live, worker
  <2>3. PendingInv'
    BY <1>35, StopExcludes DEF Fence, PendingInv, Guarding, worker
  <2>4. StopInv'
    BY <1>35, <2>b DEF IInv, Fence, StopInv, emulator, TypeOK
  <2>5. UnresolvedWorkIsFenced'
    BY <1>35, <2>b DEF IInv, Fence, UnresolvedWorkIsFenced, MayRun, Untouched, emulator, files
  <2>6. LiveWorkerOwnsJournal'
    BY <1>35, <2>b DEF IInv, Fence, LiveWorkerOwnsJournal, Live, Owned, worker
  <2>7. StoppedIsQuiet'
    BY <1>35, <2>b DEF IInv, Fence, StoppedIsQuiet, emulator
  <2> QED
    BY <1>t, <2>1, <2>2, <2>3, <2>4, <2>5, <2>6, <2>7 DEF IInv
<1>36. ASSUME NEW s \in Stops, FenceRefused(s) PROVE IInv'
  <2>1. LockInv' /\ PendingInv' /\ FreshInv' /\ PlaceInv' /\ WithdrawInv' /\ CompositeInv' /\
        UnresolvedWorkIsFenced' /\ LiveWorkerOwnsJournal' /\ NotExecutedIsProof' /\
            CompletedIsProof' /\ StoppedIsQuiet'
    BY <1>36, InvFrame DEF FenceRefused, journal, locks, worker, emulator, files
  <2>2. StopInv'
    BY <1>36 DEF IInv, FenceRefused, StopGoto, StopInv, journal, emulator
  <2> QED
    BY <1>t, <2>1, <2>2 DEF IInv
<1>37. ASSUME NEW s \in Stops, Terminate(s) PROVE IInv'
  <2>1. LockInv' /\ PendingInv' /\ WithdrawInv' /\ CompositeInv' /\ LiveWorkerOwnsJournal' /\
        CompletedIsProof'
    BY <1>37, InvFrame DEF Terminate, journal, locks, worker, emulator, files
  <2>2. FreshInv'
    <3>1. ASSUME NEW r \in Request, Untouched(r) PROVE Untouched(r)'
      BY <1>37, <3>1, RequestAssumption
         DEF Terminate, Untouched, Die, IInv, worker, files, NoResponse
    <3>2. UNCHANGED <<pc, phase>>
      BY <1>37 DEF Terminate, worker
    <3> QED
      BY <3>1, <3>2 DEF IInv, FreshInv, Req, Request, TypeOK, WorkerType
  <2>3. PlaceInv'
    BY <1>37, RequestAssumption DEF IInv, Terminate, Die, PlaceInv, Untouched, files
  <2>4. StopInv'
    BY <1>37 DEF IInv, Terminate, Die, StopInv, journal
  <2>5. UnresolvedWorkIsFenced'
    BY <1>37
       DEF IInv, Terminate, Die, UnresolvedWorkIsFenced, MayRun, Untouched, journal, files,
           WorkerType
  <2>6. NotExecutedIsProof'
    BY <1>37 DEF IInv, Terminate, Die, NotExecutedIsProof, MayRun, Untouched, worker, files
  <2>7. StoppedIsQuiet'
    BY <1>37 DEF IInv, Terminate, Die, StoppedIsQuiet
  <2> QED
    BY <1>t, <2>1, <2>2, <2>3, <2>4, <2>5, <2>6, <2>7 DEF IInv
<1>38. ASSUME NEW s \in Stops, StopFails(s) PROVE IInv'
  <2>1. PendingInv' /\ FreshInv' /\ PlaceInv' /\ WithdrawInv' /\ CompositeInv' /\
        UnresolvedWorkIsFenced' /\ LiveWorkerOwnsJournal' /\ NotExecutedIsProof' /\
            CompletedIsProof' /\ StoppedIsQuiet'
    BY <1>38, InvFrame DEF StopFails, journal, worker, emulator, files
  <2>2. LockInv'
    BY <1>38, HolderAssumption DEF IInv, StopFails, LockInv, Guarding, Live, journal, worker
  <2>3. StopInv'
    BY <1>38 DEF IInv, StopFails, StopGoto, StopInv, TypeOK, journal, emulator
  <2> QED
    BY <1>t, <2>1, <2>2, <2>3 DEF IInv
<1>38a. ASSUME NEW s \in Stops, RetireLock(s) PROVE IInv'
  <2>1. PendingInv' /\ FreshInv' /\ PlaceInv' /\ WithdrawInv' /\ CompositeInv' /\
        UnresolvedWorkIsFenced' /\ LiveWorkerOwnsJournal' /\ NotExecutedIsProof' /\
            CompletedIsProof' /\ StoppedIsQuiet'
    BY <1>38a, InvFrame DEF RetireLock, journal, worker, emulator, files
  <2>2. LockInv'
    BY <1>38a, HolderAssumption DEF IInv, RetireLock, LockInv, Guarding, Live, worker
  <2>3. StopInv'
    BY <1>38a DEF IInv, RetireLock, StopGoto, StopInv, TypeOK, journal, emulator
  <2> QED
    BY <1>t, <2>1, <2>2, <2>3 DEF IInv
<1>39. ASSUME NEW s \in Stops, RecoveryFinish(s) PROVE IInv'
  <2>b. \/ status' = status /\ operation' = operation
        \/ status' = "stopped" /\ operation' = NoOp
    <3>1. PICK w \in WriteResults(journal, <<"stopped", NoOp>>) :
             status' = w.disk[1] /\ operation' = w.disk[2]
      BY <1>39 DEF RecoveryFinish
    <3>2. w.disk = <<status, operation>> \/ w.disk = <<"stopped", NoOp>>
      BY WriteResultsDisk DEF journal
    <3>3. CASE w.disk = <<status, operation>>
      <4>1. w.disk[1] = status /\ w.disk[2] = operation
        BY <3>3
      <4> QED
        BY <3>1, <4>1
    <3>4. CASE w.disk = <<"stopped", NoOp>>
      BY <3>1, <3>4
    <3> QED
      BY <3>2, <3>3, <3>4
  <2>1. FreshInv' /\ PlaceInv' /\ WithdrawInv' /\ CompositeInv' /\ NotExecutedIsProof' /\
        CompletedIsProof'
    BY <1>39, InvFrame DEF RecoveryFinish, worker, emulator, files
  <2>2. LockInv'
    BY <1>39, <2>b, StopExcludes, HolderAssumption
       DEF IInv, RecoveryFinish, LockInv, Guarding, Live, worker
  <2>3. PendingInv'
    BY <1>39, StopExcludes DEF RecoveryFinish, PendingInv, Guarding, worker
  <2>4. StopInv'
    BY <1>39, <2>b DEF IInv, RecoveryFinish, StopInv, emulator
  <2>5. UnresolvedWorkIsFenced'
    BY <1>39, <2>b
       DEF IInv, RecoveryFinish, UnresolvedWorkIsFenced, MayRun, Untouched, emulator, files
  <2>6. LiveWorkerOwnsJournal'
    BY <1>39, <2>b DEF IInv, RecoveryFinish, LiveWorkerOwnsJournal, Live, Owned, worker
  <2>7. StoppedIsQuiet'
    BY <1>39, <2>b DEF IInv, RecoveryFinish, StoppedIsQuiet, StopInv, emulator
  <2> QED
    BY <1>t, <2>1, <2>2, <2>3, <2>4, <2>5, <2>6, <2>7 DEF IInv
<1>40. ASSUME UNCHANGED vars PROVE IInv'
  BY <1>t, <1>40, InvFrame DEF vars, journal, locks, worker, emulator, files, IInv
<1> QED
  BY <1>1, <1>2, <1>2b, <1>3, <1>4, <1>5, <1>6, <1>7, <1>8, <1>9, <1>10, <1>11, <1>12,
     <1>13, <1>14, <1>15, <1>16, <1>17, <1>18, <1>19, <1>20, <1>21, <1>22, <1>23, <1>24, <1>25, <1>26, <1>26b,
     <1>27, <1>28, <1>29, <1>30, <1>31, <1>32, <1>33, <1>34, <1>34a,
     <1>35, <1>36, <1>37, <1>38, <1>38a, <1>39, <1>40 DEF Next, WorkerStep, StopStep, Bridge
====
