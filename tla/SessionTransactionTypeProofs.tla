---- MODULE SessionTransactionTypeProofs ----
(***************************************************************************)
(* Lemmas about the types of SessionTransaction, and the proof that its    *)
(* type invariant is preserved.                                            *)
(***************************************************************************)
EXTENDS SessionTransactionInv, TLAPS

(* An atomic replace leaves the old or the new content, the new one unless it raised. *)
LEMMA WriteResultsDisk ==
    ASSUME NEW old, NEW new, NEW w \in WriteResults(old, new)
    PROVE  w.disk \in {old, new} /\ w.raised \in BOOLEAN /\ (~w.raised => w.disk = new)
BY DEF WriteResults

(* The request of a worker and its first request are requests. *)
LEMMA RequestType ==
    ASSUME WorkerType, NEW o \in Ops
    PROVE  Req(o) \in Request /\ Primary(o) \in Request
BY DEF WorkerType, Request, Phases, Req, Primary

(* Everything a worker writes to its journal record is an operation. *)
LEMMA JournalRecords ==
    ASSUME TypeOK, operation # NoOp, NEW o \in Ops
    PROVE  /\ operation \in Operation
           /\ Started(o) \in Operation /\ Restored(o) \in Operation
           /\ Completed \in Operation /\ Uncertain \in Operation
<1>1. operation \in Operation /\ saved[o] \in BOOLEAN
  BY DEF TypeOK, JournalType, WorkerType
<1>2. Req(o) \in Request
  BY RequestType DEF TypeOK
<1> QED
  BY <1>1, <1>2 DEF Operation, Started, Restored, Completed, Uncertain

(* What these records keep and what they change. *)
LEMMA RecordFields ==
    ASSUME TypeOK, operation # NoOp, NEW o \in Ops
    PROVE  /\ Started(o).id = operation.id
           /\ Started(o).pending = Req(o)
           /\ Restored(o).id = operation.id
           /\ Restored(o).pending = NoRequest
           /\ Completed.id = operation.id
           /\ Completed.pending = NoRequest
           /\ Uncertain.id = operation.id
           /\ Uncertain.pending = operation.pending
<1>1. operation \in Operation
  BY DEF TypeOK, JournalType
<1> QED
  BY <1>1 DEF Operation, Started, Restored, Completed, Uncertain

(* The record of an admitted operation names it and holds no request. *)
LEMMA NewOperationType ==
    ASSUME NEW o \in Ops
    PROVE  /\ NewOperation(o) \in Operation
           /\ NewOperation(o).id = o
           /\ NewOperation(o).pending = NoRequest
BY DEF NewOperation, Operation

(* Moving a worker keeps pc well-typed. *)
LEMMA GotoType ==
    ASSUME WorkerType, NEW o \in Ops, NEW where \in Places, Goto(o, where)
    PROVE  pc' \in [Ops -> Places]
BY DEF WorkerType, Goto

(* Telling a caller its outcome keeps the reports well-typed. *)
LEMMA TellType ==
    ASSUME WorkerType, NEW r \in Request, NEW outcome \in Outcomes, NEW late \in BOOLEAN,
           Tell(r, outcome, late)
    PROVE  report' \in [Request -> Reports]
BY DEF WorkerType, Tell, Reports

(* A failing request leaves the worker variables well-typed. *)
LEMMA FailType ==
    ASSUME WorkerType, NEW o \in Ops, NEW outcome \in Outcomes, NEW late \in BOOLEAN,
           Fail(o, outcome, late), phase' = phase, saved' = saved
    PROVE  WorkerType'
<1>1. FailPc(o) \in Places
  BY DEF FailPc, Places
<1>2. Req(o) \in Request
  BY RequestType
<1>3. pc' \in [Ops -> Places]
  BY <1>1, GotoType DEF Fail
<1>4. report' \in [Request -> Reports]
  BY <1>2, TellType DEF Fail
<1> QED
  BY <1>3, <1>4 DEF WorkerType

(* Parts of the type invariant whose variables stay the same. *)
LEMMA TypeFrame ==
    ASSUME TypeOK
    PROVE  /\ UNCHANGED journal => JournalType'
           /\ UNCHANGED locks => LockType'
           /\ UNCHANGED worker => WorkerType'
           /\ UNCHANGED emulator => EmulatorType'
           /\ UNCHANGED files => FileType'
           /\ UNCHANGED stopPc => stopPc' \in [Stops -> StopPlaces]
BY DEF TypeOK, JournalType, LockType, WorkerType, EmulatorType, FileType,
       journal, locks, worker, emulator, files

(* A worker that rewrites its record leaves a well-typed journal. *)
LEMMA JournalWriteType ==
    ASSUME TypeOK, NEW o \in Ops, operation # NoOp, status' = status,
           operation' \in {operation, NoOp, Started(o), Restored(o), Completed, Uncertain}
    PROVE  JournalType'
BY JournalRecords DEF TypeOK, JournalType

(* Every step of the session preserves the type invariant.  PendingInv is needed:
   the publisher and the withdrawing worker rewrite a record that must exist. *)
LEMMA TypeStep == TypeOK /\ PendingInv /\ [Next]_vars => TypeOK'
<1> SUFFICES ASSUME TypeOK, PendingInv, [Next]_vars PROVE TypeOK'
  OBVIOUS
<1>1. ASSUME NEW o \in Ops, Acquire(o) PROVE TypeOK'
  <2>1. EmulatorType' /\ FileType' /\ stopPc' \in [Stops -> StopPlaces]
    BY <1>1, TypeFrame DEF Acquire, journal, locks, worker, emulator, files
  <2>2. JournalType'
    BY <1>1, NewOperationType, WriteResultsDisk DEF Acquire, TypeOK, JournalType
  <2>3. LockType'
    BY <1>1 DEF Acquire, TypeOK, LockType
  <2>4. WorkerType'
    BY <1>1, GotoType, TellType, RequestType DEF Acquire, TypeOK, WorkerType, Places, Outcomes
  <2> QED
    BY <2>1, <2>2, <2>3, <2>4 DEF TypeOK
<1>2. ASSUME NEW o \in Ops, AcquireRefused(o) PROVE TypeOK'
  <2>1. JournalType' /\ LockType' /\ EmulatorType' /\ FileType' /\
        stopPc' \in [Stops -> StopPlaces]
    BY <1>2, TypeFrame DEF AcquireRefused, journal, locks, worker, emulator, files
  <2>2. WorkerType'
    BY <1>2, GotoType, TellType, RequestType
       DEF AcquireRefused, TypeOK, WorkerType, Places, Outcomes
  <2> QED
    BY <2>1, <2>2 DEF TypeOK
<1>2b. ASSUME NEW o \in Ops, AcquireBusy(o) PROVE TypeOK'
  <2>1. JournalType' /\ LockType' /\ EmulatorType' /\ FileType' /\
        stopPc' \in [Stops -> StopPlaces]
    BY <1>2b, TypeFrame DEF AcquireBusy, journal, locks, worker, emulator, files
  <2>2. WorkerType'
    BY <1>2b, GotoType, TellType, RequestType
       DEF AcquireBusy, TypeOK, WorkerType, Places, Outcomes
  <2> QED
    BY <2>1, <2>2 DEF TypeOK
<1>3. ASSUME NEW o \in Ops, PublishJournal(o) PROVE TypeOK'
  <2>1. EmulatorType' /\ FileType' /\ stopPc' \in [Stops -> StopPlaces]
    BY <1>3, TypeFrame DEF PublishJournal, journal, locks, worker, emulator, files
  <2>2. JournalType'
    BY <1>3, JournalWriteType, WriteResultsDisk
       DEF PublishJournal, Owned, OwnsPending, CanPublish
  <2>3. LockType'
    BY <1>3 DEF PublishJournal, TypeOK, LockType
  <2>4. WorkerType'
    <3>1. pc' \in [Ops -> Places] /\ report' \in [Request -> Reports]
      BY <1>3, FailType, GotoType, RequestType, TellType
         DEF PublishJournal, TypeOK, WorkerType, Fail, FailPc, Places, Outcomes
    <3> QED
      BY <1>3, <3>1, WriteResultsDisk
         DEF PublishJournal, CanPublish, Owned, TypeOK, WorkerType, JournalType, Operation
  <2> QED
    BY <2>1, <2>2, <2>3, <2>4 DEF TypeOK
<1>4. ASSUME NEW o \in Ops, DispatchRefused(o) PROVE TypeOK'
  <2>1. JournalType' /\ LockType' /\ EmulatorType' /\ FileType' /\
        stopPc' \in [Stops -> StopPlaces]
    BY <1>4, TypeFrame DEF DispatchRefused, journal, locks, worker, emulator, files
  <2>2. WorkerType'
    BY <1>4, FailType DEF DispatchRefused, TypeOK, Outcomes
  <2> QED
    BY <2>1, <2>2 DEF TypeOK
<1>5. ASSUME NEW o \in Ops, BeginCommand(o) PROVE TypeOK'
  <2>1. JournalType' /\ LockType' /\ EmulatorType' /\ stopPc' \in [Stops -> StopPlaces]
    BY <1>5, TypeFrame DEF BeginCommand, journal, locks, worker, emulator, files
  <2>2. WorkerType'
    BY <1>5, GotoType DEF BeginCommand, TypeOK, WorkerType, Places
  <2>3. FileType'
    BY <1>5 DEF BeginCommand, TypeOK, FileType, NoResponse, File
  <2> QED
    BY <2>1, <2>2, <2>3 DEF TypeOK
<1>6. ASSUME NEW o \in Ops, CommandExists(o) PROVE TypeOK'
  <2>1. JournalType' /\ EmulatorType' /\ FileType' /\ stopPc' \in [Stops -> StopPlaces]
    BY <1>6, TypeFrame DEF CommandExists, journal, locks, worker, emulator, files
  <2>2. LockType'
    BY <1>6 DEF CommandExists, TypeOK, LockType
  <2>3. WorkerType'
    BY <1>6, FailType DEF CommandExists, TypeOK, Outcomes
  <2> QED
    BY <2>1, <2>2, <2>3 DEF TypeOK
<1>7. ASSUME NEW o \in Ops, WriteCommand(o) PROVE TypeOK'
  <2>1. JournalType' /\ EmulatorType' /\ stopPc' \in [Stops -> StopPlaces]
    BY <1>7, TypeFrame DEF WriteCommand, journal, locks, worker, emulator, files
  <2>2. LockType'
    BY <1>7 DEF WriteCommand, TypeOK, LockType
  <2>3. WorkerType'
    BY <1>7, GotoType DEF WriteCommand, TypeOK, WorkerType, Places
  <2>4. FileType'
    BY <1>7, RequestType DEF WriteCommand, TypeOK, FileType, File
  <2> QED
    BY <2>1, <2>2, <2>3, <2>4 DEF TypeOK
<1>8. ASSUME NEW o \in Ops, WriteCommandFails(o) PROVE TypeOK'
  <2>1. JournalType' /\ EmulatorType' /\ stopPc' \in [Stops -> StopPlaces]
    BY <1>8, TypeFrame DEF WriteCommandFails, journal, locks, worker, emulator, files
  <2>2. LockType'
    BY <1>8 DEF WriteCommandFails, TypeOK, LockType
  <2>3. WorkerType'
    BY <1>8, FailType DEF WriteCommandFails, TypeOK, Outcomes
  <2>4. FileType'
    BY <1>8, RequestType DEF WriteCommandFails, TypeOK, FileType, File
  <2> QED
    BY <2>1, <2>2, <2>3, <2>4 DEF TypeOK
<1>9. ASSUME NEW o \in Ops, PublishExpired(o) PROVE TypeOK'
  <2>1. EmulatorType' /\ FileType' /\ stopPc' \in [Stops -> StopPlaces]
    BY <1>9, TypeFrame DEF PublishExpired, journal, locks, worker, emulator, files
  <2>2. JournalType'
    BY <1>9, JournalWriteType, WriteResultsDisk DEF PublishExpired, PendingInv, Guarding, Owned
  <2>3. LockType'
    BY <1>9 DEF PublishExpired, TypeOK, LockType
  <2>4. WorkerType'
    BY <1>9, FailType DEF PublishExpired, TypeOK, Outcomes
  <2> QED
    BY <2>1, <2>2, <2>3, <2>4 DEF TypeOK
<1>10. ASSUME NEW o \in Ops, Complete(o) PROVE TypeOK'
  <2>1. LockType' /\ EmulatorType' /\ FileType' /\ stopPc' \in [Stops -> StopPlaces]
    BY <1>10, TypeFrame DEF Complete, journal, locks, worker, emulator, files
  <2>2. JournalType'
    BY <1>10, JournalWriteType, WriteResultsDisk DEF Complete, Owned, OwnsPending, CanPublish
  <2>3. WorkerType'
    <3>1. AnswerOutcome \in Outcomes /\ NextPhase(o) \in Phases
      BY DEF AnswerOutcome, Outcomes, NextPhase, Phases
    <3>2. pc' \in [Ops -> Places] /\ phase' \in [Ops -> Phases]
      BY <1>10, <3>1, GotoType DEF Complete, TypeOK, WorkerType, Places
    <3>3. report' \in [Request -> Reports]
      BY <1>10, <3>1, RequestType, TellType DEF Complete, TypeOK
    <3> QED
      BY <1>10, <3>2, <3>3 DEF Complete, TypeOK, WorkerType
  <2> QED
    BY <2>1, <2>2, <2>3 DEF TypeOK
<1>11. ASSUME NEW o \in Ops, CompleteWithError(o) PROVE TypeOK'
  <2>1. LockType' /\ EmulatorType' /\ FileType' /\ stopPc' \in [Stops -> StopPlaces]
    BY <1>11, TypeFrame DEF CompleteWithError, journal, locks, worker, emulator, files
  <2>2. JournalType'
    BY <1>11, JournalWriteType, WriteResultsDisk
       DEF CompleteWithError, Owned, OwnsPending, CanPublish
  <2>3. WorkerType'
    BY <1>11, FailType DEF CompleteWithError, TypeOK, Outcomes, AnswerOutcome
  <2> QED
    BY <2>1, <2>2, <2>3 DEF TypeOK
<1>12. ASSUME NEW o \in Ops, CompleteFenced(o) PROVE TypeOK'
  <2>1. JournalType' /\ LockType' /\ EmulatorType' /\ FileType' /\
        stopPc' \in [Stops -> StopPlaces]
    BY <1>12, TypeFrame DEF CompleteFenced, journal, locks, worker, emulator, files
  <2>2. WorkerType'
    BY <1>12, FailType DEF CompleteFenced, TypeOK, Outcomes, AnswerOutcome
  <2> QED
    BY <2>1, <2>2 DEF TypeOK
<1>13. ASSUME NEW o \in Ops, CheckFenced(o) PROVE TypeOK'
  <2>1. JournalType' /\ LockType' /\ EmulatorType' /\ FileType' /\
        stopPc' \in [Stops -> StopPlaces]
    BY <1>13, TypeFrame DEF CheckFenced, journal, locks, worker, emulator, files
  <2>2. WorkerType'
    BY <1>13, FailType DEF CheckFenced, TypeOK, Outcomes
  <2> QED
    BY <2>1, <2>2 DEF TypeOK
<1>14. ASSUME NEW o \in Ops, ProcessDead(o) PROVE TypeOK'
  <2>1. JournalType' /\ LockType' /\ EmulatorType' /\ FileType' /\
        stopPc' \in [Stops -> StopPlaces]
    BY <1>14, TypeFrame DEF ProcessDead, journal, locks, worker, emulator, files
  <2>2. WorkerType'
    BY <1>14, FailType DEF ProcessDead, TypeOK, Outcomes
  <2> QED
    BY <2>1, <2>2 DEF TypeOK
<1>15. ASSUME NEW o \in Ops, PollRaises(o) PROVE TypeOK'
  <2>1. JournalType' /\ LockType' /\ EmulatorType' /\ FileType' /\
        stopPc' \in [Stops -> StopPlaces]
    BY <1>15, TypeFrame DEF PollRaises, journal, locks, worker, emulator, files
  <2>2. WorkerType'
    BY <1>15, FailType DEF PollRaises, TypeOK, Outcomes
  <2> QED
    BY <2>1, <2>2 DEF TypeOK
<1>16. ASSUME NEW o \in Ops, Expire(o) PROVE TypeOK'
  <2>1. JournalType' /\ LockType' /\ EmulatorType' /\ FileType' /\
        stopPc' \in [Stops -> StopPlaces]
    BY <1>16, TypeFrame DEF Expire, journal, locks, worker, emulator, files
  <2>2. WorkerType'
    BY <1>16, GotoType DEF Expire, TypeOK, WorkerType, Places
  <2> QED
    BY <2>1, <2>2 DEF TypeOK
<1>17. ASSUME NEW o \in Ops, ReconcileUnknown(o) PROVE TypeOK'
  <2>1. JournalType' /\ LockType' /\ EmulatorType' /\ FileType' /\
        stopPc' \in [Stops -> StopPlaces]
    BY <1>17, TypeFrame DEF ReconcileUnknown, journal, locks, worker, emulator, files
  <2>2. WorkerType'
    BY <1>17, FailType DEF ReconcileUnknown, TypeOK, Outcomes
  <2> QED
    BY <2>1, <2>2 DEF TypeOK
<1>18. ASSUME NEW o \in Ops, WithdrawOpen(o) PROVE TypeOK'
  <2>1. JournalType' /\ EmulatorType' /\ FileType' /\ stopPc' \in [Stops -> StopPlaces]
    BY <1>18, TypeFrame DEF WithdrawOpen, journal, locks, worker, emulator, files
  <2>2. LockType'
    BY <1>18 DEF WithdrawOpen, TypeOK, LockType
  <2>3. WorkerType'
    BY <1>18, GotoType DEF WithdrawOpen, TypeOK, WorkerType, Places
  <2> QED
    BY <2>1, <2>2, <2>3 DEF TypeOK
<1>19. ASSUME NEW o \in Ops, WithdrawLost(o) PROVE TypeOK'
  <2>1. JournalType' /\ EmulatorType' /\ FileType' /\ stopPc' \in [Stops -> StopPlaces]
    BY <1>19, TypeFrame DEF WithdrawLost, journal, locks, worker, emulator, files
  <2>2. LockType'
    BY <1>19 DEF WithdrawLost, TypeOK, LockType
  <2>3. WorkerType'
    BY <1>19, FailType DEF WithdrawLost, TypeOK, Outcomes
  <2> QED
    BY <2>1, <2>2, <2>3 DEF TypeOK
<1>20. ASSUME NEW o \in Ops, WithdrawRename(o) PROVE TypeOK'
  <2>1. JournalType' /\ LockType' /\ EmulatorType' /\ stopPc' \in [Stops -> StopPlaces]
    BY <1>20, TypeFrame DEF WithdrawRename, journal, locks, worker, emulator, files
  <2>2. WorkerType'
    BY <1>20, GotoType DEF WithdrawRename, TypeOK, WorkerType, Places
  <2>3. FileType'
    BY <1>20 DEF WithdrawRename, TypeOK, FileType, File
  <2> QED
    BY <2>1, <2>2, <2>3 DEF TypeOK
<1>21. ASSUME NEW o \in Ops, WithdrawCommit(o) PROVE TypeOK'
  <2>1. EmulatorType' /\ stopPc' \in [Stops -> StopPlaces]
    BY <1>21, TypeFrame DEF WithdrawCommit, journal, locks, worker, emulator, files
  <2>2. JournalType'
    BY <1>21, JournalWriteType, WriteResultsDisk DEF WithdrawCommit, PendingInv, Guarding, Owned
  <2>3. LockType'
    BY <1>21 DEF WithdrawCommit, TypeOK, LockType
  <2>4. WorkerType'
    BY <1>21, FailType DEF WithdrawCommit, TypeOK, Outcomes
  <2>5. FileType'
    BY <1>21 DEF WithdrawCommit, TypeOK, FileType, File
  <2> QED
    BY <2>1, <2>2, <2>3, <2>4, <2>5 DEF TypeOK
<1>22. ASSUME NEW o \in Ops, WithdrawForeign(o) PROVE TypeOK'
  <2>1. JournalType' /\ EmulatorType' /\ stopPc' \in [Stops -> StopPlaces]
    BY <1>22, TypeFrame DEF WithdrawForeign, journal, locks, worker, emulator, files
  <2>2. LockType'
    BY <1>22 DEF WithdrawForeign, TypeOK, LockType
  <2>3. WorkerType'
    BY <1>22, FailType DEF WithdrawForeign, TypeOK, Outcomes
  <2>4. FileType'
    BY <1>22 DEF WithdrawForeign, TypeOK, FileType, File
  <2> QED
    BY <2>1, <2>2, <2>3, <2>4 DEF TypeOK
<1>23. ASSUME NEW o \in Ops, MarkUncertain(o) PROVE TypeOK'
  <2>1. LockType' /\ EmulatorType' /\ FileType' /\ stopPc' \in [Stops -> StopPlaces]
    BY <1>23, TypeFrame DEF MarkUncertain, journal, locks, worker, emulator, files
  <2>2. JournalType'
    BY <1>23, TypeFrame, JournalWriteType, WriteResultsDisk
       DEF MarkUncertain, Owned, OwnsPending, CanPublish, journal
  <2>3. WorkerType'
    BY <1>23, GotoType DEF MarkUncertain, TypeOK, WorkerType, Places
  <2> QED
    BY <2>1, <2>2, <2>3 DEF TypeOK
<1>24. ASSUME NEW o \in Ops, Finish(o) PROVE TypeOK'
  <2>1. EmulatorType' /\ FileType' /\ stopPc' \in [Stops -> StopPlaces]
    BY <1>24, TypeFrame DEF Finish, journal, locks, worker, emulator, files
  <2>2. JournalType'
    BY <1>24, JournalWriteType, WriteResultsDisk DEF Finish, Owned, OwnsPending, CanPublish
  <2>3. LockType'
    BY <1>24 DEF Finish, TypeOK, LockType, Release
  <2>4. WorkerType'
    BY <1>24, GotoType DEF Finish, TypeOK, WorkerType, Places, Release
  <2> QED
    BY <2>1, <2>2, <2>3, <2>4 DEF TypeOK
<1>25. ASSUME NEW o \in Ops, FinishRaises(o) PROVE TypeOK'
  <2>1. EmulatorType' /\ FileType' /\ stopPc' \in [Stops -> StopPlaces]
    BY <1>25, TypeFrame DEF FinishRaises, journal, locks, worker, emulator, files
  <2>2. JournalType'
    BY <1>25, JournalWriteType, WriteResultsDisk
       DEF FinishRaises, Owned, OwnsPending, CanPublish, Retirements
  <2>3. LockType'
    BY <1>25 DEF FinishRaises, TypeOK, LockType, Release
  <2>4. WorkerType'
    BY <1>25, GotoType, TellType, RequestType
       DEF TypeOK, WorkerType, Places, Outcomes, Release, FinishRaises
  <2> QED
    BY <2>1, <2>2, <2>3, <2>4 DEF TypeOK
<1>26. ASSUME NEW o \in Ops, FinishFenced(o) PROVE TypeOK'
  <2>1. JournalType' /\ EmulatorType' /\ FileType' /\ stopPc' \in [Stops -> StopPlaces]
    BY <1>26, TypeFrame DEF FinishFenced, journal, locks, worker, emulator, files
  <2>2. LockType'
    BY <1>26 DEF FinishFenced, TypeOK, LockType, Release
  <2>3. WorkerType'
    BY <1>26, GotoType, TellType, RequestType
       DEF TypeOK, WorkerType, Places, Outcomes, Release, FinishFenced
  <2> QED
    BY <2>1, <2>2, <2>3 DEF TypeOK
<1>26b. ASSUME NEW o \in Ops, FinishBusy(o) PROVE TypeOK'
  <2>1. JournalType' /\ EmulatorType' /\ FileType' /\ stopPc' \in [Stops -> StopPlaces]
    BY <1>26b, TypeFrame DEF FinishBusy, journal, locks, worker, emulator, files
  <2>2. LockType'
    BY <1>26b DEF FinishBusy, TypeOK, LockType, Release
  <2>3. WorkerType'
    BY <1>26b, GotoType, TellType, RequestType
       DEF TypeOK, WorkerType, Places, Outcomes, Release, FinishBusy
  <2> QED
    BY <2>1, <2>2, <2>3 DEF TypeOK
<1>27. ASSUME NEW o \in Ops, FinishFailed(o) PROVE TypeOK'
  <2>1. EmulatorType' /\ FileType' /\ stopPc' \in [Stops -> StopPlaces]
    BY <1>27, TypeFrame DEF FinishFailed, journal, locks, worker, emulator, files
  <2>2. JournalType'
    <3>1. CASE operation' = operation
      BY <1>27, <3>1 DEF FinishFailed, TypeOK, JournalType
    <3>2. CASE operation' # operation
      BY <1>27, <3>2, JournalWriteType DEF FinishFailed, Owned, Retirements
    <3> QED
      BY <3>1, <3>2
  <2>3. LockType'
    BY <1>27 DEF FinishFailed, TypeOK, LockType, Release
  <2>4. WorkerType'
    BY <1>27, GotoType DEF FinishFailed, TypeOK, WorkerType, Places, Release
  <2> QED
    BY <2>1, <2>2, <2>3, <2>4 DEF TypeOK
<1>28. ASSUME NEW o \in Ops, Crash(o) PROVE TypeOK'
  <2>1. JournalType' /\ EmulatorType' /\ stopPc' \in [Stops -> StopPlaces]
    BY <1>28, TypeFrame DEF Crash, journal, locks, worker, emulator, files
  <2>2. LockType'
    BY <1>28 DEF Crash, TypeOK, LockType
  <2>3. WorkerType'
    BY <1>28, GotoType DEF Crash, TypeOK, WorkerType, Places
  <2>4. FileType'
    BY <1>28 DEF Crash, TypeOK, FileType, File
  <2> QED
    BY <2>1, <2>2, <2>3, <2>4 DEF TypeOK
<1>29. ASSUME WriteHeartbeat PROVE TypeOK'
  <2>1. JournalType' /\ LockType' /\ WorkerType' /\ FileType' /\ stopPc' \in [Stops -> StopPlaces]
    BY <1>29, TypeFrame DEF WriteHeartbeat, journal, locks, worker, emulator, files
  <2>2. EmulatorType'
    BY <1>29 DEF WriteHeartbeat, TypeOK, EmulatorType
  <2> QED
    BY <2>1, <2>2 DEF TypeOK
<1>30. ASSUME Claim PROVE TypeOK'
  <2>1. JournalType' /\ LockType' /\ WorkerType' /\ stopPc' \in [Stops -> StopPlaces]
    BY <1>30, TypeFrame DEF Claim, journal, locks, worker, emulator, files
  <2>2. EmulatorType'
    BY <1>30 DEF Claim, TypeOK, EmulatorType, FileType
  <2>3. FileType'
    BY <1>30 DEF Claim, TypeOK, FileType, File
  <2> QED
    BY <2>1, <2>2, <2>3 DEF TypeOK
<1>31. ASSUME Execute PROVE TypeOK'
  <2>1. JournalType' /\ LockType' /\ WorkerType' /\ FileType' /\ stopPc' \in [Stops -> StopPlaces]
    BY <1>31, TypeFrame DEF Execute, journal, locks, worker, emulator, files
  <2>2. EmulatorType'
    BY <1>31 DEF Execute, TypeOK, EmulatorType
  <2> QED
    BY <2>1, <2>2 DEF TypeOK
<1>32. ASSUME Respond PROVE TypeOK'
  <2>1. JournalType' /\ LockType' /\ WorkerType' /\ stopPc' \in [Stops -> StopPlaces]
    BY <1>32, TypeFrame DEF Respond, journal, locks, worker, emulator, files
  <2>2. EmulatorType'
    BY <1>32 DEF Respond, TypeOK, EmulatorType, File
  <2>3. FileType'
    BY <1>32 DEF Respond, TypeOK, FileType, EmulatorType
  <2> QED
    BY <2>1, <2>2, <2>3 DEF TypeOK
<1>33. ASSUME EmulatorExits PROVE TypeOK'
  <2>1. JournalType' /\ LockType' /\ WorkerType' /\ FileType' /\ stopPc' \in [Stops -> StopPlaces]
    BY <1>33, TypeFrame DEF EmulatorExits, journal, locks, worker, emulator, files
  <2>2. EmulatorType'
    BY <1>33 DEF EmulatorExits, TypeOK, EmulatorType, File, Die
  <2> QED
    BY <2>1, <2>2 DEF TypeOK
<1>34. ASSUME ForeignCommand PROVE TypeOK'
  <2>1. JournalType' /\ LockType' /\ WorkerType' /\ EmulatorType' /\
        stopPc' \in [Stops -> StopPlaces]
    BY <1>34, TypeFrame DEF ForeignCommand, journal, locks, worker, emulator, files
  <2>2. FileType'
    BY <1>34, BoundAssumption DEF ForeignCommand, TypeOK, FileType, File
  <2> QED
    BY <2>1, <2>2 DEF TypeOK
<1>35a. ASSUME NEW s \in Stops, FenceLock(s) PROVE TypeOK'
  <2>1. JournalType' /\ WorkerType' /\ EmulatorType' /\ FileType'
    BY <1>35a, TypeFrame DEF FenceLock, journal, locks, worker, emulator, files
  <2>2. LockType'
    BY <1>35a DEF FenceLock, TypeOK, LockType
  <2>3. stopPc' \in [Stops -> StopPlaces]
    BY <1>35a DEF FenceLock, TypeOK, StopGoto, StopPlaces
  <2> QED
    BY <2>1, <2>2, <2>3 DEF TypeOK
<1>35. ASSUME NEW s \in Stops, Fence(s) PROVE TypeOK'
  <2>1. WorkerType' /\ EmulatorType' /\ FileType'
    BY <1>35, TypeFrame DEF Fence, journal, locks, worker, emulator, files
  <2>2. JournalType'
    BY <1>35, WriteResultsDisk DEF Fence, TypeOK, JournalType
  <2>3. LockType'
    BY <1>35 DEF Fence, TypeOK, LockType
  <2>4. stopPc' \in [Stops -> StopPlaces]
    BY <1>35 DEF Fence, TypeOK, StopGoto, StopPlaces
  <2> QED
    BY <2>1, <2>2, <2>3, <2>4 DEF TypeOK
<1>36. ASSUME NEW s \in Stops, FenceRefused(s) PROVE TypeOK'
  <2>1. JournalType' /\ LockType' /\ WorkerType' /\ EmulatorType' /\ FileType'
    BY <1>36, TypeFrame DEF FenceRefused, journal, locks, worker, emulator, files
  <2>2. stopPc' \in [Stops -> StopPlaces]
    BY <1>36 DEF FenceRefused, TypeOK, StopGoto, StopPlaces
  <2> QED
    BY <2>1, <2>2 DEF TypeOK
<1>37. ASSUME NEW s \in Stops, Terminate(s) PROVE TypeOK'
  <2>1. JournalType' /\ LockType' /\ WorkerType' /\ FileType'
    BY <1>37, TypeFrame DEF Terminate, journal, locks, worker, emulator, files
  <2>2. EmulatorType'
    BY <1>37 DEF Terminate, TypeOK, EmulatorType, File, Die
  <2>3. stopPc' \in [Stops -> StopPlaces]
    BY <1>37 DEF Terminate, TypeOK, StopGoto, StopPlaces
  <2> QED
    BY <2>1, <2>2, <2>3 DEF TypeOK
<1>38. ASSUME NEW s \in Stops, StopFails(s) PROVE TypeOK'
  <2>1. JournalType' /\ WorkerType' /\ EmulatorType' /\ FileType'
    BY <1>38, TypeFrame DEF StopFails, journal, locks, worker, emulator, files
  <2>2. LockType'
    BY <1>38 DEF StopFails, TypeOK, LockType
  <2>3. stopPc' \in [Stops -> StopPlaces]
    BY <1>38 DEF StopFails, TypeOK, StopGoto, StopPlaces
  <2> QED
    BY <2>1, <2>2, <2>3 DEF TypeOK
<1>39a. ASSUME NEW s \in Stops, RetireLock(s) PROVE TypeOK'
  <2>1. JournalType' /\ WorkerType' /\ EmulatorType' /\ FileType'
    BY <1>39a, TypeFrame DEF RetireLock, journal, locks, worker, emulator, files
  <2>2. LockType'
    BY <1>39a DEF RetireLock, TypeOK, LockType
  <2>3. stopPc' \in [Stops -> StopPlaces]
    BY <1>39a DEF RetireLock, TypeOK, StopGoto, StopPlaces
  <2> QED
    BY <2>1, <2>2, <2>3 DEF TypeOK
<1>39. ASSUME NEW s \in Stops, RecoveryFinish(s) PROVE TypeOK'
  <2>1. WorkerType' /\ EmulatorType' /\ FileType'
    BY <1>39, TypeFrame DEF RecoveryFinish, journal, locks, worker, emulator, files
  <2>2. JournalType'
    BY <1>39, WriteResultsDisk DEF RecoveryFinish, TypeOK, JournalType, journal
  <2>3. LockType'
    BY <1>39 DEF RecoveryFinish, TypeOK, LockType
  <2>4. stopPc' \in [Stops -> StopPlaces]
    BY <1>39 DEF RecoveryFinish, TypeOK, StopGoto, StopPlaces
  <2> QED
    BY <2>1, <2>2, <2>3, <2>4 DEF TypeOK
<1>40. ASSUME UNCHANGED vars PROVE TypeOK'
  BY <1>40, TypeFrame DEF vars, journal, locks, worker, emulator, files, TypeOK
<1> QED
  BY <1>1, <1>2, <1>2b, <1>3, <1>4, <1>5, <1>6, <1>7, <1>8, <1>9, <1>10, <1>11, <1>12, <1>13, <1>14,
     <1>15, <1>16, <1>17, <1>18, <1>19, <1>20, <1>21, <1>22, <1>23, <1>24, <1>25, <1>26, <1>26b,
     <1>27,     <1>28, <1>29, <1>30, <1>31, <1>32, <1>33, <1>34, <1>35, <1>35a,
     <1>36, <1>37, <1>38, <1>39, <1>39a, <1>40
     DEF Next, WorkerStep, StopStep, Bridge
====
