---- MODULE ScreenshotArtifactsProofs ----
(***************************************************************************)
(* Theorems about the temporary images, for any sets of calls, stops and   *)
(* implicit names and any number of replaced files.                        *)
(***************************************************************************)
EXTENDS ScreenshotArtifacts, TLAPS

(* A journal write leaves the old or the new record. *)
LEMMA WriteLeaves ==
    ASSUME NEW old, NEW new, NEW w \in WriteResults(old, new)
    PROVE  w.disk \in {old, new} /\ (~w.raised => w.disk = new)
BY DEF WriteResults

(* What the record written for each phase is. *)
LEMMA Records ==
    ASSUME operation \in Operation
    PROVE  /\ operation # NoOp
           /\ \A r \in {WithArtifact, Sent, Answered, Withdrawn, Cleaned} :
                 /\ r \in Operation /\ r.id = operation.id /\ r # NoOp
                 /\ r.composite = operation.composite
           /\ WithArtifact.artifact = "unsent" /\ Sent.artifact = "sent"
           /\ Withdrawn.artifact = "unsent" /\ Cleaned.artifact = "none"
           /\ Answered.artifact = operation.artifact
           /\ WithArtifact.pending = operation.pending
           /\ WithArtifact.uncertain = operation.uncertain
           /\ Sent.pending /\ Sent.started /\ ~Answered.pending /\ ~Answered.uncertain
           /\ ~Withdrawn.pending /\ Withdrawn.uncertain = operation.uncertain
           /\ Cleaned.pending = operation.pending /\ Cleaned.uncertain = operation.uncertain
<1> USE DEF Operation
<1>1. operation # NoOp
  BY NoOpAssumption
<1>2. \A r \in Operation : r # NoOp
  BY NoOpAssumption
<1>3. WithArtifact \in Operation /\ Sent \in Operation
  BY DEF WithArtifact, Sent
<1>4. Answered \in Operation /\ Cleaned \in Operation
  BY DEF Answered, Cleaned
<1>5. Withdrawn \in Operation
  BY DEF Withdrawn
<1>6. /\ WithArtifact.id = operation.id /\ WithArtifact.composite = operation.composite
      /\ WithArtifact.artifact = "unsent"
      /\ WithArtifact.pending = operation.pending
      /\ WithArtifact.uncertain = operation.uncertain
  BY DEF WithArtifact
<1>7. /\ Sent.id = operation.id /\ Sent.composite = operation.composite
      /\ Sent.artifact = "sent" /\ Sent.pending /\ Sent.started
  BY DEF Sent
<1>8. /\ Answered.id = operation.id /\ Answered.composite = operation.composite
      /\ Answered.artifact = operation.artifact /\ ~Answered.pending /\ ~Answered.uncertain
  BY DEF Answered
<1>9. /\ Withdrawn.id = operation.id /\ Withdrawn.composite = operation.composite
      /\ Withdrawn.artifact = "unsent"
      /\ ~Withdrawn.pending /\ Withdrawn.uncertain = operation.uncertain
  BY DEF Withdrawn
<1>10. /\ Cleaned.id = operation.id /\ Cleaned.composite = operation.composite
       /\ Cleaned.artifact = "none"
       /\ Cleaned.pending = operation.pending /\ Cleaned.uncertain = operation.uncertain
  BY DEF Cleaned
<1> QED
  BY <1>1, <1>2, <1>3, <1>4, <1>5, <1>6, <1>7, <1>8, <1>9, <1>10

(* What the other records are. *)
LEMMA OtherRecords ==
    /\ \A c \in Calls : NewOperation(c) \in Operation /\ NewOperation(c) # NoOp
            /\ NewOperation(c).id = c /\ ~NewOperation(c).pending
            /\ NewOperation(c).artifact = "none" /\ ~NewOperation(c).uncertain
    /\ \A o \in Operation :
         \A r \in {[o EXCEPT !.started = TRUE], [o EXCEPT !.uncertain = TRUE]} :
            /\ r \in Operation /\ r # NoOp /\ r.id = o.id /\ r.pending = o.pending
            /\ r.artifact = o.artifact /\ r.composite = o.composite
    /\ \A o \in Operation : [o EXCEPT !.started = TRUE].uncertain = o.uncertain
<1>1. ASSUME NEW c \in Calls
      PROVE  /\ NewOperation(c) \in Operation /\ NewOperation(c).id = c
             /\ ~NewOperation(c).pending /\ NewOperation(c).artifact = "none"
             /\ ~NewOperation(c).uncertain
  BY DEF NewOperation, Operation
<1>2. \A r \in Operation : r # NoOp
  BY NoOpAssumption
<1>3. ASSUME NEW o \in Operation
      PROVE  LET r == [o EXCEPT !.started = TRUE] IN
             /\ r \in Operation /\ r.id = o.id /\ r.pending = o.pending
             /\ r.artifact = o.artifact /\ r.composite = o.composite
             /\ r.uncertain = o.uncertain
  BY DEF Operation
<1>4. ASSUME NEW o \in Operation
      PROVE  LET r == [o EXCEPT !.uncertain = TRUE] IN
             /\ r \in Operation /\ r.id = o.id /\ r.pending = o.pending
             /\ r.artifact = o.artifact /\ r.composite = o.composite
  BY DEF Operation
<1> QED
  BY <1>1, <1>2, <1>3, <1>4

(* Before any capture nothing is staged. *)
LEMMA InitInv == Init => IInv
<1> SUFFICES ASSUME Init PROVE IInv
  OBVIOUS
<1> USE DEF Init
<1>1. TypeOK
  BY BoundAssumption DEF TypeOK, Places, StopPlaces
<1>2. LockInv /\ GuardInv
  BY DEF LockInv, GuardInv, Leased, Recovering, Guarded
<1>3. CheckedInv /\ FreshInv /\ StagedIsTracked /\ WriterInv
  BY FileAssumption DEF CheckedInv, FreshInv, StagedIsTracked, WriterInv
<1>4. ImageInv
  BY FileAssumption DEF ImageInv
<1> QED
  BY <1>1, <1>2, <1>3, <1>4 DEF IInv

(* Every step keeps the types. *)
LEMMA TypeStep == IInv /\ [Next]_vars => TypeOK'
<1> SUFFICES ASSUME IInv, [Next]_vars PROVE TypeOK'
  OBVIOUS
<1> USE DEF IInv, TypeOK, journal, native, files, history, Places, StopPlaces
<1>1. ASSUME NEW c \in Calls, Acquire(c) PROVE TypeOK'
  BY <1>1 DEF Acquire, Goto
<1>2. ASSUME NEW c \in Calls, Admit(c) PROVE TypeOK'
  BY <1>2, WriteLeaves, OtherRecords DEF Admit, Goto, NewOperation
<1>3. ASSUME NEW c \in Calls, AdmitFails(c) PROVE TypeOK'
  BY <1>3 DEF AdmitFails, Goto
<1>4. ASSUME NEW c \in Calls, RunPrimary(c) PROVE TypeOK'
  BY <1>4, OtherRecords DEF RunPrimary, GuardInv, Guarded, Owned
<1>5. ASSUME NEW c \in Calls, Fails(c) PROVE TypeOK'
  BY <1>5 DEF Fails, Goto
<1>6. ASSUME NEW c \in Calls, Stage(c) PROVE TypeOK'
  BY <1>6 DEF Stage, Goto, Resolved
<1>7. ASSUME NEW c \in Calls, StageJournals(c) PROVE TypeOK'
  BY <1>7, WriteLeaves, Records DEF StageJournals, Goto, GuardInv, Guarded, Owned
<1>8. ASSUME NEW c \in Calls, UndoCheck(c) PROVE TypeOK'
  BY <1>8 DEF UndoCheck
<1>9. ASSUME NEW c \in Calls, Undo(c) PROVE TypeOK'
  BY <1>9 DEF Undo, Goto
<1>10. ASSUME NEW c \in Calls, UndoFails(c) PROVE TypeOK'
  <2>1. operation \in Operation
    BY <1>10 DEF UndoFails, GuardInv, Guarded, Owned
  <2>2. PICK w \in WriteResults(operation, WithArtifact) :
           operation' = w.disk /\ leaked' = IF w.raised THEN leaked \cup {c} ELSE leaked
    BY <1>10 DEF UndoFails
  <2>3. operation' \in Operation
    BY <2>1, <2>2, WriteLeaves, Records
  <2>4. leaked' \subseteq Calls
    BY <2>2
  <2> QED
    BY <1>10, <2>3, <2>4 DEF UndoFails, Goto
<1>11. ASSUME NEW c \in Calls, Capture(c) PROVE TypeOK'
  BY <1>11, Records DEF Capture, Goto, Resolved, GuardInv, Guarded, Owned
<1>12. ASSUME NEW c \in Calls, Complete(c) PROVE TypeOK'
  BY <1>12, WriteLeaves, Records DEF Complete, Goto, GuardInv, Guarded, Owned
<1>13. ASSUME NEW c \in Calls, Withdraw(c) PROVE TypeOK'
  BY <1>13, WriteLeaves, Records DEF Withdraw, Goto, GuardInv, Guarded, Owned
<1>14. ASSUME NEW c \in Calls, Claim(c) PROVE TypeOK'
  BY <1>14 DEF Claim
<1>15. ASSUME NEW c \in Calls, NativeWrite(c) PROVE TypeOK'
  BY <1>15 DEF NativeWrite
<1>16. ASSUME NEW c \in Calls, Respond(c) PROVE TypeOK'
  BY <1>16 DEF Respond
<1>17. ASSUME NEW c \in Calls, Open(c) PROVE TypeOK'
  BY <1>17 DEF Open, Goto, Resolved
<1>18. ASSUME NEW c \in Calls, Validate(c) PROVE TypeOK'
  BY <1>18 DEF Validate, Goto
<1>19. ASSUME NEW c \in Calls, View(c) PROVE TypeOK'
  BY <1>19 DEF View, Goto
<1>20. ASSUME NEW c \in Calls, PublishCheck(c) PROVE TypeOK'
  BY <1>20 DEF PublishCheck, Goto, Resolved
<1>21. ASSUME NEW c \in Calls, Replace(c) PROVE TypeOK'
  BY <1>21 DEF Replace, Goto, Inode
<1>22. ASSUME NEW c \in Calls, Link(c) PROVE TypeOK'
  BY <1>22 DEF Link, Goto, Inode
<1>23. ASSUME NEW c \in Calls, PublishFails(c) PROVE TypeOK'
  BY <1>23 DEF PublishFails, Goto
<1>24. ASSUME NEW c \in Calls, FinishBegins(c) PROVE TypeOK'
  BY <1>24 DEF FinishBegins, Goto, Finishable, Resolved
<1>25. ASSUME NEW c \in Calls, FinishLeaves(c) PROVE TypeOK'
  BY <1>25 DEF FinishLeaves, Goto, Finishable, Resolved
<1>26. ASSUME NEW c \in Calls, Finish(c) PROVE TypeOK'
  <2>1. operation \in Operation
    BY <1>26 DEF Finish, GuardInv, Guarded, Owned
  <2>2. PICK w \in WriteResults(operation, NoOp) :
           IF w.raised
              THEN \E r \in WriteResults(w.disk, [Cleaned EXCEPT !.uncertain = TRUE]) :
                      operation' = r.disk
              ELSE operation' = w.disk
    BY <1>26 DEF Finish
  <2>3. operation' \in {operation, NoOp, [Cleaned EXCEPT !.uncertain = TRUE]}
    <3>1. CASE w.raised
      BY <2>2, <3>1, WriteLeaves
    <3>2. CASE ~w.raised
      BY <2>2, <3>2, WriteLeaves
    <3> QED
      BY <3>1, <3>2
  <2>4. operation' \in Operation \cup {NoOp}
    <3>1. Cleaned \in Operation
      BY <2>1, Records
    <3>2. [Cleaned EXCEPT !.uncertain = TRUE] \in Operation
      BY <3>1, OtherRecords
    <3> QED
      BY <2>1, <2>3, <3>2
  <2> QED
    BY <1>26, <2>4 DEF Finish, Goto
<1>27. ASSUME NEW c \in Calls, FinishKeeps(c) PROVE TypeOK'
  <2>1. operation \in Operation
    BY <1>27 DEF FinishKeeps, Kept, GuardInv, Guarded, Owned
  <2>2. operation' \in {operation, Cleaned}
    BY <1>27, WriteLeaves DEF FinishKeeps
  <2>3. operation' \in Operation
    BY <2>1, <2>2, Records
  <2> QED
    BY <1>27, <2>3 DEF FinishKeeps, Goto
<1>28. ASSUME NEW c \in Calls, FinishFails(c) PROVE TypeOK'
  BY <1>28 DEF FinishFails, Goto
<1>29. ASSUME NEW c \in Calls, Crash(c) PROVE TypeOK'
  BY <1>29 DEF Crash, Goto
<1>30. ASSUME NEW c \in Calls, Swap(c) PROVE TypeOK'
  BY <1>30 DEF Swap
<1>31. ASSUME NEW s \in Stops, StopFences(s) PROVE TypeOK'
  BY <1>31, WriteLeaves DEF StopFences, StopGoto
<1>32. ASSUME NEW s \in Stops, Terminates(s) PROVE TypeOK'
  BY <1>32 DEF Terminates, StopGoto
<1>33. ASSUME NEW s \in Stops, StopRetires(s) PROVE TypeOK'
  BY <1>33 DEF StopRetires, StopGoto
<1>34. ASSUME NEW s \in Stops, StopFinishes(s) PROVE TypeOK'
  BY <1>34, WriteLeaves DEF StopFinishes, StopGoto
<1>35. ASSUME NEW s \in Stops, StopFails(s) PROVE TypeOK'
  BY <1>35 DEF StopFails, StopGoto
<1>36. CASE CleanCheck
  BY <1>36 DEF CleanCheck
<1>37. CASE CleanUnlink
  BY <1>37 DEF CleanUnlink, CheckedInv
<1>38. CASE EmulatorExits
  BY <1>38 DEF EmulatorExits
<1>39. CASE UNCHANGED vars
  BY <1>39 DEF vars
<1> QED
  BY <1>1, <1>2, <1>3, <1>4, <1>5, <1>6, <1>7, <1>8, <1>9, <1>10, <1>11, <1>12, <1>13, <1>14,
     <1>15, <1>16, <1>17, <1>18, <1>19, <1>20, <1>21, <1>22, <1>23, <1>24, <1>25, <1>26, <1>27,
     <1>28, <1>29, <1>30, <1>31, <1>32, <1>33, <1>34, <1>35, <1>36, <1>37, <1>38, <1>39 DEF
     Next, Admission, Staging, Capturing, Emulating, Publishing, Finishing, Stopping

(* Every step keeps the inductive invariant: one step per action. *)
LEMMA InvStep == IInv /\ [Next]_vars => IInv'
<1> SUFFICES ASSUME IInv, [Next]_vars PROVE IInv'
  OBVIOUS
<1>t. TypeOK'
  BY TypeStep
<1> USE DEF IInv, TypeOK, LockInv, GuardInv, CheckedInv, FreshInv, StagedIsTracked, WriterInv,
   ImageInv, Leased, Recovering, Guarded, Artifact, Journalled, Owned, Resolved, Reclaimable,
   StateLocked, Cleaning, journal, native, files, history
<1>1. ASSUME NEW c \in Calls, Acquire(c) PROVE IInv'
  BY <1>1, <1>t, FileAssumption DEF Acquire, Goto, OperationLocked
<1>2. ASSUME NEW c \in Calls, Admit(c) PROVE IInv'
  <2>1. LockInv'
    BY <1>2, <1>t, WriteLeaves, OtherRecords, FileAssumption DEF Admit, Goto, NewOperation,
       CleanDone
  <2>2. GuardInv'
    BY <1>2, <1>t, WriteLeaves, OtherRecords, FileAssumption DEF Admit, Goto, NewOperation,
       CleanDone
  <2>3. CheckedInv'
    BY <1>2, <1>t, WriteLeaves, OtherRecords, FileAssumption DEF Admit, Goto, NewOperation,
       CleanDone
  <2>4. FreshInv'
    BY <1>2, <1>t, WriteLeaves, OtherRecords, FileAssumption DEF Admit, Goto, NewOperation,
       CleanDone
  <2>5. StagedIsTracked'
    BY <1>2, <1>t, WriteLeaves, OtherRecords, FileAssumption DEF Admit, Goto, NewOperation,
       CleanDone
  <2>6. WriterInv'
    BY <1>2, <1>t, WriteLeaves, OtherRecords, FileAssumption DEF Admit, Goto, NewOperation,
       CleanDone
  <2>7. ImageInv'
    <3>1. UNCHANGED <<request, image, exports, destination, swapped>>
      BY <1>2 DEF Admit
    <3>2. \A d \in Calls : pc'[d] = pc[d] \/ pc'[d] \in {"done", "owner"}
      BY <1>2 DEF Admit, Goto
    <3> QED
      BY <3>1, <3>2
  <2> QED
    BY <1>t, <2>1, <2>2, <2>3, <2>4, <2>5, <2>6, <2>7
<1>3. ASSUME NEW c \in Calls, AdmitFails(c) PROVE IInv'
  BY <1>3, <1>t, FileAssumption DEF AdmitFails, Goto, CleanFails
<1>4. ASSUME NEW c \in Calls, RunPrimary(c) PROVE IInv'
  <2>1. operation \in Operation /\ operation.id = c
    BY <1>4 DEF RunPrimary
  <2>2. /\ operation' # NoOp /\ operation'.id = c /\ operation'.artifact = operation.artifact
        /\ operation'.pending = operation.pending
    BY <1>4, <2>1, OtherRecords DEF RunPrimary
  <2>3. LockInv'
    BY <1>4, <1>t, <2>1, <2>2, FileAssumption DEF RunPrimary
  <2>4. GuardInv'
    BY <1>4, <1>t, <2>1, <2>2, FileAssumption DEF RunPrimary
  <2>5. CheckedInv'
    BY <1>4, <1>t, <2>1, <2>2, FileAssumption DEF RunPrimary
  <2>6. FreshInv'
    BY <1>4, <1>t, <2>1, <2>2, FileAssumption DEF RunPrimary
  <2>7. StagedIsTracked'
    BY <1>4, <1>t, <2>1, <2>2, FileAssumption DEF RunPrimary
  <2>8. WriterInv'
    BY <1>4, <1>t, <2>1, <2>2, FileAssumption DEF RunPrimary
  <2>9. ImageInv'
    BY <1>4, <1>t, <2>1, <2>2, FileAssumption DEF RunPrimary
  <2> QED
    BY <1>t, <2>3, <2>4, <2>5, <2>6, <2>7, <2>8, <2>9
<1>5. ASSUME NEW c \in Calls, Fails(c) PROVE IInv'
  BY <1>5, <1>t, FileAssumption DEF Fails, Goto
<1>6. ASSUME NEW c \in Calls, Stage(c) PROVE IInv'
  <2>1. LockInv'
    BY <1>6, <1>t, FileAssumption DEF Stage, Goto, Resolved
  <2>2. GuardInv'
    BY <1>6, <1>t, FileAssumption DEF Stage, Goto, Resolved
  <2>3. CheckedInv'
    BY <1>6, <1>t, FileAssumption DEF Stage, Goto, Resolved
  <2>4. FreshInv'
    BY <1>6, <1>t, FileAssumption DEF Stage, Goto, Resolved
  <2>5. StagedIsTracked'
    BY <1>6, <1>t, FileAssumption DEF Stage, Goto, Resolved
  <2>6. WriterInv'
    BY <1>6, <1>t, FileAssumption DEF Stage, Goto, Resolved
  <2>7. ImageInv'
    BY <1>6, <1>t, FileAssumption DEF Stage, Goto, Resolved
  <2> QED
    BY <1>t, <2>1, <2>2, <2>3, <2>4, <2>5, <2>6, <2>7
<1>7. ASSUME NEW c \in Calls, StageJournals(c) PROVE IInv'
  <2>1. LockInv'
    BY <1>7, <1>t, WriteLeaves, Records, FileAssumption DEF StageJournals, Goto
  <2>2. GuardInv'
    BY <1>7, <1>t, WriteLeaves, Records, FileAssumption DEF StageJournals, Goto
  <2>3. CheckedInv'
    BY <1>7, <1>t, WriteLeaves, Records, FileAssumption DEF StageJournals, Goto
  <2>4. FreshInv'
    BY <1>7, <1>t, WriteLeaves, Records, FileAssumption DEF StageJournals, Goto
  <2>5. StagedIsTracked'
    BY <1>7, <1>t, WriteLeaves, Records, FileAssumption DEF StageJournals, Goto
  <2>6. WriterInv'
    BY <1>7, <1>t, WriteLeaves, Records, FileAssumption DEF StageJournals, Goto
  <2>7. ImageInv'
    BY <1>7, <1>t, WriteLeaves, Records, FileAssumption DEF StageJournals, Goto
  <2> QED
    BY <1>t, <2>1, <2>2, <2>3, <2>4, <2>5, <2>6, <2>7
<1>8. ASSUME NEW c \in Calls, UndoCheck(c) PROVE IInv'
  BY <1>8, <1>t, FileAssumption DEF UndoCheck, IsOwned
<1>9. ASSUME NEW c \in Calls, Undo(c) PROVE IInv'
  BY <1>9, <1>t, FileAssumption DEF Undo, Goto
<1>10. ASSUME NEW c \in Calls, UndoFails(c) PROVE IInv'
  <2>1. LockInv'
    BY <1>10, <1>t, WriteLeaves, Records, FileAssumption DEF UndoFails, Goto, IsOwned
  <2>2. GuardInv'
    BY <1>10, <1>t, WriteLeaves, Records, FileAssumption DEF UndoFails, Goto, IsOwned
  <2>3. CheckedInv'
    BY <1>10, <1>t, WriteLeaves, Records, FileAssumption DEF UndoFails, Goto, IsOwned
  <2>4. FreshInv'
    BY <1>10, <1>t, WriteLeaves, Records, FileAssumption DEF UndoFails, Goto, IsOwned
  <2>5. StagedIsTracked'
    BY <1>10, <1>t, WriteLeaves, Records, FileAssumption DEF UndoFails, Goto, IsOwned
  <2>6. WriterInv'
    BY <1>10, <1>t, WriteLeaves, Records, FileAssumption DEF UndoFails, Goto, IsOwned
  <2>7. ImageInv'
    BY <1>10, <1>t, WriteLeaves, Records, FileAssumption DEF UndoFails, Goto, IsOwned
  <2> QED
    BY <1>t, <2>1, <2>2, <2>3, <2>4, <2>5, <2>6, <2>7
<1>11. ASSUME NEW c \in Calls, Capture(c) PROVE IInv'
  <2>1. LockInv'
    BY <1>11, <1>t, Records, FileAssumption DEF Capture, Goto
  <2>2. GuardInv'
    BY <1>11, <1>t, Records, FileAssumption DEF Capture, Goto
  <2>3. CheckedInv'
    BY <1>11, <1>t, Records, FileAssumption DEF Capture, Goto
  <2>4. FreshInv'
    BY <1>11, <1>t, Records, FileAssumption DEF Capture, Goto
  <2>5. StagedIsTracked'
    BY <1>11, <1>t, Records, FileAssumption DEF Capture, Goto
  <2>6. WriterInv'
    BY <1>11, <1>t, Records, FileAssumption DEF Capture, Goto
  <2>7. ImageInv'
    <3>1. UNCHANGED <<image, exports, destination, swapped>>
      BY <1>11 DEF Capture
    <3>2. \A d \in Calls : pc'[d] = pc[d] \/ pc'[d] \in {"waiting", "unwinding"}
      BY <1>11 DEF Capture, Goto
    <3>3. \A d \in Calls : request[d] = "over" => request'[d] = "over"
      BY <1>11 DEF Capture
    <3> QED
      BY <3>1, <3>2, <3>3
  <2> QED
    BY <1>t, <2>1, <2>2, <2>3, <2>4, <2>5, <2>6, <2>7
<1>12. ASSUME NEW c \in Calls, Complete(c) PROVE IInv'
  <2>1. LockInv'
    BY <1>12, <1>t, WriteLeaves, Records, FileAssumption DEF Complete, Goto
  <2>2. GuardInv'
    BY <1>12, <1>t, WriteLeaves, Records, FileAssumption DEF Complete, Goto
  <2>3. CheckedInv'
    BY <1>12, <1>t, WriteLeaves, Records, FileAssumption DEF Complete, Goto
  <2>4. FreshInv'
    BY <1>12, <1>t, WriteLeaves, Records, FileAssumption DEF Complete, Goto
  <2>5. StagedIsTracked'
    BY <1>12, <1>t, WriteLeaves, Records, FileAssumption DEF Complete, Goto
  <2>6. WriterInv'
    BY <1>12, <1>t, WriteLeaves, Records, FileAssumption DEF Complete, Goto
  <2>7. ImageInv'
    <3>1. /\ UNCHANGED <<request, image, exports, destination, swapped>>
          /\ request[c] = "over"
          /\ \A d \in Calls : pc'[d] = pc[d] \/ (d = c /\ pc'[d] \in {"unwinding", "answered"})
      BY <1>12, <1>t DEF Complete, Goto
    <3> QED
      BY <1>t, <3>1
  <2> QED
    BY <1>t, <2>1, <2>2, <2>3, <2>4, <2>5, <2>6, <2>7
<1>13. ASSUME NEW c \in Calls, Withdraw(c) PROVE IInv'
  <2>1. LockInv'
    BY <1>13, <1>t, WriteLeaves, Records, FileAssumption DEF Withdraw, Goto
  <2>2. GuardInv'
    BY <1>13, <1>t, WriteLeaves, Records, FileAssumption DEF Withdraw, Goto
  <2>3. CheckedInv'
    BY <1>13, <1>t, WriteLeaves, Records, FileAssumption DEF Withdraw, Goto
  <2>4. FreshInv'
    BY <1>13, <1>t, WriteLeaves, Records, FileAssumption DEF Withdraw, Goto
  <2>5. StagedIsTracked'
    BY <1>13, <1>t, WriteLeaves, Records, FileAssumption DEF Withdraw, Goto
  <2>6. WriterInv'
    BY <1>13, <1>t, WriteLeaves, Records, FileAssumption DEF Withdraw, Goto
  <2>7. ImageInv'
    BY <1>13, <1>t, WriteLeaves, Records, FileAssumption DEF Withdraw, Goto
  <2> QED
    BY <1>t, <2>1, <2>2, <2>3, <2>4, <2>5, <2>6, <2>7
<1>14. ASSUME NEW c \in Calls, Claim(c) PROVE IInv'
  BY <1>14, <1>t, FileAssumption DEF Claim
<1>15. ASSUME NEW c \in Calls, NativeWrite(c) PROVE IInv'
  BY <1>15, <1>t, FileAssumption DEF NativeWrite
<1>16. ASSUME NEW c \in Calls, Respond(c) PROVE IInv'
  BY <1>16, <1>t, FileAssumption DEF Respond
<1>17. ASSUME NEW c \in Calls, Open(c) PROVE IInv'
  BY <1>17, <1>t, FileAssumption DEF Open, Goto, IsOwned
<1>18. ASSUME NEW c \in Calls, Validate(c) PROVE IInv'
  BY <1>18, <1>t, FileAssumption DEF Validate, Goto
<1>19. ASSUME NEW c \in Calls, View(c) PROVE IInv'
  BY <1>19, <1>t, FileAssumption DEF View, Goto
<1>20. ASSUME NEW c \in Calls, PublishCheck(c) PROVE IInv'
  BY <1>20, <1>t, FileAssumption DEF PublishCheck, Goto, IsOwned
<1>21. ASSUME NEW c \in Calls, Replace(c) PROVE IInv'
  BY <1>21, <1>t, FileAssumption DEF Replace, Goto, Inode, Free
<1>22. ASSUME NEW c \in Calls, Link(c) PROVE IInv'
  BY <1>22, <1>t, FileAssumption DEF Link, Goto, Inode, Free
<1>23. ASSUME NEW c \in Calls, PublishFails(c) PROVE IInv'
  BY <1>23, <1>t, FileAssumption DEF PublishFails, Goto
<1>24. ASSUME NEW c \in Calls, FinishBegins(c) PROVE IInv'
  BY <1>24, <1>t, FileAssumption DEF FinishBegins, Goto, Finishable
<1>25. ASSUME NEW c \in Calls, FinishLeaves(c) PROVE IInv'
  BY <1>25, <1>t, FileAssumption DEF FinishLeaves, Goto, Finishable
<1>26. ASSUME NEW c \in Calls, Finish(c) PROVE IInv'
  <2>1. operation \in Operation
    BY <1>26 DEF Finish, GuardInv, Guarded, Owned
  <2>2. PICK w \in WriteResults(operation, NoOp) :
           IF w.raised
              THEN \E r \in WriteResults(w.disk, [Cleaned EXCEPT !.uncertain = TRUE]) :
                      operation' = r.disk
              ELSE operation' = w.disk
    BY <1>26 DEF Finish
  <2>3. operation' \in {operation, NoOp, [Cleaned EXCEPT !.uncertain = TRUE]}
    <3>1. CASE w.raised
      BY <2>2, <3>1, WriteLeaves
    <3>2. CASE ~w.raised
      BY <2>2, <3>2, WriteLeaves
    <3> QED
      BY <3>1, <3>2
  <2>4. operation.id = c /\ Resolved(operation) /\ staged[c] \in {"none", "own", "foreign"}
    BY <1>26 DEF Finish
  <2>5. operation' # NoOp =>
           /\ operation'.id = c /\ ~operation'.pending
           /\ operation'.artifact = "none" \/ operation' = operation
    <3>1. /\ Cleaned \in Operation /\ Cleaned.id = c /\ ~Cleaned.pending
          /\ Cleaned.artifact = "none"
      BY <2>1, <2>4, Records
    <3>2. LET r == [Cleaned EXCEPT !.uncertain = TRUE] IN
             r.id = c /\ ~r.pending /\ r.artifact = "none"
      BY <3>1, OtherRecords
    <3> QED
      BY <2>3, <2>4, <3>2
  <2>6. LockInv'
    BY <1>26, <1>t, <2>1, <2>4, <2>5, FileAssumption DEF Finish, Goto, CleanDone, Kept
  <2>7. GuardInv'
    BY <1>26, <1>t, <2>1, <2>4, <2>5, FileAssumption DEF Finish, Goto, CleanDone, Kept
  <2>8. CheckedInv'
    BY <1>26, <1>t, <2>1, <2>4, <2>5, FileAssumption DEF Finish, Goto, CleanDone, Kept
  <2>9. FreshInv'
    BY <1>26, <1>t, <2>1, <2>4, <2>5, FileAssumption DEF Finish, Goto, CleanDone, Kept
  <2>10. StagedIsTracked'
    BY <1>26, <1>t, <2>1, <2>4, <2>5, FileAssumption DEF Finish, Goto, CleanDone, Kept
  <2>11. WriterInv'
    BY <1>26, <1>t, <2>1, <2>4, <2>5, FileAssumption DEF Finish, Goto, CleanDone, Kept
  <2>12. ImageInv'
    BY <1>26, <1>t, <2>1, <2>4, <2>5, FileAssumption DEF Finish, Goto, CleanDone, Kept
  <2> QED
    BY <1>t, <2>6, <2>7, <2>8, <2>9, <2>10, <2>11, <2>12
<1>27. ASSUME NEW c \in Calls, FinishKeeps(c) PROVE IInv'
  <2>1. operation \in Operation
    BY <1>27 DEF FinishKeeps, Kept, GuardInv, Guarded, Owned
  <2>2. operation' \in {operation, Cleaned}
    BY <1>27, WriteLeaves DEF FinishKeeps
  <2>4. operation.id = c /\ Resolved(operation)
    BY <1>27 DEF FinishKeeps, Kept
  <2>5. /\ operation' # NoOp /\ operation'.id = c /\ ~operation'.pending
        /\ operation'.artifact = "none" \/ operation' = operation
    BY <2>1, <2>2, <2>4, Records
  <2>6. LockInv'
    BY <1>27, <1>t, <2>1, <2>4, <2>5, FileAssumption DEF FinishKeeps, Goto, CleanDone, Kept
  <2>7. GuardInv'
    BY <1>27, <1>t, <2>1, <2>4, <2>5, FileAssumption DEF FinishKeeps, Goto, CleanDone, Kept
  <2>8. CheckedInv'
    BY <1>27, <1>t, <2>1, <2>4, <2>5, FileAssumption DEF FinishKeeps, Goto, CleanDone, Kept
  <2>9. FreshInv'
    BY <1>27, <1>t, <2>1, <2>4, <2>5, FileAssumption DEF FinishKeeps, Goto, CleanDone, Kept
  <2>10. StagedIsTracked'
    BY <1>27, <1>t, <2>1, <2>4, <2>5, FileAssumption DEF FinishKeeps, Goto, CleanDone, Kept
  <2>11. WriterInv'
    BY <1>27, <1>t, <2>1, <2>4, <2>5, FileAssumption DEF FinishKeeps, Goto, CleanDone, Kept
  <2>12. ImageInv'
    BY <1>27, <1>t, <2>1, <2>4, <2>5, FileAssumption DEF FinishKeeps, Goto, CleanDone, Kept
  <2> QED
    BY <1>t, <2>6, <2>7, <2>8, <2>9, <2>10, <2>11, <2>12
<1>28. ASSUME NEW c \in Calls, FinishFails(c) PROVE IInv'
  BY <1>28, <1>t, FileAssumption DEF FinishFails, Goto, CleanFails
<1>29. ASSUME NEW c \in Calls, Crash(c) PROVE IInv'
  <2>1. LockInv'
    BY <1>29, <1>t, FileAssumption DEF Crash, Goto
  <2>2. GuardInv'
    BY <1>29, <1>t, FileAssumption DEF Crash, Goto
  <2>3. CheckedInv'
    <3>1. CASE pc[c] \in Guarded
      BY <1>29, <3>1 DEF Crash
    <3>2. CASE pc[c] \notin Guarded
      <4>1. checked' = checked /\ UNCHANGED <<operation, staged, swapped, stopPc>>
        BY <1>29, <3>2 DEF Crash
      <4>2. \A d \in Calls : pc[d] \in Guarded => pc'[d] = pc[d]
        BY <1>29, <3>2 DEF Crash, Goto
      <4> QED
        BY <4>1, <4>2
    <3> QED
      BY <3>1, <3>2
  <2>4. FreshInv'
    BY <1>29, <1>t, FileAssumption DEF Crash, Goto
  <2>5. StagedIsTracked'
    BY <1>29, <1>t, FileAssumption DEF Crash, Goto
  <2>6. WriterInv'
    BY <1>29, <1>t, FileAssumption DEF Crash, Goto
  <2>7. ImageInv'
    BY <1>29, <1>t, FileAssumption DEF Crash, Goto
  <2> QED
    BY <1>t, <2>1, <2>2, <2>3, <2>4, <2>5, <2>6, <2>7
<1>30. ASSUME NEW c \in Calls, Swap(c) PROVE IInv'
  <2>1. LockInv'
    BY <1>30, <1>t, FileAssumption DEF Swap
  <2>2. GuardInv'
    BY <1>30, <1>t, FileAssumption DEF Swap
  <2>3. CheckedInv'
    BY <1>30, <1>t, FileAssumption DEF Swap
  <2>4. FreshInv'
    BY <1>30, <1>t, FileAssumption DEF Swap
  <2>5. StagedIsTracked'
    BY <1>30, <1>t, FileAssumption DEF Swap
  <2>6. WriterInv'
    BY <1>30, <1>t, FileAssumption DEF Swap
  <2>7. ImageInv'
    BY <1>30, <1>t, FileAssumption DEF Swap
  <2> QED
    BY <1>t, <2>1, <2>2, <2>3, <2>4, <2>5, <2>6, <2>7
<1>31. ASSUME NEW s \in Stops, StopFences(s) PROVE IInv'
  BY <1>31, <1>t, WriteLeaves, FileAssumption DEF StopFences, StopGoto, StopLocked
<1>32. ASSUME NEW s \in Stops, Terminates(s) PROVE IInv'
  BY <1>32, <1>t, FileAssumption DEF Terminates, StopGoto
<1>33. ASSUME NEW s \in Stops, StopRetires(s) PROVE IInv'
  BY <1>33, <1>t, FileAssumption DEF StopRetires, StopGoto
<1>34. ASSUME NEW s \in Stops, StopFinishes(s) PROVE IInv'
  BY <1>34, <1>t, WriteLeaves, FileAssumption DEF StopFinishes, StopGoto, CleanDone
<1>35. ASSUME NEW s \in Stops, StopFails(s) PROVE IInv'
  <2>1. LockInv'
    BY <1>35, <1>t, FileAssumption DEF StopFails, StopGoto
  <2>2. GuardInv'
    BY <1>35, <1>t, FileAssumption DEF StopFails, StopGoto
  <2>3. CheckedInv'
    BY <1>35, <1>t, FileAssumption DEF StopFails, StopGoto
  <2>4. FreshInv'
    BY <1>35, <1>t, FileAssumption DEF StopFails, StopGoto
  <2>5. StagedIsTracked'
    BY <1>35, <1>t, FileAssumption DEF StopFails, StopGoto
  <2>6. WriterInv'
    BY <1>35, <1>t, FileAssumption DEF StopFails, StopGoto
  <2>7. ImageInv'
    BY <1>35, <1>t, FileAssumption DEF StopFails, StopGoto
  <2> QED
    BY <1>t, <2>1, <2>2, <2>3, <2>4, <2>5, <2>6, <2>7
<1>36. CASE CleanCheck
  BY <1>36, <1>t, FileAssumption DEF CleanCheck, IsOwned
<1>37. CASE CleanUnlink
  BY <1>37, <1>t, FileAssumption DEF CleanUnlink
<1>38. CASE EmulatorExits
  BY <1>38, <1>t, FileAssumption DEF EmulatorExits
<1>39. CASE UNCHANGED vars
  BY <1>39, <1>t DEF vars
<1> QED
  BY <1>1, <1>2, <1>3, <1>4, <1>5, <1>6, <1>7, <1>8, <1>9, <1>10, <1>11, <1>12, <1>13, <1>14,
     <1>15, <1>16, <1>17, <1>18, <1>19, <1>20, <1>21, <1>22, <1>23, <1>24, <1>25, <1>26, <1>27,
     <1>28, <1>29, <1>30, <1>31, <1>32, <1>33, <1>34, <1>35, <1>36, <1>37, <1>38, <1>39 DEF
     Next, Admission, Staging, Capturing, Emulating, Publishing, Finishing, Stopping

(* The inductive invariant holds in every reachable state. *)
THEOREM Invariant == Spec => []IInv
<1> QED
  BY InitInv, InvStep, PTL DEF Spec

(* Every reachable state has its type. *)
THEOREM TypeCorrect == Spec => []TypeOK
<1>1. IInv => TypeOK
  BY DEF IInv
<1> QED
  BY <1>1, Invariant, PTL

(* No temporary file is forgotten: a recovery that follows the journal finds
   every one, except those their caller was told nobody could record and those
   of a worker that died before it could. *)
THEOREM Tracked == Spec => []StagedIsTracked
<1>1. IInv => StagedIsTracked
  BY DEF IInv
<1> QED
  BY <1>1, Invariant, PTL

(* A verified stop leaves no tracked temporary file. *)
THEOREM Stopped == Spec => []StoppedLeavesNothing
<1>1. IInv => StoppedLeavesNothing
  BY DEF IInv, GuardInv, FreshInv, StagedIsTracked, StoppedLeavesNothing, Journalled, Artifact,
     Owned, Guarded
<1> QED
  BY <1>1, Invariant, PTL

(* No file is taken from a writer that has yet to open it. *)
THEOREM WriterKeeps == Spec => []WriterKeepsItsFile
<1>1. IInv => WriterKeepsItsFile
  BY DEF IInv, WriterInv, WriterKeepsItsFile
<1> QED
  BY <1>1, Invariant, PTL

(* What is published is the validated image of its call. *)
THEOREM Validated == Spec => []PublishedIsValidated
<1>1. IInv => PublishedIsValidated
  BY DEF IInv, ImageInv, PublishedIsValidated
<1> QED
  BY <1>1, Invariant, PTL

(* A worker holding the state lock has not been fenced, so no name is published
   after the fence. *)
THEOREM NotAfterFence == Spec => NothingPublishedAfterFence
<1>1. ASSUME IInv, [Next]_vars, status # "ready" PROVE UNCHANGED <<exports, destination>>
  <2> USE DEF journal, native, files, history
  <2>1. ASSUME NEW c \in Calls, Replace(c) \/ Link(c) PROVE FALSE
    BY <1>1, <2>1 DEF IInv, GuardInv, Guarded, Owned, Replace, Link
  <2>2. ASSUME NEW c \in Calls, Admission(c) \/ Staging(c) \/ Capturing(c)
         PROVE  UNCHANGED <<exports, destination>>
    BY <2>2 DEF Admission, Acquire, Admit, AdmitFails, RunPrimary, Fails, Staging, Stage,
       StageJournals, UndoCheck, Undo, UndoFails, Capturing, Capture, Complete, Withdraw
  <2>3. ASSUME NEW c \in Calls, Emulating(c) \/ Crash(c) \/ Swap(c)
         PROVE  UNCHANGED <<exports, destination>>
    BY <2>3 DEF Emulating, Claim, NativeWrite, Respond, Crash, Swap
  <2>4. ASSUME NEW c \in Calls, Publishing(c) PROVE UNCHANGED <<exports, destination>>
    BY <2>1, <2>4 DEF Publishing, Open, Validate, View, PublishCheck, PublishFails
  <2>5. ASSUME NEW c \in Calls, Finishing(c) PROVE UNCHANGED <<exports, destination>>
    BY <2>5 DEF Finishing, FinishBegins, FinishLeaves, Finish, FinishKeeps, FinishFails
  <2>6. ASSUME NEW s \in Stops, Stopping(s) PROVE UNCHANGED <<exports, destination>>
    BY <2>6 DEF Stopping, StopFences, Terminates, StopRetires, StopFinishes, StopFails
  <2>7. CASE CleanCheck \/ CleanUnlink \/ EmulatorExits
    BY <2>7 DEF CleanCheck, CleanUnlink, EmulatorExits
  <2>8. CASE UNCHANGED vars
    BY <2>8 DEF vars
  <2> QED
    BY <1>1, <2>2, <2>3, <2>4, <2>5, <2>6, <2>7, <2>8 DEF Next
<1>2. IInv /\ [Next]_vars => [status # "ready" => UNCHANGED <<exports, destination>>]_vars
  BY <1>1
<1> QED
  BY <1>2, Invariant, PTL DEF Spec, NothingPublishedAfterFence

(* A file of another program is removed only if it came after the check, and
   an exported name is never overwritten. *)
THEOREM OthersKept == Spec => OthersAreKept
<1> DEFINE OthersStay ==
        /\ \A c \in Calls : staged[c] = "foreign" => staged'[c] = "foreign" \/ c \in swapped
        /\ \A n \in Names : exports[n] # NoFile => exports'[n] = exports[n]
<1>1. ASSUME IInv, [Next]_vars PROVE OthersStay
  <2> USE DEF journal, native, files, history
  <2>1. ASSUME UNCHANGED <<staged, exports>> PROVE OthersStay
    BY <2>1
  <2>2. ASSUME NEW c \in Calls, Admission(c) PROVE UNCHANGED <<staged, exports>>
    BY <2>2 DEF Admission, Acquire, Admit, AdmitFails, RunPrimary, Fails
  <2>3. ASSUME NEW c \in Calls, Staging(c) PROVE OthersStay
    <3>1. CASE Stage(c)
      BY <1>1, <3>1 DEF Stage, IInv, TypeOK, FreshInv
    <3>2. CASE Undo(c)
      <4>1. operation.id = c /\ checked /\ (staged[c] = "foreign" => c \in swapped)
        BY <1>1, <3>2 DEF Undo, IInv, GuardInv, CheckedInv, Guarded, Owned
      <4> QED
        BY <1>1, <3>2, <4>1 DEF Undo, IInv, TypeOK
    <3> QED
      BY <2>1, <2>3, <3>1, <3>2 DEF Staging, StageJournals, UndoCheck, UndoFails
  <2>4. ASSUME NEW c \in Calls, Capturing(c) \/ Finishing(c) \/ Crash(c)
         PROVE  UNCHANGED <<staged, exports>>
    BY <2>4 DEF Capturing, Capture, Complete, Withdraw, Finishing, FinishBegins, FinishLeaves,
       Finish, FinishKeeps, FinishFails, Crash
  <2>5. ASSUME NEW c \in Calls, Emulating(c) \/ Swap(c) PROVE OthersStay
    BY <1>1, <2>5 DEF Emulating, Claim, NativeWrite, Respond, Swap, IInv, TypeOK
  <2>6. ASSUME NEW c \in Calls, Publishing(c) PROVE OthersStay
    <3>1. CASE Replace(c)
      <4>1. operation.id = c /\ checked /\ (staged[c] = "foreign" => c \in swapped)
        BY <1>1, <3>1 DEF Replace, IInv, GuardInv, CheckedInv, Guarded, Owned
      <4> QED
        BY <1>1, <3>1, <4>1 DEF Replace, IInv, TypeOK
    <3>2. CASE Link(c)
      BY <1>1, <3>2 DEF Link, Free, IInv, TypeOK
    <3> QED
      BY <2>1, <2>6, <3>1, <3>2 DEF Publishing, Open, Validate, View, PublishCheck, PublishFails
  <2>7. ASSUME NEW s \in Stops, Stopping(s) PROVE UNCHANGED <<staged, exports>>
    BY <2>7 DEF Stopping, StopFences, Terminates, StopRetires, StopFinishes, StopFails
  <2>8. CASE CleanCheck \/ EmulatorExits
    BY <2>1, <2>8 DEF CleanCheck, EmulatorExits
  <2>9. CASE CleanUnlink
    BY <1>1, <2>9 DEF CleanUnlink, IInv, TypeOK, CheckedInv
  <2>10. CASE UNCHANGED vars
    BY <2>1, <2>10 DEF vars
  <2> QED
    BY <1>1, <2>1, <2>2, <2>3, <2>4, <2>5, <2>6, <2>7, <2>8, <2>9, <2>10 DEF Next
<1>2. IInv /\ [Next]_vars => [OthersStay]_vars
  BY <1>1
<1> QED
  BY <1>2, Invariant, PTL DEF Spec, OthersAreKept
----
(* The refinement of SerialExecution. *)

(* What a native writer may still do is its own, and the journal names it. *)
LEMMA OneWriter ==
    ASSUME IInv
    PROVE  \A c \in Outstanding :
              operation # NoOp /\ operation.id = c /\ operation.pending /\ Outstanding = {c}
BY DEF IInv, WriterInv, Outstanding

(* A step of the emulator runs the one outstanding capture, or settles it. *)
LEMMA EmulatingPromiseStep ==
    ASSUME IInv, NEW c \in Calls, Emulating(c)
    PROVE  [Promise!AbsNext]_(Promise!absVars)
<1> USE DEF Promise!AbsNext, Promise!absVars
<1>1. request \in [Calls -> {"none", "queued", "running", "written", "over", "withdrawn"}]
  BY DEF IInv, TypeOK
<1>2. CASE Claim(c)
  <2>1. Outstanding' = Outstanding /\ Written' = Written /\ status' = status
    BY <1>1, <1>2 DEF Claim, Outstanding, Written, journal
  <2> QED
    BY <2>1
<1>3. CASE NativeWrite(c)
  <2>1. c \in Outstanding \ Written
    BY <1>3 DEF NativeWrite, Outstanding, Written
  <2>2. Outstanding' = Outstanding /\ Written' = Written \cup {c} /\ status' = status
    BY <1>1, <1>3 DEF NativeWrite, Outstanding, Written, journal
  <2> QED
    BY <2>1, <2>2 DEF Promise!Run
<1>4. CASE Respond(c)
  <2>1. Outstanding = {c}
    BY <1>4, OneWriter DEF Respond, Outstanding
  <2>2. Outstanding' = {} /\ Written' = Written /\ status' = status
    BY <1>1, <1>4, <2>1 DEF Respond, Outstanding, Written, journal
  <2> QED
    BY <2>2 DEF Promise!Settle
<1> QED
  BY <1>2, <1>3, <1>4 DEF Emulating

(* A capture is admitted when no writer is under way, and settled when it is
   withdrawn. *)
LEMMA CapturingPromiseStep ==
    ASSUME IInv, NEW c \in Calls, Capturing(c)
    PROVE  [Promise!AbsNext]_(Promise!absVars)
<1> USE DEF Promise!AbsNext, Promise!absVars
<1>1. request \in [Calls -> {"none", "queued", "running", "written", "over", "withdrawn"}]
  BY DEF IInv, TypeOK
<1>2. alive' = alive /\ status' = status
  BY DEF Capturing, Capture, Complete, Withdraw, native
<1>3. CASE request' = request
  BY <1>2, <1>3 DEF Outstanding, Written
<1>4. CASE Capture(c) /\ request' = [request EXCEPT ![c] = "queued"]
  <2>1. request[c] = "none" /\ status = "ready" /\ Outstanding = {}
    BY <1>4, OneWriter DEF Capture, Owned, Resolved, IInv, FreshInv
  <2>2. Written' = Written /\ c \notin Written
    BY <1>1, <1>4, <2>1 DEF Written
  <2>3. Outstanding' \in {{}, {c}}
    BY <1>1, <1>2, <1>4, <2>1 DEF Outstanding
  <2> QED
    BY <1>2, <2>1, <2>2, <2>3 DEF Promise!Admit
<1>5. CASE Withdraw(c)
  <2>1. Outstanding \subseteq {c}
    BY <1>5, OneWriter DEF Withdraw, Owned
  <2>2. Outstanding' = {} /\ Written' = Written
    BY <1>1, <1>2, <1>5, <2>1 DEF Withdraw, Outstanding, Written
  <2> QED
    BY <1>2, <2>2 DEF Promise!Settle
<1> QED
  BY <1>3, <1>4, <1>5 DEF Capturing, Capture, Complete, native

(* A stop fences, ends what is outstanding with the emulator, and retires a
   session in which nothing is outstanding. *)
LEMMA StoppingPromiseStep ==
    ASSUME IInv, NEW s \in Stops, Stopping(s)
    PROVE  [Promise!AbsNext]_(Promise!absVars)
<1> USE DEF Promise!AbsNext, Promise!absVars
<1>1. request' = request
  BY DEF Stopping, StopFences, Terminates, StopRetires, StopFinishes, StopFails, native
<1>2. CASE Terminates(s)
  <2>1. Outstanding' = {} /\ Written' = Written /\ status' = status
    BY <1>1, <1>2 DEF Terminates, Outstanding, Written, journal
  <2> QED
    BY <2>1 DEF Promise!Settle
<1>3. CASE StopFences(s)
  <2>1. Outstanding' = Outstanding /\ Written' = Written
    BY <1>1, <1>3 DEF StopFences, Outstanding, Written, native
  <2>2. status' \in {status, "stopping"}
    BY <1>3, WriteLeaves DEF StopFences
  <2> QED
    BY <2>1, <2>2 DEF Promise!Stop
<1>4. CASE StopFinishes(s)
  <2>1. status = "stopping" /\ ~alive
    BY <1>4 DEF StopFinishes, IInv, GuardInv, Recovering
  <2>2. Outstanding = {} /\ Outstanding' = {} /\ Written' = Written
    BY <1>1, <1>4, <2>1 DEF StopFinishes, Outstanding, Written, native
  <2>3. status' \in {status, "stopped"}
    BY <1>4, WriteLeaves DEF StopFinishes, journal
  <2> QED
    BY <2>1, <2>2, <2>3 DEF Promise!Retire
<1>5. CASE StopRetires(s) \/ StopFails(s)
  <2>1. alive' = alive /\ status' = status
    BY <1>5 DEF StopRetires, StopFails, native, journal
  <2>2. Outstanding' = Outstanding /\ Written' = Written
    BY <1>1, <2>1 DEF Outstanding, Written
  <2> QED
    BY <2>1, <2>2
<1> QED
  BY <1>2, <1>3, <1>4, <1>5 DEF Stopping

(* Native writers are admitted one at a time, write at most once, and never into a
   retired session, whoever timed out, died, withdrew or reclaimed in between
   (the capture of SessionManager.screenshot, Recovery.finish). *)
THEOREM CapturesKeepPromise == Spec => ImplementsPromise
<1>1. Init => Promise!AbsInit
  BY DEF Init, Promise!AbsInit, Outstanding, Written
<1>2. ASSUME IInv, [Next]_vars PROVE [Promise!AbsNext]_(Promise!absVars)
  <2> USE DEF journal, native, files, history, Promise!absVars
  <2>1. ASSUME UNCHANGED <<status, alive, request>> PROVE [Promise!AbsNext]_(Promise!absVars)
    BY <2>1 DEF Outstanding, Written
  <2>2. ASSUME NEW c \in Calls, Admission(c) \/ Staging(c)
        PROVE  UNCHANGED <<status, alive, request>>
    BY <2>2 DEF Admission, Acquire, Admit, AdmitFails, RunPrimary, Fails, Staging, Stage,
       StageJournals, UndoCheck, Undo, UndoFails
  <2>3. ASSUME NEW c \in Calls, Publishing(c) \/ Finishing(c) \/ Crash(c) \/ Swap(c)
        PROVE  UNCHANGED <<status, alive, request>>
    BY <2>3 DEF Publishing, Open, Validate, View, PublishCheck, Replace, Link, PublishFails,
       Finishing, FinishBegins, FinishLeaves, Finish, FinishKeeps, FinishFails, Crash, Swap
  <2>4. CASE CleanCheck \/ CleanUnlink
    BY <2>1, <2>4 DEF CleanCheck, CleanUnlink
  <2>5. CASE EmulatorExits
    <3>1. Outstanding' = {} /\ Written' = Written /\ status' = status
      BY <2>5 DEF EmulatorExits, Outstanding, Written
    <3> QED
      BY <3>1 DEF Promise!AbsNext, Promise!Settle
  <2>6. CASE UNCHANGED vars
    BY <2>1, <2>6 DEF vars
  <2> QED
    BY <1>2, <2>1, <2>2, <2>3, <2>4, <2>5, <2>6, EmulatingPromiseStep, CapturingPromiseStep,
       StoppingPromiseStep DEF Next
<1> QED
  BY <1>1, <1>2, Invariant, PTL DEF Spec, ImplementsPromise, Promise!AbsSpec
====
