---- MODULE SessionLifecycleProofs ----
(***************************************************************************)
(* Theorems about one session id, for any numbers of start calls, recovery *)
(* stops and prunes.                                                       *)
(***************************************************************************)
EXTENDS SessionLifecycle, TLAPS

(* Before any call the session id names no directory. *)
LEMMA InitInv == Init => IInv
BY DirectoryAssumption
   DEF Init, IInv, TypeOK, LeaseKeepsDirectory, OriginInv, RemovalInv, GuardInv, ClosedInv,
       StopInv, StoppedIsDead, Stopping, Active, Ended, OperationLocked

(* Every step keeps the types. *)
LEMMA TypeStep == TypeOK /\ [Next]_vars => TypeOK'
<1> SUFFICES ASSUME TypeOK, [Next]_vars PROVE TypeOK'
  OBVIOUS
<1> USE DEF TypeOK, directory, stops, history, Active, Ended, Stopping
<1>1. ASSUME NEW c \in Starts, Reserve(c) PROVE TypeOK'
  BY <1>1 DEF Reserve, Goto, InitLocked
<1>2. ASSUME NEW c \in Starts, InitJournal(c) PROVE TypeOK'
  BY <1>2 DEF InitJournal, Goto
<1>3. ASSUME NEW c \in Starts, InitJournalFails(c) PROVE TypeOK'
  BY <1>3 DEF InitJournalFails, Goto
<1>4. ASSUME NEW c \in Starts, Stage(c) PROVE TypeOK'
  BY <1>4 DEF Stage, Goto
<1>5. ASSUME NEW c \in Starts, Guard(c) PROVE TypeOK'
  BY <1>5 DEF Guard, Goto, Owned
<1>6. ASSUME NEW c \in Starts, GuardFails(c) PROVE TypeOK'
  BY <1>6 DEF GuardFails, Goto, Owned
<1>7. ASSUME NEW c \in Starts, Spawn(c) PROVE TypeOK'
  BY <1>7 DEF Spawn, Goto
<1>8. ASSUME NEW c \in Starts, SpawnFails(c) PROVE TypeOK'
  BY <1>8 DEF SpawnFails, Goto
<1>9. ASSUME NEW c \in Starts, Register(c) PROVE TypeOK'
  BY <1>9 DEF Register, Goto
<1>10. ASSUME NEW c \in Starts, RegisterFails(c) PROVE TypeOK'
  BY <1>10 DEF RegisterFails, Goto
<1>11. ASSUME NEW c \in Starts, CleanUp(c) PROVE TypeOK'
  BY <1>11 DEF CleanUp, Goto
<1>12. ASSUME NEW c \in Starts, Ready(c) PROVE TypeOK'
  BY <1>12 DEF Ready, Goto, Owned
<1>13. ASSUME NEW c \in Starts, StartFails(c) PROVE TypeOK'
  BY <1>13 DEF StartFails, Goto
<1>14. ASSUME NEW c \in Starts, Finish(c) PROVE TypeOK'
  BY <1>14 DEF Finish, Goto, Owned
<1>15. ASSUME NEW c \in Starts, FinishRaises(c) PROVE TypeOK'
  BY <1>15 DEF FinishRaises, Goto, Owned
<1>16. ASSUME NEW c \in Starts, WriteFailure(c) PROVE TypeOK'
  BY <1>16 DEF WriteFailure, Goto
<1>17. ASSUME NEW c \in Starts, Unwind(c) PROVE TypeOK'
  BY <1>17 DEF Unwind, Goto, RetiredOnFailure
<1>18. ASSUME NEW c \in Starts, BeginRollBack(c) PROVE TypeOK'
  BY <1>18 DEF BeginRollBack, InitLocked, CanRollBack, Owned, StopLocked
<1>19. ASSUME NEW c \in Starts, RollBackRefused(c) PROVE TypeOK'
  BY <1>19 DEF RollBackRefused, Goto, AfterRollBack, CanRollBack, Owned
<1>20. ASSUME NEW c \in Starts, Removed(c) PROVE TypeOK'
  BY <1>20 DEF Removed, Goto
<1>21. ASSUME NEW c \in Starts, RemoveFails(c) PROVE TypeOK'
  BY <1>21 DEF RemoveFails, Goto, AfterRollBack
<1>22. ASSUME NEW c \in Starts, EmulatorExits(c) PROVE TypeOK'
  BY <1>22 DEF EmulatorExits
<1>23. ASSUME NEW c \in Starts, Kill(c) PROVE TypeOK'
  BY <1>23 DEF Kill, Goto
<1>24. ASSUME NEW s \in Stops, StopLock(s) PROVE TypeOK'
  BY <1>24 DEF StopLock, StopGoto, InitLocked, StopLocked
<1>25. ASSUME NEW s \in Stops, StopFence(s) PROVE TypeOK'
  BY <1>25 DEF StopFence, StopGoto, StateLocked
<1>26. ASSUME NEW s \in Stops, StopFenceFails(s) PROVE TypeOK'
  BY <1>26 DEF StopFenceFails, StopGoto, StateLocked
<1>27. ASSUME NEW s \in Stops, StopLoad(s) PROVE TypeOK'
  BY <1>27 DEF StopLoad, StopGoto
<1>28. ASSUME NEW s \in Stops, StopTerminate(s) PROVE TypeOK'
  BY <1>28 DEF StopTerminate, StopGoto
<1>29. ASSUME NEW s \in Stops, StopFinish(s) PROVE TypeOK'
  BY <1>29 DEF StopFinish, StopGoto, StateLocked
<1>30. ASSUME NEW s \in Stops, StopFinishFails(s) PROVE TypeOK'
  BY <1>30 DEF StopFinishFails, StopGoto
<1>31. ASSUME NEW s \in Stops, StopDiagnose(s) PROVE TypeOK'
  BY <1>31 DEF StopDiagnose, StopGoto
<1>32. ASSUME NEW p \in Prunes, Observe(p) PROVE TypeOK'
  BY <1>32 DEF Observe
<1>33. ASSUME NEW p \in Prunes, Archive(p) PROVE TypeOK'
  BY <1>33 DEF Archive, CanArchive, InitLocked, Unleased, OperationLocked, StopLocked,
       StateLocked
<1>34. ASSUME NEW p \in Prunes, ArchiveRefused(p) PROVE TypeOK'
  BY <1>34 DEF ArchiveRefused
<1>35. CASE UNCHANGED vars
  BY <1>35 DEF vars
<1> QED
  BY <1>1, <1>2, <1>3, <1>4, <1>5, <1>6, <1>7, <1>8, <1>9, <1>10, <1>11, <1>12, <1>13,
       <1>14, <1>15, <1>16, <1>17, <1>18, <1>19, <1>20, <1>21, <1>22, <1>23, <1>24, <1>25, <1>26,
       <1>27, <1>28, <1>29, <1>30, <1>31, <1>32, <1>33, <1>34, <1>35 DEF Next, StartStep,
       StopStep

(* Every step keeps the inductive invariant: one step per action. *)
LEMMA InvStep == IInv /\ [Next]_vars => IInv'
<1> SUFFICES ASSUME IInv, [Next]_vars PROVE IInv'
  OBVIOUS
<1>t. TypeOK'
  BY TypeStep DEF IInv
<1> USE DEF IInv, TypeOK, LeaseKeepsDirectory, OriginInv, RemovalInv, GuardInv, ClosedInv,
            Closed, StopInv, StoppedIsDead, OperationLocked, Active, Stopping, directory,
            stops, history
<1>1. ASSUME NEW c \in Starts, Reserve(c) PROVE IInv'
  BY <1>1, <1>t, DirectoryAssumption DEF Reserve, Goto, InitLocked
<1>2. ASSUME NEW c \in Starts, InitJournal(c) PROVE IInv'
  BY <1>2, <1>t DEF InitJournal, Goto
<1>3. ASSUME NEW c \in Starts, InitJournalFails(c) PROVE IInv'
  BY <1>3, <1>t DEF InitJournalFails, Goto
<1>4. ASSUME NEW c \in Starts, Stage(c) PROVE IInv'
  BY <1>4, <1>t DEF Stage, Goto
<1>5. ASSUME NEW c \in Starts, Guard(c) PROVE IInv'
  BY <1>5, <1>t DEF Guard, Goto, Owned
<1>6. ASSUME NEW c \in Starts, GuardFails(c) PROVE IInv'
  BY <1>6, <1>t DEF GuardFails, Goto, Owned
<1>7. ASSUME NEW c \in Starts, Spawn(c) PROVE IInv'
  BY <1>7, <1>t DEF Spawn, Goto
<1>8. ASSUME NEW c \in Starts, SpawnFails(c) PROVE IInv'
  BY <1>8, <1>t DEF SpawnFails, Goto
<1>9. ASSUME NEW c \in Starts, Register(c) PROVE IInv'
  BY <1>9, <1>t DEF Register, Goto
<1>10. ASSUME NEW c \in Starts, RegisterFails(c) PROVE IInv'
  BY <1>10, <1>t DEF RegisterFails, Goto
<1>11. ASSUME NEW c \in Starts, CleanUp(c) PROVE IInv'
  BY <1>11, <1>t DEF CleanUp, Goto
<1>12. ASSUME NEW c \in Starts, Ready(c) PROVE IInv'
  BY <1>12, <1>t DEF Ready, Goto, Owned
<1>13. ASSUME NEW c \in Starts, StartFails(c) PROVE IInv'
  BY <1>13, <1>t DEF StartFails, Goto
<1>14. ASSUME NEW c \in Starts, Finish(c) PROVE IInv'
  BY <1>14, <1>t DEF Finish, Goto, Owned
<1>15. ASSUME NEW c \in Starts, FinishRaises(c) PROVE IInv'
  BY <1>15, <1>t DEF FinishRaises, Goto, Owned
<1>16. ASSUME NEW c \in Starts, WriteFailure(c) PROVE IInv'
  BY <1>16, <1>t DEF WriteFailure, Goto
<1>17. ASSUME NEW c \in Starts, Unwind(c) PROVE IInv'
  BY <1>17, <1>t DEF Unwind, Goto, RetiredOnFailure
<1>18. ASSUME NEW c \in Starts, BeginRollBack(c) PROVE IInv'
  BY <1>18, <1>t DEF BeginRollBack, InitLocked, CanRollBack, Owned, StopLocked
<1>19. ASSUME NEW c \in Starts, RollBackRefused(c) PROVE IInv'
  BY <1>19, <1>t DEF RollBackRefused, Goto, AfterRollBack, CanRollBack, Owned
<1>20. ASSUME NEW c \in Starts, Removed(c) PROVE IInv'
  BY <1>20, <1>t DEF Removed, Goto
<1>21. ASSUME NEW c \in Starts, RemoveFails(c) PROVE IInv'
  BY <1>21, <1>t DEF RemoveFails, Goto, AfterRollBack
<1>22. ASSUME NEW c \in Starts, EmulatorExits(c) PROVE IInv'
  BY <1>22, <1>t DEF EmulatorExits
<1>23. ASSUME NEW c \in Starts, Kill(c) PROVE IInv'
  BY <1>23, <1>t DEF Kill, Goto
<1>24. ASSUME NEW s \in Stops, StopLock(s) PROVE IInv'
  BY <1>24, <1>t DEF StopLock, StopGoto, InitLocked, StopLocked
<1>25. ASSUME NEW s \in Stops, StopFence(s) PROVE IInv'
  BY <1>25, <1>t DEF StopFence, StopGoto, StateLocked
<1>26. ASSUME NEW s \in Stops, StopFenceFails(s) PROVE IInv'
  BY <1>26, <1>t DEF StopFenceFails, StopGoto, StateLocked
<1>27. ASSUME NEW s \in Stops, StopLoad(s) PROVE IInv'
  BY <1>27, <1>t DEF StopLoad, StopGoto
<1>28. ASSUME NEW s \in Stops, StopTerminate(s) PROVE IInv'
  BY <1>28, <1>t DEF StopTerminate, StopGoto
<1>29. ASSUME NEW s \in Stops, StopFinish(s) PROVE IInv'
  BY <1>29, <1>t DEF StopFinish, StopGoto, StateLocked
<1>30. ASSUME NEW s \in Stops, StopFinishFails(s) PROVE IInv'
  BY <1>30, <1>t DEF StopFinishFails, StopGoto
<1>31. ASSUME NEW s \in Stops, StopDiagnose(s) PROVE IInv'
  BY <1>31, <1>t DEF StopDiagnose, StopGoto
<1>32. ASSUME NEW p \in Prunes, Observe(p) PROVE IInv'
  BY <1>32, <1>t DEF Observe
<1>33. ASSUME NEW p \in Prunes, Archive(p) PROVE IInv'
  BY <1>33, <1>t DEF Archive, CanArchive, InitLocked, Unleased, OperationLocked, StopLocked,
       StateLocked
<1>34. ASSUME NEW p \in Prunes, ArchiveRefused(p) PROVE IInv'
  BY <1>34, <1>t DEF ArchiveRefused
<1>35. CASE UNCHANGED vars
  BY <1>35, <1>t DEF vars
<1> QED
  BY <1>1, <1>2, <1>3, <1>4, <1>5, <1>6, <1>7, <1>8, <1>9, <1>10, <1>11, <1>12, <1>13,
       <1>14, <1>15, <1>16, <1>17, <1>18, <1>19, <1>20, <1>21, <1>22, <1>23, <1>24, <1>25, <1>26,
       <1>27, <1>28, <1>29, <1>30, <1>31, <1>32, <1>33, <1>34, <1>35 DEF Next, StartStep,
       StopStep

(* The invariant holds of every behaviour, for any numbers of start calls, stops
   and prunes, with and without failing files. *)
THEOREM Invariant == Spec => []IInv
<1>1. Init => IInv
  BY InitInv
<1>2. IInv /\ [Next]_vars => IInv'
  BY InvStep
<1> QED
  BY <1>1, <1>2, PTL DEF Spec

(* Types of the directories, the start calls, the stops and the prunes. *)
THEOREM TypeCorrect == Spec => []TypeOK
<1>1. IInv => TypeOK
  BY DEF IInv
<1> QED
  BY <1>1, Invariant, PTL

(* Recovery.finish: the emulator of a stopped directory is gone for good, even
   while the start call that spawned it goes on. *)
THEOREM StoppedStaysDead == Spec => []StoppedIsDead
<1>1. IInv => StoppedIsDead
  BY DEF IInv
<1> QED
  BY <1>1, Invariant, PTL

(* Rollback and archival never take a directory from the call or the stop that
   leases it. *)
THEOREM LeasesHold == Spec => []LeaseKeepsDirectory
<1>1. IInv => LeaseKeepsDirectory
  BY DEF IInv
<1> QED
  BY <1>1, Invariant, PTL

(* A start call that failed after Popen leaves its session fenced. *)
THEOREM FailedStartsAreFenced == Spec => []FailedStartStaysFenced
<1>1. IInv => FailedStartStaysFenced
  BY DEF IInv, ClosedInv, Closed, FailedStartStaysFenced, TypeOK
<1> QED
  BY <1>1, Invariant, PTL

(* startup_guard: an emulator is spawned only in a ready directory, so a fence
   always precedes Popen or finds the registration to terminate. *)
THEOREM FenceStopsPopen == Spec => NoSpawnAfterFence
<1>1. ASSUME IInv, [Next]_vars, NEW c \in Starts, proc[c] = "none", proc'[c] = "alive"
      PROVE  status[c] = "ready"
  <2> USE DEF IInv, TypeOK
  <2>1. ASSUME NEW d \in Starts, Spawn(d) PROVE c = d
    BY <1>1, <2>1 DEF Spawn
  <2>2. ASSUME NEW d \in Starts, Spawn(d) PROVE status[d] = "ready"
    BY <1>1, <2>2 DEF Spawn, GuardInv
  <2>3. ASSUME NEW d \in Starts, StartStep(d) \/ EmulatorExits(d) \/ Kill(d), ~Spawn(d)
        PROVE  FALSE
    BY <1>1, <2>3 DEF StartStep, EmulatorExits, Kill, Reserve, InitJournal, InitJournalFails,
         Stage, Guard, GuardFails, SpawnFails, Register, RegisterFails, CleanUp, Ready,
         StartFails, Finish, FinishRaises, WriteFailure, Unwind, BeginRollBack,
         RollBackRefused, Removed, RemoveFails
  <2>4. ASSUME NEW s \in Stops, StopStep(s) PROVE FALSE
    BY <1>1, <2>4 DEF StopStep, StopLock, StopFence, StopFenceFails, StopLoad, StopTerminate,
         StopFinish, StopFinishFails, StopDiagnose
  <2>5. ASSUME NEW p \in Prunes, Observe(p) \/ Archive(p) \/ ArchiveRefused(p) PROVE FALSE
    BY <1>1, <2>5 DEF Observe, Archive, ArchiveRefused
  <2>6. CASE UNCHANGED vars
    BY <1>1, <2>6 DEF vars
  <2> QED
    BY <1>1, <2>1, <2>2, <2>3, <2>4, <2>5, <2>6 DEF Next
<1>2. IInv /\ [Next]_vars =>
        [\A c \in Starts : proc[c] = "none" /\ proc'[c] = "alive" => status[c] = "ready"]_vars
  BY <1>1
<1> QED
  BY <1>2, Invariant, PTL DEF Spec, NoSpawnAfterFence

(* Only a removal takes a directory away, and it removes one that never had an
   emulator: one step per group of actions. *)
LEMMA RecordedStep ==
    ASSUME IInv, LiveIsRecorded, [Next]_vars PROVE LiveIsRecorded'
<1>t. TypeOK /\ TypeOK' /\ LeaseKeepsDirectory /\ OriginInv
  BY TypeStep DEF IInv
<1> USE DEF LiveIsRecorded, Recorded, TypeOK, directory, stops, history
<1>1. ASSUME NEW c \in Starts, Reserve(c) PROVE LiveIsRecorded'
  BY <1>1, <1>t, DirectoryAssumption DEF Reserve, Goto
<1>2. ASSUME NEW c \in Starts,
             \/ InitJournal(c) \/ InitJournalFails(c) \/ Stage(c) \/ Guard(c) \/ GuardFails(c)
             \/ SpawnFails(c) \/ Ready(c) \/ Finish(c) \/ FinishRaises(c) \/ Unwind(c)
             \/ RollBackRefused(c) \/ RemoveFails(c)
      PROVE  LiveIsRecorded'
  <2>1. /\ UNCHANGED <<directory, proc, orphans>> /\ pc[c] \notin {"spawned", "cleanup", "failing"}
        /\ \E next \in Active \cup Ended : Goto(c, next)
        /\ UNCHANGED meta \/ meta' = [meta EXCEPT ![c] = "ready"]
    BY <1>2, <1>t DEF InitJournal, InitJournalFails, Stage, Guard, GuardFails, SpawnFails, Ready,
         Finish, FinishRaises, Unwind, RollBackRefused, RemoveFails, AfterRollBack, Active, Ended
  <2> QED
    BY <1>t, <2>1 DEF Goto
<1>3. ASSUME NEW c \in Starts, Spawn(c) PROVE LiveIsRecorded'
  <2>1. path = c
    BY <1>3, <1>t DEF Spawn, LeaseKeepsDirectory, OperationLocked, Active
  <2> QED
    BY <1>3, <1>t, <2>1 DEF Spawn, Goto
<1>4. ASSUME NEW c \in Starts, Register(c) \/ RegisterFails(c) PROVE LiveIsRecorded'
  BY <1>4, <1>t DEF Register, RegisterFails, Goto
<1>5. ASSUME NEW c \in Starts, CleanUp(c) \/ StartFails(c) \/ WriteFailure(c)
      PROVE  LiveIsRecorded'
  BY <1>5, <1>t DEF CleanUp, StartFails, WriteFailure, Goto
<1>6. ASSUME NEW c \in Starts, BeginRollBack(c) \/ EmulatorExits(c) \/ Kill(c)
      PROVE  LiveIsRecorded'
  BY <1>6, <1>t DEF BeginRollBack, EmulatorExits, Kill, Goto
<1>7. ASSUME NEW c \in Starts, Removed(c) PROVE LiveIsRecorded'
  <2>1. pc[c] \in {"unborn", "prelaunch"} /\ proc[c] = "none" /\ path = c
    BY <1>7, <1>t DEF Removed, OriginInv, LeaseKeepsDirectory, OperationLocked, Active
  <2> QED
    BY <1>7, <1>t, <2>1 DEF Removed, Goto
<1>8. ASSUME NEW s \in Stops, StopStep(s) PROVE LiveIsRecorded'
  <2>1. /\ UNCHANGED <<directory, pc, orphans>>
        /\ UNCHANGED proc \/ proc' = [proc EXCEPT ![stopDir[s]] = "dead"]
        /\ UNCHANGED meta \/ meta' = [meta EXCEPT ![stopDir[s]] = "stopped"]
    BY <1>8 DEF StopStep, StopLock, StopFence, StopFenceFails, StopLoad, StopTerminate,
         StopFinish, StopFinishFails, StopDiagnose
  <2> QED
    BY <1>t, <2>1
<1>9. ASSUME NEW p \in Prunes, Observe(p) \/ Archive(p) \/ ArchiveRefused(p)
      PROVE  LiveIsRecorded'
  BY <1>9, <1>t DEF Observe, Archive, ArchiveRefused
<1>10. CASE UNCHANGED vars
  BY <1>10 DEF vars
<1> QED
  BY <1>1, <1>2, <1>3, <1>4, <1>5, <1>6, <1>7, <1>8, <1>9, <1>10 DEF Next, StartStep

(* However many prunes overlap, and wherever start calls die, an emulator that runs
   is in the directory of its id or in archived_sessions, with its metadata, or its
   start call has still to report it or said that it cannot (start,
   _postspawn_failure, rollback, archive_session). *)
THEOREM LiveIsNeverLost == Spec => []LiveIsRecorded
<1>1. Init => LiveIsRecorded
  BY DEF Init, LiveIsRecorded
<1>2. IInv /\ LiveIsRecorded /\ [Next]_vars => LiveIsRecorded'
  BY RecordedStep
<1> QED
  BY <1>1, <1>2, Invariant, PTL DEF Spec
----
(* The id alone. *)

(* A step in which at most one emulator ends, and that touches nothing else of the
   id, is the end of that emulator or nothing. *)
LEMMA IdEndStep ==
    ASSUME NEW c \in Starts, TypeOK, UNCHANGED directory, proc[c] # "none",
           UNCHANGED proc \/ proc' = [proc EXCEPT ![c] = "dead"]
    PROVE  [Id!AbsNext]_(Id!absVars)
<1> DEFINE Launched == {d \in Starts : proc[d] # "none"}
           Running == {d \in Starts : proc[d] = "alive"}
<1>1. Launched' = Launched
  BY DEF TypeOK
<1>2. Running' = Running \/ Running' = Running \ {c}
  BY DEF TypeOK
<1> QED
  BY <1>1, <1>2 DEF Id!AbsNext, Id!End, Id!absVars, directory

(* A step that starts and ends no emulator, and does not touch the id, is none. *)
LEMMA IdSilentStep ==
    ASSUME UNCHANGED <<directory, proc>> PROVE [Id!AbsNext]_(Id!absVars)
BY DEF Id!absVars, directory

(* A session step is a step of its id, or none: one step per group of actions. *)
LEMMA IdStep ==
    ASSUME IInv, LiveIsRecorded, [Next]_vars PROVE [Id!AbsNext]_(Id!absVars)
<1>t. TypeOK /\ OriginInv /\ LeaseKeepsDirectory
  BY DEF IInv
<1>1. ASSUME NEW c \in Starts, Reserve(c) PROVE Id!AbsNext
  <2>1. path = NoDirectory /\ path' = c /\ UNCHANGED <<archived, proc>> /\ proc[c] = "none"
    BY <1>1, <1>t DEF Reserve, OriginInv
  <2>2. {d \in Starts : proc[d] = "alive"} \subseteq archived
    BY <2>1, DirectoryAssumption DEF LiveIsRecorded, Recorded
  <2> QED
    BY <2>1, <2>2 DEF Id!AbsNext, Id!Take
<1>2. ASSUME NEW c \in Starts, Spawn(c) PROVE Id!AbsNext
  <2>1. proc[c] = "none" /\ path = c /\ UNCHANGED directory
        /\ proc' = [proc EXCEPT ![c] = "alive"]
    BY <1>2, <1>t DEF Spawn, OriginInv, LeaseKeepsDirectory, OperationLocked, Active, directory
  <2>2. /\ {d \in Starts : proc'[d] # "none"} = {d \in Starts : proc[d] # "none"} \cup {c}
        /\ {d \in Starts : proc'[d] = "alive"} = {d \in Starts : proc[d] = "alive"} \cup {c}
    BY <1>t, <2>1 DEF TypeOK
  <2> QED
    BY <2>1, <2>2 DEF Id!AbsNext, Id!Launch, directory
<1>3. ASSUME NEW c \in Starts, CleanUp(c) \/ EmulatorExits(c)
      PROVE  [Id!AbsNext]_(Id!absVars)
  <2>1. UNCHANGED directory /\ proc[c] # "none"
        /\ (UNCHANGED proc \/ proc' = [proc EXCEPT ![c] = "dead"])
    BY <1>3, <1>t DEF CleanUp, EmulatorExits, OriginInv
  <2> QED
    BY <1>t, <2>1, IdEndStep
<1>4. ASSUME NEW s \in Stops, StopTerminate(s) PROVE [Id!AbsNext]_(Id!absVars)
  <2>1. stopDir[s] \in Starts /\ proc[stopDir[s]] # "none" /\ UNCHANGED directory
        /\ (UNCHANGED proc \/ proc' = [proc EXCEPT ![stopDir[s]] = "dead"])
    BY <1>4, <1>t DEF StopTerminate, IInv, StopInv, Stopping, OriginInv
  <2> QED
    BY <1>t, <2>1, IdEndStep
<1>5. ASSUME NEW c \in Starts, Removed(c) PROVE Id!AbsNext
  <2>1. proc[c] = "none" /\ path = c /\ path' = NoDirectory /\ UNCHANGED <<archived, proc>>
    BY <1>5, <1>t DEF Removed, TypeOK, OriginInv, LeaseKeepsDirectory, OperationLocked, Active
  <2> QED
    BY <2>1 DEF Id!AbsNext, Id!GiveUp
<1>6. ASSUME NEW p \in Prunes, Archive(p) PROVE Id!AbsNext
  <2>1. /\ path # NoDirectory /\ path' = NoDirectory
        /\ archived' = archived \cup {path} /\ UNCHANGED proc
    BY <1>6 DEF Archive, CanArchive
  <2> QED
    BY <2>1 DEF Id!AbsNext, Id!Archive
<1>7. ASSUME NEW c \in Starts,
             \/ InitJournal(c) \/ InitJournalFails(c) \/ Stage(c) \/ Guard(c) \/ GuardFails(c)
             \/ SpawnFails(c) \/ Register(c) \/ RegisterFails(c) \/ Ready(c) \/ StartFails(c)
             \/ Finish(c) \/ FinishRaises(c) \/ WriteFailure(c) \/ Unwind(c)
             \/ BeginRollBack(c) \/ RollBackRefused(c) \/ RemoveFails(c) \/ Kill(c)
      PROVE  [Id!AbsNext]_(Id!absVars)
  <2>1. UNCHANGED <<directory, proc>>
    BY <1>7 DEF InitJournal, InitJournalFails, Stage, Guard, GuardFails, SpawnFails, Register,
         RegisterFails, Ready, StartFails, Finish, FinishRaises, WriteFailure, Unwind,
         BeginRollBack, RollBackRefused, RemoveFails, Kill
  <2> QED
    BY <2>1, IdSilentStep
<1>8. ASSUME NEW s \in Stops,
             \/ StopLock(s) \/ StopFence(s) \/ StopFenceFails(s) \/ StopLoad(s)
             \/ StopFinish(s) \/ StopFinishFails(s) \/ StopDiagnose(s)
      PROVE  [Id!AbsNext]_(Id!absVars)
  <2>1. UNCHANGED <<directory, proc>>
    BY <1>8 DEF StopLock, StopFence, StopFenceFails, StopLoad, StopFinish, StopFinishFails,
         StopDiagnose
  <2> QED
    BY <2>1, IdSilentStep
<1>9. ASSUME NEW p \in Prunes, Observe(p) \/ ArchiveRefused(p)
      PROVE  [Id!AbsNext]_(Id!absVars)
  <2>1. UNCHANGED <<directory, proc>>
    BY <1>9 DEF Observe, ArchiveRefused
  <2> QED
    BY <2>1, IdSilentStep
<1>10. CASE UNCHANGED vars
  BY <1>10, IdSilentStep DEF vars
<1> QED
  BY <1>1, <1>2, <1>3, <1>4, <1>5, <1>6, <1>7, <1>8, <1>9, <1>10 DEF Next, StartStep, StopStep

(* However many starts, stops, prunes and deaths of start calls race for it, a
   directory launches once, and nothing but archival takes an id from a directory
   whose emulator runs (start, rollback, archive_session). *)
THEOREM IdKeepsPromise == Spec => OnlyArchivalFreesId
<1>1. Init => LiveIsRecorded /\ Id!AbsInit
  BY DEF Init, LiveIsRecorded, Id!AbsInit
<1>2. IInv /\ LiveIsRecorded /\ [Next]_vars => LiveIsRecorded'
  BY RecordedStep
<1>3. IInv /\ LiveIsRecorded /\ [Next]_vars => [Id!AbsNext]_(Id!absVars)
  BY IdStep
<1> QED
  BY <1>1, <1>2, <1>3, Invariant, PTL DEF Spec, OnlyArchivalFreesId, Id!AbsSpec
====
