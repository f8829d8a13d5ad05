---- MODULE ActiveSessionProofs ----
(***************************************************************************)
(* Theorems about the active marker, for any sets of sessions, attaches    *)
(* and status calls.                                                       *)
(***************************************************************************)
EXTENDS ActiveSession, TLAPS

(* Before any start there is no marker and no holder of its lock. *)
LEMMA InitInv == Init => IInv
<1> SUFFICES ASSUME Init PROVE IInv
  OBVIOUS
<1>1. TypeOK
  BY DEF Init, TypeOK, Marker
<1>2. LockInv /\ HolderInv
  BY DEF Init, LockInv, HolderInv, Activating
<1>3. MarkerIsCommitted
  BY DEF Init, MarkerIsCommitted
<1> QED
  BY <1>1, <1>2, <1>3 DEF IInv

(* Every step keeps the types. *)
LEMMA TypeStep == TypeOK /\ [Next]_vars => TypeOK'
<1> SUFFICES ASSUME TypeOK, [Next]_vars PROVE TypeOK'
  OBVIOUS
<1> USE DEF TypeOK, session, attaches, refreshes, Activating, Marker, Refreshers
<1>1. ASSUME NEW s \in Sessions, Register(s) PROVE TypeOK'
  BY <1>1 DEF Register, Goto
<1>2. ASSUME NEW s \in Sessions, Ready(s) PROVE TypeOK'
  BY <1>2 DEF Ready, Goto, Owned
<1>3. ASSUME NEW s \in Sessions, StartFails(s) PROVE TypeOK'
  BY <1>3 DEF StartFails, Goto
<1>4. ASSUME NEW s \in Sessions, LockMarker(s) PROVE TypeOK'
  BY <1>4 DEF LockMarker, Goto, MarkerLocked
<1>5. ASSUME NEW s \in Sessions, Publish(s) PROVE TypeOK'
  BY <1>5 DEF Publish, Goto, Owned
<1>6. ASSUME NEW s \in Sessions, PublishFails(s) PROVE TypeOK'
  BY <1>6 DEF PublishFails, Goto, Owned
<1>7. ASSUME NEW s \in Sessions, Finish(s) PROVE TypeOK'
  BY <1>7 DEF Finish, Goto, Owned
<1>8. ASSUME NEW s \in Sessions, FinishFails(s) PROVE TypeOK'
  BY <1>8 DEF FinishFails, Goto, Owned
<1>9. ASSUME NEW s \in Sessions, Restore(s) PROVE TypeOK'
  BY <1>9 DEF Restore, Goto
<1>10. ASSUME NEW s \in Sessions, WriteFailure(s) PROVE TypeOK'
  BY <1>10 DEF WriteFailure, Goto
<1>11. ASSUME NEW s \in Sessions, Kill(s) PROVE TypeOK'
  BY <1>11 DEF Kill, Goto
<1>12. ASSUME NEW s \in Sessions, EmulatorExits(s) PROVE TypeOK'
  BY <1>12 DEF EmulatorExits
<1>13. ASSUME NEW s \in Sessions, StopFence(s) PROVE TypeOK'
  BY <1>13 DEF StopFence, StopGoto
<1>14. ASSUME NEW s \in Sessions, StopFinish(s) PROVE TypeOK'
  BY <1>14 DEF StopFinish, StopGoto
<1>15. ASSUME NEW s \in Sessions, StopReadsMarker(s) PROVE TypeOK'
  BY <1>15 DEF StopReadsMarker, StopGoto
<1>16. ASSUME NEW a \in Attaches, Resolve(a) PROVE TypeOK'
  BY <1>16 DEF Resolve
<1>17. ASSUME NEW a \in Attaches, SetActive(a) PROVE TypeOK'
  BY <1>17 DEF SetActive, MarkerLocked
<1>18. ASSUME NEW a \in Attaches, SetActiveFails(a) PROVE TypeOK'
  BY <1>18 DEF SetActiveFails, MarkerLocked
<1>19. ASSUME NEW r \in Refreshers, RefreshKeeps(r) PROVE TypeOK'
  BY <1>19 DEF RefreshKeeps, RefreshGoto
<1>20. ASSUME NEW r \in Refreshers, RefreshScans(r) PROVE TypeOK'
  BY <1>20 DEF RefreshScans, RefreshGoto, MarkerLocked
<1>21. ASSUME NEW r \in Refreshers, RefreshPicks(r) PROVE TypeOK'
  BY <1>21 DEF RefreshPicks, RefreshGoto
<1>22. ASSUME NEW r \in Refreshers, RefreshFails(r) PROVE TypeOK'
  BY <1>22 DEF RefreshFails, RefreshGoto
<1>23. CASE UNCHANGED vars
  BY <1>23 DEF vars
<1> QED
  BY <1>1, <1>2, <1>3, <1>4, <1>5, <1>6, <1>7, <1>8, <1>9, <1>10, <1>11, <1>12, <1>13, <1>14,
     <1>15, <1>16, <1>17, <1>18, <1>19, <1>20, <1>21, <1>22, <1>23 DEF Next, StartStep,
         StopStep, AttachStep, RefreshStep

(* Every step keeps the inductive invariant: one step per action. *)
LEMMA InvStep == IInv /\ [Next]_vars => IInv'
<1> SUFFICES ASSUME IInv, [Next]_vars PROVE IInv'
  OBVIOUS
<1>t. TypeOK'
  BY TypeStep DEF IInv
<1> USE DEF IInv, TypeOK, LockInv, HolderInv, MarkerIsCommitted, Activating, Refreshers,
    session, attaches, refreshes
<1>1. ASSUME NEW s \in Sessions, Register(s) PROVE IInv'
  BY <1>1, <1>t DEF Register, Goto, MarkerLocked
<1>2. ASSUME NEW s \in Sessions, Ready(s) PROVE IInv'
  BY <1>2, <1>t DEF Ready, Goto, Owned, MarkerLocked
<1>3. ASSUME NEW s \in Sessions, StartFails(s) PROVE IInv'
  BY <1>3, <1>t DEF StartFails, Goto, MarkerLocked
<1>4. ASSUME NEW s \in Sessions, LockMarker(s) PROVE IInv'
  BY <1>4, <1>t DEF LockMarker, Goto, MarkerLocked
<1>5. ASSUME NEW s \in Sessions, Publish(s) PROVE IInv'
  BY <1>5, <1>t DEF Publish, Goto, Owned, MarkerLocked
<1>6. ASSUME NEW s \in Sessions, PublishFails(s) PROVE IInv'
  BY <1>6, <1>t DEF PublishFails, Goto, Owned, MarkerLocked
<1>7. ASSUME NEW s \in Sessions, Finish(s) PROVE IInv'
  BY <1>7, <1>t DEF Finish, Goto, Owned, MarkerLocked
<1>8. ASSUME NEW s \in Sessions, FinishFails(s) PROVE IInv'
  BY <1>8, <1>t DEF FinishFails, Goto, Owned, MarkerLocked
<1>9. ASSUME NEW s \in Sessions, Restore(s) PROVE IInv'
  BY <1>9, <1>t DEF Restore, Goto, MarkerLocked
<1>10. ASSUME NEW s \in Sessions, WriteFailure(s) PROVE IInv'
  BY <1>10, <1>t DEF WriteFailure, Goto, MarkerLocked
<1>11. ASSUME NEW s \in Sessions, Kill(s) PROVE IInv'
  <2>1. (torn \/ marker # committed) <=> torn'
    BY <1>11 DEF Kill
  <2>2. ~torn' => ~torn /\ marker = committed
    BY <2>1
  <2>3. marker' = marker /\ committed' = committed
    BY <1>11 DEF Kill
  <2>4. LockInv'
    BY <1>11 DEF Kill, Goto
  <2>5. HolderInv'
    BY <1>11, <2>2, <2>3 DEF Kill, Goto
  <2>6. MarkerIsCommitted'
    BY <2>2, <2>3 DEF MarkerLocked
  <2> QED
    BY <1>t, <2>4, <2>5, <2>6
<1>12. ASSUME NEW s \in Sessions, EmulatorExits(s) PROVE IInv'
  BY <1>12, <1>t DEF EmulatorExits, MarkerLocked
<1>13. ASSUME NEW s \in Sessions, StopFence(s) PROVE IInv'
  BY <1>13, <1>t DEF StopFence, StopGoto, MarkerLocked
<1>14. ASSUME NEW s \in Sessions, StopFinish(s) PROVE IInv'
  BY <1>14, <1>t DEF StopFinish, StopGoto, MarkerLocked
<1>15. ASSUME NEW s \in Sessions, StopReadsMarker(s) PROVE IInv'
  BY <1>15, <1>t DEF StopReadsMarker, StopGoto, MarkerLocked
<1>16. ASSUME NEW a \in Attaches, Resolve(a) PROVE IInv'
  BY <1>16, <1>t DEF Resolve, MarkerLocked
<1>17. ASSUME NEW a \in Attaches, SetActive(a) PROVE IInv'
  BY <1>17, <1>t DEF SetActive, MarkerLocked
<1>18. ASSUME NEW a \in Attaches, SetActiveFails(a) PROVE IInv'
  BY <1>18, <1>t DEF SetActiveFails, MarkerLocked
<1>19. ASSUME NEW r \in Refreshers, RefreshKeeps(r) PROVE IInv'
  BY <1>19, <1>t DEF RefreshKeeps, RefreshGoto, MarkerLocked
<1>20. ASSUME NEW r \in Refreshers, RefreshScans(r) PROVE IInv'
  BY <1>20, <1>t DEF RefreshScans, RefreshGoto, MarkerLocked
<1>21. ASSUME NEW r \in Refreshers, RefreshPicks(r) PROVE IInv'
  BY <1>21, <1>t DEF RefreshPicks, RefreshGoto, MarkerLocked
<1>22. ASSUME NEW r \in Refreshers, RefreshFails(r) PROVE IInv'
  BY <1>22, <1>t DEF RefreshFails, RefreshGoto, MarkerLocked
<1>23. CASE UNCHANGED vars
  BY <1>23 DEF vars, MarkerLocked
<1> QED
  BY <1>1, <1>2, <1>3, <1>4, <1>5, <1>6, <1>7, <1>8, <1>9, <1>10, <1>11, <1>12, <1>13, <1>14,
     <1>15, <1>16, <1>17, <1>18, <1>19, <1>20, <1>21, <1>22, <1>23 DEF Next, StartStep,
         StopStep, AttachStep, RefreshStep

(* The invariant holds of every behaviour. *)
THEOREM Invariant == Spec => []IInv
<1>1. Init => IInv
  BY InitInv
<1>2. IInv /\ [Next]_vars => IInv'
  BY InvStep
<1> QED
  BY <1>1, <1>2, PTL DEF Spec

(* _active_marker: outside the lock the marker is what the last completed writer
   chose, so a failed activation undoes its own publication and no other. *)
THEOREM MarkerCommits == Spec => []MarkerIsCommitted
<1>1. IInv => MarkerIsCommitted
  BY DEF IInv
<1> QED
  BY <1>1, Invariant, PTL

(* _activate_startup: a start that succeeds is the active session when its
   transaction retires. *)
THEOREM StartsAreActive == Spec => StartedIsActive
<1>1. ASSUME IInv, [Next]_vars, NEW s \in Sessions, pc[s] # "started", pc'[s] = "started"
      PROVE  marker' = s
  <2>1. PICK t \in Sessions : Finish(t)
    <3>1. ASSUME NEW t \in Sessions, StartStep(t), ~Finish(t) PROVE FALSE
      BY <1>1, <3>1 DEF IInv, TypeOK, StartStep, Goto, Register, Ready, StartFails, LockMarker,
           Publish, PublishFails, FinishFails, Restore, WriteFailure
    <3>2. ASSUME NEW t \in Sessions, Kill(t) \/ EmulatorExits(t) \/ StopStep(t) PROVE FALSE
      BY <1>1, <3>2 DEF IInv, TypeOK, Goto, Kill, EmulatorExits, StopStep, StopFence, StopFinish,
           StopReadsMarker
    <3>3. ASSUME NEW a \in Attaches, AttachStep(a) PROVE FALSE
      BY <1>1, <3>3 DEF AttachStep, Resolve, SetActive, SetActiveFails
    <3>4. ASSUME NEW r \in Refreshers, RefreshStep(r) PROVE FALSE
      BY <1>1, <3>4 DEF RefreshStep, RefreshKeeps, RefreshScans, RefreshPicks, RefreshFails
    <3>5. CASE UNCHANGED vars
      BY <1>1, <3>5 DEF vars
    <3> QED
      BY <1>1, <3>1, <3>2, <3>3, <3>4, <3>5 DEF Next
  <2> QED
    BY <1>1, <2>1 DEF Finish, Goto, IInv, TypeOK, HolderInv
<1>2. IInv /\ [Next]_vars =>
        [\A s \in Sessions : pc[s] # "started" /\ pc'[s] = "started" => marker' = s]_vars
  BY <1>1
<1> QED
  BY <1>2, Invariant, PTL DEF Spec, StartedIsActive
====
