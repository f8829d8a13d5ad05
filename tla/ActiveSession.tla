---- MODULE ActiveSession ----
(***************************************************************************)
(* The active_session marker of one runtime root, and everything that      *)
(* writes it under .active_session.lock: the final activation of a start,  *)
(* attach, and the refresh that status and stop run.  An activation holds  *)
(* the marker lock from its publication to the retirement of the startup   *)
(* transaction and restores the previous marker if anything fails between. *)
(* The lock is a function of where its holder is.  A start is seen from    *)
(* the registration of its emulator on: SessionLifecycle has what precedes *)
(***************************************************************************)
CONSTANTS
    Sessions,   \* session ids, each started once
    Attaches,   \* attach calls
    Statuses,   \* status calls, which refresh the marker after pruning
    NoSession,  \* no marker file
    FileFaults  \* whether reading or writing a runtime file may raise

ASSUME SessionAssumption == NoSession \notin Sessions
ASSUME RefresherAssumption == Statuses \cap Sessions = {}
ASSUME FaultAssumption == FileFaults \in BOOLEAN

VARIABLES
    marker,     \* the content of active_session
    pc,         \* where the start call of each session is
    previous,   \* the marker it read under the lock, while it holds the lock
    meta,       \* startup.state of each session
    alive,      \* its emulator
    status, op, \* journal state, and whether the startup operation is journalled
    attachPc, target,       \* attach calls
    refreshPc, candidates,  \* refreshes: of a status call, or of the stop of a session
    stopPc,     \* the recovery stop of each session
    committed,  \* the marker of the last writer that completed
    torn        \* a writer died, or could not confirm its restoration

session == <<meta, alive, status, op>>
attaches == <<attachPc, target>>
refreshes == <<refreshPc, candidates>>
vars == <<marker, pc, previous, session, attaches, refreshes, stopPc, committed, torn>>

Refreshers == Statuses \cup Sessions
Marker == Sessions \cup {NoSession}
Activating == {"locked", "published", "restoring"}

TypeOK ==
    /\ marker \in Marker /\ committed \in Marker /\ torn \in BOOLEAN
    /\ pc \in [Sessions -> Activating \cup
                  {"idle", "registered", "working", "failing", "started", "failed", "killed"}]
    /\ previous \in [Sessions -> Marker]
    /\ meta \in [Sessions -> {"absent", "starting", "ready", "failed"}]
    /\ alive \in [Sessions -> BOOLEAN] /\ op \in [Sessions -> BOOLEAN]
    /\ status \in [Sessions -> {"ready", "stopping", "stopped"}]
    /\ attachPc \in [Attaches -> {"idle", "resolved", "done"}]
    /\ target \in [Attaches -> Marker]
    /\ refreshPc \in [Refreshers -> {"idle", "picking", "done"}]
    /\ candidates \in [Refreshers -> SUBSET Sessions]
    /\ stopPc \in [Sessions -> {"idle", "fenced", "stopped", "refreshing", "done"}]

Init ==
    /\ marker = NoSession /\ committed = NoSession /\ torn = FALSE
    /\ pc = [s \in Sessions |-> "idle"] /\ previous = [s \in Sessions |-> NoSession]
    /\ meta = [s \in Sessions |-> "absent"] /\ alive = [s \in Sessions |-> FALSE]
    /\ status = [s \in Sessions |-> "ready"] /\ op = [s \in Sessions |-> FALSE]
    /\ attachPc = [a \in Attaches |-> "idle"] /\ target = [a \in Attaches |-> NoSession]
    /\ refreshPc = [r \in Refreshers |-> "idle"] /\ candidates = [r \in Refreshers |-> {}]
    /\ stopPc = [s \in Sessions |-> "idle"]
----
(* Mutant: the activation gives the lock up once the marker is published. *)
MarkerLockedBriefly ==
    \/ \E s \in Sessions : pc[s] \in {"locked", "restoring"}
    \/ \E r \in Refreshers : refreshPc[r] = "picking"

MarkerLocked ==
    \/ \E s \in Sessions : pc[s] \in Activating
    \/ \E r \in Refreshers : refreshPc[r] = "picking"

Owned(s) == status[s] = "ready" /\ op[s]
Goto(s, next) == pc' = [pc EXCEPT ![s] = next]

(* A start. *)

Register(s) ==
    /\ pc[s] = "idle"
    /\ meta' = [meta EXCEPT ![s] = "starting"]
    /\ alive' = [alive EXCEPT ![s] = TRUE]
    /\ op' = [op EXCEPT ![s] = TRUE]
    /\ Goto(s, "registered")
    /\ UNCHANGED <<marker, previous, status, attaches, refreshes, stopPc, committed, torn>>

(* A composite start goes on with its Lua, settling and capture. *)
Ready(s) ==
    /\ pc[s] = "registered" /\ Owned(s)
    /\ meta' = [meta EXCEPT ![s] = "ready"]
    /\ Goto(s, "working")
    /\ UNCHANGED <<marker, previous, alive, status, op, attaches, refreshes, stopPc,
                   committed, torn>>

StartFails(s) ==
    /\ pc[s] \in {"registered", "working"}
    /\ Goto(s, "failing")
    /\ UNCHANGED <<marker, previous, session, attaches, refreshes, stopPc, committed, torn>>

LockMarker(s) ==
    /\ pc[s] = "working" /\ ~MarkerLocked
    /\ previous' = [previous EXCEPT ![s] = marker]
    /\ Goto(s, "locked")
    /\ UNCHANGED <<marker, session, attaches, refreshes, stopPc, committed, torn>>

Publish(s) ==
    /\ pc[s] = "locked" /\ Owned(s)
    /\ marker' = s
    /\ Goto(s, "published")
    /\ UNCHANGED <<previous, session, attaches, refreshes, stopPc, committed, torn>>

(* Fenced, out of time, or the write raises, before or after its rename. *)
PublishFails(s) ==
    /\ pc[s] = "locked"
    /\ \/ UNCHANGED marker
       \/ FileFaults /\ Owned(s) /\ marker' = s
    /\ Goto(s, "restoring")
    /\ UNCHANGED <<previous, session, attaches, refreshes, stopPc, committed, torn>>

(* _finish retires the transaction, still under the marker lock. *)
Finish(s) ==
    /\ pc[s] = "published" /\ Owned(s)
    /\ op' = [op EXCEPT ![s] = FALSE]
    /\ committed' = s
    /\ Goto(s, "started")
    /\ previous' = [previous EXCEPT ![s] = NoSession]
    /\ UNCHANGED <<marker, meta, alive, status, attaches, refreshes, stopPc, torn>>

FinishFails(s) ==
    /\ pc[s] = "published" /\ (~Owned(s) \/ FileFaults)
    /\ \/ UNCHANGED op
       \/ FileFaults /\ Owned(s) /\ op' = [op EXCEPT ![s] = FALSE]
    /\ Goto(s, "restoring")
    /\ UNCHANGED <<marker, previous, meta, alive, status, attaches, refreshes, stopPc,
                   committed, torn>>

(* Mutant: a failed activation removes the marker. *)
RestoreNothing(s) ==
    /\ pc[s] = "restoring"
    /\ marker' = NoSession
    /\ Goto(s, "failing")
    /\ previous' = [previous EXCEPT ![s] = NoSession]
    /\ UNCHANGED <<session, attaches, refreshes, stopPc, committed, torn>>

(* The exact previous marker comes back, or the error says that this is not
   confirmed; the lock is free from here on. *)
Restore(s) ==
    /\ pc[s] = "restoring"
    /\ \/ marker' = previous[s] /\ UNCHANGED torn
       \/ FileFaults /\ marker' \in {marker, previous[s]} /\ torn' = TRUE
    /\ Goto(s, "failing")
    /\ previous' = [previous EXCEPT ![s] = NoSession]
    /\ UNCHANGED <<session, attaches, refreshes, stopPc, committed>>

(* Only now does the metadata say that the start failed. *)
WriteFailure(s) ==
    /\ pc[s] = "failing"
    /\ \/ op[s] /\ meta' = [meta EXCEPT ![s] = "failed"]
       \/ (~op[s] \/ FileFaults) /\ UNCHANGED meta
    /\ Goto(s, "failed")
    /\ UNCHANGED <<marker, previous, alive, status, op, attaches, refreshes, stopPc,
                   committed, torn>>

(* The process of the start dies, perhaps between publication and retirement. *)
Kill(s) ==
    /\ pc[s] \in Activating \cup {"registered", "working", "failing"}
    /\ Goto(s, "killed")
    /\ previous' = [previous EXCEPT ![s] = NoSession]
    /\ torn' = (torn \/ marker # committed)
    /\ UNCHANGED <<marker, session, attaches, refreshes, stopPc, committed>>

EmulatorExits(s) ==
    /\ alive[s]
    /\ alive' = [alive EXCEPT ![s] = FALSE]
    /\ UNCHANGED <<marker, pc, previous, meta, status, op, attaches, refreshes, stopPc,
                   committed, torn>>
----
(* attach. *)

Resolve(a) ==
    /\ attachPc[a] = "idle"
    /\ \E s \in Sessions : alive[s] /\ target' = [target EXCEPT ![a] = s]
    /\ attachPc' = [attachPc EXCEPT ![a] = "resolved"]
    /\ UNCHANGED <<marker, pc, previous, session, refreshes, stopPc, committed, torn>>

(* The resolution is not repeated under the lock. *)
SetActive(a) ==
    /\ attachPc[a] = "resolved" /\ ~MarkerLocked
    /\ marker' = target[a] /\ committed' = target[a]
    /\ attachPc' = [attachPc EXCEPT ![a] = "done"]
    /\ target' = [target EXCEPT ![a] = NoSession]
    /\ UNCHANGED <<pc, previous, session, refreshes, stopPc, torn>>

(* The lock stays busy, or the write raises and the marker is restored, or not. *)
SetActiveFails(a) ==
    /\ attachPc[a] = "resolved"
    /\ \/ UNCHANGED <<marker, torn>>
       \/ FileFaults /\ ~MarkerLocked /\ marker' = target[a] /\ torn' = TRUE
    /\ attachPc' = [attachPc EXCEPT ![a] = "done"]
    /\ target' = [target EXCEPT ![a] = NoSession]
    /\ UNCHANGED <<pc, previous, session, refreshes, stopPc, committed>>
----
(* _refresh_active_session. *)

RefreshGoto(r, next) == refreshPc' = [refreshPc EXCEPT ![r] = next]
Requested(r) == r \in Sessions => stopPc[r] = "refreshing"

(* The marked session still runs, or its startup has not failed. *)
StaysActive == marker # NoSession /\ meta[marker] \notin {"absent", "failed"} /\ alive[marker]

RefreshKeeps(r) ==
    /\ refreshPc[r] = "idle" /\ Requested(r) /\ ~MarkerLocked /\ StaysActive
    /\ RefreshGoto(r, "done")
    /\ UNCHANGED <<marker, pc, previous, session, attaches, candidates, stopPc, committed, torn>>

(* iter_sessions loads all metadata at once. *)
RefreshScans(r) ==
    /\ refreshPc[r] = "idle" /\ Requested(r) /\ ~MarkerLocked /\ ~StaysActive
    /\ candidates' = [candidates EXCEPT ![r] = {s \in Sessions : meta[s] = "ready"}]
    /\ RefreshGoto(r, "picking")
    /\ UNCHANGED <<marker, pc, previous, session, attaches, stopPc, committed, torn>>

(* The newest candidate whose process is not dead; the order is not modelled. *)
RefreshPicks(r) ==
    /\ refreshPc[r] = "picking"
    /\ \/ \E s \in candidates[r] : alive[s] /\ marker' = s
       \/ (\A s \in candidates[r] : ~alive[s]) /\ marker' = NoSession
    /\ committed' = marker'
    /\ RefreshGoto(r, "done")
    /\ candidates' = [candidates EXCEPT ![r] = {}]
    /\ UNCHANGED <<pc, previous, session, attaches, stopPc, torn>>

(* The deadline passes, or a file raises: the marker read at first comes back, or
   that is not confirmed. *)
RefreshFails(r) ==
    /\ refreshPc[r] \in {"idle", "picking"} /\ Requested(r)
    /\ \/ UNCHANGED <<marker, torn>>
       \/ /\ FileFaults /\ refreshPc[r] = "picking"
          /\ marker' \in candidates[r] \cup {NoSession}
          /\ torn' = TRUE
    /\ RefreshGoto(r, "done")
    /\ candidates' = [candidates EXCEPT ![r] = {}]
    /\ UNCHANGED <<pc, previous, session, attaches, stopPc, committed>>
----
(* stop. *)

StopGoto(s, next) == stopPc' = [stopPc EXCEPT ![s] = next]

StopFence(s) ==
    /\ stopPc[s] = "idle" /\ pc[s] # "idle"
    /\ status' = [status EXCEPT ![s] = "stopping"]
    /\ StopGoto(s, "fenced")
    /\ UNCHANGED <<marker, pc, previous, meta, alive, op, attaches, refreshes, committed, torn>>

(* Termination is confirmed and the journal retired; a failing stop ends fenced. *)
StopFinish(s) ==
    /\ stopPc[s] = "fenced"
    /\ alive' = [alive EXCEPT ![s] = FALSE]
    /\ status' = [status EXCEPT ![s] = "stopped"]
    /\ op' = [op EXCEPT ![s] = FALSE]
    /\ StopGoto(s, "stopped")
    /\ UNCHANGED <<marker, pc, previous, meta, attaches, refreshes, committed, torn>>

(* get_active_session_id reads without the lock. *)
StopReadsMarker(s) ==
    /\ stopPc[s] = "stopped"
    /\ StopGoto(s, IF marker = s THEN "refreshing" ELSE "done")
    /\ UNCHANGED <<marker, pc, previous, session, attaches, refreshes, committed, torn>>
----
StartStep(s) ==
    \/ Register(s) \/ Ready(s) \/ StartFails(s) \/ LockMarker(s) \/ Publish(s) \/ PublishFails(s)
    \/ Finish(s) \/ FinishFails(s) \/ Restore(s) \/ WriteFailure(s)

StopStep(s) == StopFence(s) \/ StopFinish(s) \/ StopReadsMarker(s)

AttachStep(a) == Resolve(a) \/ SetActive(a) \/ SetActiveFails(a)

RefreshStep(r) == RefreshKeeps(r) \/ RefreshScans(r) \/ RefreshPicks(r) \/ RefreshFails(r)

Next ==
    \/ \E s \in Sessions : StartStep(s) \/ Kill(s) \/ EmulatorExits(s) \/ StopStep(s)
    \/ \E a \in Attaches : AttachStep(a)
    \/ \E r \in Refreshers : RefreshStep(r)

Spec == Init /\ [][Next]_vars
----
(* While nobody holds the marker lock the marker is the choice of the last writer
   that completed: a failed activation undoes exactly its own publication and
   nobody else's, unless its restoration is reported as unconfirmed or it died. *)
MarkerIsCommitted == ~MarkerLocked /\ ~torn => marker = committed

(* A start that succeeds is the active session when its transaction retires:
   attach and refresh cannot slip between publication and retirement. *)
StartedIsActive ==
    [][\A s \in Sessions : pc[s] # "started" /\ pc'[s] = "started" => marker' = s]_vars

(* README, Transactional startup: "a startup composite waits until its Lua,
   settling and requested visual result complete" before it is active. *)
ActiveHasStarted == \A s \in Sessions : marker = s => pc[s] \notin {"registered", "working"}
----
(* The inductive invariant behind the proofs. *)

(* The lock has one holder. *)
LockInv ==
    /\ \A s, t \in Sessions : pc[s] \in Activating /\ pc[t] \in Activating => s = t
    /\ \A s \in Sessions, r \in Refreshers : pc[s] \in Activating => refreshPc[r] # "picking"
    /\ \A r, q \in Refreshers : refreshPc[r] = "picking" /\ refreshPc[q] = "picking" => r = q

(* What the holder of the lock knows about the marker. *)
HolderInv ==
    /\ \A s \in Sessions :
          /\ pc[s] = "published" => marker = s
          /\ pc[s] = "locked" /\ ~torn => marker = committed
          /\ pc[s] \in Activating /\ ~torn => previous[s] = committed
    /\ \A r \in Refreshers : refreshPc[r] = "picking" /\ ~torn => marker = committed

IInv == TypeOK /\ LockInv /\ HolderInv /\ MarkerIsCommitted
====
