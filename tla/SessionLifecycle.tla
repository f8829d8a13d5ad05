---- MODULE SessionLifecycle ----
(***************************************************************************)
(* The life of one session id: SessionManager.start reserves a directory   *)
(* for it, stages the inputs, spawns and registers the emulator and waits  *)
(* until it is ready, or rolls the reservation back; stop fences whatever  *)
(* directory the id names; status prunes it into archived_sessions.  Every *)
(* start call makes a directory of its own, so a directory is named by the *)
(* call that made it.  The flocks are functions of where their holders     *)
(* are, and a process that dies drops them.  A call that the first lock it *)
(* tries, or an existing or missing directory, refuses has no effect: it   *)
(* is a call not made.  Commands of a ready session: SessionTransaction.   *)
(***************************************************************************)
CONSTANTS
    Starts,         \* start calls for this id, and the directories they make
    Stops,          \* recovery stops
    Prunes,         \* callers of prune_dead_sessions, again and again about this id
    Killable,       \* the start calls whose process may be killed
    NoDirectory,
    FileFaults      \* whether reading or writing a session file may raise

ASSUME DirectoryAssumption == NoDirectory \notin Starts /\ Killable \subseteq Starts
ASSUME FaultAssumption == FileFaults \in BOOLEAN

VARIABLES
    path,       \* the directory that the session id names
    archived,   \* directories moved to archived_sessions
    status,     \* journal "state" of each directory, "absent" without a journal
    op,         \* its "operation": none, owned, started or uncertain
    meta,       \* session.json: absent, or startup.state
    proc,       \* the emulator: none, alive or dead
    pc,         \* where each start call is
    removing,   \* the calls inside _Directory.remove
    stopPc, stopDir,    \* where each stop is, and which directory it opened
    stopSaw,    \* whether it loaded failed metadata
    prunePc,
    orphans,    \* emulators unconfirmed and unregistered when their worker died or said so
    unfenced    \* calls for which the write that keeps the fence failed as well

directory == <<path, archived>>
stops == <<stopPc, stopDir, stopSaw>>
history == <<orphans, unfenced>>
vars == <<directory, status, op, meta, proc, pc, removing, stops, prunePc, history>>

Active == {"reserved", "staging", "staged", "guarded", "spawned", "readying", "ready",
           "unborn", "prelaunch", "cleanup", "failing", "unwind"}
Ended == {"idle", "rolledback", "failed", "started", "killed"}
Stopping == {"locked", "fenced", "loaded", "terminated", "finished"}

TypeOK ==
    /\ path \in Starts \cup {NoDirectory}
    /\ archived \subseteq Starts
    /\ status \in [Starts -> {"absent", "ready", "stopping", "stopped"}]
    /\ op \in [Starts -> {"none", "owned", "started", "uncertain"}]
    /\ meta \in [Starts -> {"absent", "starting", "ready", "failed", "stopped"}]
    /\ proc \in [Starts -> {"none", "alive", "dead"}]
    /\ pc \in [Starts -> Active \cup Ended]
    /\ removing \in SUBSET {c \in Starts : pc[c] \in {"unborn", "prelaunch"}}
    /\ stopPc \in [Stops -> Stopping \cup {"idle", "failed", "stopped"}]
    /\ stopDir \in [Stops -> Starts \cup {NoDirectory}]
    /\ stopSaw \in [Stops -> BOOLEAN]
    /\ prunePc \in [Prunes -> {"idle", "observed"}]
    /\ orphans \subseteq Starts /\ unfenced \subseteq Starts

Init ==
    /\ path = NoDirectory /\ archived = {}
    /\ status = [c \in Starts |-> "absent"] /\ op = [c \in Starts |-> "none"]
    /\ meta = [c \in Starts |-> "absent"] /\ proc = [c \in Starts |-> "none"]
    /\ pc = [c \in Starts |-> "idle"] /\ removing = {}
    /\ stopPc = [s \in Stops |-> "idle"] /\ stopDir = [s \in Stops |-> NoDirectory]
    /\ stopSaw = [s \in Stops |-> FALSE]
    /\ prunePc = [p \in Prunes |-> "idle"]
    /\ orphans = {} /\ unfenced = {}
----
(* The locks of a directory, and the per-id initialization lock. *)

OperationLocked(c) == pc[c] \in Active

(* Mutant: the guard begins only after Popen. *)
StateLockedLate(c) == pc[c] = "spawned" \/ c \in removing

(* startup_guard and _remove_prelaunch hold the state lock for several steps;
   every other holder takes and drops it within one. *)
StateLocked(c) == pc[c] \in {"guarded", "spawned"} \/ c \in removing

StopLocked(c) == c \in removing \/ \E s \in Stops : stopPc[s] \in Stopping /\ stopDir[s] = c
InitLocked == removing # {}

(* _owned_state: only the creator's own operation is ever journalled here. *)
Owned(c) == status[c] = "ready" /\ op[c] # "none"
----
(* A start call. *)

Goto(c, next) == pc' = [pc EXCEPT ![c] = next]

(* Mutant: mkdir accepts a directory that exists. *)
ReserveAnyway(c) ==
    /\ pc[c] = "idle" /\ ~InitLocked
    /\ path' = c
    /\ Goto(c, "reserved")
    /\ UNCHANGED <<archived, status, op, meta, proc, removing, stops, prunePc, history>>

(* mkdir and the operation lock, both under the initialization lock. *)
Reserve(c) ==
    /\ pc[c] = "idle" /\ path = NoDirectory /\ ~InitLocked
    /\ path' = c
    /\ Goto(c, "reserved")
    /\ UNCHANGED <<archived, status, op, meta, proc, removing, stops, prunePc, history>>

InitJournal(c) ==
    /\ pc[c] = "reserved" /\ status[c] = "absent"
    /\ status' = [status EXCEPT ![c] = "ready"]
    /\ op' = [op EXCEPT ![c] = "owned"]
    /\ Goto(c, "staging")
    /\ UNCHANGED <<directory, meta, proc, removing, stops, prunePc, history>>

(* A stop initialized the journal first, or the write raises, before or after
   its rename, or the deadline has passed. *)
InitJournalFails(c) ==
    /\ pc[c] = "reserved"
    /\ \/ UNCHANGED <<status, op>>
       \/ /\ status[c] = "absent"
          /\ status' = [status EXCEPT ![c] = "ready"]
          /\ op' = [op EXCEPT ![c] = "owned"]
    /\ Goto(c, "unborn")
    /\ UNCHANGED <<directory, meta, proc, removing, stops, prunePc, history>>

Stage(c) ==
    /\ pc[c] = "staging"
    /\ \E next \in {"staged", "prelaunch"} : Goto(c, next)
    /\ UNCHANGED <<directory, status, op, meta, proc, removing, stops, prunePc, history>>

(* startup_guard before Popen. *)
Guard(c) ==
    /\ pc[c] = "staged" /\ Owned(c)
    /\ op' = [op EXCEPT ![c] = "started"]
    /\ Goto(c, "guarded")
    /\ UNCHANGED <<directory, status, meta, proc, removing, stops, prunePc, history>>

(* Fenced, out of time, or the journal write raises, before or after its rename. *)
GuardFails(c) ==
    /\ pc[c] = "staged"
    /\ \/ UNCHANGED op
       \/ FileFaults /\ Owned(c) /\ op' = [op EXCEPT ![c] = "started"]
    /\ Goto(c, "prelaunch")
    /\ UNCHANGED <<directory, status, meta, proc, removing, stops, prunePc, history>>

Spawn(c) ==
    /\ pc[c] = "guarded"
    /\ proc' = [proc EXCEPT ![c] = "alive"]
    /\ Goto(c, "spawned")
    /\ UNCHANGED <<directory, status, op, meta, removing, stops, prunePc, history>>

SpawnFails(c) ==
    /\ pc[c] = "guarded"
    /\ Goto(c, "prelaunch")
    /\ UNCHANGED <<directory, status, op, meta, proc, removing, stops, prunePc, history>>

(* The identity and session.json, still inside the guard. *)
Register(c) ==
    /\ pc[c] = "spawned"
    /\ meta' = [meta EXCEPT ![c] = "starting"]
    /\ Goto(c, "readying")
    /\ UNCHANGED <<directory, status, op, proc, removing, stops, prunePc, history>>

(* Mutant: a failure after Popen is handled like one before it. *)
RegisterFailsUnspawned(c) ==
    /\ pc[c] = "spawned"
    /\ Goto(c, "prelaunch")
    /\ UNCHANGED <<directory, status, op, meta, proc, removing, stops, prunePc, history>>

(* The native inspection fails, or the write raises, before or after its rename. *)
RegisterFails(c) ==
    /\ pc[c] = "spawned"
    /\ \/ UNCHANGED meta
       \/ FileFaults /\ meta' = [meta EXCEPT ![c] = "starting"]
    /\ Goto(c, "cleanup")
    /\ UNCHANGED <<directory, status, op, proc, removing, stops, prunePc, history>>

(* _postspawn_failure terminates an emulator that it could not register; the
   process may resist, or its identity may be unknown. *)
CleanUp(c) ==
    /\ pc[c] = "cleanup"
    /\ \/ proc' = [proc EXCEPT ![c] = "dead"]
       \/ UNCHANGED proc
    /\ Goto(c, "failing")
    /\ UNCHANGED <<directory, status, op, meta, removing, stops, prunePc, history>>

(* The bridge answered the ping: the second guard publishes ready metadata. *)
Ready(c) ==
    /\ pc[c] = "readying" /\ Owned(c)
    /\ meta' = [meta EXCEPT ![c] = "ready"]
    /\ op' = [op EXCEPT ![c] = "started"]
    /\ Goto(c, "ready")
    /\ UNCHANGED <<directory, status, proc, removing, stops, prunePc, history>>

(* No answer, an early exit, a fence or a failing write before the session is
   ready; a failing activation, startup Lua, settling or capture after it. *)
StartFails(c) ==
    /\ pc[c] \in {"readying", "ready"}
    /\ Goto(c, "failing")
    /\ UNCHANGED <<directory, status, op, meta, proc, removing, stops, prunePc, history>>

Finish(c) ==
    /\ pc[c] = "ready" /\ Owned(c)
    /\ op' = [op EXCEPT ![c] = "none"]
    /\ Goto(c, "started")
    /\ UNCHANGED <<directory, status, meta, proc, removing, stops, prunePc, history>>

(* The retiring write raises and the fence is written back, or that raises too. *)
FinishRaises(c) ==
    /\ FileFaults /\ pc[c] = "ready" /\ Owned(c)
    /\ \/ op' = [op EXCEPT ![c] = "uncertain"] /\ UNCHANGED unfenced
       \/ op' = [op EXCEPT ![c] = "none"] /\ unfenced' = unfenced \cup {c}
       \/ UNCHANGED <<op, unfenced>>
    /\ Goto(c, "failing")
    /\ UNCHANGED <<directory, status, meta, proc, removing, stops, prunePc, orphans>>

(* write_metadata of the failure; it does not require the journal to be ready,
   but a finished stop has retired the operation. *)
WriteFailure(c) ==
    /\ pc[c] = "failing"
    /\ \/ op[c] # "none" /\ meta' = [meta EXCEPT ![c] = "failed"]
       \/ (op[c] = "none" \/ FileFaults) /\ UNCHANGED meta
    /\ orphans' = IF meta'[c] = "absent" /\ proc[c] = "alive" THEN orphans \cup {c} ELSE orphans
    /\ Goto(c, "unwind")
    /\ UNCHANGED <<directory, status, op, proc, removing, stops, prunePc, unfenced>>

(* Mutant: a failed startup retires its operation like any other. *)
RetiredOnFailureAlways(c) == op[c] \in {"owned", "started"}

(* _finish(failed=True) leaves a started composite journalled. *)
RetiredOnFailure(c) == op[c] = "owned"

(* The transaction ends with an exception and drops the operation lock. *)
Unwind(c) ==
    /\ pc[c] = "unwind"
    /\ \/ /\ status[c] = "ready" /\ RetiredOnFailure(c)
          /\ op' = [op EXCEPT ![c] = "none"]
       \/ /\ status[c] # "ready" \/ ~RetiredOnFailure(c) \/ FileFaults
          /\ UNCHANGED op
    /\ Goto(c, "failed")
    /\ UNCHANGED <<directory, status, meta, proc, removing, stops, prunePc, history>>

EmulatorExits(c) ==
    /\ proc[c] = "alive"
    /\ proc' = [proc EXCEPT ![c] = "dead"]
    /\ UNCHANGED <<directory, status, op, meta, pc, removing, stops, prunePc, history>>
----
(* Prelaunch rollback. *)

(* The nonblocking stop lock is free, and the journal is still this call's; a call
   that failed to initialize the journal may also find none. *)
CanRollBack(c) ==
    /\ ~StopLocked(c)
    /\ \/ Owned(c) /\ op[c] # "uncertain"
       \/ pc[c] = "unborn" /\ status[c] = "absent"

BeginRollBack(c) ==
    /\ pc[c] \in {"unborn", "prelaunch"} /\ c \notin removing
    /\ ~InitLocked /\ CanRollBack(c)
    /\ removing' = removing \cup {c}
    /\ UNCHANGED <<directory, status, op, meta, proc, pc, stops, prunePc, history>>

AfterRollBack(c) == IF pc[c] = "unborn" THEN "failed" ELSE "unwind"

RollBackRefused(c) ==
    /\ pc[c] \in {"unborn", "prelaunch"} /\ c \notin removing
    /\ ~CanRollBack(c) \/ FileFaults
    /\ Goto(c, AfterRollBack(c))
    /\ UNCHANGED <<directory, status, op, meta, proc, removing, stops, prunePc, history>>

Removed(c) ==
    /\ c \in removing
    /\ path' = NoDirectory
    /\ status' = [status EXCEPT ![c] = "absent"]
    /\ op' = [op EXCEPT ![c] = "none"]
    /\ removing' = removing \ {c}
    /\ Goto(c, "rolledback")
    /\ UNCHANGED <<archived, meta, proc, stops, prunePc, history>>

(* The journal goes last and is restored as uncertain, unless that fails too. *)
RemoveFails(c) ==
    /\ FileFaults /\ c \in removing
    /\ \/ /\ op[c] # "none"
          /\ op' = [op EXCEPT ![c] = "uncertain"]
          /\ UNCHANGED status
       \/ UNCHANGED <<status, op>>
       \/ /\ status' = [status EXCEPT ![c] = "absent"]
          /\ op' = [op EXCEPT ![c] = "none"]
    /\ removing' = removing \ {c}
    /\ Goto(c, AfterRollBack(c))
    /\ UNCHANGED <<directory, meta, proc, stops, prunePc, history>>

(* The worker's process dies: its locks are free, its emulator runs on. *)
Kill(c) ==
    /\ c \in Killable /\ pc[c] \in Active
    /\ Goto(c, "killed")
    /\ removing' = removing \ {c}
    /\ \/ UNCHANGED <<status, op>>
       \/ /\ c \in removing
          /\ status' = [status EXCEPT ![c] = "absent"]
          /\ op' = [op EXCEPT ![c] = "none"]
    /\ orphans' = IF proc[c] = "alive" /\ meta[c] = "absent" THEN orphans \cup {c} ELSE orphans
    /\ UNCHANGED <<directory, meta, proc, stops, prunePc, unfenced>>
----
(* A recovery stop. *)

StopGoto(s, next) == stopPc' = [stopPc EXCEPT ![s] = next]

StopLock(s) ==
    /\ stopPc[s] = "idle"
    /\ path # NoDirectory /\ ~InitLocked /\ ~StopLocked(path)
    /\ stopDir' = [stopDir EXCEPT ![s] = path]
    /\ StopGoto(s, "locked")
    /\ UNCHANGED <<directory, status, op, meta, proc, pc, removing, stopSaw, prunePc, history>>

(* Fences the directory at once, whoever operates on it; a missing journal is made. *)
StopFence(s) ==
    /\ stopPc[s] = "locked" /\ ~StateLocked(stopDir[s])
    /\ status' = [status EXCEPT ![stopDir[s]] = "stopping"]
    /\ StopGoto(s, "fenced")
    /\ UNCHANGED <<directory, op, meta, proc, pc, removing, stopDir, stopSaw, prunePc, history>>

(* The state lock stays busy for half a second, or a file raises. *)
StopFenceFails(s) ==
    /\ stopPc[s] = "locked"
    /\ StateLocked(stopDir[s]) \/ FileFaults
    /\ StopGoto(s, "failed")
    /\ UNCHANGED <<directory, status, op, meta, proc, pc, removing, stopDir, stopSaw, prunePc,
                   history>>

(* require_session: without session.json there is no process to terminate, and
   the stop ends with session_not_found. *)
StopLoad(s) ==
    /\ stopPc[s] = "fenced"
    /\ stopSaw' = [stopSaw EXCEPT ![s] = meta[stopDir[s]] = "failed"]
    /\ StopGoto(s, IF meta[stopDir[s]] = "absent" THEN "failed" ELSE "loaded")
    /\ UNCHANGED <<directory, status, op, meta, proc, pc, removing, stopDir, prunePc, history>>

(* Mutant: an unconfirmed termination is taken for a confirmed one. *)
StopTerminateUnconfirmed(s) ==
    /\ stopPc[s] = "loaded"
    /\ \/ proc' = [proc EXCEPT ![stopDir[s]] = "dead"]
       \/ UNCHANGED proc
    /\ StopGoto(s, "terminated")
    /\ UNCHANGED <<directory, status, op, meta, pc, removing, stopDir, stopSaw, prunePc, history>>

(* ProcessControl: it is confirmed that the group is gone, or the stop fails. *)
StopTerminate(s) ==
    /\ stopPc[s] = "loaded"
    /\ \/ /\ proc' = [proc EXCEPT ![stopDir[s]] = "dead"]
          /\ StopGoto(s, "terminated")
       \/ /\ UNCHANGED proc
          /\ StopGoto(s, "failed")
    /\ UNCHANGED <<directory, status, op, meta, pc, removing, stopDir, stopSaw, prunePc, history>>

StopFinish(s) ==
    /\ stopPc[s] = "terminated" /\ ~StateLocked(stopDir[s])
    /\ status' = [status EXCEPT ![stopDir[s]] = "stopped"]
    /\ op' = [op EXCEPT ![stopDir[s]] = "none"]
    /\ StopGoto(s, "finished")
    /\ UNCHANGED <<directory, meta, proc, pc, removing, stopDir, stopSaw, prunePc, history>>

StopFinishFails(s) ==
    /\ FileFaults /\ stopPc[s] = "terminated"
    /\ StopGoto(s, "failed")
    /\ UNCHANGED <<directory, status, op, meta, proc, pc, removing, stopDir, stopSaw, prunePc,
                   history>>

(* A failed startup becomes a stopped one in the metadata; a failing write is
   only reported. *)
StopDiagnose(s) ==
    /\ stopPc[s] = "finished"
    /\ \/ stopSaw[s] /\ meta' = [meta EXCEPT ![stopDir[s]] = "stopped"]
       \/ (~stopSaw[s] \/ FileFaults) /\ UNCHANGED meta
    /\ StopGoto(s, "stopped")
    /\ UNCHANGED <<directory, status, op, proc, pc, removing, stopDir, stopSaw, prunePc, history>>
----
(* prune_dead_sessions: the metadata and the process are read without a lock. *)

Observe(p) ==
    /\ prunePc[p] = "idle"
    /\ path # NoDirectory /\ meta[path] \notin {"absent", "failed"} /\ proc[path] = "dead"
    /\ prunePc' = [prunePc EXCEPT ![p] = "observed"]
    /\ UNCHANGED <<directory, status, op, meta, proc, pc, removing, stops, history>>

(* Mutant: only the recovery locks guard a directory against archival. *)
UnleasedByStop(c) == ~StopLocked(c) /\ ~StateLocked(c)

Unleased(c) == ~OperationLocked(c) /\ ~StopLocked(c) /\ ~StateLocked(c)

(* archive_session opens the path again and asks only whether it is leased. *)
CanArchive == path # NoDirectory /\ ~InitLocked /\ Unleased(path)

Archive(p) ==
    /\ prunePc[p] = "observed" /\ CanArchive
    /\ archived' = archived \cup {path}
    /\ path' = NoDirectory
    /\ prunePc' = [prunePc EXCEPT ![p] = "idle"]
    /\ UNCHANGED <<status, op, meta, proc, pc, removing, stops, history>>

ArchiveRefused(p) ==
    /\ prunePc[p] = "observed" /\ ~CanArchive
    /\ prunePc' = [prunePc EXCEPT ![p] = "idle"]
    /\ UNCHANGED <<directory, status, op, meta, proc, pc, removing, stops, history>>
----
StartStep(c) ==
    \/ Reserve(c) \/ InitJournal(c) \/ InitJournalFails(c) \/ Stage(c)
    \/ Guard(c) \/ GuardFails(c) \/ Spawn(c) \/ SpawnFails(c)
    \/ Register(c) \/ RegisterFails(c) \/ CleanUp(c)
    \/ Ready(c) \/ StartFails(c) \/ Finish(c) \/ FinishRaises(c)
    \/ WriteFailure(c) \/ Unwind(c)
    \/ BeginRollBack(c) \/ RollBackRefused(c) \/ Removed(c) \/ RemoveFails(c)

StopStep(s) ==
    \/ StopLock(s) \/ StopFence(s) \/ StopFenceFails(s) \/ StopLoad(s)
    \/ StopTerminate(s) \/ StopFinish(s) \/ StopFinishFails(s) \/ StopDiagnose(s)

Next ==
    \/ \E c \in Starts : StartStep(c) \/ EmulatorExits(c) \/ Kill(c)
    \/ \E s \in Stops : StopStep(s)
    \/ \E p \in Prunes : Observe(p) \/ Archive(p) \/ ArchiveRefused(p)

Spec == Init /\ [][Next]_vars
----
(* No emulator is started in a directory that a recovery stop has fenced: Popen
   runs inside startup_guard, which excludes the fence until registration. *)
NoSpawnAfterFence ==
    [][\A c \in Starts : proc[c] = "none" /\ proc'[c] = "alive" => status[c] = "ready"]_vars

(* A stopped journal means that the emulator of that directory is gone, and
   stays gone although its start call may still be running. *)
StoppedIsDead == \A c \in Starts : status[c] = "stopped" => proc[c] # "alive"

(* A running emulator is in the directory that its id names, or in archived_sessions
   (finding 3), with the metadata a stop needs, unless its start call is still between
   Popen and the failure report, or died there, or reported that it could neither
   confirm the cleanup nor write the metadata (start, _postspawn_failure, rollback). *)
Recorded(c) ==
    /\ path = c \/ c \in archived
    /\ meta[c] # "absent" \/ pc[c] \in {"spawned", "cleanup", "failing"} \/ c \in orphans
LiveIsRecorded == \A c \in Starts : proc[c] = "alive" => Recorded(c)

(* A directory is neither archived nor removed under the call that owns it. *)
LeaseKeepsDirectory ==
    /\ \A c \in Starts : OperationLocked(c) => path = c
    /\ \A s \in Stops : stopPc[s] \in Stopping => path = stopDir[s]

(* A start call that fails after Popen leaves its directory closed to commands
   until a recovery stop, unless the write that keeps it closed failed too. *)
FailedStartStaysFenced ==
    \A c \in Starts : pc[c] = "failed" /\ proc[c] # "none" =>
        status[c] # "ready" \/ op[c] # "none" \/ c \in unfenced

(* archive_session moves a "caller-verified dead session". *)
ArchivedIsDead == \A c \in archived : proc[c] = "dead"

(* Seen by its id alone the whole life of a session is short: one directory and one
   launch after the other, and neither mkdir nor rollback passes the id on while its
   emulator runs; only archival can, which is finding 3 (start, rollback,
   archive_session). *)
Id == INSTANCE SessionId
         WITH Directories <- Starts,
              launched <- {c \in Starts : proc[c] # "none"},
              running <- {c \in Starts : proc[c] = "alive"}
OnlyArchivalFreesId == Id!AbsSpec

(* README, Transactional startup: "Failed startup records are retained until
   explicit recovery stop." *)
FailedIsRetained == \A c \in archived : meta[c] # "failed"

(* README, Transaction ownership and recovery: mgba_live_stop recovers a hung
   operation.  A directory that a stop has fenced and no call leases any more
   has the metadata that a later stop needs. *)
FencedIsRecoverable ==
    \A c \in Starts : path = c /\ status[c] = "stopping" /\ Unleased(c) => meta[c] # "absent"
----
(* The inductive invariant behind the proofs. *)

(* There is an emulator exactly after Popen, and metadata only for an emulator. *)
OriginInv ==
    \A c \in Starts :
        /\ meta[c] # "absent" => proc[c] # "none"
        /\ pc[c] \in {"idle", "reserved", "staging", "staged", "guarded", "unborn", "prelaunch"}
              => proc[c] = "none"
        /\ pc[c] \in {"spawned", "readying", "ready", "cleanup", "failing"} => proc[c] # "none"

(* Removal excludes recovery. *)
RemovalInv ==
    \A c \in removing : \A s \in Stops : ~(stopPc[s] \in Stopping /\ stopDir[s] = c)

(* Inside the guard the journal is ready: the fence waits for the state lock. *)
GuardInv == \A c \in Starts : pc[c] \in {"guarded", "spawned"} => status[c] = "ready"

(* A started operation stays journalled while its call may still fail. *)
Closed(c) == status[c] # "ready" \/ op[c] \in {"started", "uncertain"} \/ c \in unfenced
ClosedInv ==
    \A c \in Starts :
        /\ pc[c] \in {"guarded", "spawned", "readying", "ready", "cleanup", "failing"} =>
           Closed(c)
        /\ pc[c] \in {"unwind", "failed"} /\ proc[c] # "none" => Closed(c)

(* What a stop has established about its directory. *)
StopInv ==
    \A s \in Stops :
        /\ stopPc[s] \in Stopping => stopDir[s] \in Starts
        /\ stopPc[s] \in {"loaded", "terminated", "finished"} => meta[stopDir[s]] # "absent"
        /\ stopPc[s] = "terminated" => proc[stopDir[s]] = "dead"

IInv == /\ TypeOK /\ LeaseKeepsDirectory /\ OriginInv /\ RemovalInv /\ GuardInv
        /\ ClosedInv /\ StopInv /\ StoppedIsDead
====
