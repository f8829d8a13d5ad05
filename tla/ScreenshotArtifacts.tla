---- MODULE ScreenshotArtifacts ----
(***************************************************************************)
(* The temporary image files of one session: SessionManager.screenshot and *)
(* the part of session_transactions that stages, reads, publishes and      *)
(* removes them.  A call creates a private staging file, journals it, has  *)
(* the emulator write into it by path, validates the bytes it reads and    *)
(* publishes the file under an implicit name or an explicit one.  A call   *)
(* may die anywhere, its request may be answered late or never, a recovery *)
(* stop may fence the session, and another program may replace the file.   *)
(*                                                                         *)
(* Admission, the command channel and the fence are SessionTransaction's;  *)
(* here a request is only where it is on its way.  An operation stages at  *)
(* most one file, so files, requests and responses are named by the call.  *)
(***************************************************************************)
EXTENDS Naturals

CONSTANTS
    Calls,          \* calls that capture a screenshot, ever made
    Composites,     \* those that ran a primary command first
    Explicit,       \* those that publish to one explicit destination
    Implicit,       \* those that publish under a name of the program's choice
    Stops,          \* recovery-stop attempts
    Names,          \* the implicit names screenshot-<uuid>.png may draw
    NoOp,           \* "operation": null in the journal
    NoCall,         \* no response
    NoFile,         \* a name nothing exists under
    Previous,       \* an image of an earlier session
    Foreign,        \* a file another program made
    MaxForeign,     \* bound: how many staging files other programs replace
    FileFaults      \* whether reading or writing a file may raise

ASSUME CallAssumption ==
    /\ Composites \subseteq Calls /\ Explicit \subseteq Calls /\ Implicit \subseteq Calls
    /\ Explicit \cap Implicit = {}
    /\ Calls \cap Stops = {}
ASSUME FileAssumption ==
    /\ {NoCall, NoFile, Previous, Foreign} \cap Calls = {}
    /\ Foreign # NoFile /\ Foreign # Previous /\ Previous # NoFile
ASSUME BoundAssumption == MaxForeign \in Nat /\ FileFaults \in BOOLEAN

(* "artifacts" has no or one entry; "sent" is an entry with a request_id. *)
Operation == [id : Calls, composite : BOOLEAN, started : BOOLEAN, pending : BOOLEAN,
              uncertain : BOOLEAN, artifact : {"none", "unsent", "sent"}]
ASSUME NoOpAssumption == NoOp \notin Operation

VARIABLES
    status,         \* journal "state"
    operation,      \* journal "operation", with its screenshot artifact
    pc,             \* where each call is
    stopPc,         \* where each recovery stop is
    alive,          \* the emulator process group
    request,        \* where the capture request of each call is
    response,       \* response.json: the call it answers
    staged,         \* what each staging name denotes
    image,          \* what the file each call created holds
    checked,        \* the holder of the state lock has just seen its own inode
    exports,        \* what each implicit name denotes
    destination,    \* what the explicit name denotes
    leaked,         \* files nobody could journal
    swapped,        \* files replaced between a check and the use of the name
    foreign         \* files replaced so far

journal == <<status, operation>>
files == <<staged, image, checked, exports, destination>>
native == <<alive, request, response>>
history == <<leaked, swapped, foreign>>
vars == <<journal, pc, stopPc, native, files, history>>

Places == {"idle", "admitting", "owner", "creating", "undoing", "staged", "waiting",
           "answered", "reading", "validated", "publishing", "returning", "unwinding",
           "finishing", "abandoning", "done"}
StopPlaces == {"idle", "fenced", "terminated", "retiring", "stopped", "failed"}

TypeOK ==
    /\ status \in {"ready", "stopping", "stopped"}
    /\ operation \in Operation \cup {NoOp}
    /\ pc \in [Calls -> Places]
    /\ stopPc \in [Stops -> StopPlaces]
    /\ alive \in BOOLEAN
    /\ request \in [Calls -> {"none", "queued", "running", "written", "over", "withdrawn"}]
    /\ response \in Calls \cup {NoCall}
    /\ staged \in [Calls -> {"none", "own", "foreign", "stray"}]
    /\ image \in [Calls -> {"empty", "image", "bad"}]
    /\ checked \in BOOLEAN
    /\ exports \in [Names -> Calls \cup {Foreign, Previous, NoFile}]
    /\ destination \in Calls \cup {Foreign, Previous}
    /\ leaked \subseteq Calls /\ swapped \subseteq Calls
    /\ foreign \in Nat

(* Nothing staged yet; earlier captures may have an implicit name. *)
Init ==
    /\ status = "ready" /\ operation = NoOp
    /\ pc = [c \in Calls |-> "idle"]
    /\ stopPc = [s \in Stops |-> "idle"]
    /\ alive = TRUE
    /\ request = [c \in Calls |-> "none"]
    /\ response = NoCall
    /\ staged = [c \in Calls |-> "none"]
    /\ image = [c \in Calls |-> "empty"]
    /\ checked = FALSE
    /\ exports \in [Names -> {NoFile, Previous}]
    /\ destination = Previous
    /\ leaked = {} /\ swapped = {} /\ foreign = 0
----
(* Helpers.  A flock is held exactly at these places; it dies with its holder. *)

Guarded == {"admitting", "creating", "undoing", "publishing", "finishing", "abandoning"}
StateLocked ==
    (\E c \in Calls : pc[c] \in Guarded) \/ (\E s \in Stops : stopPc[s] = "retiring")
OperationLocked == \E c \in Calls : pc[c] \notin {"idle", "done"}
StopLocked == \E s \in Stops : stopPc[s] \in {"fenced", "terminated", "retiring"}

Goto(c, where) == pc' = [pc EXCEPT ![c] = where]
StopGoto(s, where) == stopPc' = [stopPc EXCEPT ![s] = where]

(* Mutant: the fence is not looked at. *)
OwnedThoughFenced(c) == operation # NoOp /\ operation.id = c

(* Transaction._owned_state: the journal is ready and names this worker. *)
Owned(c) == status = "ready" /\ operation # NoOp /\ operation.id = c

(* write_json of the journal, an atomic replacement: a write that raises may
   have taken effect. *)
WriteResults(old, new) ==
    {w \in [disk : {old, new}, raised : BOOLEAN] :
        (w.raised => FileFaults) /\ (~w.raised => w.disk = new)}

NewOperation(c) ==
    [id |-> c, composite |-> c \in Composites, started |-> FALSE, pending |-> FALSE,
     uncertain |-> FALSE, artifact |-> "none"]
Resolved(op) == ~op.pending /\ ~op.uncertain

(* Mutant: abandoned work counts as over while its answer is awaited. *)
ReclaimableUnanswered(op) == ~(op.composite /\ op.started) /\ ~op.uncertain

(* _reclaimable: only the correlated response proves that abandoned work is over. *)
Reclaimable(op) ==
    /\ ~(op.composite /\ op.started)
    /\ IF op.pending THEN response = op.id ELSE ~op.uncertain

(* The journal record with its artifact, when its capture is sent, when that
   request was answered, when it was withdrawn, and without its artifact. *)
WithArtifact == [operation EXCEPT !.artifact = "unsent"]
Sent == [operation EXCEPT !.started = TRUE, !.pending = TRUE, !.artifact = "sent"]
Answered == [operation EXCEPT !.pending = FALSE, !.uncertain = FALSE]
Withdrawn == [operation EXCEPT !.started = operation.composite, !.pending = FALSE,
                               !.artifact = "unsent"]
Cleaned == [operation EXCEPT !.artifact = "none"]
----
(* _cleanup_screenshots, under the state lock: what the journalled name denotes
   is looked at, and removed by name if it is the owned inode. *)

Cleaning ==
    \/ \E c \in Calls : pc[c] \in {"admitting", "finishing", "abandoning"}
    \/ \E s \in Stops : stopPc[s] = "retiring"

Artifact == IF operation = NoOp THEN "none" ELSE operation.artifact

(* Mutant: an artifact that no request names is forgotten, not removed. *)
CleanedIfSent ==
    /\ ~checked
    /\ Artifact = "sent" => staged[operation.id] = "none"

(* Nothing is left to remove; a file that is gone already is no error. *)
CleanDone ==
    /\ ~checked
    /\ Artifact # "none" => staged[operation.id] = "none"

(* The file is another one, or the directory or the removal failed. *)
CleanFails ==
    /\ Artifact # "none"
    /\ FileFaults \/ (~checked /\ staged[operation.id] \in {"foreign", "stray"})

(* Mutant: whatever the name denotes is taken for the owned file. *)
IsThere(c) == staged[c] # "none"

(* _check_screenshot_file compares device and inode. *)
IsOwned(c) == staged[c] = "own"

CleanCheck ==
    /\ Cleaning /\ ~checked
    /\ Artifact # "none" /\ IsOwned(operation.id)
    /\ checked' = TRUE
    /\ UNCHANGED <<journal, pc, stopPc, native, staged, image, exports, destination, history>>

CleanUnlink ==
    /\ Cleaning /\ checked
    /\ staged' = [staged EXCEPT ![operation.id] = "none"]
    /\ checked' = FALSE
    /\ UNCHANGED <<journal, pc, stopPc, native, image, exports, destination, history>>
----
(* transaction(): admission, reclaiming resolved work with its artifacts. *)

Acquire(c) ==
    /\ pc[c] = "idle"
    /\ ~OperationLocked /\ ~StateLocked
    /\ status = "ready"
    /\ operation # NoOp => Reclaimable(operation)
    /\ Goto(c, "admitting")
    /\ UNCHANGED <<journal, stopPc, native, files, history>>

(* After the write the deadline may raise: the record stays without an owner. *)
Admit(c) ==
    /\ pc[c] = "admitting" /\ CleanDone
    /\ \E w \in WriteResults(operation, NewOperation(c)) :
          /\ operation' = w.disk
          /\ Goto(c, "done") \/ (~w.raised /\ Goto(c, "owner"))
    /\ UNCHANGED <<status, stopPc, native, files, history>>

AdmitFails(c) ==
    /\ pc[c] = "admitting" /\ CleanFails
    /\ Goto(c, "done")
    /\ checked' = FALSE
    /\ UNCHANGED <<journal, stopPc, native, staged, image, exports, destination, history>>

(* A composite's own command, published and answered (SessionTransaction). *)
RunPrimary(c) ==
    /\ pc[c] = "owner" /\ c \in Composites /\ Owned(c) /\ ~StateLocked
    /\ operation' = [operation EXCEPT !.started = TRUE]
    /\ UNCHANGED <<status, pc, stopPc, native, files, history>>

(* Outside the guarded sections the deadline, the fence or a file may raise. *)
Fails(c) ==
    /\ pc[c] \in {"owner", "staged", "waiting", "answered", "reading", "validated", "returning"}
    /\ Goto(c, "unwinding")
    /\ UNCHANGED <<journal, stopPc, native, files, history>>
----
(* stage_screenshot: the file is created first and journalled then.  An error of
   fdopen or fstat comes before there is a record of its inode: the handler leaves
   such a file, and nothing names it. *)

Stage(c) ==
    /\ pc[c] = "owner" /\ ~StateLocked /\ Owned(c) /\ Resolved(operation)
    /\ c \in Composites => operation.started
    /\ staged' = [staged EXCEPT ![c] = "own"]
    /\ \/ Goto(c, "creating") /\ UNCHANGED leaked
       \/ FileFaults /\ Goto(c, "unwinding") /\ leaked' = leaked \cup {c}
    /\ UNCHANGED <<journal, stopPc, native, image, checked, exports, destination,
                   swapped, foreign>>

StageJournals(c) ==
    /\ pc[c] = "creating"
    /\ \E w \in WriteResults(operation, WithArtifact) :
          /\ operation' = w.disk
          /\ Goto(c, "undoing") \/ (~w.raised /\ Goto(c, "staged"))
    /\ UNCHANGED <<status, stopPc, native, files, history>>

(* The exception handler: no command can reference the file yet. *)
UndoCheck(c) ==
    /\ pc[c] = "undoing" /\ ~checked /\ IsOwned(c)
    /\ checked' = TRUE
    /\ UNCHANGED <<journal, pc, stopPc, native, staged, image, exports, destination, history>>

Undo(c) ==
    /\ pc[c] = "undoing" /\ checked
    /\ staged' = [staged EXCEPT ![c] = "none"]
    /\ checked' = FALSE
    /\ Goto(c, "unwinding")
    /\ UNCHANGED <<journal, stopPc, native, image, exports, destination, history>>

(* The file stays and is journalled; if that fails too, the caller is told
   with journal_error that nothing tracks it. *)
UndoFails(c) ==
    /\ pc[c] = "undoing"
    /\ FileFaults \/ (~checked /\ ~IsOwned(c))
    /\ \E w \in WriteResults(operation, WithArtifact) :
          /\ operation' = w.disk
          /\ leaked' = IF w.raised THEN leaked \cup {c} ELSE leaked
    /\ checked' = FALSE
    /\ Goto(c, "unwinding")
    /\ UNCHANGED <<status, stopPc, native, staged, image, exports, destination, swapped, foreign>>
----
(* send_command for the capture: publish, poll, reconcile an expiry. *)

(* The journal first, then the command file.  A write that raised, an expiry
   whose journal entry is taken back or a file error ends the attempt; the file
   error may come after the command was published. *)
Capture(c) ==
    /\ pc[c] = "staged" /\ ~StateLocked /\ Owned(c) /\ Resolved(operation)
    /\ \/ /\ operation' = Sent
          /\ request' = [request EXCEPT ![c] = "queued"]
          /\ Goto(c, "waiting") \/ (FileFaults /\ Goto(c, "unwinding"))
          /\ response' = NoCall
       \/ /\ operation' \in {operation, Withdrawn} \cup (IF FileFaults THEN {Sent} ELSE {})
          /\ Goto(c, "unwinding")
          /\ response' \in {response, NoCall}
          /\ UNCHANGED request
    /\ UNCHANGED <<status, stopPc, alive, files, history>>

(* The correlated response is recorded before anything else; it may report a
   failure, come after the deadline, or the record may fail. *)
Complete(c) ==
    /\ pc[c] = "waiting" /\ ~StateLocked /\ Owned(c) /\ response = c
    /\ \E w \in WriteResults(operation, Answered) :
          /\ operation' = w.disk
          /\ Goto(c, "unwinding") \/ (~w.raised /\ Goto(c, "answered"))
    /\ UNCHANGED <<status, stopPc, native, files, history>>

(* On expiry an unclaimed command is withdrawn; otherwise it stays pending. *)
Withdraw(c) ==
    /\ pc[c] = "waiting" /\ ~StateLocked /\ Owned(c)
    /\ request[c] = "queued"
    /\ request' = [request EXCEPT ![c] = "withdrawn"]
    /\ \E w \in WriteResults(operation, Withdrawn) : operation' = w.disk
    /\ Goto(c, "unwinding")
    /\ UNCHANGED <<status, stopPc, alive, response, files, history>>
----
(* The emulator: emu:screenshot writes by path, then the bridge answers, or its
   answer is lost. *)

Claim(c) ==
    /\ alive /\ request[c] = "queued"
    /\ request' = [request EXCEPT ![c] = "running"]
    /\ UNCHANGED <<journal, pc, stopPc, alive, response, files, history>>

(* A name that is gone is created again, as a file nobody owns. *)
NativeWrite(c) ==
    /\ alive /\ request[c] = "running"
    /\ request' = [request EXCEPT ![c] = "written"]
    /\ IF staged[c] = "none" THEN staged' = [staged EXCEPT ![c] = "stray"]
                             ELSE UNCHANGED staged
    /\ IF staged[c] = "own" THEN \E i \in {"empty", "image", "bad"} : image' = [image EXCEPT ![c] = i]
                            ELSE UNCHANGED image
    /\ UNCHANGED <<journal, pc, stopPc, alive, response, checked, exports, destination, history>>

Respond(c) ==
    /\ alive /\ request[c] = "written"
    /\ request' = [request EXCEPT ![c] = "over"]
    /\ response' \in {response, c}
    /\ UNCHANGED <<journal, pc, stopPc, alive, files, history>>

EmulatorExits ==
    /\ alive /\ alive' = FALSE
    /\ UNCHANGED <<journal, pc, stopPc, request, response, files, history>>
----
(* read_screenshot, validate_png and publish_screenshot. *)

(* The inode is compared under the state lock, the bytes are read after it. *)
Open(c) ==
    /\ pc[c] = "answered" /\ ~StateLocked /\ Owned(c) /\ Resolved(operation) /\ IsOwned(c)
    /\ Goto(c, "reading")
    /\ UNCHANGED <<journal, stopPc, native, files, history>>

(* Mutant: any bytes pass for an image. *)
ValidateNonempty(c) ==
    /\ pc[c] = "reading"
    /\ Goto(c, IF image[c] # "empty" THEN "validated" ELSE "unwinding")
    /\ UNCHANGED <<journal, stopPc, native, files, history>>

(* validate_png decodes the whole image. *)
Validate(c) ==
    /\ pc[c] = "reading"
    /\ Goto(c, IF image[c] = "image" THEN "validated" ELSE "unwinding")
    /\ UNCHANGED <<journal, stopPc, native, files, history>>

(* get_view publishes nothing. *)
View(c) ==
    /\ pc[c] = "validated" /\ c \notin Explicit \cup Implicit
    /\ Goto(c, "returning")
    /\ UNCHANGED <<journal, stopPc, native, files, history>>

PublishCheck(c) ==
    /\ pc[c] = "validated" /\ c \in Explicit \cup Implicit
    /\ ~StateLocked /\ Owned(c) /\ Resolved(operation) /\ IsOwned(c)
    /\ checked' = TRUE
    /\ Goto(c, "publishing")
    /\ UNCHANGED <<journal, stopPc, native, staged, image, exports, destination, history>>

Inode(c) == IF staged[c] = "own" THEN c ELSE Foreign

(* os.link is exclusive; a taken name is drawn again. *)
Free(n) == exports[n] = NoFile

Replace(c) ==
    /\ pc[c] = "publishing" /\ c \in Explicit
    /\ destination' = Inode(c)
    /\ staged' = [staged EXCEPT ![c] = "none"]
    /\ checked' = FALSE
    /\ Goto(c, "returning")
    /\ UNCHANGED <<journal, stopPc, native, image, exports, history>>

Link(c) ==
    /\ pc[c] = "publishing" /\ c \in Implicit
    /\ \E n \in Names : Free(n) /\ exports' = [exports EXCEPT ![n] = Inode(c)]
    /\ checked' = FALSE
    /\ Goto(c, "returning")
    /\ UNCHANGED <<journal, stopPc, native, staged, image, destination, history>>

PublishFails(c) ==
    /\ pc[c] = "publishing"
    /\ checked' = FALSE
    /\ Goto(c, "unwinding")
    /\ UNCHANGED <<journal, stopPc, native, staged, image, exports, destination, history>>
----
(* Transaction._finish. *)

(* Mutant: the file of a request that may still be served is removed. *)
FinishableAnyway(c) == Owned(c)

(* Unresolved work keeps its files. *)
Finishable(c) == Owned(c) /\ Resolved(operation)

FinishBegins(c) ==
    /\ pc[c] \in {"returning", "unwinding"} /\ ~StateLocked
    /\ Finishable(c)
    /\ Goto(c, IF pc[c] = "returning" THEN "finishing" ELSE "abandoning")
    /\ UNCHANGED <<journal, stopPc, native, files, history>>

(* The work is unresolved or not this worker's any more, or the wait for the
   state lock timed out. *)
FinishLeaves(c) ==
    /\ pc[c] \in {"returning", "unwinding"}
    /\ StateLocked \/ ~Finishable(c)
    /\ Goto(c, "done")
    /\ UNCHANGED <<journal, stopPc, native, files, history>>

(* A composite that failed after it started keeps its record. *)
Kept(c) == pc[c] = "abandoning" /\ operation.composite /\ operation.started

(* A retirement that raised is taken back as uncertain, if that can be written. *)
Finish(c) ==
    /\ pc[c] \in {"finishing", "abandoning"} /\ ~Kept(c) /\ CleanDone
    /\ \E w \in WriteResults(operation, NoOp) :
          IF w.raised
             THEN \E r \in WriteResults(w.disk, [Cleaned EXCEPT !.uncertain = TRUE]) :
                     operation' = r.disk
             ELSE operation' = w.disk
    /\ Goto(c, "done")
    /\ UNCHANGED <<status, stopPc, native, files, history>>

FinishKeeps(c) ==
    /\ Kept(c) /\ CleanDone
    /\ \E w \in WriteResults(operation, Cleaned) : operation' = w.disk
    /\ Goto(c, "done")
    /\ UNCHANGED <<status, stopPc, native, files, history>>

(* The retained artifact and the record stay journalled. *)
FinishFails(c) ==
    /\ pc[c] \in {"finishing", "abandoning"} /\ CleanFails
    /\ checked' = FALSE
    /\ Goto(c, "done")
    /\ UNCHANGED <<journal, stopPc, native, staged, image, exports, destination, history>>
----
(* recovery() and Recovery.finish. *)

StopFences(s) ==
    /\ stopPc[s] = "idle" /\ ~StopLocked /\ ~StateLocked
    /\ \E w \in WriteResults(status, "stopping") :
          /\ status' = w.disk
          /\ StopGoto(s, IF w.raised THEN "failed" ELSE "fenced")
    /\ UNCHANGED <<operation, pc, native, files, history>>

(* Mutant: the stop goes on although the group may be alive. *)
TerminatesUnconfirmed(s) ==
    /\ stopPc[s] = "fenced"
    /\ alive' \in {alive, FALSE}
    /\ StopGoto(s, "terminated")
    /\ UNCHANGED <<journal, pc, request, response, files, history>>

(* The group is confirmed gone, or the stop fails (ProcessControl). *)
Terminates(s) ==
    /\ stopPc[s] = "fenced"
    /\ alive' = FALSE
    /\ StopGoto(s, "terminated")
    /\ UNCHANGED <<journal, pc, request, response, files, history>>

StopRetires(s) ==
    /\ stopPc[s] = "terminated" /\ ~StateLocked
    /\ StopGoto(s, "retiring")
    /\ UNCHANGED <<journal, pc, native, files, history>>

StopFinishes(s) ==
    /\ stopPc[s] = "retiring" /\ CleanDone
    /\ \E w \in WriteResults(journal, <<"stopped", NoOp>>) :
          /\ status' = w.disk[1] /\ operation' = w.disk[2]
          /\ StopGoto(s, IF w.raised THEN "failed" ELSE "stopped")
    /\ UNCHANGED <<pc, native, files, history>>

(* Cleanup failed, another error, or the stopping process died. *)
StopFails(s) ==
    /\ stopPc[s] \in {"fenced", "terminated", "retiring"}
    /\ checked' = IF stopPc[s] = "retiring" THEN FALSE ELSE checked
    /\ StopGoto(s, "failed")
    /\ UNCHANGED <<journal, pc, native, staged, image, exports, destination, history>>
----
(* Crashes and other programs.  A dead worker takes no further step, like one
   that returned. *)

Journalled(c) == Artifact # "none" /\ operation.id = c

Crash(c) ==
    /\ pc[c] \notin {"idle", "done"}
    /\ checked' = IF pc[c] \in Guarded THEN FALSE ELSE checked
    /\ leaked' = IF pc[c] \in {"creating", "undoing"} /\ ~Journalled(c)
                    THEN leaked \cup {c} ELSE leaked
    /\ Goto(c, "done")
    /\ UNCHANGED <<journal, stopPc, native, staged, image, exports, destination, swapped, foreign>>

Swap(c) ==
    /\ foreign < MaxForeign
    /\ staged[c] = "own"
    /\ staged' = [staged EXCEPT ![c] = "foreign"]
    /\ swapped' = IF checked /\ operation.id = c THEN swapped \cup {c} ELSE swapped
    /\ foreign' = foreign + 1
    /\ UNCHANGED <<journal, pc, stopPc, native, image, checked, exports, destination, leaked>>
----
Admission(c) == Acquire(c) \/ Admit(c) \/ AdmitFails(c) \/ RunPrimary(c) \/ Fails(c)
Staging(c) == Stage(c) \/ StageJournals(c) \/ UndoCheck(c) \/ Undo(c) \/ UndoFails(c)
Capturing(c) == Capture(c) \/ Complete(c) \/ Withdraw(c)
Emulating(c) == Claim(c) \/ NativeWrite(c) \/ Respond(c)
Publishing(c) ==
    \/ Open(c) \/ Validate(c) \/ View(c) \/ PublishCheck(c)
    \/ Replace(c) \/ Link(c) \/ PublishFails(c)
Finishing(c) ==
    FinishBegins(c) \/ FinishLeaves(c) \/ Finish(c) \/ FinishKeeps(c) \/ FinishFails(c)
Stopping(s) ==
    \/ StopFences(s) \/ Terminates(s) \/ StopRetires(s)
    \/ StopFinishes(s) \/ StopFails(s)

Next ==
    \/ \E c \in Calls : Admission(c) \/ Staging(c) \/ Capturing(c) \/ Emulating(c)
                        \/ Publishing(c) \/ Finishing(c) \/ Crash(c) \/ Swap(c)
    \/ \E s \in Stops : Stopping(s)
    \/ CleanCheck \/ CleanUnlink \/ EmulatorExits

Spec == Init /\ [][Next]_vars
----
(* Properties. *)

(* A staging file is journalled, or its call is still in stage_screenshot, or
   nothing could journal it: its worker died in there, an error came before the
   inode of the file was known, or the worker was told that both the removal and
   the journal failed (README, "Temporary captures are tracked by the owning
   session operation"). *)
StagedIsTracked ==
    \A c \in Calls :
        staged[c] # "none" =>
            Journalled(c) \/ pc[c] \in {"creating", "undoing"} \/ c \in leaked

(* A verified stop removes every staging file that was tracked, and none
   appears afterwards (Recovery.finish). *)
StoppedLeavesNothing ==
    status = "stopped" => \A c \in Calls : staged[c] # "none" => c \in leaked

(* No cleanup takes a file away from a native writer that has yet to open it,
   whether its caller timed out, died, or was reclaimed (_finish, _reclaimable,
   Recovery.finish): the writer never creates a file that nobody owns. *)
WriterKeepsItsFile == \A c \in Calls : staged[c] # "stray"

(* Only a complete image reaches a name that callers see, and only the one its
   call made, unless the file was replaced between the check of the inode and
   the publication (publish_screenshot). *)
PublishedIsValidated ==
    \A f \in {destination} \cup {exports[n] : n \in Names} :
        /\ f \in Calls => image[f] = "image"
        /\ f = Foreign => swapped # {}

(* Nothing is published once a stop has fenced the session, by however late a
   worker (publish_screenshot under the state lock). *)
NothingPublishedAfterFence ==
    [][status # "ready" => UNCHANGED <<exports, destination>>]_vars

(* Files of other programs and earlier exports are left alone: a staging name
   that was replaced is not removed, except when the replacement fell between
   the check and the removal, and no implicit export is overwritten. *)
OthersAreKept ==
    [][/\ \A c \in Calls : staged[c] = "foreign" =>
              staged'[c] = "foreign" \/ c \in swapped
       /\ \A n \in Names : exports[n] # NoFile => exports'[n] = exports[n]]_vars

(* Captures keep the promise of SerialExecution: a native writer is admitted only
   when no other is under way, writes at most once, never after a stop retired
   the session, and a call that gave up does not let another one in beside it. *)
Outstanding == {c \in Calls : alive /\ request[c] \in {"queued", "running", "written"}}
Written == {c \in Calls : request[c] \in {"written", "over"}}
Promise == INSTANCE SerialExecution
              WITH Served <- Calls, mode <- status,
                   outstanding <- Outstanding, ran <- Written
ImplementsPromise == Promise!AbsSpec
----
(* The inductive invariant. *)

Leased(c) == pc[c] \notin {"idle", "done"}
Recovering(s) == stopPc[s] \in {"fenced", "terminated", "retiring"}

(* A flock has one holder. *)
LockInv ==
    /\ \A c, d \in Calls : Leased(c) /\ Leased(d) => c = d
    /\ \A s, t \in Stops : Recovering(s) /\ Recovering(t) => s = t
    /\ \A c \in Calls, s \in Stops : ~(pc[c] \in Guarded /\ stopPc[s] = "retiring")

(* What the holder of the state lock knows. *)
GuardInv ==
    /\ \A c \in Calls :
          /\ pc[c] = "admitting" =>
                status = "ready" /\ (operation # NoOp => Reclaimable(operation))
          /\ pc[c] \in Guarded \ {"admitting"} => Owned(c) /\ Resolved(operation)
          /\ pc[c] \in {"finishing", "abandoning"} => staged[c] # "stray"
          /\ pc[c] \in {"creating", "undoing", "publishing"} => staged[c] \in {"own", "foreign"}
          /\ pc[c] = "publishing" => checked
    /\ \A s \in Stops :
          /\ Recovering(s) => status = "stopping"
          /\ stopPc[s] \in {"terminated", "retiring"} => ~alive
    /\ status = "stopped" => operation = NoOp /\ ~alive

(* A checked name denotes the owned file, or one swapped in since. *)
CheckedInv ==
    checked =>
        /\ Cleaning \/ \E c \in Calls : pc[c] \in {"undoing", "publishing"}
        /\ operation # NoOp
        /\ staged[operation.id] \in {"own", "foreign"}
        /\ staged[operation.id] = "foreign" => operation.id \in swapped

(* A call leaves no trace before it stages. *)
FreshInv ==
    \A c \in Calls :
        /\ pc[c] \in {"idle", "admitting", "owner"} => staged[c] = "none" /\ request[c] = "none"
        /\ pc[c] \in {"creating", "undoing", "staged"} => request[c] = "none"
        /\ pc[c] \in {"idle", "admitting"} /\ operation # NoOp => operation.id # c
        /\ response = c => request[c] = "over"

(* A request that may be served is journalled as pending and has its file. *)
WriterInv ==
    \A c \in Calls :
        /\ alive /\ request[c] \in {"queued", "running", "written"} =>
               operation # NoOp /\ operation.id = c /\ operation.pending
        /\ alive /\ request[c] \in {"queued", "running"} => staged[c] \in {"own", "foreign"}
        /\ pc[c] = "staged" /\ Owned(c) => staged[c] \in {"own", "foreign"}
        /\ staged[c] # "stray"

(* A validated image is not written again. *)
ImageInv ==
    /\ \A c \in Calls :
          /\ pc[c] \in {"answered", "reading", "validated", "publishing"} => request[c] = "over"
          /\ pc[c] \in {"validated", "publishing"} => image[c] = "image"
    /\ \A f \in {destination} \cup {exports[n] : n \in Names} :
          /\ f \in Calls => image[f] = "image" /\ request[f] = "over"
          /\ f = Foreign => swapped # {}

IInv ==
    /\ TypeOK
    /\ LockInv
    /\ GuardInv
    /\ CheckedInv
    /\ FreshInv
    /\ StagedIsTracked
    /\ WriterInv
    /\ ImageInv
====
