# mgba-live-mcp: a TLA+ verification project

`mgba-live-mcp` lets MCP clients and a command line drive long-running mGBA
emulators. Several host processes may act on one *session* (an emulator process
group and a directory of files) without a server between them: what they know of
each other is what is on disk and which `flock`s are taken. These modules model
that protocol and the calls that use it, TLC checks them on small instances, and
TLAPS proves their safety for every number of operations, stops, starts, attaches,
captures and inputs.

Paths below are relative to the repository; `ST`, `SM`, `PC` and `BR` stand for
`src/mgba_live_mcp/session_transactions.py`, `session_manager.py`,
`process_control.py` and `resources/mgba_live_bridge.lua`.

## 1. Inventory

| Component | State it keeps | Operations | Correct when |
|---|---|---|---|
| Transactions (`ST`) | `transaction.json` (state, generation, operation with `started`, `pending_request`, `uncertain`, `composite`, `artifacts`), the flocks `.operation.lock`, `.state.lock`, `.stop.lock` and an initialization lock per id | `transaction` (admit, reclaim), `publish`, `withdraw`, `complete`, `mark_uncertain`, `_finish`, `startup_guard`, `write_metadata`, `rollback`, `recovery`, `Recovery.finish`, `archive_session`, screenshot staging | a request that may still run is journalled as pending, a fenced generation is never written into again, a live owner is never robbed |
| Command dispatch (`SM` `send_command`, `_settle_lua`, `run_lua_and_view`) | `command.lua`, `response.json`, the deadline | publish, poll, correlate, reconcile a timeout, composite phases | the reported `execution_outcome` is true; nothing is executed twice |
| Session lifecycle (`SM` `start`, `start_with_lua*`, `stop`, `status`) | `session.json`, the session directory, `archived_sessions` | reserve, stage, spawn, register, become ready, roll back, prune, archive | no emulator is lost, no live or failed session is archived, a fenced session spawns nothing |
| Active marker (`SM`) | `active_session`, `.active_session.lock` | activation by a start, `attach`, `_refresh_active_session` | the marker is the choice of the last writer that completed |
| Process control (`PC`) | the recorded birth identity of the emulator | `process_state`, `terminate_owned_process`, `watch_child` | a stranger is never signalled; an exit is reported only when the group is gone |
| Lua bridge (`BR`) | the frame counter, pending key releases | heartbeat, claim by rename, handlers, response | each command file is run at most once; a release belongs to the last input on its key |
| Screenshots (`ST` artifacts, `screenshots.py`, `SM.screenshot`) | the staging files and their entry in the journal | `stage_screenshot`, `read_screenshot`, `validate_png`, `publish_screenshot`, `_cleanup_screenshots` | no temporary is forgotten or taken from its writer; only validated images are published, and none after a fence |
| Deadlines (`deadlines.py`) | one `Deadline` per call in a context variable: the limit, the request and the outcome to report | `remaining`, `begin`, nesting, suspension | a timeout in any phase tells the truth about the command of the call |
| Controller, server (`live_controller.py`, `server.py`) | the budget of each call, the worker thread that outlives its caller | `_call`, `call_tool`: `asyncio.to_thread`, the last checks of the result | a cancelled caller does not affect its worker; a late answer is reported as what it is |
| CLI (`live_cli.py`), errors, result types, test ROM, `native/`, `scripts/` | none | argument checks, payload shapes, download, examples | pure or tooling |

Interaction. The controller runs each call in a worker thread, and the worker,
not the awaiting task, owns the transaction. Workers talk to the bridge through
`command.lua` (the claim is an `os.rename`) and `response.json`; `heartbeat.json`
tells whether the bridge claims by rename. A recovery stop takes the stop lock and
the state lock but never the operation lock, fences the journal, terminates the
group through process control and retires the journal. Starts, attaches, refreshes
and prunes meet in the runtime root.

What is hard: locks die with their process while the files stay; every write may
raise before or after its rename took effect; the deadline may pass between any
two steps; metadata and processes are read without locks; PIDs come back. The list
`hazards` of `PROJECT.json` has each of these at its line, with the property that
would catch it going wrong or the reason why there is none yet.

## 2. Modules

| Module | Models |
|---|---|
| `SessionTransaction` | one generation of one session: workers, journal, flocks, command and response files, bridge, recovery stops |
| `SerialExecution` | abstract: admitted requests run one at a time and at most once. Implemented by `SessionTransaction`, `VisualCalls` and `ScreenshotArtifacts` |
| `OwnedTermination` | abstract: what a stop may rely on of a termination. Implemented by `ProcessControl` |
| `SessionId` | abstract: an id names one directory at a time, each launches one emulator, and while that runs only archival takes the id from it. Implemented by `SessionLifecycle` |
| `SessionTransactionInv` | the inductive invariant of `SessionTransaction` |
| `SessionTransactionTypeProofs`, `SessionTransactionInvProofs`, `SessionTransactionProofs` | its proofs: types, invariant, theorems and refinement |
| `ProcessControl`, `ProcessControlProofs` | one termination, system call by system call, beside the kernel |
| `ScreenshotArtifacts`, `ScreenshotArtifactsProofs` | the temporary images of one session, from staging to publication or cleanup |
| `VisualCalls`, `VisualCallsProofs` | inputs and view composites from the budget of the public call to its report, with the frames of the bridge |
| `SessionLifecycle`, `SessionLifecycleProofs` | start, rollback, stop, prune and archival of one session id |
| `ActiveSession`, `ActiveSessionProofs` | the active-session marker and its writers |
| `MC*` | small instances for TLC |

An abstract module knows nothing of files, locks or system calls; each detailed module
instantiates it with expressions over its own variables and claims its specification
as a property (`ImplementsPromise`, `HonoursContract`, `OnlyArchivalFreesId`). The
abstract modules are what the components assume of each other: `Terminate` and
`StopTerminate` are the `Confirm` and the refusals of `OwnedTermination`.

Definitions marked "Mutant" are plausible bugs that no specification uses; they
exist so that each property can be seen to fail.

### SessionTransaction

A worker is a program counter (`pc`) that names where it is in `transaction` and
`send_command`: `owner` (lease held, nothing pending), `publishing` and `writing`
(inside `Transaction.publish`, state lock held, before and after the callback
removed the stale response), `waiting` (the poll loop), `expired` (reconciliation),
`withdrawing` and `withdrawn` (inside `withdraw`, before and after the rename),
`unsettled` (`mark_uncertain` to come), `unwinding` and `returning` (`_finish` with
and without an exception). The journal is `status` and `operation`. A composite
runs the phases command, settle and snapshot under one lease.

- `WriteResults` is an atomic replacement: a write that raises may have happened.
- `Crash` releases the flocks of a worker and leaves its files, from any place.
- A response may be lost (`Respond`): it may fail to be encoded or written.
- `ForeignCommand` is another program writing `command.lua`.
- `WriteHeartbeat` happens at any time or never; a bridge that never advertises
  `rename-v1` (an old one) is the behaviour in which it never happens.
- Whoever keeps the state lock over several reads and writes has a place inside: a
  publisher (`publishing`, `writing`), a withdrawal (`withdrawing`, `withdrawn`), a stop
  that fences (`FenceLock`, `Fence`) and one that retires the session (`RetireLock`,
  `RecoveryFinish`). Waiting for the lock is bounded by 0.5 s in the code; who waits
  longer (`StateLockBusy`) fails, and every place that takes the lock has that failure:
  `AcquireBusy`, `DispatchRefused`, `CompleteFenced`, `PollRaises`, `ReconcileUnknown`,
  `MarkUncertain`, `FinishBusy`, `FinishFailed`, `FenceRefused` and `StopFails`.

Simplifications: a composite sends one settle poll; a worker sends at most one
request per phase, so that a request is `<<operation, phase>>`; the bridge's
rename, load and removal are one step; a withdrawn file that its worker left behind
has a unique name and is forgotten.

### ScreenshotArtifacts

A call that captures stages a private file (`Stage`, `StageJournals`, and the
`Undo*` actions of a staging that cannot be journalled), asks the emulator to write
into it by path (`Capture`, `Claim`, `NativeWrite`, `Respond`), reads and validates
it (`Open`, `Validate`) and either shows it (`View`) or publishes it under an
implicit name (`Link`) or an explicit one (`Replace`). `staged` says what the name of
the staging file of a call denotes: the file the call made, one that another program
put there, or one that the emulator created anew under a removed name (`stray`).
`image` is what the file of the call holds, whatever name it has. A cleanup checks
the inode (`CleanCheck`) and then unlinks the name (`CleanUnlink`); a publication
checks it (`PublishCheck`) and then renames or links. Between the two `Swap` may
replace the file, and `swapped` records that it did: no file system call closes that
window, and the properties except exactly it. `checked` belongs to whoever holds the
state lock. `leaked` records the files that the code cannot journal: of a worker that
is killed inside `stage_screenshot`, whose journal write and removal both raise, or that
got an error between the creation of the file and the record of its inode (the second
outcome of `Stage`). A
request that its worker withdrew before the bridge claimed it is `withdrawn`, one whose
response was written is `over`.
Admission, channel and fence are those of `SessionTransaction` in coarser steps; a
journal write that raises leaves the new record or the old one.

### VisualCalls

A call is `queued` (the server or the controller has begun its budget), `owner`,
`waiting` (a request is published), `answered` (its response was correlated),
`activating` (a startup composite that marks its session), `finishing`, `returning`
(back on the event loop), `unwinding` or `done`. Its phases are the ping of a
startup, the command, the settle polls (as many as it takes) and the capture.
`deadline` is the mutable object of `deadlines.py` that all phases of a call share:
`Deadline.begin` overwrites its request and its outcome (`Begun`), and the code that
resumes the primary request of a composite puts them back (`Primary`, `Restored`);
what a timeout reports is read from it (`Timeout`). `evidence` is the
`command_request_id` with which `SM` annotates a later failure.

- Time is one event per call, `Expire`: its budget has run out. Each check of the
  budget in the code is a place where an action may notice it. A nested budget can
  only make the event earlier, and a cleanup that suspends the deadline is an action
  that does not look at `expired`.
- `Frame` is the frame callback: it counts, applies due releases, writes the
  heartbeat every `Interval` frames and claims `command.lua`. The handlers (`TapKey`,
  `SetKeys`, `ClearKeys`, `RunLua`, `Observe`, `Screenshot`) run in the same frame,
  before the next one. An answer may be the response, the fixed fallback of
  `process_command`, or nothing (`Answers`). A handler may raise (`HandlerFails`): a text
  is passed on and says nothing of completion, any other error is replaced by the fixed
  fallback, which says `command_completed: false`. `BridgeError` keeps what was said.
- `orders` is a history variable: the frame up to which the last input on a key wants
  it down. `tapped` and `shot` record the tap of a call and what its capture saw.
- Lua that a caller runs is abstract: it may start a macro that a later frame ends.
- The journal is that of `SessionTransaction` without failing writes and without the
  fence, which that module covers; `Spawn` journals `started` as `startup_guard` does.
- Retiring the operation may fail (`FinishFails`), with the three reports that the code
  makes of it: a startup composite annotates outside of its transaction, a failing
  journal of another view is annotated by `operation_timeout`, and everything else is
  reported without evidence (finding 6).

### ProcessControl

`pc` is the next system call of `process_state` (`inspect`, `lifetime`, `reap`,
`kill0`, `group`), the evaluation of what it returned (`decide`) or `signal`; `use`
says which of the code's observations it is. `host` chooses the platform, whether
the caller is the parent, and whether the record has a birth identity. The kernel
takes its steps between any two calls. Assumption, made in `PidRecycled`: a PID is
not reused between the last observation and the `killpg` that follows, which POSIX
gives no way to exclude.

### SessionLifecycle

One session id. Prunes repeat and overlap as they like: each observes a dead session
without a lock and archives later whatever the id names then. Each start call makes a
directory of its own, so a directory is named by the call that made it; `path` is what
the id names now. The flocks are functions of where their holders are (`OperationLocked`, `StateLocked`,
`StopLocked`, `InitLocked`), so a process that dies drops them by definition. Calls
that their first lock or an existing directory refuses have no effect and are calls
not made. The emulator's group is one process here; `StopTerminate` takes from
`OwnedTermination` that a stop either confirms that it is gone or fails. Commands to
a ready session are left to `SessionTransaction`.

`orphans` and `unfenced` record the two double faults the code reports and cannot
repair: an emulator whose cleanup is unconfirmed and whose metadata could not be
written (or whose worker was killed between `Popen` and registration), and a
retirement whose fence could not be written back.

### ActiveSession

Several sessions, each seen from the registration of its emulator on. `committed`
records the choice of the last writer that completed, and `torn` that a writer died
with the marker changed or reported that the restoration is not confirmed. The
order in which `iter_sessions` yields candidates is abstract. An archived session
is one whose emulator is dead.

## 3. Runs

| Run | Question | Bounds |
|---|---|---|
| `transaction_safety` | journal, outcomes, fence, replay, composites, the refinement of `SerialExecution`, the order of the locks, whether a worker can be sent back; does ownership end when the emulator hangs, and does a stop end when workers hang? | a command, a composite, a stop, a foreign file, failing writes |
| `transaction_outcome` | violated: see finding 1 | two commands and a stop |
| `screenshot_safety` | are staging files tracked and removed, writers undisturbed, published images complete and other files left alone? the refinement of `SerialExecution` | an implicit export, an explicit save and a composite view, a stop, one implicit name, one replaced file, failing files |
| `visual_safety` | do keys follow their orders, are views taken settled, are reports true and do they keep the evidence of completion? the refinement of `SerialExecution` | two inputs, an input beside a view of a tap or a startup, a view of Lua; one key, taps of up to 2 frames, `wait_frames` up to 1, 5 frames, a heartbeat every 4 |
| `visual_evidence` | violated: finding 6 | one view of a tap |
| `process_control` | exit confirmation, PID reuse, reporting, the refinement of `OwnedTermination`, bounded work, termination | two members beside the leader, one more poll per wait |
| `lifecycle_safety` | lost emulators, leases, fences, archival, and the refinement of `SessionId` | two starts of one id, either killed at any time, two stops, two prunes, failing files |
| `lifecycle_retained`, `lifecycle_archive`, `lifecycle_fenced` | violated: findings 2, 3 and 4 | one start and one prune; two starts and two prunes; one start, one stop and one prune |
| `active_safety` | restoration and activation | two sessions with their stops, one attach, one status, failing files |
| `active_started` | violated: finding 5 | one session and one status |

Why the bounds are enough. One operation is what the journal holds, a second one is
what may be admitted beside it; a command and a composite cover both kinds of
record, and a third operation finds what a second one found. One foreign file is one
that a publication or a withdrawal meets; a second one, in the place of one that is
being linked back, is left to the proofs, which hold for every `MaxForeign`. One stop is
one that fails anywhere or ends; two of them, one that fails and its retry, are in
`lifecycle_safety`, and the proofs of `SessionTransaction` hold for any number. Two members let a group outlive its leader and shrink while it does;
one further poll separates a wait that goes on from one that ends. Of the three
captures each takes another way out (link, rename, view), and two of them are what an
abandoned operation and its successor are. In `visual_safety` the calls that are made
together (`Together`) are the pairs that can disturb each other: two inputs race for a
key, an input races a tap that is being viewed, and either is refused or admitted
around a startup; a view of Lua has no rival for its macro. Five frames let a tap of
two frames be pressed, released and waited for with frames to spare. One key is
enough, as keys do not influence each other. Two starts are a
session and its successor under the same id, and two prunes are one that archives the
session and one whose observation is stale by then. The proofs lift these bounds for
everything except the properties named below.
The other constants are model values; symmetry is used where no definition
distinguishes calls of one kind and no liveness is checked. Deadlock checking is
off because the calls of every instance end, and then the system may stop.

The inductive invariants behind the proofs (`IInv`, `ProcessInv`) were checked on these
instances before they were proved. No run repeats that check: the theorems named
`Invariant` state them for every instance.

### Fairness

- `StopSpec` (`transaction_safety`): weak fairness of `StopStep`, a stop that has its
  locks. The termination is bounded by the grace and confirmation times
  (`ProcessControl`, `TerminationEnds`), the wait for the state lock by 0.5 s.
  `StopEnds` assumes nothing of the workers, who may hang with the operation lock.
- The antecedent of `OwnershipEnds`, for each operation: weak fairness of the steps that
  its own worker takes. It is a thread whose waits are bounded by its deadline or by the
  0.5 s of a lock, so it keeps running whatever the others do. Nothing is assumed of the
  emulator, of crashes or of the other workers.
- `FairSpec` (`process_control`): weak fairness of the calling thread.

## 4. What is proved

All theorems are of `Spec`, for all values of the constants that satisfy the named
assumptions (holders and null values are distinct from the ids, bounds are
naturals). No fairness is used.

`SessionTransactionProofs`: `Invariant`, `TypeCorrect`, `UnresolvedWorkStaysFenced`,
`LiveOwnership`, `NotExecutedProves`, `CompletedProves`, `StoppedProves`,
`FenceHolds`, `NothingIsReplayed`, `OneRequestMayRun`, `SessionKeepsPromise` (the
refinement of `SerialExecution`), `CompositesHold` and `ProgressIsSafe`.
`UnresolvedWorkIsFenced` alone is not inductive. `IInv` (`SessionTransactionInv`)
adds why it holds: a flock is held exactly inside its with-block, and no one holds
the state lock of a fenced generation (`LockInv`); under the state lock the journal
names this worker's request (`PendingInv`), so that `withdraw` and `publish` change
the record they read; a request leaves no trace before its publication (`FreshInv`)
and is in one place afterwards (`PlaceInv`, `WithdrawInv`), so that the winner of
the rename decides; a composite's later phases follow an executed command
(`CompositeInv`); a stop past its fence has fenced, one past termination has a dead
group (`StopInv`). The type proof goes action by action, and the invariant proof
conjunct by conjunct for each action that can disturb it.
The refinement maps an outstanding request to one that a living emulator may still
run. It needs `SerialInv`, that at most one request may run even in a fenced
session, which follows a step behind `IInv` and is proved beside it.
`CompositesHold` needs `HeldInv`: a composite whose command ran owns the ready journal
as started until its capture is recorded. Reclaiming refuses such a record, and the
two places that take `started` back (a publication that expired, a withdrawal) restore
the value they found, which was true if the command had run, since a request that is
still fresh or withdrawn has not.
`ProgressIsSafe` is the part of `OwnershipEnds` and `StopEnds` that needs no fairness.
An owner may well find the state lock kept by a stop that fences or retires, and a stop
by a worker that publishes, for up to 0.5 s. `LocksAreOrdered` says why that ends: who
keeps the state lock has the one other flock it needs already (a worker the operation
lock, a stop the stop lock), so no two processes wait for each other; a stop that has
fenced meets no worker with that lock; and a root body that returned has a resolved
record (`ReturnedInv`). `WorkLeft` ranks a worker by the requests and the places that are
before it: `MoveStep` names the four ways a worker moves, each lowers it, and a busy lock
sends nobody back. What fairness adds is that a step which can always be taken is taken.

`ScreenshotArtifactsProofs`: `Invariant`, `TypeCorrect`, `Tracked`, `Stopped`,
`WriterKeeps`, `Validated`, `NotAfterFence`, `OthersKept` and `CapturesKeepPromise`. The invariant adds one
holder per lock (`LockInv`), what the holder of the state lock has seen (`GuardInv`)
and that a checked name denotes the file of the journalled operation or one swapped in
since (`CheckedInv`); a call leaves no trace before it stages (`FreshInv`); a request
that a living emulator may serve is journalled as pending and has its file
(`WriterInv`), which is why a cleanup cannot be permitted before it is over; and a
validated image is not written again (`ImageInv`). The refinement of `SerialExecution`
counts a capture request as outstanding while a living emulator may still write for it;
that there is one such request at a time (`OneWriter`) follows from `WriterInv`.

`VisualCallsProofs`: `Invariant`, `TypeCorrect`, `KeysFollow`, `Settling`, `Reporting`,
`Evidence` and `CallsKeepPromise` (the refinement of `SerialExecution`, where a call
stands for its command). Its invariant rests on one request at a time: the journal names the
request that may still run (`ChannelInv`, `OwnerInv`), and a command runs at most once
(`OnceInv`, `RanInv`). Then a scheduled release is always the one the last input wants
(`KeyInv`), nothing else is handled between the command of a view and its capture
(`TapInv`, `LuaInv`, `ShotInv`), and the deadline object carries the request and the
outcome of the place the call is at (`CallInv`). `Reporting` includes what the fixed
fallback denies: a command reported with `command_completed: false` has not returned and
is neither published nor being handled any more (`DenialInv`), so that it never will.
`Evidence` states where the documented retention of evidence holds, and that no failure
ever denies a completed command; retirement is finding 6.

`ProcessControlProofs`: `Invariant`, `TypeCorrect`, `ExitIsConfirmed`,
`OnlyOwnedIsSignalled`, `SignalsAreReported`, `NothingAfterExit`,
`TerminationHonoursContract` and `TerminationIsBounded`. The invariant
relates what was observed to the kernel: "dead" stays true, because a group without a
process cannot fork, and an observed "alive" means that the PID is not free.
`SignalInv` counts the signals by the place of the caller, and `Silent` says that an
observation which began without a running leader never decides to signal. In the
refinement of `OwnedTermination` the many observations are stutters, a `killpg` is one
`SendSignal`, and every return is a `Confirm` or a `Refuse` (`ReturnStep`), which is
where `SignalInv` is needed: the verdict says whether anything was sent.
`TerminationIsBounded` is the part of `TerminationEnds` that needs no fairness: a call
starts with a work of at most `12 * MaxPolls + 30` steps (`WorkType`), each step of the
caller uses some of it, and the kernel gives none back.

`SessionLifecycleProofs`: `Invariant`, `TypeCorrect`, `StoppedStaysDead`,
`LeasesHold`, `FailedStartsAreFenced`, `FenceStopsPopen`, `LiveIsNeverLost` and
`IdKeepsPromise` (the refinement of `SessionId`), for any number of prunes that overlap
in any way. The invariant adds that there is an emulator exactly after `Popen` and
metadata only for an emulator (`OriginInv`), that removal excludes stops (`RemovalInv`),
that the journal is ready inside the guard (`GuardInv`), that a started operation stays
journalled while its call may still fail (`ClosedInv`), and what a stop has established
(`StopInv`). A stale prune may take a living emulator from its id, which is finding 3:
`LiveIsNeverLost` says that it is in `archived_sessions` then and nowhere lost, and
`IdKeepsPromise` that no other step (mkdir, rollback) passes the id on under a living one.

`ActiveSessionProofs`: `Invariant`, `MarkerCommits`, `StartsAreActive`. The
invariant says that the marker lock has one holder and what that holder knows of
the marker it found.

Only model-checked: the liveness properties `OwnershipEnds`, `StopEnds` and
`TerminationEnds` (liveness under fairness is outside what the prover handles; their
safety parts are `ProgressIsSafe` and `TerminationIsBounded`). The
properties of the runs that end in a finding are false, so nothing is proved of them.

## 5. Findings

Each was reproduced on the Python code after TLC had found it.

1. `transaction_outcome`. `README.md:293`: "`execution_outcome` is `not_executed`
   only when nonexecution is proven". A stop that fences while `send_command` polls
   makes `operation.check()` (`SM:653`) raise from `_require_ready` (`ST:545`) with
   phase `admission`, hence `not_executed`, though the command may have run.
   `NotExecutedIsProof` shows that this late fence is the only exception.
2. `lifecycle_retained`. `README.md:352`: "Failed startup records are retained until
   explicit recovery stop." `prune_dead_sessions` (`SM:418`) reads metadata in state
   `starting` with a dead process; the start then records its failure and releases
   its lock, and the prune archives the failed record.
3. `lifecycle_archive`. `ST:1270`: "Move a caller-verified dead session only when no
   operation or recovery owns it." Two prunes see the same dead session, one
   archives it, a new start reuses the id, and the other prune archives the live
   session: `archive_session` does not compare what it moves with what was verified.
4. `lifecycle_fenced`. `README.md:416`: "Use `mgba_live_stop` [...] to recover a hung
   operation." A stop that fences a start before its metadata exists makes the start
   fail and forbids its rollback, and finds no session to stop, then or later; the
   id can be neither stopped nor started again.
5. `active_started`. `README.md:355`: a startup composite activates after "its Lua,
   settling and requested visual result complete". The refresh in another client's
   `status` or `stop` takes the session as soon as its metadata is ready.

6. `visual_evidence`. `README.md:380`: "When a primary Lua/input command completed
   before a later failure, `command_completed: true` and `command_request_id` retain
   that evidence" (also `docs/mcp-reference.md:37-40`). When a view of a tap or of Lua
   has its answer and its capture and only its retirement fails (a staging file cannot
   be removed, `ST:458-477`, or the state lock stays busy), the error carries neither,
   because `SM` annotates inside the transaction and `_finish` runs on its way out
   (`ST:1184`). A plain input loses the evidence to a failing journal too.
   `EvidenceIsKept` shows that retirement is the only exception.

## 6. What is not modelled

- Corrupt journals and replaced directories: generations, inode identities of the
  session directory and `_Directory.check`. Only this program writes the journal and
  the locks. Files that other programs put in the place of `command.lua` and of a
  staging file are modelled.
- `_nest`: an operation that becomes composite inside an outer one.
- The second rollback attempt that the outer layer of a composite start makes after
  the first was refused, and the files that a start stages.
- The bridge's memory, pointer, OAM and entity dumps and its JSON encoder: pure
  functions of data. The pointer and range arithmetic works on sums of up to 48 bits,
  which TLC, whose integers have 32, cannot compute.
- The decoder inside `validate_png`; the module keeps the predicate it computes.
- The arithmetic of budgets: how long a nested budget is. That a call may run out of
  its budget at any check is modelled, so is what it then reports.
- `VisualCalls` without failing journal writes, fence and withdrawal races in the
  detail of `SessionTransaction`; `SessionLifecycle` without the commands of a ready
  session. The modules share the journal's rules and not a state.
- Arguments, schemas, rendering, the command-line client, tooling: no protocol state.

## 7. Plan

Done: `SessionTransaction` with `SerialExecution`; `ProcessControl`;
`SessionLifecycle`; `ActiveSession`; `ScreenshotArtifacts`; `VisualCalls`; the abstract
`SerialExecution`, `OwnedTermination` and `SessionId` with their refinements; and a proof
of every safety property that a passing run checks.

What could be added, most important first:

1. Corrupt journals and replaced directories: `_read_state`, generations,
   `_Directory.check`, and what a descriptor of a replaced directory may still do.
2. Composition: `SessionTransaction` and `SessionLifecycle` with a whole `ProcessControl`
   in the place of `Terminate` and `StopTerminate`, and the calls of `VisualCalls` over a
   journal that is fenced.
3. Pure algorithms against reference definitions: `valid_utf8`, the limits of
   `json_encode`, `read_pointer`, `read_range` (scaled to narrow integers).
