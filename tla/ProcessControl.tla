---- MODULE ProcessControl ----
(***************************************************************************)
(* process_control.terminate_owned_process: TERM, optionally KILL, and the *)
(* confirmation that the dedicated process group of one emulator is gone,  *)
(* beside a kernel in which processes fork, exit, are reaped by somebody   *)
(* else and give their PID to a stranger between any two system calls.     *)
(***************************************************************************)
EXTENDS Naturals, Sequences

CONSTANTS
    MaxMembers, \* bound: processes of the group beside its leader
    MaxPolls    \* bound: further observations of one _wait_for_exit

ASSUME BoundAssumption == MaxMembers \in Nat /\ MaxPolls \in Nat

VARIABLES
    host,       \* [darwin, child, legacy]: the platform, whether the caller is
                \* the parent, whether the record lacks a birth identity
    leader,     \* "running", "zombie" or "reaped"
    members,    \* living processes of the group beside the leader
    pidNow,     \* after the leader: "nobody", a "process" or a session "group"
    pc, use,    \* the system call to come; what its process_state is for
    stage,      \* "TERM" or "KILL"
    denied,     \* the inspection failed with EPERM or EACCES
    seen,       \* what process_state returned
    polls,      \* observations left to this wait
    sent,       \* signals that killpg was asked to deliver
    stranger,   \* a process outside the group received one of them
    outcome     \* [code, execution] of terminate_owned_process

kernel == <<leader, members, pidNow>>
caller == <<pc, use, stage, denied, seen, polls>>
vars == <<host, kernel, caller, sent, stranger, outcome>>

Host == [darwin : BOOLEAN, child : BOOLEAN, legacy : BOOLEAN]
Waits == {"firstWait", "checkWait", "signalWait", "lastWait", "errorWait"}
Uses == {"first", "check"} \cup Waits
Transient == {"permission_denied", "termination_unconfirmed"}
States == Transient \cup {"alive", "dead", "identity_mismatch", "identity_unverified"}
Outcome == [code : States \cup {"none", "stopped", "already_exited"},
            execution : {"none", "not_executed", "unknown"}]

TypeOK ==
    /\ host \in Host
    /\ leader \in {"running", "zombie", "reaped"}
    /\ members \in 0..MaxMembers
    /\ pidNow \in {"nobody", "process", "group"}
    /\ pc \in {"inspect", "lifetime", "reap", "kill0", "group", "decide", "signal", "done"}
    /\ use \in Uses
    /\ stage \in {"TERM", "KILL"}
    /\ denied \in BOOLEAN
    /\ seen \in States
    /\ polls \in 0..MaxPolls
    /\ sent \in Seq({"TERM", "KILL"})
    /\ stranger \in BOOLEAN
    /\ outcome \in Outcome

(* A stop of a session whose emulator may have exited already, even so long
   ago that its PID names another process. *)
Init ==
    /\ host \in Host
    /\ leader \in {"running", "zombie", "reaped"}
    /\ members \in 0..MaxMembers
    /\ pidNow \in {"nobody", "process", "group"}
    /\ pidNow # "nobody" => leader = "reaped" /\ members = 0
    /\ pc = "inspect" /\ use = "first" /\ stage = "TERM"
    /\ denied = FALSE /\ seen = "identity_unverified" /\ polls = 0
    /\ sent = <<>> /\ stranger = FALSE
    /\ outcome = [code |-> "none", execution |-> "none"]
----
(* The kernel. *)

OwnGroup == leader # "reaped" \/ members > 0
Group == OwnGroup \/ pidNow = "group"
Pid == leader # "reaped" \/ pidNow # "nobody"

LeaderExits ==
    /\ leader = "running"
    /\ leader' = "zombie"
    /\ UNCHANGED <<host, members, pidNow, caller, sent, stranger, outcome>>

MemberExits ==
    /\ members > 0
    /\ members' = members - 1
    /\ UNCHANGED <<host, leader, pidNow, caller, sent, stranger, outcome>>

MemberForks ==
    /\ leader = "running" \/ members > 0
    /\ members < MaxMembers
    /\ members' = members + 1
    /\ UNCHANGED <<host, leader, pidNow, caller, sent, stranger, outcome>>

(* watch_child's dedicated waiter, or init after the parent's death. *)
LeaderReaped ==
    /\ leader = "zombie"
    /\ leader' = "reaped"
    /\ UNCHANGED <<host, members, pidNow, caller, sent, stranger, outcome>>

(* A PID is free once no process has it as its PID or its group.  It is assumed
   not to come round between the last observation and the signal. *)
PidRecycled ==
    /\ ~OwnGroup
    /\ pc \notin {"signal"} /\ ~(pc = "decide" /\ use = "check")
    /\ pidNow' \in {"nobody", "process", "group"} \ {pidNow}
    /\ UNCHANGED <<host, leader, members, caller, sent, stranger, outcome>>
----
(* process_state(reap=True), one system call at a time. *)

Observed(state) ==
    /\ pc' = "decide"
    /\ seen' = state
    /\ UNCHANGED <<use, stage, denied, polls>>

Call(next) == pc' = next /\ UNCHANGED <<use, stage, denied, seen, polls>>

(* Mutant: the PID alone identifies the process. *)
SamePid == Pid

(* The birth read from the kernel is the recorded one. *)
SameBirth == leader # "reaped"

(* _inspect_process: one snapshot of /proc or of libproc. *)
Inspect ==
    /\ pc = "inspect"
    /\ Pid
    /\ \/ host.legacy /\ Observed("identity_unverified")
       \/ ~host.legacy /\ ~SameBirth /\ Observed("identity_mismatch")
       \/ ~host.legacy /\ SameBirth /\ leader # "zombie" /\ Observed("alive")
       \/ ~host.legacy /\ SameBirth /\ leader = "zombie" /\ Call("reap")
    /\ UNCHANGED <<host, kernel, sent, stranger, outcome>>

(* No metadata: the process is gone, or a Darwin zombie. *)
InspectMissing ==
    /\ pc = "inspect"
    /\ ~Pid \/ (host.darwin /\ leader = "zombie")
    /\ denied' = FALSE
    /\ pc' = IF host.darwin /\ ~host.legacy THEN "lifetime" ELSE "kill0"
    /\ UNCHANGED <<host, kernel, use, stage, seen, polls, sent, stranger, outcome>>

(* No metadata for an unprivileged reader (hidepid), or an unreadable record. *)
InspectFails ==
    /\ pc = "inspect"
    /\ denied' \in BOOLEAN
    /\ pc' = "kill0"
    /\ UNCHANGED <<host, kernel, use, stage, seen, polls, sent, stranger, outcome>>

(* _reap_child: only the parent of a zombie collects it. *)
Reaped == leader' = IF host.child /\ leader = "zombie" THEN "reaped" ELSE leader

(* Darwin rusage still has the birth of a zombie. *)
Lifetime ==
    /\ pc = "lifetime"
    /\ IF SameBirth \/ pidNow = "nobody"
       THEN Call("kill0") /\ Reaped
       ELSE Observed("identity_mismatch") /\ UNCHANGED leader
    /\ UNCHANGED <<host, members, pidNow, sent, stranger, outcome>>

Reap ==
    /\ pc = "reap"
    /\ Reaped
    /\ Call("group")
    /\ UNCHANGED <<host, members, pidNow, sent, stranger, outcome>>

(* Mutant: a missing leader establishes that the group is gone. *)
ProbeLeaderOnly ==
    /\ pc = "kill0"
    /\ Observed(IF Pid THEN "identity_unverified" ELSE "dead")
    /\ UNCHANGED <<host, kernel, sent, stranger, outcome>>

(* _inspection_failure: os.kill(pid, 0). *)
ProbeLeader ==
    /\ pc = "kill0"
    /\ \/ ~Pid /\ Call("group")
       \/ Pid /\ Observed(IF denied THEN "permission_denied" ELSE "identity_unverified")
       \/ pidNow # "nobody" /\ Observed("permission_denied")
    /\ UNCHANGED <<host, kernel, sent, stranger, outcome>>

(* _group_absence: os.killpg(pgid, 0). *)
ProbeGroup ==
    /\ pc = "group"
    /\ \/ ~Group /\ Observed("dead")
       \/ Group /\ Observed("termination_unconfirmed")
       \/ pidNow = "group" /\ Observed("permission_denied")
    /\ UNCHANGED <<host, kernel, sent, stranger, outcome>>
----
(* terminate_owned_process. *)

(* Mutant: a group that TERM ended counts as one that had exited. *)
AttemptedKill == stage = "KILL"

Attempted == sent # <<>>

Return(code, execution) ==
    /\ outcome' = [code |-> code, execution |-> execution]
    /\ pc' = "done"
    /\ UNCHANGED <<use, stage, denied, seen, polls>>
Exited == Return(IF Attempted THEN "stopped" ELSE "already_exited", "none")
Refuse(execution) == Return(seen, execution)

Observe(for) ==
    /\ pc' = "inspect"
    /\ use' = for
    /\ polls' = IF for \in Waits THEN MaxPolls ELSE 0
    /\ UNCHANGED <<denied, seen, outcome>>

Deciding(what) == pc = "decide" /\ use = what
Quiet == UNCHANGED <<host, kernel, sent, stranger>>

First ==
    /\ Deciding("first")
    /\ \/ seen = "dead" /\ Exited
       \/ seen = "alive" /\ Observe("check") /\ UNCHANGED stage
       \/ seen \in Transient /\ Observe("firstWait") /\ UNCHANGED stage
       \/ seen \notin Transient \cup {"dead", "alive"} /\ Refuse("not_executed")
    /\ Quiet

(* The last observation before a signal. *)
Check ==
    /\ Deciding("check")
    /\ \/ seen = "alive" /\ pc' = "signal" /\ UNCHANGED <<use, stage, denied, seen, polls, outcome>>
       \/ seen = "dead" /\ Exited
       \/ seen \in Transient /\ Observe("checkWait") /\ UNCHANGED stage
       \/ /\ seen \notin Transient \cup {"dead", "alive"}
          /\ Refuse(IF Attempted THEN "unknown" ELSE "not_executed")
    /\ Quiet

(* os.killpg(pid, sig), which raises when there is no such group or not enough
   permission for it. *)
Signal ==
    /\ pc = "signal"
    /\ sent' = Append(sent, stage)
    /\ stranger' = (stranger \/ (pidNow = "group" /\ ~OwnGroup))
    /\ \/ Group /\ Observe("signalWait")
       \/ Observe("errorWait")
    /\ UNCHANGED <<host, kernel, stage>>

(* Mutant: a wait that has no budget. *)
PollForever ==
    /\ pc = "decide" /\ use \in Waits
    /\ seen \notin {"dead", "identity_mismatch"}
    /\ pc' = "inspect"
    /\ UNCHANGED <<use, stage, denied, seen, polls, outcome>>
    /\ Quiet

(* _wait_for_exit goes on while its deadline has not passed. *)
Poll ==
    /\ pc = "decide" /\ use \in Waits
    /\ seen \notin {"dead", "identity_mismatch"}
    /\ polls > 0
    /\ polls' = polls - 1
    /\ pc' = "inspect"
    /\ UNCHANGED <<use, stage, denied, seen, outcome>>
    /\ Quiet

Confirmed ==
    /\ pc = "decide" /\ use \in Waits
    /\ seen = "dead"
    /\ Exited
    /\ Quiet

(* Mutant: a refusal before a signal forgets the signal before it. *)
WaitRefusedClean ==
    /\ pc = "decide" /\ use \in {"firstWait", "checkWait"}
    /\ seen # "dead"
    /\ Refuse("not_executed")
    /\ Quiet

(* The wait before a signal expired; even "alive" is refused now. *)
WaitRefused ==
    /\ pc = "decide" /\ use \in {"firstWait", "checkWait"}
    /\ seen # "dead"
    /\ Refuse(IF Attempted THEN "unknown" ELSE "not_executed")
    /\ Quiet

(* Mutant: whatever is left of the group after TERM is killed by its number. *)
EscalateByNumber ==
    /\ Deciding("signalWait") /\ stage = "TERM"
    /\ seen \in Transient \cup {"alive"}
    /\ stage' = "KILL"
    /\ pc' = "signal"
    /\ UNCHANGED <<use, denied, seen, polls, outcome>>
    /\ Quiet

(* Mutant: a group that outlives the grace period is sent TERM again. *)
EscalateGently ==
    /\ Deciding("signalWait") /\ stage = "TERM"
    /\ \/ seen = "alive" /\ UNCHANGED stage /\ Observe("check")
       \/ seen \in Transient /\ UNCHANGED stage /\ Observe("lastWait")
    /\ Quiet

(* The grace period is over: a group still led by its living leader is killed. *)
Escalate ==
    /\ Deciding("signalWait") /\ stage = "TERM"
    /\ \/ seen = "alive" /\ stage' = "KILL" /\ Observe("check")
       \/ seen \in Transient /\ UNCHANGED stage /\ Observe("lastWait")
    /\ Quiet

(* Every other wait after a signal ends unresolved; after a refused signal the
   error of killpg is what is reported. *)
Unconfirmed ==
    /\ pc = "decide" /\ use \in {"signalWait", "lastWait", "errorWait"}
    /\ seen # "dead"
    /\ use = "signalWait" /\ stage = "TERM" => seen \notin Transient \cup {"alive"}
    /\ \/ /\ use = "errorWait" /\ seen # "identity_mismatch"
          /\ \E code \in Transient : Return(code, "unknown")
       \/ /\ use # "errorWait" \/ seen = "identity_mismatch"
          /\ Return(IF seen = "alive" THEN "termination_unconfirmed" ELSE seen, "unknown")
    /\ Quiet

Terminate ==
    \/ Inspect \/ InspectMissing \/ InspectFails
    \/ Lifetime \/ Reap \/ ProbeLeader \/ ProbeGroup
    \/ First \/ Check \/ Signal
    \/ Poll \/ Confirmed \/ WaitRefused \/ Escalate \/ Unconfirmed

Kernel == LeaderExits \/ MemberExits \/ MemberForks \/ LeaderReaped \/ PidRecycled

Next == Terminate \/ Kernel
Spec == Init /\ [][Next]_vars
(* The calling thread runs; nothing is assumed of the group. *)
FairSpec == Spec /\ WF_vars(Terminate)
----
(* Properties. *)

(* "Success requires confirmed group disappearance": stopped and already_exited
   are returned only when no process of the group is left, not even a zombie. *)
ConfirmedExit ==
    outcome.code \in {"stopped", "already_exited"} => ~OwnGroup

(* Birth and group are checked again before each signal: whoever got the
   recycled PID is never signalled. *)
OnlyOwnedSignalled == ~stranger

(* A refusal that says not_executed, and already_exited, sent no signal; TERM
   comes first and neither signal is retried. *)
SignalsReported ==
    /\ sent \in {<<>>, <<"TERM">>, <<"TERM", "KILL">>}
    /\ outcome.execution = "not_executed" \/ outcome.code = "already_exited" => sent = <<>>

(* An exited leader never authorizes a signal to the surviving group on its
   number alone: once the leader is no longer running when an observation
   starts, nothing more is sent, however the later observations fail. *)
NoSignalAfterExit ==
    \A s \in {<<>>, <<"TERM">>} :
        [](leader # "running" /\ pc = "inspect" /\ sent = s => [](sent = s))

(* What the stops rely on, and nothing more: seen from outside, the system calls
   of one termination are a few signals and one true verdict. *)
Verdict ==
    IF outcome.code \in {"stopped", "already_exited"} THEN outcome.code ELSE outcome.execution
Contract == INSTANCE OwnedTermination
               WITH gone <- ~OwnGroup, signals <- Len(sent), verdict <- Verdict
HonoursContract == Contract!AbsSpec

(* The observations that may still follow the one in progress. *)
Wait == MaxPolls + 1
ObservationsLeft ==
    CASE use = "first" -> 2 * Wait + 2
      [] use = "check" -> IF stage = "TERM" THEN 2 * Wait + 1 ELSE Wait
      [] use = "signalWait" /\ stage = "TERM" -> polls + Wait + 1
      [] OTHER -> polls

(* How far the caller is in its observation. *)
StepsLeft ==
    [inspect |-> 6, lifetime |-> 5, kill0 |-> 4, reap |-> 4, group |-> 3,
     decide |-> 2, signal |-> 1, done |-> 0]
WorkLeft == 6 * ObservationsLeft + StepsLeft[pc]

(* Whatever the kernel does beside it, each step of a termination uses up some of
   a work that is bounded from the start and that nothing gives back: a wait never
   begins again, and the escalation happens once. *)
WorkIsBounded == [][UNCHANGED caller \/ WorkLeft' \in 0..(WorkLeft - 1)]_vars

(* Why ConfirmedExit and OnlyOwnedSignalled hold. *)
ProcessInv ==
    /\ TypeOK
    /\ pidNow # "nobody" => ~OwnGroup
    /\ pc = "decide" /\ seen = "dead" => ~OwnGroup
    /\ pc = "signal" \/ (Deciding("check") /\ seen = "alive") => pidNow = "nobody"
    /\ ConfirmedExit
    /\ OnlyOwnedSignalled

(* The monotonic budget ends the stop, whatever the group does. *)
TerminationEnds == <>(pc = "done")
====
