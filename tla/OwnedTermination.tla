---- MODULE OwnedTermination ----
(***************************************************************************)
(* What terminate_owned_process promises to the stops and rollbacks that   *)
(* call it, with no system call in sight: at most a TERM and a KILL, one   *)
(* verdict, success only when the process group is gone for good, and a    *)
(* refusal that says truly whether anything was signalled.                 *)
(***************************************************************************)
EXTENDS Naturals

VARIABLES
    gone,       \* no process of the group is left
    signals,    \* how many signals the caller has sent
    verdict     \* what it returned, "none" before it returns

absVars == <<gone, signals, verdict>>

(* The emulator may have exited before anybody asks. *)
AbsInit == gone \in BOOLEAN /\ signals = 0 /\ verdict = "none"

(* A group without a process cannot get one again. *)
Vanish ==
    /\ ~gone /\ gone' = TRUE
    /\ UNCHANGED <<signals, verdict>>

SendSignal ==
    /\ verdict = "none" /\ signals < 2
    /\ signals' = signals + 1
    /\ UNCHANGED <<gone, verdict>>

Confirm ==
    /\ verdict = "none" /\ gone
    /\ verdict' = IF signals = 0 THEN "already_exited" ELSE "stopped"
    /\ UNCHANGED <<gone, signals>>

Refuse ==
    /\ verdict = "none"
    /\ verdict' = IF signals = 0 THEN "not_executed" ELSE "unknown"
    /\ UNCHANGED <<gone, signals>>

AbsNext == Vanish \/ SendSignal \/ Confirm \/ Refuse

AbsSpec == AbsInit /\ [][AbsNext]_absVars
====
