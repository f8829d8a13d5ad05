---- MODULE SerialExecution ----
(***************************************************************************)
(* What a session promises its callers: requests run one at a time, each   *)
(* at most once, only when admitted, and never again once the session is   *)
(* fenced and its outstanding work is gone.                                *)
(***************************************************************************)
CONSTANT Served    \* the requests that callers may make

VARIABLES
    mode,           \* "ready", "stopping" or "stopped"
    outstanding,    \* admitted requests that may still run
    ran             \* requests that have run

absVars == <<mode, outstanding, ran>>

AbsInit == mode = "ready" /\ outstanding = {} /\ ran = {}

Admit(r) ==
    /\ mode = "ready"
    /\ outstanding = {}
    /\ r \notin ran
    /\ outstanding' = {r}
    /\ UNCHANGED <<mode, ran>>

Run(r) ==
    /\ r \in outstanding \ ran
    /\ ran' = ran \cup {r}
    /\ UNCHANGED <<mode, outstanding>>

(* Answered, withdrawn, lost, or the emulator is gone. *)
Settle ==
    /\ outstanding' = {}
    /\ UNCHANGED <<mode, ran>>

Stop ==
    /\ mode' = "stopping"
    /\ UNCHANGED <<outstanding, ran>>

Retire ==
    /\ mode = "stopping" /\ outstanding = {}
    /\ mode' = "stopped"
    /\ UNCHANGED <<outstanding, ran>>

AbsNext == (\E r \in Served : Admit(r) \/ Run(r)) \/ Settle \/ Stop \/ Retire

AbsSpec == AbsInit /\ [][AbsNext]_absVars
====
