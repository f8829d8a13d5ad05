---- MODULE ProcessControlProofs ----
(***************************************************************************)
(* Proofs about ProcessControl for every number of group members and of    *)
(* observations.  ProcessInv is inductive: what the caller has just been   *)
(* told ("dead", or "alive" before a signal) is still true of the kernel.  *)
(***************************************************************************)
EXTENDS ProcessControl, SequenceTheorems, TLAPS

(* A termination begins with the invariant. *)
LEMMA InitInv == Init => ProcessInv
<1> SUFFICES ASSUME Init PROVE ProcessInv
  OBVIOUS
<1>1. outcome \in Outcome /\ seen \in States /\ use \in Uses
  BY DEF Init, Outcome, States, Transient, Uses, Waits
<1>2. sent \in Seq({"TERM", "KILL"}) /\ polls \in 0..MaxPolls
  BY BoundAssumption DEF Init
<1>3. TypeOK
  BY <1>1, <1>2 DEF Init, TypeOK
<1> QED
  BY <1>3 DEF Init, ProcessInv, ConfirmedExit, OnlyOwnedSignalled, OwnGroup, Deciding

(* Every step keeps the types. *)
LEMMA TypeStep == TypeOK /\ [Next]_vars => TypeOK'
<1> SUFFICES ASSUME TypeOK, [Next]_vars PROVE TypeOK'
  OBVIOUS
<1> USE DEF TypeOK, Uses, Waits, States, Transient, Outcome, kernel, caller
<1>1. CASE Inspect
  BY <1>1, BoundAssumption DEF Inspect, Observed, Call, Pid, SameBirth
<1>2. CASE InspectMissing
  <2>1. pc' \in {"lifetime", "kill0"}
    BY <1>2, Zenon DEF InspectMissing
  <2>2. UNCHANGED <<host, leader, members, pidNow, use, stage, seen, polls, sent, stranger,
        outcome>>
    BY <1>2 DEF InspectMissing
  <2>3. denied' \in BOOLEAN
    BY <1>2 DEF InspectMissing
  <2> QED
    BY <2>1, <2>2, <2>3
<1>3. CASE InspectFails
  BY <1>3, BoundAssumption DEF InspectFails
<1>4. CASE Lifetime
  BY <1>4, BoundAssumption DEF Lifetime, Call, Reaped, Observed, SameBirth
<1>5. CASE Reap
  BY <1>5, BoundAssumption DEF Reap, Call, Reaped
<1>6. CASE ProbeLeader
  BY <1>6, BoundAssumption DEF ProbeLeader, Call, Observed, Pid
<1>7. CASE ProbeGroup
  BY <1>7, BoundAssumption DEF ProbeGroup, Observed, Group
<1>8. CASE First
  BY <1>8, BoundAssumption DEF First, Deciding, Exited, Attempted, Return, Observe, Refuse, Quiet
<1>9. CASE Check
  BY <1>9, BoundAssumption DEF Check, Deciding, Exited, Attempted, Return, Observe, Refuse, Quiet
<1>10. CASE Signal
  BY <1>10, BoundAssumption DEF Signal, Observe, Group
<1>11. CASE Poll
  BY <1>11, BoundAssumption DEF Poll, Quiet
<1>12. CASE Confirmed
  BY <1>12, BoundAssumption DEF Confirmed, Exited, Attempted, Return, Quiet
<1>13. CASE WaitRefused
  BY <1>13, BoundAssumption DEF WaitRefused, Attempted, Refuse, Return, Quiet
<1>14. CASE Escalate
  BY <1>14, BoundAssumption DEF Escalate, Deciding, Observe, Quiet
<1>15. CASE Unconfirmed
  BY <1>15, BoundAssumption DEF Unconfirmed, Return, Quiet
<1>16. CASE LeaderExits
  BY <1>16, BoundAssumption DEF LeaderExits
<1>17. CASE MemberExits
  BY <1>17, BoundAssumption DEF MemberExits
<1>18. CASE MemberForks
  BY <1>18, BoundAssumption DEF MemberForks
<1>19. CASE LeaderReaped
  BY <1>19, BoundAssumption DEF LeaderReaped
<1>20. CASE PidRecycled
  BY <1>20, BoundAssumption DEF PidRecycled
<1>21. CASE UNCHANGED vars
  BY <1>21 DEF vars
<1> QED
  BY <1>1, <1>2, <1>3, <1>4, <1>5, <1>6, <1>7, <1>8, <1>9, <1>10, <1>11, <1>12, <1>13, <1>14,
     <1>15, <1>16, <1>17, <1>18, <1>19, <1>20, <1>21 DEF Next, Terminate, Kernel

(* Every step keeps the invariant: one step per action. *)
LEMMA InvStep == ProcessInv /\ [Next]_vars => ProcessInv'
<1> SUFFICES ASSUME ProcessInv, [Next]_vars PROVE ProcessInv'
  OBVIOUS
<1>t. TypeOK /\ TypeOK'
  BY TypeStep DEF ProcessInv
<1>p. members \in Nat /\ members' \in Nat
  BY <1>t, BoundAssumption DEF TypeOK
<1> USE DEF ProcessInv, ConfirmedExit, OnlyOwnedSignalled, OwnGroup, Deciding, kernel, caller
<1>1. CASE Inspect
  BY <1>1, <1>t, <1>p DEF Inspect, Observed, Call, Pid, SameBirth
<1>2. CASE InspectMissing
  BY <1>2, <1>t, <1>p DEF InspectMissing, Pid
<1>3. CASE InspectFails
  BY <1>3, <1>t, <1>p DEF InspectFails
<1>4. CASE Lifetime
  BY <1>4, <1>t, <1>p DEF Lifetime, Call, Reaped, Observed, SameBirth
<1>5. CASE Reap
  BY <1>5, <1>t, <1>p DEF Reap, Call, Reaped
<1>6. CASE ProbeLeader
  BY <1>6, <1>t, <1>p DEF ProbeLeader, Call, Observed, Pid
<1>7. CASE ProbeGroup
  BY <1>7, <1>t, <1>p DEF ProbeGroup, Observed, Group
<1>8. CASE First
  BY <1>8, <1>t, <1>p DEF First, Deciding, Exited, Attempted, Return, Observe, Refuse, Quiet,
     TypeOK, States, Transient
<1>9. CASE Check
  BY <1>9, <1>t, <1>p DEF Check, Deciding, Exited, Attempted, Return, Observe, Refuse, Quiet,
     TypeOK, States, Transient
<1>10. CASE Signal
  BY <1>10, <1>t, <1>p DEF Signal, Observe, Group
<1>11. CASE Poll
  BY <1>11, <1>t, <1>p DEF Poll, Quiet
<1>12. CASE Confirmed
  BY <1>12, <1>t, <1>p DEF Confirmed, Exited, Attempted, Return, Quiet
<1>13. CASE WaitRefused
  BY <1>13, <1>t, <1>p DEF WaitRefused, Attempted, Refuse, Return, Quiet, TypeOK, States,
     Transient
<1>14. CASE Escalate
  BY <1>14, <1>t, <1>p DEF Escalate, Deciding, Observe, Quiet
<1>15. CASE Unconfirmed
  BY <1>15, <1>t, <1>p DEF Unconfirmed, Return, Quiet, TypeOK, States, Transient
<1>16. CASE LeaderExits
  BY <1>16, <1>t, <1>p DEF LeaderExits
<1>17. CASE MemberExits
  BY <1>17, <1>t, <1>p DEF MemberExits
<1>18. CASE MemberForks
  BY <1>18, <1>t, <1>p DEF MemberForks
<1>19. CASE LeaderReaped
  BY <1>19, <1>t, <1>p DEF LeaderReaped
<1>20. CASE PidRecycled
  BY <1>20, <1>t, <1>p DEF PidRecycled
<1>21. CASE UNCHANGED vars
  BY <1>21, <1>t, <1>p DEF vars
<1> QED
  BY <1>1, <1>2, <1>3, <1>4, <1>5, <1>6, <1>7, <1>8, <1>9, <1>10, <1>11, <1>12, <1>13, <1>14,
     <1>15, <1>16, <1>17, <1>18, <1>19, <1>20, <1>21 DEF Next, Terminate, Kernel

(* The invariant holds of every termination. *)
THEOREM Invariant == Spec => []ProcessInv
BY InitInv, InvStep, PTL DEF Spec

(* stopped and already_exited are returned only for a group without a process
   (terminate_owned_process). *)
THEOREM ExitIsConfirmed == Spec => []ConfirmedExit
<1>1. ProcessInv => ConfirmedExit
  BY DEF ProcessInv
<1> QED
  BY <1>1, Invariant, PTL

(* No process outside the group is signalled while a PID does not come round
   between the last observation and the signal (PidRecycled). *)
THEOREM OnlyOwnedIsSignalled == Spec => []OnlyOwnedSignalled
<1>1. ProcessInv => OnlyOwnedSignalled
  BY DEF ProcessInv
<1> QED
  BY <1>1, Invariant, PTL

(* Type correctness of the caller and of the kernel. *)
THEOREM TypeCorrect == Spec => []TypeOK
<1>1. ProcessInv => TypeOK
  BY DEF ProcessInv
<1> QED
  BY <1>1, Invariant, PTL

(* Why SignalsReported holds: which signals were sent is a function of the stage
   and of what the observation in progress is for. *)
SignalInv ==
    /\ TypeOK
    /\ SignalsReported
    /\ pc = "signal" => use = "check"
    /\ pc # "done" =>
          /\ use \in {"first", "firstWait"} => stage = "TERM" /\ sent = <<>>
          /\ use \in {"check", "checkWait"} =>
                sent = IF stage = "TERM" THEN <<>> ELSE <<"TERM">>
          /\ use \in {"signalWait", "errorWait", "lastWait"} =>
                sent = IF stage = "TERM" THEN <<"TERM">> ELSE <<"TERM", "KILL">>
          /\ outcome = [code |-> "none", execution |-> "none"]

(* A termination begins with nothing sent. *)
LEMMA SignalInit == Init => SignalInv
<1> SUFFICES ASSUME Init PROVE SignalInv
  OBVIOUS
<1>1. TypeOK
  BY InitInv DEF ProcessInv
<1> QED
  BY <1>1 DEF Init, SignalInv, SignalsReported

(* KILL after TERM. *)
LEMMA KillFollowsTerm == Append(<<"TERM">>, "KILL") = <<"TERM", "KILL">>
<1> DEFINE longer == Append(<<"TERM">>, "KILL")
           both == <<"TERM", "KILL">>
<1>1. longer \in Seq({"TERM", "KILL"}) /\ Len(longer) = 2 /\ longer[1] = "TERM"
      /\ longer[2] = "KILL"
  OBVIOUS
<1>2. both \in Seq({"TERM", "KILL"}) /\ Len(both) = 2 /\ both[1] = "TERM" /\ both[2] = "KILL"
  OBVIOUS
<1>3. \A i \in 1..Len(longer) : longer[i] = both[i]
  BY <1>1, <1>2
<1>4. longer = both
  <2> HIDE DEF longer, both
  <2> QED
    BY <1>1, <1>2, <1>3, SeqEqual
<1> QED
  BY <1>4 DEF longer, both

(* Every step of the caller keeps the account of the signals. *)
LEMMA SignalStep == SignalInv /\ [Next]_vars => SignalInv'
<1> SUFFICES ASSUME SignalInv, [Next]_vars PROVE SignalInv'
  OBVIOUS
<1>t. TypeOK /\ TypeOK'
  BY TypeStep DEF SignalInv
<1> USE DEF SignalInv, SignalsReported, kernel, caller, Deciding
<1>1. CASE Inspect
  BY <1>1, <1>t DEF Inspect, Observed, Call
<1>2. CASE InspectMissing
  BY <1>2, <1>t DEF InspectMissing
<1>3. CASE InspectFails
  BY <1>3, <1>t DEF InspectFails
<1>4. CASE Lifetime
  BY <1>4, <1>t DEF Lifetime, Call, Observed
<1>5. CASE Reap
  BY <1>5, <1>t DEF Reap, Call
<1>6. CASE ProbeLeader
  BY <1>6, <1>t DEF ProbeLeader, Call, Observed
<1>7. CASE ProbeGroup
  BY <1>7, <1>t DEF ProbeGroup, Observed
<1>8. CASE First
  BY <1>8, <1>t DEF First, Exited, Attempted, Return, Observe, Refuse, Quiet, TypeOK, States,
     Transient, Waits
<1>9. CASE Check
  BY <1>9, <1>t DEF Check, Exited, Attempted, Return, Observe, Refuse, Quiet, TypeOK, States,
     Transient, Waits
<1>10. CASE Signal
  <2>1. sent' = IF stage = "TERM" THEN <<"TERM">> ELSE <<"TERM", "KILL">>
    <3>1. CASE stage = "TERM"
      <4>1. sent = <<>> /\ sent' = Append(sent, "TERM")
        BY <1>10, <3>1 DEF Signal
      <4> QED
        BY <4>1, <3>1
    <3>2. CASE stage = "KILL"
      <4>1. sent = <<"TERM">> /\ sent' = Append(sent, "KILL")
        BY <1>10, <3>2 DEF Signal
      <4> QED
        BY <4>1, <3>2, KillFollowsTerm
    <3> QED
      BY <3>1, <3>2, <1>t DEF TypeOK
  <2> QED
    BY <1>10, <1>t, <2>1 DEF Signal, Observe, TypeOK
<1>11. CASE Poll
  BY <1>11, <1>t DEF Poll, Quiet
<1>12. CASE Confirmed
  BY <1>12, <1>t DEF Confirmed, Exited, Attempted, Return, Quiet
<1>13. CASE WaitRefused
  BY <1>13, <1>t DEF WaitRefused, Attempted, Refuse, Return, Quiet, TypeOK, States, Transient
<1>14. CASE Escalate
  BY <1>14, <1>t DEF Escalate, Observe, Quiet
<1>15. CASE Unconfirmed
  BY <1>15, <1>t DEF Unconfirmed, Return, Quiet, TypeOK, States, Transient
<1>16. CASE Kernel
  BY <1>16, <1>t DEF Kernel, LeaderExits, MemberExits, MemberForks, LeaderReaped, PidRecycled
<1>17. CASE UNCHANGED vars
  BY <1>17, <1>t DEF vars
<1> QED
  BY <1>1, <1>2, <1>3, <1>4, <1>5, <1>6, <1>7, <1>8, <1>9, <1>10, <1>11, <1>12, <1>13, <1>14,
     <1>15, <1>16, <1>17 DEF Next, Terminate

(* What terminate_owned_process says of its signals is true: a refusal that says
   not_executed sent none, and no signal is sent twice or out of order. *)
THEOREM SignalsAreReported == Spec => []SignalsReported
<1>1. SignalInv => SignalsReported
  BY DEF SignalInv
<1> QED
  BY <1>1, SignalInit, SignalStep, PTL DEF Spec

(* Why NoSignalAfterExit holds: without a running leader no observation in
   progress can still end as "alive", and nothing else leads to a signal. *)
Silent(s) ==
    leader # "running" /\ sent = s /\ pc # "signal" /\ (pc = "decide" => seen # "alive")

(* What begins without a running leader ends without a signal. *)
LEMMA SilentStep == ASSUME NEW s, TypeOK, Silent(s), [Next]_vars PROVE Silent(s)'
<1> USE DEF Silent, TypeOK, kernel, caller, Deciding, Quiet
<1>1. CASE Inspect \/ InspectMissing \/ InspectFails
  BY <1>1 DEF Inspect, InspectMissing, InspectFails, Observed, Call, SameBirth
<1>2. CASE Lifetime \/ Reap \/ ProbeLeader \/ ProbeGroup
  BY <1>2 DEF Lifetime, Reap, ProbeLeader, ProbeGroup, Observed, Call, Reaped
<1>3. CASE First \/ Check \/ Signal
  BY <1>3 DEF First, Check, Signal, Exited, Return, Refuse, Observe
<1>4. CASE Poll \/ Confirmed \/ WaitRefused
  BY <1>4 DEF Poll, Confirmed, WaitRefused, Exited, Return, Refuse
<1>5. CASE Escalate \/ Unconfirmed
  BY <1>5 DEF Escalate, Unconfirmed, Observe, Return
<1>6. CASE Kernel
  BY <1>6 DEF Kernel, LeaderExits, MemberExits, MemberForks, LeaderReaped, PidRecycled
<1>7. CASE UNCHANGED vars
  BY <1>7 DEF vars
<1> QED
  BY <1>1, <1>2, <1>3, <1>4, <1>5, <1>6, <1>7 DEF Next, Terminate

(* An exited leader authorizes no further signal: an observation that begins
   after its exit leads to none, whatever the later observations return. *)
THEOREM NothingAfterExit == Spec => NoSignalAfterExit
<1>1. ASSUME NEW CONSTANT s \in {<<>>, <<"TERM">>}
      PROVE  Spec => [](leader # "running" /\ pc = "inspect" /\ sent = s => [](sent = s))
  <2>1. leader # "running" /\ pc = "inspect" /\ sent = s => Silent(s)
    BY DEF Silent
  <2>2. Silent(s) => sent = s
    BY DEF Silent
  <2>3. ProcessInv /\ Silent(s) /\ [Next]_vars => Silent(s)'
    BY SilentStep DEF ProcessInv
  <2> QED
    BY <2>1, <2>2, <2>3, Invariant, PTL DEF Spec
<1> QED
  BY <1>1 DEF NoSignalAfterExit
----
(* The refinement of OwnedTermination. *)

(* The signals so far, counted. *)
LEMMA SignalCount ==
    ASSUME SignalInv
    PROVE  /\ Len(sent) \in 0..2 /\ (Attempted <=> Len(sent) # 0)
           /\ pc = "signal" => Len(sent) < 2
<1>1. sent \in {<<>>, <<"TERM">>, <<"TERM", "KILL">>}
  BY DEF SignalInv, SignalsReported
<1>2. CASE sent = <<>>
  BY <1>2 DEF Attempted
<1>3. CASE sent = <<"TERM">>
  BY <1>3 DEF Attempted
<1>4. CASE sent = <<"TERM", "KILL">>
  BY <1>4 DEF Attempted, SignalInv
<1> QED
  BY <1>1, <1>2, <1>3, <1>4

(* Until the caller returns, it has given no verdict. *)
LEMMA NoVerdictYet ==
    ASSUME SignalInv, pc # "done"
    PROVE  outcome = [code |-> "none", execution |-> "none"] /\ Verdict = "none"
BY DEF SignalInv, Verdict

(* A return is a verdict of the contract: dead is confirmed, and everything else
   is refused with what is known of the signals. *)
LEMMA ReturnStep ==
    ASSUME SignalInv, pc # "done", UNCHANGED <<kernel, sent>>,
           NEW code \in States \cup {"stopped", "already_exited"},
           NEW execution \in {"none", "not_executed", "unknown"},
           Return(code, execution),
           \/ /\ ~OwnGroup /\ execution = "none"
              /\ code = IF Attempted THEN "stopped" ELSE "already_exited"
           \/ /\ code \in States
              /\ execution = IF Attempted THEN "unknown" ELSE "not_executed"
    PROVE  Contract!AbsNext
<1>1. OwnGroup' = OwnGroup /\ Len(sent)' = Len(sent) /\ Verdict = "none"
  BY NoVerdictYet DEF OwnGroup, kernel
<1>2. outcome' = [code |-> code, execution |-> execution]
  BY DEF Return
<1>3. CASE /\ ~OwnGroup /\ execution = "none"
           /\ code = IF Attempted THEN "stopped" ELSE "already_exited"
  <2>1. Verdict' = IF Len(sent) = 0 THEN "already_exited" ELSE "stopped"
    BY <1>2, <1>3, SignalCount DEF Verdict
  <2> QED
    BY <1>1, <1>3, <2>1 DEF Contract!AbsNext, Contract!Confirm
<1>4. CASE code \in States /\ execution = IF Attempted THEN "unknown" ELSE "not_executed"
  <2>1. Verdict' = IF Len(sent) = 0 THEN "not_executed" ELSE "unknown"
    BY <1>2, <1>4, SignalCount DEF Verdict, States, Transient
  <2> QED
    BY <1>1, <2>1 DEF Contract!AbsNext, Contract!Refuse
<1> QED
  BY <1>3, <1>4

(* What neither signals nor returns can only see the group end. *)
LEMMA SilentContractStep ==
    ASSUME UNCHANGED <<sent, outcome>>, ~OwnGroup => ~OwnGroup'
    PROVE  [Contract!AbsNext]_(Contract!absVars)
<1>1. Len(sent)' = Len(sent) /\ Verdict' = Verdict
  BY DEF Verdict
<1>2. OwnGroup \in BOOLEAN /\ OwnGroup' \in BOOLEAN
  BY DEF OwnGroup
<1>3. CASE OwnGroup' = OwnGroup
  BY <1>1, <1>3 DEF Contract!absVars
<1>4. CASE OwnGroup /\ ~OwnGroup'
  BY <1>1, <1>4 DEF Contract!AbsNext, Contract!Vanish
<1> QED
  BY <1>2, <1>3, <1>4

(* Every step is a step of the contract or leaves it unchanged. *)
LEMMA ContractStep ==
    ASSUME ProcessInv, SignalInv, [Next]_vars
    PROVE  [Contract!AbsNext]_(Contract!absVars)
<1> USE DEF kernel, caller, Deciding, Quiet
<1>t. TypeOK
  BY DEF ProcessInv
<1>1. CASE Inspect \/ InspectMissing \/ InspectFails \/ ProbeLeader \/ ProbeGroup
  <2>1. UNCHANGED <<sent, outcome, leader, members>>
    BY <1>1 DEF Inspect, InspectMissing, InspectFails, ProbeLeader, ProbeGroup
  <2> QED
    BY <2>1, SilentContractStep DEF OwnGroup
<1>2. CASE Lifetime \/ Reap
  <2>1. UNCHANGED <<sent, outcome, members>> /\ (leader = "reaped" => leader' = "reaped")
    BY <1>2 DEF Lifetime, Reap, Reaped
  <2> QED
    BY <2>1, SilentContractStep DEF OwnGroup
<1>3. CASE Poll \/ Escalate
  <2>1. UNCHANGED <<sent, outcome, leader, members>>
    BY <1>3 DEF Poll, Escalate, Observe
  <2> QED
    BY <2>1, SilentContractStep DEF OwnGroup
<1>4. CASE Signal
  <2>1. /\ pc = "signal" /\ UNCHANGED <<leader, members, outcome>>
        /\ sent' = Append(sent, stage) /\ stage \in {"TERM", "KILL"}
    BY <1>4, <1>t DEF Signal, Observe, TypeOK
  <2>2. Len(sent') = Len(sent) + 1
    BY <1>t, <2>1 DEF TypeOK
  <2>3. OwnGroup' = OwnGroup /\ Verdict' = Verdict /\ Verdict = "none" /\ Len(sent) < 2
    BY <2>1, NoVerdictYet, SignalCount DEF OwnGroup, Verdict
  <2> QED
    BY <2>2, <2>3 DEF Contract!AbsNext, Contract!SendSignal
<1>5. ASSUME pc = "decide", seen = "dead", Exited, UNCHANGED <<kernel, sent>>
      PROVE  Contract!AbsNext
  BY <1>5, ReturnStep DEF Exited, ProcessInv
<1>6. ASSUME NEW execution, pc # "done", Refuse(execution), UNCHANGED <<kernel, sent>>,
             execution = IF Attempted THEN "unknown" ELSE "not_executed"
      PROVE  Contract!AbsNext
  BY <1>6, <1>t, ReturnStep DEF Refuse, TypeOK
<1>7. CASE First
  <2>1. pc = "decide" /\ use = "first" /\ ~Attempted /\ UNCHANGED <<kernel, sent>>
    BY <1>7 DEF First, SignalInv, Attempted
  <2>2. \/ seen = "dead" /\ Exited
        \/ Observe("check") \/ Observe("firstWait")
        \/ Refuse("not_executed")
    BY <1>7 DEF First
  <2>3. ASSUME NEW for, Observe(for) PROVE [Contract!AbsNext]_(Contract!absVars)
    BY <2>1, <2>3, SilentContractStep DEF Observe, OwnGroup
  <2> QED
    BY <1>5, <1>6, <2>1, <2>2, <2>3
<1>8. CASE Check
  <2>1. pc = "decide" /\ UNCHANGED <<kernel, sent>>
    BY <1>8 DEF Check
  <2>2. \/ UNCHANGED outcome
        \/ seen = "dead" /\ Exited
        \/ Refuse(IF Attempted THEN "unknown" ELSE "not_executed")
    BY <1>8 DEF Check, Observe
  <2>3. UNCHANGED outcome => [Contract!AbsNext]_(Contract!absVars)
    BY <2>1, SilentContractStep DEF OwnGroup
  <2> QED
    BY <1>5, <1>6, <2>1, <2>2, <2>3
<1>9. CASE Confirmed
  BY <1>5, <1>9 DEF Confirmed
<1>10. CASE WaitRefused
  BY <1>6, <1>10 DEF WaitRefused
<1>11. CASE Unconfirmed
  <2>1. pc = "decide" /\ Attempted /\ UNCHANGED <<kernel, sent>>
    BY <1>11 DEF Unconfirmed, SignalInv, Attempted, Quiet
  <2>2. PICK code : code \in States /\ Return(code, "unknown")
    BY <1>11, <1>t DEF Unconfirmed, TypeOK, States, Transient
  <2> QED
    BY <2>1, <2>2, ReturnStep DEF States, Transient
<1>12. CASE Kernel
  <2>1. UNCHANGED <<sent, outcome>> /\ (~OwnGroup => ~OwnGroup')
    BY <1>12, <1>t, BoundAssumption DEF Kernel, LeaderExits, MemberExits, MemberForks,
       LeaderReaped, PidRecycled, OwnGroup, TypeOK
  <2> QED
    BY <2>1, SilentContractStep
<1>13. CASE UNCHANGED vars
  BY <1>13, SilentContractStep DEF vars, OwnGroup
<1> QED
  BY <1>1, <1>2, <1>3, <1>4, <1>7, <1>8, <1>9, <1>10, <1>11, <1>12, <1>13 DEF Next, Terminate

(* All that a stop or a rollback needs to know of a termination is its contract:
   a few signals and one verdict, which says "stopped" or "already_exited" only of
   a group that is gone for good, and "not_executed" only if nothing was sent
   (terminate_owned_process). *)
THEOREM TerminationHonoursContract == Spec => HonoursContract
<1>1. Init => Contract!AbsInit
  BY DEF Init, Contract!AbsInit, OwnGroup, Verdict
<1>2. ProcessInv /\ SignalInv /\ [Next]_vars => [Contract!AbsNext]_(Contract!absVars)
  BY ContractStep
<1>3. Spec => []SignalInv
  BY SignalInit, SignalStep, PTL DEF Spec
<1> QED
  BY <1>1, <1>2, <1>3, Invariant, PTL DEF Spec, HonoursContract, Contract!AbsSpec
----
(* A bound on the work of a termination. *)

(* The work that is left is a number, and it bounds the whole call from its start. *)
LEMMA WorkType ==
    TypeOK => /\ ObservationsLeft \in Nat /\ StepsLeft[pc] \in 0..6 /\ WorkLeft \in Nat
              /\ WorkLeft <= 12 * MaxPolls + 30
<1> SUFFICES ASSUME TypeOK
    PROVE  /\ ObservationsLeft \in Nat /\ StepsLeft[pc] \in 0..6 /\ WorkLeft \in Nat
           /\ WorkLeft <= 12 * MaxPolls + 30
  OBVIOUS
<1>1. ObservationsLeft \in 0..(2 * MaxPolls + 4)
  BY BoundAssumption DEF TypeOK, ObservationsLeft, Wait, Uses, Waits
<1>2. StepsLeft[pc] \in 0..6
  BY DEF TypeOK, StepsLeft
<1> QED
  BY <1>1, <1>2, BoundAssumption DEF WorkLeft

(* Every step of the caller uses up work. *)
LEMMA WorkStep ==
    ASSUME ProcessInv, SignalInv, [Next]_vars
    PROVE  UNCHANGED caller \/ WorkLeft' \in 0..(WorkLeft - 1)
<1>t. TypeOK /\ TypeOK'
  BY TypeStep DEF ProcessInv
<1>w. /\ WorkLeft \in Nat /\ ObservationsLeft \in Nat /\ StepsLeft[pc] \in 0..6
      /\ WorkLeft' \in Nat /\ ObservationsLeft' \in Nat /\ StepsLeft[pc]' \in 0..6
  <2>1. TypeOK' => (ObservationsLeft \in Nat /\ StepsLeft[pc] \in 0..6 /\ WorkLeft \in Nat)'
    BY WorkType, PTL
  <2> QED
    BY <1>t, <2>1, WorkType
<1>m. MaxPolls \in Nat /\ polls \in 0..MaxPolls
  BY <1>t, BoundAssumption DEF TypeOK
<1>1. ASSUME UNCHANGED <<use, stage, polls>>, StepsLeft[pc]' < StepsLeft[pc]
      PROVE  WorkLeft' \in 0..(WorkLeft - 1)
  <2>1. ObservationsLeft' = ObservationsLeft
    BY <1>1 DEF ObservationsLeft
  <2> QED
    BY <1>1, <1>w, <2>1 DEF WorkLeft
<1>2. ASSUME pc \in {"decide", "signal"}, pc' = "inspect", ObservationsLeft' < ObservationsLeft
      PROVE  WorkLeft' \in 0..(WorkLeft - 1)
  <2>1. StepsLeft[pc] \in {1, 2} /\ StepsLeft[pc]' = 6
    BY <1>2 DEF StepsLeft
  <2>2. WorkLeft' = 6 * ObservationsLeft' + 6 /\ WorkLeft >= 6 * ObservationsLeft + 1
    BY <1>w, <2>1 DEF WorkLeft
  <2>3. ASSUME NEW before \in Nat, NEW after \in Nat, NEW work \in Nat, NEW rest \in Nat,
               after < before, rest = 6 * after + 6, work >= 6 * before + 1
        PROVE  rest \in 0..(work - 1)
    BY <2>3
  <2> QED
    BY <1>2, <1>w, <2>2, <2>3
<1> USE DEF caller
<1>3. CASE Inspect \/ InspectMissing \/ InspectFails
  BY <1>1, <1>3 DEF Inspect, InspectMissing, InspectFails, Observed, Call, StepsLeft
<1>4. CASE Lifetime \/ Reap \/ ProbeLeader \/ ProbeGroup
  BY <1>1, <1>4 DEF Lifetime, Reap, ProbeLeader, ProbeGroup, Observed, Call, StepsLeft
<1>5. ASSUME pc = "decide", NEW code, NEW execution, Return(code, execution)
      PROVE  WorkLeft' \in 0..(WorkLeft - 1)
  BY <1>1, <1>5 DEF Return, StepsLeft
<1>6. CASE First
  <2>1. pc = "decide" /\ use = "first"
    BY <1>6 DEF First, Deciding
  <2>2. CASE (Observe("check") \/ Observe("firstWait")) /\ UNCHANGED stage
    BY <1>2, <1>m, <2>1, <2>2 DEF Observe, ObservationsLeft, Wait, Waits
  <2> QED
    BY <1>5, <1>6, <2>1, <2>2 DEF First, Exited, Refuse
<1>7. CASE Check
  <2>1. pc = "decide" /\ use = "check"
    BY <1>7 DEF Check, Deciding
  <2>2. CASE pc' = "signal" /\ UNCHANGED <<use, stage, polls>>
    BY <1>1, <2>1, <2>2 DEF StepsLeft
  <2>3. CASE Observe("checkWait") /\ UNCHANGED stage
    BY <1>2, <1>m, <2>1, <2>3 DEF Observe, ObservationsLeft, Wait, Waits
  <2> QED
    BY <1>5, <1>7, <2>1, <2>2, <2>3 DEF Check, Exited, Refuse
<1>8. CASE Signal
  <2>1. pc = "signal" /\ use = "check" /\ UNCHANGED stage
        /\ (Observe("signalWait") \/ Observe("errorWait"))
    BY <1>8 DEF Signal, SignalInv
  <2> QED
    BY <1>2, <1>m, <2>1 DEF Observe, ObservationsLeft, Wait, Waits
<1>9. CASE Poll
  <2>1. /\ pc = "decide" /\ pc' = "inspect" /\ use \in Waits /\ UNCHANGED <<use, stage>>
        /\ polls' = polls - 1
    BY <1>9 DEF Poll
  <2> QED
    BY <1>2, <1>m, <2>1 DEF ObservationsLeft, Wait, Waits
<1>10. CASE Confirmed \/ WaitRefused \/ Unconfirmed
  <2>1. pc = "decide" /\ \E code, execution : Return(code, execution)
    BY <1>10 DEF Confirmed, WaitRefused, Unconfirmed, Exited, Refuse
  <2> QED
    BY <1>5, <2>1
<1>11. CASE Escalate
  <2>1. /\ pc = "decide" /\ use = "signalWait" /\ stage = "TERM"
        /\ \/ stage' = "KILL" /\ Observe("check")
           \/ UNCHANGED stage /\ Observe("lastWait")
    BY <1>11 DEF Escalate, Deciding
  <2> QED
    BY <1>2, <1>m, <2>1 DEF Observe, ObservationsLeft, Wait, Waits
<1>12. CASE Kernel \/ UNCHANGED vars
  BY <1>12 DEF Kernel, LeaderExits, MemberExits, MemberForks, LeaderReaped, PidRecycled, vars
<1> QED
  BY <1>3, <1>4, <1>6, <1>7, <1>8, <1>9, <1>10, <1>11, <1>12 DEF Next, Terminate

(* A termination is over after a number of steps that is known when it begins,
   whatever the group, its parent and the PIDs do meanwhile (the monotonic budgets
   of terminate_owned_process and _wait_for_exit): with the fairness of the calling
   thread, this is why TerminationEnds holds. *)
THEOREM TerminationIsBounded ==
    Spec => WorkIsBounded /\ [](WorkLeft \in 0..(12 * MaxPolls + 30))
<1>1. ProcessInv => WorkLeft \in 0..(12 * MaxPolls + 30)
  BY WorkType, BoundAssumption DEF ProcessInv
<1>2. ProcessInv /\ SignalInv /\ [Next]_vars =>
         [UNCHANGED caller \/ WorkLeft' \in 0..(WorkLeft - 1)]_vars
  BY WorkStep
<1>3. Spec => []SignalInv
  BY SignalInit, SignalStep, PTL DEF Spec
<1> QED
  BY <1>1, <1>2, <1>3, Invariant, PTL DEF Spec, WorkIsBounded
====
