---- MODULE MCActiveSession ----
(* Small instances of ActiveSession for TLC. *)
EXTENDS ActiveSession, TLC
CONSTANTS session1, session2, session3, attach1, status1

OneSession == {session1}
TwoSessions == {session1, session2}
ThreeSessions == {session1, session2, session3}
NoAttach == {}
OneAttach == {attach1}
OneStatus == {status1}
SessionSymmetry == Permutations(ThreeSessions)
====
