---- MODULE MCSessionTransaction ----
(* Small instances of SessionTransaction for TLC. *)
EXTENDS SessionTransactionInv
CONSTANTS single, other, view, stop1

OneEach == {single, view}
OnlyView == {view}
TwoSingles == {single, other}
OneStop == {stop1}
NoComposite == {}
====
