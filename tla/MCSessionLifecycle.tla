---- MODULE MCSessionLifecycle ----
(* Small instances of SessionLifecycle for TLC. *)
EXTENDS SessionLifecycle, TLC
CONSTANTS start1, start2, stop1, stop2, prune1, prune2

NoStart == {}
OneStart == {start1}
TwoStarts == {start1, start2}
NoStop == {}
OneStop == {stop1}
TwoStops == {stop1, stop2}
OnePrune == {prune1}
TwoPrunes == {prune1, prune2}

(* No definition tells two calls of one kind apart. *)
CallSymmetry ==
    Permutations(TwoStarts) \cup Permutations(TwoStops) \cup Permutations(TwoPrunes)
====
