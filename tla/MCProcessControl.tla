---- MODULE MCProcessControl ----
(* A small instance of ProcessControl for TLC. *)
EXTENDS ProcessControl
====
