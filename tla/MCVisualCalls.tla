---- MODULE MCVisualCalls ----
(* A small instance of VisualCalls for TLC: two inputs, an input beside a
   view of a tap or a startup, and a view of Lua. *)
EXTENDS VisualCalls
CONSTANTS input, other, tap, boot, lua, a

TwoInputs == {input, other}
OneTap == {tap}
OneLua == {lua}
OneStart == {boot}
Mixes == {{input, other}, {input, tap}, {input, boot}, {lua}}
TapAlone == {{tap}}
OneKey == {a}
====
