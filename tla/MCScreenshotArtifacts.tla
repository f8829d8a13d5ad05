---- MODULE MCScreenshotArtifacts ----
(* A small instance of ScreenshotArtifacts for TLC. *)
EXTENDS ScreenshotArtifacts
CONSTANTS export, save, view, stop1, n1

ThreeCalls == {export, save, view}
OnlySave == {save}
OnlyView == {view}
OneStop == {stop1}
OneName == {n1}
OnlyExport == {export}
====
