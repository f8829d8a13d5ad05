---- MODULE SessionId ----
(***************************************************************************)
(* What a session id promises whoever uses it: it names one directory at a *)
(* time, that directory launches at most one emulator ever, and while that *)
(* emulator runs the id is given to another directory only if the old one  *)
(* was archived under it.                                                  *)
(***************************************************************************)
CONSTANTS Directories, NoDirectory

VARIABLES
    path,       \* the directory that the id names
    archived,   \* the directories it named that were archived
    launched,   \* the directories whose emulator was launched
    running     \* those whose emulator runs

absVars == <<path, archived, launched, running>>

AbsInit == path = NoDirectory /\ archived = {} /\ launched = {} /\ running = {}

Take(d) ==
    /\ path = NoDirectory /\ running \subseteq archived
    /\ d \notin launched
    /\ path' = d
    /\ UNCHANGED <<archived, launched, running>>

Launch(d) ==
    /\ path = d
    /\ d \notin launched
    /\ launched' = launched \cup {d}
    /\ running' = running \cup {d}
    /\ UNCHANGED <<path, archived>>

End(d) ==
    /\ running' = running \ {d}
    /\ UNCHANGED <<path, archived, launched>>

(* Rolled back. *)
GiveUp ==
    /\ path \notin running
    /\ path' = NoDirectory
    /\ UNCHANGED <<archived, launched, running>>

Archive ==
    /\ path # NoDirectory
    /\ path' = NoDirectory
    /\ archived' = archived \cup {path}
    /\ UNCHANGED <<launched, running>>

AbsNext == (\E d \in Directories : Take(d) \/ Launch(d) \/ End(d)) \/ GiveUp \/ Archive

AbsSpec == AbsInit /\ [][AbsNext]_absVars
====
