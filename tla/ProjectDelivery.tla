-------------------------- MODULE ProjectDelivery ---------------------------
(***************************************************************************)
(* What the delivery of a run promises about the original project, seen    *)
(* from outside: while the delivery is open its files may be any mixture   *)
(* of old and new, and it ends exactly once, with every file as the agent  *)
(* left it (kept) or every file as it was before (restored). All this is   *)
(* promised until somebody else edits the project.                         *)
(***************************************************************************)
CONSTANTS File, Old, New

VARIABLES project, verdict, edited

vars == <<project, verdict, edited>>

Verdict == {"open", "kept", "restored"}

Init == project = Old /\ verdict = "open" /\ ~edited

Change(f) ==
  /\ verdict = "open"
  /\ \E content \in {Old[f], New[f]} : project' = [project EXCEPT ![f] = content]
  /\ UNCHANGED verdict

Keep == verdict = "open" /\ project = New /\ verdict' = "kept" /\ UNCHANGED project

Restore == verdict = "open" /\ project = Old /\ verdict' = "restored" /\ UNCHANGED project

Next ==
  \/ ~edited /\ UNCHANGED edited /\ ((\E f \in File : Change(f)) \/ Keep \/ Restore)
  \/ edited'

Spec == Init /\ [][Next]_vars
=============================================================================
