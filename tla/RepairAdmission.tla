--------------------------- MODULE RepairAdmission ---------------------------
(* What the handoff of amq wake repair promises, without its frames: a child *)
(* either starts to serve after the parent committed the repair, in the      *)
(* directories the dead wake served, or never serves at all; and a repair    *)
(* that was reported as failed never turns into a serving child.             *)
VARIABLES
  phase,     \* of the child: "open", "committed", "serving" or "gone"
  verdict,   \* of the parent: "none", "repaired" or "failed"
  inPlace    \* the canonical directories are the ones of the dead wake

Init ==
  phase = "open" /\ verdict = "none" /\ inPlace = TRUE

\* Directories are replaced, or moved back, by others.
Move ==
  inPlace' \in BOOLEAN /\ UNCHANGED <<phase, verdict>>

Commit ==
  /\ phase = "open" /\ verdict = "none"
  /\ phase' = "committed" /\ verdict' = "repaired"
  /\ UNCHANGED inPlace

\* The parent gives up before it committed.
Fail ==
  verdict = "none" /\ verdict' = "failed" /\ UNCHANGED <<phase, inPlace>>

Serve ==
  /\ phase = "committed" /\ inPlace
  /\ phase' = "serving"
  /\ UNCHANGED <<verdict, inPlace>>

Go ==
  phase # "gone" /\ phase' = "gone" /\ UNCHANGED <<verdict, inPlace>>

Next == Move \/ Commit \/ Fail \/ Serve \/ Go

Spec == Init /\ [][Next]_<<phase, verdict, inPlace>>
=============================================================================
