----------------------------- MODULE LaunchPlan -----------------------------
(***************************************************************************)
(* What Prepare makes of what it observes (internal/launch/prepare.go): the *)
(* backend, the state of the binding, the plan of the participant that is   *)
(* to run, the actions that need a decision, the outcome, and the subject   *)
(* that a caller approves.                                                  *)
(*                                                                          *)
(* An observation o has fields                                              *)
(*   base, sess  the base directory exists; the session directory           *)
(*   roster      what inspectPrepareRoster lists                            *)
(*   kind  "none" (nothing runs), "legacy" (subject schema 1), "runs", or   *)
(*         "placed" (runs, with a placement only tmux supports)             *)
(*   conv  the conversation record: "none" or its state                     *)
(*   host  this host's identity,   up  what each backend's Detect finds:    *)
(*         "yes", "old" (there, but not supported) or "no"                  *)
(*   bind  the binding,   trust  the plan's trust digest is stored          *)
(*   input the initial input is supported,   exe  the executable's identity *)
(***************************************************************************)
EXTENDS Sequences, Naturals, FiniteSets

CONSTANT Nil

Conversations == {"none", "ready", "pending", "stale"}
Unbound == [gen |-> 0, via |-> Nil, host |-> Nil]
AllUp == [tmux |-> "yes", ghostty |-> "yes"]

\* loadPreparePreferences: the order of launch.local.json.
Preference == <<"tmux", "ghostty">>

\* TmuxBackend.Detect and GhosttyBackend.Detect: an unsupported tmux has no
\* identity, an unsupported Ghostty has one.
DetectTmux(found) == [available |-> found = "yes", identified |-> found = "yes"]
DetectGhostty(found) == [available |-> found = "yes", identified |-> found \in {"yes", "old"}]
NotDetected == [available |-> FALSE, identified |-> FALSE]
Detect(o, b) ==
    CASE b = "tmux" -> DetectTmux(o.up.tmux)
      [] b = "ghostty" -> DetectGhostty(o.up.ghostty)
      [] OTHER -> NotDetected

FirstAvailable(o) ==
    LET good == {i \in DOMAIN Preference : Detect(o, Preference[i]).available}
    IN  IF good = {} THEN "auto" ELSE Preference[CHOOSE i \in good : \A j \in good : i <= j]

\* A request for any backend follows the binding before it looks around.
SelectBackend(o) == IF o.bind.gen # 0 THEN o.bind.via ELSE FirstAvailable(o)
Available(o) == Detect(o, SelectBackend(o)).available

BindingForeign(o) == ~Detect(o, o.bind.via).identified \/ o.bind.host # o.host

InspectBinding(o) ==
    CASE o.bind.gen = 0 -> "absent"
      [] o.bind.gen # 0 /\ BindingForeign(o) -> "foreign"
      [] o.bind.gen # 0 /\ ~BindingForeign(o) /\ ~Detect(o, o.bind.via).available -> "backend_unavailable"
      [] OTHER -> "inspected"

RebindActions(o) ==
    IF o.bind.gen # 0 /\ (BindingForeign(o) \/ o.bind.via # SelectBackend(o))
    THEN {"rebind_confirmation"} ELSE {}

PlacementUnsupported(o) == o.kind = "placed" /\ SelectBackend(o) # "tmux"

Runnable(o) == o.kind # "none"
InitialInputUnsupported(o) == Runnable(o) /\ ~o.input

\* prepareOneParticipant, for the participant that runs.
PlannedOutcome(o) ==
    CASE ~Runnable(o) -> "participant_only"
      [] Runnable(o) /\ (PlacementUnsupported(o) \/ ~o.input) -> "unsupported"
      [] Runnable(o) /\ ~PlacementUnsupported(o) /\ o.input /\ o.conv = "ready" -> "resume"
      [] Runnable(o) /\ ~PlacementUnsupported(o) /\ o.input /\ o.conv = "pending" -> "capture_pending"
      [] OTHER -> "fresh"

StaleActions(o) ==
    IF Runnable(o) /\ o.input /\ o.conv \in {"pending", "stale"} THEN {"stale_conversation"} ELSE {}

TrustActions(o) ==
    IF Available(o) /\ PlannedOutcome(o) \in {"resume", "fresh"} /\ ~o.trust
    THEN {"trust_confirmation"} ELSE {}

RequiredActions(o) ==
    IF PlacementUnsupported(o) THEN {} ELSE StaleActions(o) \cup RebindActions(o) \cup TrustActions(o)

PrepareOutcome(o) ==
    CASE PlacementUnsupported(o) \/ InitialInputUnsupported(o) -> "unsupported"
      [] ~PlacementUnsupported(o) /\ ~InitialInputUnsupported(o) /\ RequiredActions(o) # {} -> "action_required"
      [] ~PlacementUnsupported(o) /\ ~InitialInputUnsupported(o) /\ RequiredActions(o) = {}
            /\ ~Available(o) -> "unsupported"
      [] ~PlacementUnsupported(o) /\ ~InitialInputUnsupported(o) /\ RequiredActions(o) = {} /\ Available(o)
            /\ InspectBinding(o) = "backend_unavailable" -> "action_required"
      [] OTHER -> "ready"

\* What the digest of a subject covers; the executable since schema 2.
SubjectDigest(o) ==
    [base |-> o.base, sess |-> o.sess, roster |-> o.roster, bind |-> o.bind, conv |-> o.conv,
     backend |-> SelectBackend(o), detection |-> Detect(o, SelectBackend(o)), inspection |-> InspectBinding(o),
     host |-> IF Detect(o, SelectBackend(o)).identified THEN o.host ELSE Nil,
     actions |-> RequiredActions(o), planned |-> PlannedOutcome(o),
     exe |-> IF o.kind \in {"runs", "placed"} THEN o.exe ELSE Nil]

-----------------------------------------------------------------------------
(* Apply's answer to a subject. *)

\* validateApplyDecisions: one decision for every action, and none declines.
DecisionsRefused(o, given) ==
    CASE given.actions # RequiredActions(o) -> "decisions_incomplete"
      [] given.actions = RequiredActions(o) /\ given.actions # {} /\ given.choice = "abort" -> "decision_declined"
      [] OTHER -> Nil

\* Mutant: the decisions are checked, the subject is not.
SameSubjectAlways(seen, approved) == TRUE

SameSubject(seen, approved) == SubjectDigest(seen) = SubjectDigest(approved)

\* authorizeApply: why the observation made under the authority is refused.
Refusal(o, approved, given) ==
    CASE o.kind = "legacy" -> "reprepare_required"
      [] o.kind # "legacy" /\ ~SameSubject(o, approved) -> "subject_changed"
      [] o.kind # "legacy" /\ SameSubject(o, approved) /\ PrepareOutcome(o) = "unsupported" -> "unsupported"
      [] o.kind # "legacy" /\ SameSubject(o, approved)
            /\ PrepareOutcome(o) = "action_required" /\ RequiredActions(o) = {} ->
             "prepare_action_required_without_decision"
      [] OTHER -> DecisionsRefused(o, given)

-----------------------------------------------------------------------------
(***************************************************************************)
(* The layout of a session directory (internal/fsq/layout.go and            *)
(* delivery_root.go): its configured roster, the state of each mailbox, the *)
(* inventory an inspection makes of both, and what a repair may create.     *)
(*                                                                          *)
(* A mailbox is "missing", "partial" (some of its directories are there),   *)
(* "whole", or "unsafe" (a symlink, a file or a permissive mode stands in   *)
(* the place of a directory).                                               *)
(***************************************************************************)

CONSTANT Agents

NoTree == [cfg |-> Nil, box |-> [h \in Agents |-> "missing"], bind |-> Unbound, journal |-> 0]

\* EnsureRootDirs, the roster file and EnsureAgentDirs for every handle.
InitializedTree(handles) ==
    [NoTree EXCEPT !.cfg = handles, !.box = [h \in Agents |-> IF h \in handles THEN "whole" ELSE "missing"]]

Discovered(t) == {h \in Agents : t.box[h] # "missing"}
Configured(t) == IF t.cfg = Nil THEN {} ELSE t.cfg

\* discoveredApplyRoster, which refuses an entry that is not a plain directory.
UnsafeEntry(t) == \E h \in Agents : t.box[h] = "unsafe"
DiscoveredRoster(t, wanted) == wanted \cup Discovered(t)

Provenance(t, h) ==
    CASE h \in Configured(t) /\ h \in Discovered(t) -> "configured_and_discovered"
      [] h \in Configured(t) /\ h \notin Discovered(t) -> "configured"
      [] OTHER -> "discovered"

Severity(provenance) == IF provenance = "discovered" THEN "warn" ELSE "error"

Repairable(state) == state \in {"missing", "partial"}

InspectOne(t, h) ==
    [status |-> IF t.box[h] = "whole" THEN "ok" ELSE Severity(Provenance(t, h)),
     eligible |-> h \in Configured(t) /\ Repairable(t.box[h])]

\* The inventory lists what is configured and what is on disk.
Inventory(t) == [h \in Configured(t) \cup Discovered(t) |-> InspectOne(t, h)]

\* inspectPrepareRoster: what a launch sees of the roster it wants.
SelectedRoster(t, wanted) ==
    LET listed == Inventory(t)
    IN  [present |-> {h \in wanted \cap DOMAIN listed : listed[h].status = "ok"},
         missing |-> {h \in wanted : h \in DOMAIN listed => listed[h].status # "ok"},
         extra   |-> DOMAIN listed \ wanted]

\* A repair is refused as a whole before it creates anything.
PreflightHazard(t, handles) == \E h \in handles : t.box[h] = "unsafe"

\* Parents before children: a directory that was missing is created, one that
\* was there is reopened, and one that changed since the plan stops the repair.
RepairMailbox(t, h) == [t EXCEPT !.box[h] = "whole"]
RepairBegun(t, h) == [t EXCEPT !.box[h] = "partial"]
ChangedSince(plan, t, h) == t.box[h] # plan.box[h]
=============================================================================
