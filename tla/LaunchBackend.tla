--------------------------- MODULE LaunchBackend ---------------------------
(***************************************************************************)
(* The terminal backends: tmux (a session of its own, a new window, panes  *)
(* in the launcher's window), cmux workspaces, Ghostty windows, and the    *)
(* commands backend that only prints.                                      *)
(*                                                                         *)
(* A pane is a record: k its identity, kind the layout kind that opened    *)
(* it, box the session, window or workspace it lives in, gen the           *)
(* generation that box carries, h the handle, nonce the generation its     *)
(* wrapper was started with, mark the generation stamped on the pane (None *)
(* until markPane), proc what runs in it, note its Codex notifier, id the  *)
(* conversation its agent was started with.  The launcher pane of the      *)
(* current_window placement belongs to the user and has no handle.         *)
(***************************************************************************)
EXTENDS LaunchStore

LauncherPane == MaxPanes + 1
Launcher == [k |-> LauncherPane, kind |-> "launcher", box |-> LauncherPane, gen |-> None,
             h |-> 0, nonce |-> None, mark |-> None, proc |-> "user", note |-> "none",
             id |-> None]
LauncherThere == \E x \in layout : x.kind = "launcher"

Box(b) == {x \in layout : x.box = b}
Ids(xs) == {<<x.h, x.k>> : x \in xs}
BoundHandles(b) == {s[1] : s \in b.panes}
\* createdBinding stamps a tmux binding with the server's epoch; a binding
\* that Reclaim builds has none.
Binding(n, kind, box, panes, epoch) ==
  [nonce |-> n, kind |-> kind, box |-> box, panes |-> panes, epoch |-> epoch]
AnyBox(xs) == (CHOOSE x \in xs : TRUE).box
\* tmuxAgentInventoryIssues and its siblings: one pane for each handle of the
\* plan and no other.
Complete(xs, plan) == {x.h : x \in xs} = plan /\ Cardinality(xs) = Cardinality(plan)

(***************************************************************************)
(* The tmux session of this project and session name.                      *)
(***************************************************************************)
\* hasSession, sessionNonce (the environment of the session, set when its
\* first window was made), liveResources (the marked panes; what list-windows
\* adds when no pane of the session is marked is left out).
Session == {x \in layout : x.kind \in SessionKinds}
sessionNonce == (CHOOSE x \in Session : \A y \in Session : x.k <= y.k).gen
liveResources == {x \in Session : x.mark # None}

(***************************************************************************)
(* Inspect: is the layout of a binding there?                              *)
(***************************************************************************)
InspectSession(b) ==
  CASE Session = {} -> "absent"
    [] Session # {} /\ sessionNonce = b.nonce /\ Ids(liveResources) = b.panes
         /\ \A x \in Session : x.box = b.box -> "present"
    [] OTHER -> "unknown"

\* tmuxWindowInventoryStatus.
WindowInventory(live, owned, extras) ==
  CASE live \subseteq owned \cup extras /\ owned \subseteq live -> "present"
    [] live \subseteq owned \cup extras /\ owned # {} /\ owned \cap live = {} -> "absent"
    [] OTHER -> "unknown"
\* inspectOwnedLayout: an owned window, or the window of the launcher pane.
InspectWindow(b) ==
  IF Box(b.box) = {} THEN "absent" ELSE WindowInventory(Ids(Box(b.box)), b.panes, {})
InspectCurrent(b) ==
  IF LauncherThere THEN WindowInventory(Ids(Box(b.box)), b.panes, Ids({Launcher}))
  ELSE IF Box(b.box) \cap {x \in layout : <<x.h, x.k>> \in b.panes} = {} THEN "absent"
  ELSE "unknown"

InspectCmux(b) ==
  IF Box(b.box) = {} THEN "absent"
  ELSE IF Ids(Box(b.box)) = b.panes THEN "present" ELSE "unknown"
InspectGhostty(b) ==
  IF Box(b.box) = {} THEN "absent"
  ELSE IF Ids(Box(b.box)) = b.panes THEN "present" ELSE "unknown"

Inspect(b) ==
  CASE b.kind \in SessionKinds -> InspectSession(b)
    [] b.kind = "window"  -> InspectWindow(b)
    [] b.kind = "current" -> InspectCurrent(b)
    [] b.kind = "cmux"    -> InspectCmux(b)
    [] b.kind = "ghostty" -> InspectGhostty(b)

(***************************************************************************)
(* Reclaim: what became of a journaled Create?                             *)
(***************************************************************************)
Found(status) == [status |-> status, bind |-> None]
Adoptable(b) == [status |-> "adoptable", bind |-> b]

ReclaimSession(j) ==
  IF Session = {} THEN Found("absent")
  ELSE IF sessionNonce # j.nonce THEN Found("foreign")
  ELSE IF Complete(liveResources, j.plan)
       THEN Adoptable(Binding(j.nonce, j.kind, AnyBox(liveResources), Ids(liveResources), FALSE))
       ELSE Found("incomplete")

\* adoptOwnedLayout.
adoptOwnedLayout(j, own) ==
  IF Complete(own, j.plan)
  THEN Adoptable(Binding(j.nonce, j.kind, AnyBox(own), Ids(own), FALSE))
  ELSE Found("incomplete")
Marked(n) == {x \in layout : x.kind \in TmuxKinds /\ x.mark = n}
windowsWithNonce(n) == {x.box : x \in {y \in layout : y.kind = "window" /\ y.gen = n}}
\* reclaimOwnedLayout, new_window: only windows that carry the generation's
\* mark are seen.
ReclaimWindow(j) ==
  LET own == Marked(j.nonce)
      wins == windowsWithNonce(j.nonce)
  IN IF wins = {} THEN Found(IF own = {} THEN "absent" ELSE "incomplete")
     ELSE IF Cardinality(wins) = 1
             /\ \A w \in wins : WindowInventory(Ids(Box(w)), Ids(own), {}) = "present"
          THEN adoptOwnedLayout(j, own) ELSE Found("incomplete")
\* reclaimOwnedLayout, current_window: only marked panes are seen.
ReclaimCurrent(j) ==
  LET own == Marked(j.nonce) IN
  IF own = {} THEN Found("absent")
  ELSE IF LauncherThere
          /\ WindowInventory(Ids(Box(LauncherPane)), Ids(own), Ids({Launcher})) = "present"
       THEN adoptOwnedLayout(j, own) ELSE Found("incomplete")

\* The workspace name carries the generation; before the journal says created
\* a workspace of that name is never adopted.
ReclaimCmux(j) ==
  LET own == {x \in layout : x.kind = "cmux" /\ x.gen = j.nonce}
      boxes == {x.box : x \in own}
  IN IF own = {} THEN Found("absent")
     ELSE IF j.phase = "intent" THEN Found("foreign")
     ELSE IF Cardinality(boxes) > 1 THEN Found("unknown")
     ELSE IF Complete(own, j.plan)
          THEN Adoptable(Binding(j.nonce, j.kind, AnyBox(own), Ids(own), FALSE))
          ELSE Found("incomplete")

\* Mutant: with no journaled terminal the window is taken to be gone.
ReclaimGhosttyGuesses(j) ==
  LET want == IF j.bind # None THEN j.bind ELSE j.cand
  IN IF want = None THEN Found("absent")
     ELSE IF Box(want.box) = {} THEN Found("absent")
     ELSE IF Ids(Box(want.box)) = want.panes THEN Adoptable(want) ELSE Found("incomplete")
\* Ghostty has no marks: only journaled terminals can be classified.
ReclaimGhostty(j) ==
  LET want == IF j.bind # None THEN j.bind ELSE j.cand
  IN IF want = None THEN Found("unknown")
     ELSE IF Box(want.box) = {} THEN Found("absent")
     ELSE IF Ids(Box(want.box)) = want.panes THEN Adoptable(want) ELSE Found("incomplete")

Reclaim(j) ==
  CASE j.kind \in SessionKinds -> ReclaimSession(j)
    [] j.kind = "window"  -> ReclaimWindow(j)
    [] j.kind = "current" -> ReclaimCurrent(j)
    [] j.kind = "cmux"    -> ReclaimCmux(j)
    [] j.kind = "ghostty" -> ReclaimGhostty(j)

(***************************************************************************)
(* Opening, marking and closing panes.                                     *)
(***************************************************************************)
\* A pane opened by generation n in box (0: a box of its own) of generation
\* gen; tmux starts the wrapper at once, cmux and Ghostty start a shell.
Open(kind, h, n, gen, box) ==
  /\ made < MaxPanes
  /\ made' = made + 1
  /\ layout' = layout \cup
       {[k |-> made + 1, kind |-> kind, box |-> IF box = 0 THEN made + 1 ELSE box, h |-> h,
         nonce |-> n, gen |-> gen, mark |-> None, note |-> "none", id |-> None,
         proc |-> IF kind \in {"cmux", "ghostty"} THEN "new" ELSE "wrapper"]}

SetPane(x, y) == layout' = (layout \ {x}) \cup {y}
markPane(x, n) == SetPane(x, [x EXCEPT !.mark = n])
markOwnedWindow(x, n) == SetPane(x, [x EXCEPT !.gen = n])

\* tmux Close: authorizedOwnedPanes and killAuthorizedPanes, one pane at a
\* time, only panes that carry the binding's mark.
authorizedOwnedPanes(b) == {x \in layout : <<x.h, x.k>> \in b.panes /\ x.mark = b.nonce}
CloseTmux(b) == \E x \in authorizedOwnedPanes(b) : layout' = layout \ {x}
CloseCmux(b) == \E x \in layout : <<x.h, x.k>> \in b.panes /\ layout' = layout \ {x}
CloseGhostty(b) == \E x \in layout : <<x.h, x.k>> \in b.panes /\ layout' = layout \ {x}
CloseOne(b) ==
  CASE Backend(b.kind) = "tmux"    -> CloseTmux(b)
    [] Backend(b.kind) = "cmux"    -> CloseCmux(b)
    [] OTHER                       -> CloseGhostty(b)
Closed(b) == {x \in layout : <<x.h, x.k>> \in b.panes} = {}

\* The names a backend refuses to create twice.
NameTaken(kind, n) ==
  CASE kind \in SessionKinds -> Session # {}
    [] kind = "cmux"         -> \E x \in layout : x.kind = "cmux" /\ x.gen = n
    [] OTHER -> FALSE
=============================================================================
