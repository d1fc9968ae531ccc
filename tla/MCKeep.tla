------------------------------- MODULE MCKeep -------------------------------
(* Small instances of keepalive and of routing.  A behaviour belongs to one  *)
(* part; the other part's variables do not change.  In a third part the      *)
(* terminal's context changes twice, such as by amq env and by hand, and     *)
(* nothing is sent: what commands would do in it is what is checked.         *)
EXTENDS KeepCommands, Routing, TLC

CONSTANTS A, B, main, side, Legacy

VARIABLE part

\* Two projects that know each other; B's base has a name of its own.
MCPresent ==
  {RootAt(A, Base), RootAt(A, main), RootAt(A, side), RootAt(A, Legacy),
   RootAt(B, Base), RootAt(B, main), RootAt(B, Legacy)}

Rc(present, root, peers) == [present |-> present, root |-> root, peers |-> peers]

Setup(rcA, rcB, global, fallback) ==
  [rc |-> (A :> rcA) @@ (B :> rcB), machine |-> [global |-> global, home |-> fallback]]

\* Both projects configured; B only through ~/.amqrc; B's .amqrc naming A's
\* base and A's none.
MCSetups ==
  {Setup(Rc(TRUE, RootAt(A, Base), {B}), Rc(TRUE, RootAt(B, Base), {A}), Unset, Unset),
   Setup(Rc(TRUE, RootAt(A, Base), {B}), Rc(FALSE, Unset, {}), Unset, RootAt(B, Base)),
   Setup(Rc(TRUE, Unset, {B}), Rc(TRUE, RootAt(A, Base), {A}), RootAt(B, Base), Unset)}

MCScopes ==
  {[moves |-> 1, edits |-> 1, replies |-> 0], [moves |-> 1, edits |-> 0, replies |-> 1],
   [moves |-> 0, edits |-> 0, replies |-> 2], [moves |-> 2, edits |-> 0, replies |-> 0]}

\* No terminal, no row: keepalive does not run.
NoKeepalive == KeepaliveInit /\ rows = {} /\ tree = [x \in Surfaces |-> NoSurface] /\ busy = {}

\* No command is typed: routing does not run.
NoRouting ==
  /\ dirs = Unset /\ rc = Unset /\ machine = Unset /\ boxes = Unset /\ shell = Unset
  /\ config = Unset /\ mail = <<>> /\ pending = [verb |-> "off"] /\ scope = Unset

\* Directories and rosters are edited, and contexts changed twice, where both
\* projects are configured.
EditsKept == scope.edits > 0 \/ scope.moves > 1 => machine.home = Unset /\ machine.global = Unset

KeepInit ==
  \/ part = "keepalive" /\ KeepaliveInit /\ NoRouting
  \/ part = "routing" /\ RoutingInit /\ NoKeepalive /\ EditsKept /\ scope.moves < 2
  \/ part = "terminal" /\ RoutingInit /\ NoKeepalive /\ EditsKept /\ scope.moves = 2

KeepNext ==
  \/ part = "keepalive" /\ KeepaliveNext /\ UNCHANGED <<routingVars, part>>
  \/ part = "routing" /\ RoutingNext /\ UNCHANGED <<keepVars, part>>
  \/ part = "terminal" /\ Move /\ UNCHANGED <<keepVars, part>>

KeepSpec == KeepInit /\ [][KeepNext]_<<keepVars, routingVars, part>>

Alike ==
  Permutations(Handles) \cup Permutations(Surfaces) \cup Permutations(Ttys)
    \cup Permutations(Keepers)
=============================================================================
