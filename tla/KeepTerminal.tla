---------------------------- MODULE KeepTerminal ----------------------------
(***************************************************************************)
(* The keepalive registry: the durable set of rows that says which         *)
(* terminal each agent's wake injects into.  Every operator maps the rows  *)
(* a locked operation read to the rows it saves.  One queue root; a row's  *)
(* id is its agent and target.  A save that renamed the file and then      *)
(* failed to make it durable reports an error over a changed registry.     *)
(***************************************************************************)
EXTENDS FiniteSets

CONSTANTS Handles,      \* agents of the root
          Surfaces,     \* adapter targets
          NoKey         \* no physical identity recorded

\* A registration as the register command builds it; waits: the row carries
\* a NextHealthCheck or a BackoffUntil.
FreshRow(agent, target, key) ==
  [agent |-> agent, target |-> target, key |-> key,
   state |-> "attached", waits |-> FALSE]

\* The immutable identity of a row: its id hashes root, agent and target.
EntryId(r) == <<r.agent, r.target>>
SameRootAgent(r, x) == r.agent = x.agent

\* Another row that holds the candidate's target.
ConflictingTargetOwners(rows, x, ignoreSameAgent) ==
  {r \in rows : /\ EntryId(r) # EntryId(x)
                /\ ~(ignoreSameAgent /\ SameRootAgent(r, x))
                /\ r.target = x.target}
\* Another row of the candidate's agent.
ConflictingRegistrationOwners(rows, x) ==
  {r \in rows : EntryId(r) # EntryId(x) /\ SameRootAgent(r, x)}

CheckTargetAvailable(rows, x) == ConflictingTargetOwners(rows, x, TRUE) = {}

\* What an atomic save leaves, and whether it reported success.
SaveOutcomes(rows, next) ==
  {[rows |-> next, ok |-> TRUE], [rows |-> next, ok |-> FALSE],
   [rows |-> rows, ok |-> FALSE]}

\* attach: insert or overwrite the row of this id, refusing a second row for
\* the agent and a target another agent holds.
MayUpsert(rows, x) ==
  /\ ConflictingRegistrationOwners(rows, x) = {}
  /\ ConflictingTargetOwners(rows, x, FALSE) = {}
Upsert(rows, x) == {r \in rows : EntryId(r) # EntryId(x)} \cup {x}

\* Mutant: reattach replaces only the row it would overwrite.
DisplacedSameId(rows, x) == {r \in rows : EntryId(r) = EntryId(x)}
\* reattach: the row replaces every row of its agent.
Displaced(rows, x) == {r \in rows : SameRootAgent(r, x)}
ReplaceSessionAdapter(rows, x) == (rows \ Displaced(rows, x)) \cup {x}

\* Roll a reservation back to the rows it displaced, while it is still the
\* agent's only row and unchanged.  Targets are not checked again.
MayRestore(rows, reservation) ==
  /\ reservation \in rows
  /\ \A r \in rows : SameRootAgent(r, reservation) => r = reservation
RestoreSessionAdapter(rows, reservation, previous) ==
  (rows \ {reservation}) \cup previous

\* Overwrite the row of this id.
UpdateEntry(rows, x) ==
  {IF EntryId(r) = EntryId(x) THEN x ELSE r : r \in rows}
HasEntry(rows, x) == \E r \in rows : EntryId(r) = EntryId(x)

\* One supervisor pass, saved at once: a row that changed since it was read
\* keeps what it has.  updates: pairs of the row read and the row to write.
UpdateEntries(rows, updates) ==
  {IF \E u \in updates : u[1] = r
     THEN (CHOOSE u \in updates : u[1] = r)[2] ELSE r : r \in rows}

ForgetMany(rows, ids) == {r \in rows : EntryId(r) \notin ids}
ForgetIfUnchanged(rows, expected) == rows \ {expected}

-----------------------------------------------------------------------------
(***************************************************************************)
(* The cmux adapter: which terminal a surface id denotes, as far as one    *)
(* reading of the surface tree and of the kernel can tell.  A surface      *)
(* names a tty; several surfaces may name the same one, because the tree   *)
(* keeps aliases of surfaces whose process is gone.  An inventory resolves *)
(* each tty to one owner, proves it ownerless, or refuses to decide, and   *)
(* retracts the aliases it proves dead.                                    *)
(***************************************************************************)

CONSTANTS Ttys,
          Blank,        \* the tree reports no tty
          Odd,          \* not a terminal, or not a tty name
          Retracted,    \* the sentinel an evicted alias carries
          NoSurface     \* not in the tree

VARIABLES tree,     \* tree[s]: NoSurface, or [tty, dead]
          busy      \* the ttys some live process owns

\* What a reported tty name can denote.
TtyNames == Ttys \cup {Blank, Odd}

InTree(tr, s) == tr[s] # NoSurface
Claims(tr, s, t) == InTree(tr, s) /\ tr[s].tty = t /\ ~tr[s].dead
Claimants(tr, t) == {s \in Surfaces : Claims(tr, s, t)}
\* Aliases the tree itself reports dead.
Corpses(tr) == {s \in Surfaces : InTree(tr, s) /\ tr[s].tty \in Ttys /\ tr[s].dead}

\* Ownership of one tty: its owner, "absent" when the kernel proves it has no
\* process, "degraded" when it cannot be decided.  blind: liveness unavailable.
ResolveClaimants(tr, t, blind) ==
  IF blind THEN "degraded"
  ELSE IF t \notin busy THEN "absent"
  ELSE IF Cardinality(Claimants(tr, t)) = 1 THEN "owned" ELSE "degraded"
\* After an eviction the tree is read again and the kernel is not.
ResolveRebuilt(tr, t) ==
  IF Cardinality(Claimants(tr, t)) = 1 THEN "owned" ELSE "degraded"

\* resolveOwners, over the ttys that have a claimant.
ResolveOwners(tr, blind) ==
  [t \in Ttys |-> IF Claimants(tr, t) = {} THEN "unclaimed"
                  ELSE ResolveClaimants(tr, t, t \in blind)]
RebuildOwners(tr, failed) ==
  [t \in Ttys |-> IF t \in failed THEN "degraded"
                  ELSE IF Claimants(tr, t) = {} THEN "unclaimed"
                  ELSE ResolveRebuilt(tr, t)]
ForceDegraded(status, failed) ==
  [t \in Ttys |-> IF t \in failed THEN "degraded" ELSE status[t]]

\* The aliases to retract, each with the tty it claimed.
Evictions(tr, status) ==
  {<<s, tr[s].tty>> : s \in Corpses(tr)}
    \cup {e \in Surfaces \X Ttys : Claims(tr, e[1], e[2]) /\ status[e[2]] = "absent"}

\* Still the same dead alias, on the fresh tree read just before retracting.
StillEvictable(e) ==
  /\ InTree(tree, e[1]) /\ tree[e[1]].tty = e[2]
  /\ tree[e[1]].dead \/ e[2] \notin busy

\* The tree once the aliases in done carry the sentinel.
Retract(done) ==
  [s \in Surfaces |-> IF \E e \in done : e[1] = s
                        THEN [tree[s] EXCEPT !.tty = Retracted] ELSE tree[s]]

\* What an inventory answers for one surface: ok with its physical key,
\* absent, or degraded with the key it could still establish.
OwnershipKey(tr, status, s) ==
  IF ~InTree(tr, s) \/ tr[s].tty = Retracted THEN [v |-> "absent", key |-> NoKey]
  ELSE IF tr[s].tty = Odd THEN [v |-> "degraded", key |-> NoKey]
  ELSE IF tr[s].tty = Blank THEN [v |-> "ok", key |-> s]
  ELSE IF status[tr[s].tty] = "absent" THEN [v |-> "absent", key |-> NoKey]
  ELSE IF status[tr[s].tty] = "owned" /\ Claims(tr, s, tr[s].tty)
         THEN [v |-> "ok", key |-> tr[s].tty]
  ELSE [v |-> "degraded", key |-> tr[s].tty]

\* A key already recorded for the surface may only gain its tty.
AcceptKey(recorded, key) ==
  recorded \in {NoKey, key} \/ (recorded \in Surfaces /\ key \in Ttys)

Snapshot(tr, status, recorded) ==
  [s \in Surfaces |->
     LET answer == OwnershipKey(tr, status, s)
     IN IF answer.v = "ok" /\ ~AcceptKey(recorded[s], answer.key)
          THEN [v |-> "degraded", key |-> NoKey] ELSE answer]

-----------------------------------------------------------------------------
(* The terminal application and the kernel.                                *)

TerminalInit ==
  /\ tree \in [Surfaces -> {NoSurface} \cup [tty : Ttys, dead : {FALSE}]]
  /\ busy = {t \in Ttys : Claimants(tree, t) # {}}

\* A surface appears or is rebound; its process may still be to come.
SurfaceOpens(s, t) ==
  /\ tree' = [tree EXCEPT ![s] = [tty |-> t, dead |-> FALSE]]
  /\ busy' = busy \cup ({t} \cap Ttys)
SurfaceCloses(s) ==
  /\ InTree(tree, s)
  /\ tree' = [tree EXCEPT ![s] = NoSurface]
  /\ UNCHANGED busy
\* The tty's processes exit and its aliases stay; the tree may report it.
ProcessExits(t) ==
  /\ t \in busy
  /\ busy' = busy \ {t}
  /\ \/ UNCHANGED tree
     \/ tree' = [s \in Surfaces |->
                   IF Claims(tree, s, t) THEN [tree[s] EXCEPT !.dead = TRUE] ELSE tree[s]]
=============================================================================
