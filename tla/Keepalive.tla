----------------------------- MODULE Keepalive -----------------------------
(***************************************************************************)
(* The keepalive commands: attach, reattach, the supervisor pass, gc,      *)
(* forget and retire-session.  Each runs from beginning to end under the   *)
(* registration lease, a file lock the system releases when its holder     *)
(* dies; between its steps terminals come and go, wakes die, and children  *)
(* started earlier, whose readiness nobody awaits any more, come up.  amq  *)
(* itself is external: one wake per agent, accepted when its target is the *)
(* requested one and refused otherwise.                                    *)
(*                                                                         *)
(* Time is not modelled: a row that waits for its next check may or may    *)
(* not be due, a detached row may or may not be old enough.                *)
(***************************************************************************)
EXTENDS KeepTerminal, Naturals

CONSTANTS Keepers,      \* keepalive processes
          NoKeeper, NoWake, NoGen, NoRow,
          MaxMoves,     \* bound: changes of the terminals
          MaxBorn,      \* bound: wakes started
          MaxJobs       \* bound: commands run

ASSUME KeeperAssumption == NoKeeper \notin Keepers

VARIABLES rows,       \* the registry file
          wake,       \* wake[a]: NoWake or [target, gen]
          children,   \* spawned wakes not yet ready: [agent, target, of, late]
          lease,      \* the holder of the registration lease
          job,        \* job[k]: the command keeper k runs
          moves, born, jobs

keepVars == <<tree, busy, rows, wake, children, lease, job, moves, born, jobs>>

NoAnswer == [s \in Surfaces |-> [v |-> "error", key |-> NoKey]]
NoRecord == [s \in Surfaces |-> NoKey]
Nothing ==
  [op |-> "none", step |-> "idle", then |-> "idle", row |-> NoRow, prev |-> {},
   noStart |-> FALSE, retireDetached |-> FALSE, phase |-> "plain", gen |-> NoGen,
   child |-> "none", inv |-> NoAnswer, tr |-> NoRow, status |-> NoRow, todo |-> {},
   seen |-> {}, updates |-> {}, proven |-> {}]

KeepaliveInit ==
  /\ TerminalInit
  /\ \/ rows = {} /\ wake = [a \in Handles |-> NoWake]
     \/ \E a \in Handles, s \in {x \in Surfaces : InTree(tree, x)} :
          /\ rows = {[FreshRow(a, s, tree[s].tty) EXCEPT !.state = "active", !.waits = TRUE]}
          /\ \/ wake = [x \in Handles |-> NoWake]
             \/ wake = [x \in Handles |-> IF x = a THEN [target |-> s, gen |-> 0] ELSE NoWake]
  /\ children = {}
  /\ lease = NoKeeper
  /\ job = [k \in Keepers |-> Nothing]
  /\ moves = 0
  /\ born = 0
  /\ jobs = 0

At(k, op, step) == job[k].op = op /\ job[k].step = step
LeaseFree == lease = NoKeeper

MayEnter(k) == job[k].op = "none" /\ LeaseFree /\ jobs < MaxJobs
Enter(k, j) ==
  /\ MayEnter(k)
  /\ jobs' = jobs + 1
  /\ lease' = k
  /\ job' = [job EXCEPT ![k] = j]
\* The command returns: its lease is released with it.
Leave(k) ==
  /\ job' = [job EXCEPT ![k] = Nothing]
  /\ lease' = NoKeeper
  /\ UNCHANGED jobs
Go(k, j) ==
  /\ job' = [job EXCEPT ![k] = j]
  /\ UNCHANGED <<lease, jobs>>

\* Children whose row a command removes while their start is in doubt.
Orphaned(next) ==
  {IF HasEntry(rows, c) /\ ~HasEntry(next, c) THEN [c EXCEPT !.late = TRUE] ELSE c :
     c \in children}

-----------------------------------------------------------------------------
(* Outcomes on a row: supervisor.Reconciler.                               *)

MarkActive(r, key) == [r EXCEPT !.state = "active", !.waits = TRUE, !.key = key]
MarkBackoff(r, key) == [r EXCEPT !.state = "attached", !.waits = TRUE, !.key = key]
MarkDetached(r) == [r EXCEPT !.state = "detached", !.waits = TRUE]

-----------------------------------------------------------------------------
(* One inventory of the terminals: a reading, and, when it found dead      *)
(* aliases, a second step that retracts them and reads again.              *)

Recorded(k) ==
  IF job[k].op # "supervise" THEN NoRecord
  ELSE [s \in Surfaces |->
          IF \E r \in job[k].seen : r.target = s
            THEN (CHOOSE r \in job[k].seen : r.target = s).key ELSE NoKey]

Inventoried(k, inv) ==
  [job[k] EXCEPT !.step = job[k].then, !.inv = inv, !.tr = NoRow, !.status = NoRow]

BuildInventory(k) ==
  /\ job[k].step = "inventory"
  /\ \/ Go(k, Inventoried(k, NoAnswer))
     \/ \E blind \in SUBSET {t \in Ttys : Claimants(tree, t) # {}} :
          LET status == ResolveOwners(tree, blind)
          IN IF Evictions(tree, status) = {}
               THEN Go(k, Inventoried(k, Snapshot(tree, status, Recorded(k))))
               ELSE Go(k, [job[k] EXCEPT !.step = "evict", !.tr = tree, !.status = status])
  /\ UNCHANGED <<tree, busy, rows, wake, children, moves, born>>

EvictAliases(k) ==
  /\ job[k].step = "evict"
  /\ LET wanted == Evictions(job[k].tr, job[k].status)
     IN \E done \in SUBSET {e \in wanted : StillEvictable(e)} :
          LET failed == {e[2] : e \in wanted \ done}
              next   == Retract(done)
          IN /\ tree' = next
             /\ IF done = {}
                  THEN Go(k, Inventoried(k, Snapshot(job[k].tr,
                               ForceDegraded(job[k].status, failed), Recorded(k))))
                  ELSE \/ Go(k, Inventoried(k, Snapshot(next,
                               RebuildOwners(next, failed), Recorded(k))))
                       \/ Go(k, Inventoried(k, NoAnswer))
  /\ UNCHANGED <<busy, rows, wake, children, moves, born>>

-----------------------------------------------------------------------------
(* amq, external.                                                          *)

\* amq wake retire: what becomes of the wake, and whether it was confirmed.
RetireOutcomes(a, target, gen) ==
  IF wake[a] = NoWake
    THEN {[wake |-> NoWake, confirmed |-> c] : c \in BOOLEAN}
  ELSE IF wake[a].target = target /\ gen \in {NoGen, wake[a].gen}
    THEN {[wake |-> NoWake, confirmed |-> c] : c \in BOOLEAN}
           \cup {[wake |-> wake[a], confirmed |-> FALSE]}
  ELSE {[wake |-> wake[a], confirmed |-> FALSE]}

\* amq wake check: the generation of a live wake.
ObserveGeneration(a) == IF wake[a] = NoWake THEN NoGen ELSE wake[a].gen

\* The image check before a start: a current image passes, another image is
\* first retired, an unknown one refuses the start.
RefreshOutcomes(a, target) ==
  {[wake |-> wake[a], confirmed |-> c] : c \in BOOLEAN}
    \cup IF wake[a] = NoWake THEN {} ELSE RetireOutcomes(a, target, wake[a].gen)

\* The child a keeper spawns and awaits.
Spawned(k, r) == [agent |-> r.agent, target |-> r.target, of |-> k, late |-> FALSE]
\* Nobody awaits the keeper's child any more; it is never signalled.
LetGo(k) == {IF c.of = k THEN [c EXCEPT !.of = NoKeeper] ELSE c : c \in children}

\* The awaiting keeper learns how its child ended.
Told(c, outcome) ==
  IF c.of = NoKeeper THEN job ELSE [job EXCEPT ![c.of].child = outcome]

\* A spawned wake takes the agent's lock, accepts the wake it finds with its
\* own target, or is refused by another; or it fails on its own.
ChildRuns(c) ==
  /\ c \in children
  /\ children' = children \ {c}
  /\ \/ /\ wake[c.agent] = NoWake /\ born < MaxBorn
        /\ wake' = [wake EXCEPT ![c.agent] = [target |-> c.target, gen |-> born + 1]]
        /\ born' = born + 1
        /\ job' = Told(c, "ready")
     \/ /\ wake[c.agent] # NoWake
        /\ job' = Told(c, IF wake[c.agent].target = c.target THEN "ready" ELSE "exited")
        /\ UNCHANGED <<wake, born>>
     \/ job' = Told(c, "exited") /\ UNCHANGED <<wake, born>>
  /\ UNCHANGED <<tree, busy, rows, lease, moves, jobs>>

WakeDies(a) ==
  /\ wake[a] # NoWake
  /\ wake' = [wake EXCEPT ![a] = NoWake]
  /\ UNCHANGED <<tree, busy, rows, children, lease, job, moves, born, jobs>>

\* Taken only when an inventory is about to read the tree or to retract from
\* it: no other step reads the terminals, so an earlier change can wait.
TerminalMoves ==
  /\ moves < MaxMoves
  /\ \E k \in Keepers : job[k].step \in {"inventory", "evict"}
  /\ moves' = moves + 1
  /\ \/ \E s \in Surfaces, t \in TtyNames : SurfaceOpens(s, t)
     \/ \E s \in Surfaces : SurfaceCloses(s)
     \/ \E t \in Ttys : ProcessExits(t)
  /\ UNCHANGED <<rows, wake, children, lease, job, born, jobs>>
=============================================================================
