----------------------------- MODULE WakeRepair -----------------------------
(* amq wake repair: the parent removes a dead (or unidentifiable) generic    *)
(* claim, starts a child over a private handoff, and admits it only after    *)
(* the child's claim, target and floor prove to continue the dead one.  The  *)
(* handoff runs prepared -> admit -> ack -> release; the release commits,    *)
(* and a close before it ends the child.  repairWake in wake_unix.go,        *)
(* wake_repair_handoff_unix.go, wake_repair_floor_unix.go.                   *)
EXTENDS WakeOwner

Child(p) == mem[p].child

\* validateWakeRepairFloor: the floor of this very claim.
FloorMatches(l) ==
  floor # None /\ floor.gen = l.by /\ floor.digest = l.digest

\* A claim that is proven dead, or an ownerless one that cannot be identified.
RepairEligible ==
  Status \in {"stale", "unverified"} /\ ClaimClass = "generic"

ReconcileRepair(p) ==
  /\ RepairEligible
  /\ Reconcile(p, "repair")

\* The target and the floor of the claim are there and belong to it.
LineageReadable ==
  /\ Selected(lock) /\ TargetMatches(lock) /\ target.owner = None
  /\ FloorMatches(lock)

\* newWakeRepairHandoffSource: what the parent captures of the dead claim.
Lineage(p) ==
  [mem[p] EXCEPT !.seen = lock, !.tgt = target, !.fl = floor]

\* The first guarded section of repairWake: the lineage is captured, then the
\* claim is removed.
PrepareRepair(p) ==
  /\ Held(p, "repair")
  /\ RepairEligible => ~NeedsReconcile(lock)
  /\ IF RepairEligible /\ LineageReadable
     THEN Remember(p, Lineage(p)) /\ lock' = None /\ Out(p, "spawn")
     ELSE Out(p, "exit") /\ UNCHANGED <<mem, lock>>
  /\ UNCHANGED <<world, target, state, prepared, floor, ready, hand>>

\* startWakeFromTarget: the child inherits the target and the lineage.
Spawn(p, c) ==
  /\ pc[p] = "spawn"
  /\ pc[c] = "idle" /\ role[c].kind = "child"
  /\ pc' = [pc EXCEPT ![p] = "watch", ![c] = "acquire"]
  /\ mem' = [mem EXCEPT ![p].child = c, ![c].tgt = mem[p].tgt, ![c].fl = mem[p].fl]
  /\ hand' = [hand EXCEPT ![c] = "open"]
  /\ UNCHANGED <<world, guard, files, ready>>

\* The process could not be started.
SpawnFails(p) ==
  /\ pc[p] = "spawn"
  /\ Go(p, "exit")
  /\ UNCHANGED <<world, mem, guard, files, ready, hand>>

\* The parent waits for the prepared tuple, the child's exit or the deadline.
Watch(p) ==
  /\ pc[p] = "watch"
  /\ Go(p, IF hand[Child(p)] = "prepared" THEN "winner" ELSE "stop")
  /\ UNCHANGED <<world, mem, guard, files, ready, hand>>

\* sameWakeRepairSuppression: the same baseline is suppressed.
SameSuppression(f, g) == f.base = g.base

\* validatePreparedRepairWakeWinnerInDir.
WinnerHolds(p) ==
  /\ Status = "valid" /\ lock.by = Child(p) /\ lock.src = mem[p].seen.by
  /\ TargetMatches(lock) /\ Digest(target) = Digest(mem[p].tgt)
  /\ FloorMatches(lock) /\ floor.src = mem[p].seen.by
  /\ SameSuppression(floor, mem[p].fl)

Admission(p) ==
  /\ Held(p, "winner")
  /\ IF WinnerHolds(p)
     THEN Out(p, "admitting") /\ hand' = [hand EXCEPT ![Child(p)] = "admit"]
     ELSE Out(p, "stop") /\ UNCHANGED hand
  /\ UNCHANGED <<world, mem, files, ready>>

\* The child answers once its watcher is healthy and its directories are the
\* canonical ones (validateWakeRepairChildAdmission), or fails.
Acknowledge(c) ==
  /\ pc[c] = "offer" /\ hand[c] = "admit"
  /\ hand' = [hand EXCEPT ![c] = "ack"]
  /\ UNCHANGED <<world, pc, mem, guard, files, ready>>

AwaitAck(p) ==
  /\ pc[p] = "admitting"
  /\ Go(p, IF hand[Child(p)] = "ack" THEN "final" ELSE "stop")
  /\ UNCHANGED <<world, mem, guard, files, ready, hand>>

\* After the acknowledgement everything is validated once more; the release
\* commits the repair.
Release(p) ==
  /\ Held(p, "final")
  /\ IF WinnerHolds(p)
     THEN Out(p, "exit") /\ hand' = [hand EXCEPT ![Child(p)] = "release"]
     ELSE Out(p, "stop") /\ UNCHANGED hand
  /\ UNCHANGED <<world, mem, files, ready>>

Released(c) ==
  /\ pc[c] = "offer" /\ hand[c] = "release"
  /\ Go(c, "serving")
  /\ UNCHANGED <<world, mem, guard, files, ready, hand>>

\* The handoff closes: the parent closed it or died, or the child failed.
HandoffLost(c) ==
  /\ pc[c] = "offer" /\ hand[c] # "release"
  /\ \/ hand[c] = "closed"
     \/ \A p \in Procs : Alive(p) => Child(p) # c
     \/ hand[c] = "admit"
  /\ Go(c, "cleanup")
  /\ UNCHANGED <<world, mem, guard, files, ready, hand>>

-----------------------------------------------------------------------------
(* cleanupFailedWakeRepairChild *)

\* Stop the child and close the handoff before waiting for the exit.
StopChild(p) ==
  /\ pc[p] = "stop"
  /\ term' = term \cup {Child(p)}
  /\ hand' = [hand EXCEPT ![Child(p)] = "closed"]
  /\ Go(p, "waitexit")
  /\ UNCHANGED <<role, ownerUp, mem, guard, files, ready>>

\* Without proof of the exit the claim and the floor stay.
ChildExit(p) ==
  /\ pc[p] = "waitexit"
  /\ Go(p, IF Alive(Child(p)) THEN "exit" ELSE "rollback")
  /\ UNCHANGED <<world, mem, guard, files, ready, hand>>

ReconcileRollback(p) ==
  /\ lock # None /\ lock.by = Child(p)
  /\ Reconcile(p, "rollback")

\* The exact claim of the child, and then its floor.
Rollback(p) ==
  /\ Held(p, "rollback")
  /\ IF lock # None /\ lock.whole /\ lock.by = Child(p) /\ lock.src = mem[p].seen.by
     THEN /\ ~NeedsReconcile(lock)
          /\ IF Selected(lock)
             THEN lock' = None /\ Go(p, "rollfloor") /\ UNCHANGED guard
             ELSE Out(p, "exit") /\ UNCHANGED lock
     ELSE Out(p, "exit") /\ UNCHANGED lock
  /\ UNCHANGED <<world, mem, target, state, prepared, floor, ready, hand>>

\* removeWakeRepairFloorIfGenerationGuardedAt, by the authority of the tuple.
RollbackFloor(p) ==
  /\ Held(p, "rollfloor")
  /\ floor' = IF floor # None /\ floor.gen = Child(p) THEN None ELSE floor
  /\ Out(p, "exit")
  /\ UNCHANGED <<world, mem, lock, target, state, prepared, ready, hand>>

RepairStep(p) ==
  \/ ReconcileRepair(p) \/ PrepareRepair(p) \/ (\E c \in Procs : Spawn(p, c))
  \/ SpawnFails(p) \/ Watch(p) \/ Admission(p) \/ Acknowledge(p) \/ AwaitAck(p)
  \/ Release(p) \/ Released(p) \/ HandoffLost(p)
  \/ StopChild(p) \/ ChildExit(p)
  \/ ReconcileRollback(p) \/ Rollback(p) \/ RollbackFloor(p)
=============================================================================
