----------------------------- MODULE WakeClaim ------------------------------
(* Generic (ownerless) wakes: amq wake with a terminal (raw) or an external  *)
(* injector (via), and the child of a repair.  Acquisition stages the target *)
(* and its projection and commits with the claim; the wake then publishes    *)
(* its repair floor, its preparation marker and its readiness, serves, and   *)
(* cleans up its own generation when it ends.  acquireWakeLockWithOptions    *)
(* and runWakeWithLoop in internal/cli/wake_unix.go.                         *)
EXTENDS Wake

Generic(p) == role[p].kind \in {"raw", "via", "child"}
Targetless(p) == role[p].kind = "raw"

Refuse(p) == Held(p, "acquire") /\ Fail(p)

-----------------------------------------------------------------------------
(* What the acquisition does with the claim it finds *)

\* A repair child must find no claim; an owner's claim and an owner's target
\* are left to recover-owner.
RefuseGeneric(p) ==
  /\ Generic(p)
  /\ \/ role[p].kind = "child" /\ lock # None
     \/ ClaimClass = "authoritative"
     \/ lock # None /\ Bound(lock) /\ target # None /\ target.owner # None
  /\ Refuse(p)

\* quarantineMalformedWakeLockAt, and retry.
QuarantineLock(p) ==
  /\ Held(p, "acquire") /\ Generic(p) /\ role[p].kind # "child"
  /\ Status = "malformed"
  /\ lock' = None
  /\ Out(p, "acquire")
  /\ UNCHANGED <<world, mem, target, state, prepared, floor, ready, hand>>

\* A claim that is being created: only a caller that accepts an existing wake
\* waits for it.
MeetCreating(p) ==
  /\ Held(p, "acquire") /\ Generic(p) /\ role[p].kind # "child"
  /\ Status = "creating"
  /\ Out(p, IF role[p].accept THEN "acquire" ELSE "exit")
  /\ UNCHANGED <<world, mem, files, ready, hand>>

OwnerlessClaim == ClaimClass = "generic" /\ (Bound(lock) => target.owner = None)

ReconcileStale(p) ==
  /\ Generic(p) /\ role[p].kind # "child" /\ Status = "stale" /\ OwnerlessClaim
  /\ Reconcile(p, "acquire")

\* Mutant: a claim whose process runs is removed like a stale one.
RemoveLive(p) ==
  /\ Held(p, "acquire") /\ Generic(p) /\ role[p].kind # "child"
  /\ Status \in {"stale", "valid"} /\ OwnerlessClaim /\ Selected(lock)
  /\ lock' = None
  /\ Go(p, "admit")
  /\ UNCHANGED <<world, mem, guard, target, state, prepared, floor, ready, hand>>

\* A stale claim is removed once its binding validates; without that it is
\* inconclusive, and the caller gives up or looks again.
RemoveStale(p) ==
  /\ Held(p, "acquire") /\ Generic(p) /\ role[p].kind # "child"
  /\ Status = "stale" /\ OwnerlessClaim /\ ~NeedsReconcile(lock)
  /\ IF Selected(lock)
     THEN RemoveClaim /\ Go(p, "admit") /\ UNCHANGED guard
     ELSE /\ Out(p, IF role[p].accept THEN "acquire" ELSE "exit")
          /\ UNCHANGED lock
  /\ UNCHANGED <<world, mem, target, state, prepared, floor, ready, hand>>

\* A live claim is joined, replaced or respected.
MeetValid(p) ==
  /\ Held(p, "acquire") /\ Generic(p) /\ role[p].kind # "child"
  /\ Status = "valid" /\ OwnerlessClaim
  /\ Remember(p, [mem[p] EXCEPT !.seen = lock])
  /\ Out(p, CASE role[p].accept -> IF UsableFor(p, lock) THEN "join" ELSE "exit"
              [] ~role[p].accept /\ Selected(lock) /\ NeedsReplacement(lock) -> "term"
              [] OTHER -> "exit")
  /\ UNCHANGED <<world, files, ready, hand>>

\* supersedeUnverifiedGenericWakeAt: the claim goes, the process is not
\* signalled.  A caller that set refuse-unverified stops here instead.
Supersede(p) ==
  /\ Held(p, "acquire") /\ Generic(p) /\ role[p].kind # "child"
  /\ Status = "unverified" /\ OwnerlessClaim
  /\ IF ~role[p].strict /\ Mutable(lock)
     THEN RemoveClaim /\ Go(p, "admit") /\ UNCHANGED guard
     ELSE Out(p, "exit") /\ UNCHANGED lock
  /\ UNCHANGED <<world, mem, target, state, prepared, floor, ready, hand>>

\* A targetless wake found no claim, but a target.
OrphanInTheWay(p) == Targetless(p) /\ lock = None /\ target # None

\* quarantineWakeTargetAt: an ownerless orphan makes way, and the acquisition
\* starts again.
QuarantineTarget(p) ==
  /\ Held(p, "acquire") /\ OrphanInTheWay(p)
  /\ IF target.owner = None
     THEN target' = None /\ Out(p, "acquire")
     ELSE UNCHANGED target /\ Out(p, "exit")
  /\ UNCHANGED <<world, mem, lock, state, prepared, floor, ready, hand>>

\* validateWakeRepairLineageGuardedAt: the target and the floor are the ones
\* the repair took from the dead generation.
LineageHolds(p) ==
  /\ target # None /\ Digest(target) = Digest(mem[p].tgt)
  /\ floor # None /\ floor = mem[p].fl

\* No claim is left.  An owner's orphan target refuses; a repair child must
\* find its lineage; any other wake discards the repair floor.  A targetless
\* wake that removed a claim keeps the target that claim may have staged.
Admit(p) ==
  /\ Generic(p) /\ lock = None
  /\ \/ Held(p, "admit")
     \/ Held(p, "acquire") /\ ~OrphanInTheWay(p)
  /\ LET refused == \/ target # None /\ target.owner # None
                    \/ role[p].kind = "child" /\ ~LineageHolds(p)
     IN IF refused
        THEN Out(p, "exit") /\ UNCHANGED floor
        ELSE /\ floor' = IF role[p].kind = "child" THEN floor ELSE None
             /\ IF Targetless(p) /\ target # None
                THEN Out(p, "exit")
                ELSE Go(p, "stage") /\ UNCHANGED guard
  /\ UNCHANGED <<world, mem, lock, target, state, prepared, ready, hand>>

-----------------------------------------------------------------------------
(* Publication, in the order of the files: target, projection, claim *)

\* writeWakeTargetGuardedAt (a temporary file renamed over the target), or for
\* a targetless wake the removal of a document without a target.
Stage(p, s) ==
  /\ Held(p, "stage")
  /\ IF Targetless(p)
     THEN state' = None /\ UNCHANGED target /\ Go(p, "create")
     ELSE /\ target' = IF role[p].kind = "child"
                       THEN [mem[p].tgt EXCEPT !.by = p]
                       ELSE [inj |-> role[p].inj, owner |-> role[p].owner,
                             sec |-> s, by |-> p]
          /\ UNCHANGED state /\ Go(p, "project")
  /\ Remember(p, [mem[p] EXCEPT !.tgt = target'])
  /\ UNCHANGED <<world, guard, lock, prepared, floor, ready, hand>>

\* publishWakeStateAt: a document of the legacy files as they are.
Project(p) ==
  /\ Held(p, "project")
  /\ PublishState
  /\ Go(p, IF role[p].kind = "owner" THEN "link" ELSE "create")
  /\ UNCHANGED <<world, mem, guard, lock, target, prepared, floor, ready, hand>>

\* newWakeLock, bound to the published document.
NewLock(p) ==
  [by |-> p,
   mode |-> IF role[p].kind = "child" THEN "via" ELSE role[p].kind,
   digest |-> IF Targetless(p) THEN None ELSE state.target,
   owner |-> role[p].owner,
   src |-> IF role[p].kind = "child" THEN mem[p].fl.gen ELSE None,
   whole |-> TRUE, aged |-> FALSE]

\* createWakeLockAt: O_EXCL creates the name, then the content is written.
Create(p) ==
  /\ Held(p, "create")
  /\ lock = None
  /\ lock' = [NewLock(p) EXCEPT !.whole = FALSE]
  /\ Go(p, "write")
  /\ UNCHANGED <<world, mem, guard, target, state, prepared, floor, ready, hand>>

Write(p) ==
  /\ Held(p, "write")
  /\ lock' = [lock EXCEPT !.whole = TRUE]
  /\ Out(p, "adopt")
  /\ UNCHANGED <<world, mem, target, state, prepared, floor, ready, hand>>

-----------------------------------------------------------------------------
(* Running *)

Mine(p) == lock # None /\ lock.by = p

\* A wake that lost its generation, or failed, leaves through its cleanup.
GivesUp(p) ==
  Out(p, "cleanup") /\ UNCHANGED <<world, mem, files, ready, hand>>

\* After the acquisition the wake reads its claim back without the guard; this
\* reading, not the claim it made, is the generation it serves.
Adopt(p) ==
  /\ pc[p] = "adopt"
  /\ Remember(p, [mem[p] EXCEPT !.seen = lock])
  /\ Go(p, IF role[p].kind \in {"via", "child"} THEN "floor" ELSE "prepare")
  /\ UNCHANGED <<world, guard, files, ready, hand>>

\* currentWakeLockMatches: the claim is still the one this wake serves.
Serves(p) == SameGeneration(lock, mem[p].seen)

\* Mutant: a repair child starts a baseline of its own.
FreshFloor(p) ==
  [gen |-> mem[p].seen.by, digest |-> Digest(mem[p].tgt),
   src |-> IF role[p].kind = "child" THEN mem[p].fl.gen ELSE None, base |-> p]

\* newWakeRepairFloor, and newInheritedWakeRepairFloor for a child, which keeps
\* suppressing what the dead generation suppressed.
NewFloor(p) ==
  LET l == mem[p].seen
  IN IF role[p].kind = "child"
     THEN [gen |-> l.by, digest |-> Digest(mem[p].tgt), src |-> mem[p].fl.gen,
           base |-> mem[p].fl.base]
     ELSE [gen |-> l.by, digest |-> Digest(mem[p].tgt), src |-> None, base |-> p]

\* onBaselineReady, once the baseline of the inbox is taken.  Only a child
\* looks at the claim again under the guard.
WriteFloor(p) ==
  /\ Held(p, "floor")
  /\ LET l == mem[p].seen
     IN IF /\ l # None /\ l.whole
           /\ IF role[p].kind = "child" THEN Serves(p)
              ELSE l.digest = Digest(mem[p].tgt)
        THEN /\ floor' = NewFloor(p)
             /\ Out(p, "prepare")
             /\ UNCHANGED <<world, mem, lock, target, state, prepared, ready, hand>>
        ELSE GivesUp(p)

\* validateWakeReadyAgainstLock: the claim's process is confirmed, or is the
\* caller itself.
ReadyAgainstLock(p) == lock.whole /\ (Status = "valid" \/ lock.by = p)

\* validateWakeReadyTargetAndOwner: the target of the claim, and its owner runs.
ReadyTarget == TargetMatches(lock) /\ (lock.owner # None => lock.owner \in ownerUp)

\* validateWakeReadyLockAndSelectedTarget: what a preparation marker and a
\* readiness file need; a claim without a target admits none.
ReadyFor(p) ==
  /\ Selected(lock) /\ ReadyAgainstLock(p)
  /\ IF Bound(lock) THEN ReadyTarget ELSE target = None

\* validateRequestedWakeOwnerForReadiness.
RequestedOwnerLives(p) ==
  role[p].owner # None =>
    /\ role[p].owner \in ownerUp
    /\ lock.owner # None => lock.owner = role[p].owner

ReconcileOwn(p) ==
  \/ Serves(p) /\ Reconcile(p, "prepare")
  \/ Mine(p) /\ Reconcile(p, "cleanup")

\* writeWakePreparedFileInDir: the marker first ...
WritePrepared(p) ==
  /\ Held(p, "prepare")
  /\ Serves(p) => ~NeedsReconcile(lock)
  /\ IF Serves(p) /\ ReadyFor(p)
     THEN /\ prepared' = [gen |-> lock.by, digest |-> lock.digest]
          /\ Go(p, "refresh")
          /\ UNCHANGED <<world, mem, guard, lock, target, state, floor, ready,
                         hand>>
     ELSE GivesUp(p)

\* reconcileWakeStateAfterLegacyMutationAt: project what is there, or remove a
\* document whose target is gone.
Refreshed == IF target = None THEN None ELSE NewState(target, prepared)

\* ... and then its projection.
RefreshState(p) ==
  /\ Held(p, "refresh")
  /\ state' = Refreshed
  /\ Out(p, IF role[p].kind = "child" THEN "offer" ELSE "ready")
  /\ hand' = IF role[p].kind = "child" THEN [hand EXCEPT ![p] = "prepared"]
             ELSE hand
  /\ UNCHANGED <<world, mem, lock, target, prepared, floor, ready>>

\* The marker is committed but its projection cannot be written.
RefreshFails(p) == Held(p, "refresh") /\ GivesUp(p)

\* writeWakeReadyFileAgainstOwnerInDir.
PublishReady(p) ==
  /\ Held(p, "ready")
  /\ IF Serves(p) /\ ReadyFor(p) /\ RequestedOwnerLives(p)
     THEN /\ ready' = [ready EXCEPT ![p] = lock.by]
          /\ Out(p, "serving")
          /\ UNCHANGED <<world, mem, files, hand>>
     ELSE GivesUp(p)

\* The injection precondition of a serving wake finds another claim.
LoseOwnership(p) ==
  /\ pc[p] = "serving" /\ ~Serves(p)
  /\ Go(p, "cleanup")
  /\ UNCHANGED <<world, mem, guard, files, ready, hand>>

\* SIGTERM, SIGHUP or a failure ends the loop.
Quit(p) ==
  /\ pc[p] = "serving"
  /\ Go(p, "cleanup")
  /\ UNCHANGED <<world, mem, guard, files, ready, hand>>

-----------------------------------------------------------------------------
(* A caller that accepts an existing wake *)

\* Mutant: readiness for a live wake that has not finished its preparation.
JoinUnprepared(p) ==
  /\ Held(p, "join")
  /\ LET same == Serves(p) /\ Status = "valid" /\ ReadyFor(p)
     IN ready' = IF same THEN [ready EXCEPT ![p] = lock.by] ELSE ready
  /\ Out(p, "exit")
  /\ UNCHANGED <<world, mem, files, hand>>

\* writeWakeReadyFileForPreparedWakeInDir: readiness only for the generation it
\* met, alive and prepared; otherwise look again until the deadline.
Join(p) ==
  /\ Held(p, "join")
  /\ LET same == Serves(p) /\ Status = "valid" /\ ReadyFor(p)
     IN CASE same /\ PreparedNow(lock) ->
               /\ ready' = [ready EXCEPT ![p] = lock.by]
               /\ Out(p, IF role[p].owner = None THEN "exit" ELSE "confirm")
          [] same /\ ~PreparedNow(lock) -> Out(p, "join") /\ UNCHANGED ready
          [] OTHER -> Out(p, "exit") /\ UNCHANGED ready
  /\ UNCHANGED <<world, mem, files, hand>>

\* validateWakeReadyFileAgainstOwnerInDir: the publication is withdrawn when the
\* owner is gone or the claim has changed.
Confirm(p) ==
  /\ Held(p, "confirm")
  /\ LET stands == /\ lock # None /\ ready[p] = lock.by
                   /\ ReadyFor(p) /\ RequestedOwnerLives(p)
     IN ready' = IF stands THEN ready ELSE [ready EXCEPT ![p] = None]
  /\ Out(p, "exit")
  /\ UNCHANGED <<world, mem, files, hand>>

Deadline(p) ==
  /\ guard # p /\ role[p].accept
  /\ pc[p] \in {"acquire", "join"}
  /\ Go(p, "exit")
  /\ UNCHANGED <<world, mem, guard, files, ready, hand>>

-----------------------------------------------------------------------------
(* Cleanup of a generation by its own process *)

\* freezeGenericWakePreparedCleanupAt, then the exact claim is removed.
\* An owner-bound claim outlives its wake.
Cleanup(p) ==
  /\ Held(p, "cleanup")
  /\ IF role[p].kind # "owner" /\ Mine(p) /\ Mutable(lock)
     THEN /\ Remember(p, [mem[p] EXCEPT !.prep =
                            IF prepared # None /\ prepared.gen = p /\ ReadyFor(p)
                            THEN prepared ELSE None])
          /\ RemoveClaim
          /\ Go(p, "unprepare")
          /\ UNCHANGED guard
     ELSE Out(p, "exit") /\ UNCHANGED <<mem, lock>>
  /\ UNCHANGED <<world, target, state, prepared, floor, ready, hand>>

Unprepare(p) ==
  /\ Held(p, "unprepare")
  /\ prepared' = RemoveExact(prepared, mem[p].prep)
  /\ Go(p, "unproject")
  /\ UNCHANGED <<world, mem, guard, lock, target, state, floor, ready, hand>>

Unproject(p) ==
  /\ Held(p, "unproject")
  /\ state' = Refreshed
  /\ Go(p, "unfloor")
  /\ UNCHANGED <<world, mem, guard, lock, target, prepared, floor, ready, hand>>

\* cleanupGenericWakeRepairFloorAt: only the floor of this generation.
Unfloor(p) ==
  /\ Held(p, "unfloor")
  /\ floor' = IF floor # None /\ floor.gen = p THEN None ELSE floor
  /\ Out(p, "exit")
  /\ UNCHANGED <<world, mem, lock, target, state, prepared, ready, hand>>

ClaimStep(p) ==
  \/ RefuseGeneric(p) \/ QuarantineLock(p) \/ MeetCreating(p)
  \/ ReconcileStale(p) \/ RemoveStale(p) \/ MeetValid(p) \/ Supersede(p)
  \/ QuarantineTarget(p) \/ Admit(p)
  \/ (\E s \in Seconds : Stage(p, s)) \/ Project(p) \/ Create(p) \/ Write(p)
  \/ Adopt(p) \/ WriteFloor(p) \/ ReconcileOwn(p) \/ WritePrepared(p) \/ RefreshState(p)
  \/ RefreshFails(p) \/ PublishReady(p) \/ LoseOwnership(p)
  \/ Join(p) \/ Confirm(p)
  \/ Cleanup(p) \/ Unprepare(p) \/ Unproject(p) \/ Unfloor(p)
=============================================================================
