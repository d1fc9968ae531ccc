----------------------------- MODULE WakeOwner ------------------------------
(* Owner-bound wakes: the claim names the exact process that owns the agent, *)
(* and outlives the wake.  Acquisition and amq wake recover-owner share one  *)
(* policy (decideOwnerLifecycleTransition); only a proven dead owner, or the *)
(* live owner's own token, releases a claim.  wake_owner_acquire_unix.go,    *)
(* wake_owner_recover_unix.go, wake_owner_storage_unix.go.                   *)
EXTENDS WakeClaim

\* observeAuthoritativeWakeOwner: two readings of the process agree, or the
\* owner is unknown, which may happen at any time.
OwnerSeen(o) == {IF o \in ownerUp THEN "same" ELSE "dead", "unknown"}

\* prepareAuthoritativeWakeStop: through a pidfd, what can be done to the wake.
StopClass ==
  CASE Status = "stale" -> "absent"
    [] Status = "valid" -> "stoppable"
    [] OTHER            -> "error"

\* ownerReleaseAction.
ReleaseAction ==
  CASE StopClass = "stoppable" -> "stop"
    [] StopClass = "absent"    -> "release"
    [] OTHER                   -> "refuse"

\* decideOwnerLifecycleTransition for an authoritative claim; observed is the
\* state of the persisted owner.
AcquireDecision(p, observed) ==
  CASE observed = "same" ->
         IF /\ lock.owner = role[p].owner
            /\ Status = "valid" /\ target.inj = role[p].inj
         THEN "reuse" ELSE "refuse"
    [] observed = "dead" -> ReleaseAction
    [] OTHER             -> "refuse"

\* Mutant: any caller releases the claim of a live owner.
RecoverAnyToken(p, observed) ==
  IF observed = "unknown" THEN "refuse" ELSE ReleaseAction

RecoverDecision(p, observed) ==
  CASE observed = "dead" -> ReleaseAction
    [] observed = "same" ->
         IF role[p].owner = lock.owner THEN ReleaseAction ELSE "refuse"
    [] OTHER             -> "refuse"

\* validateAuthoritativeWakeClaimPairAt and validateBoundWakeMutationAt begin
\* by closing the projection gap.
ReconcileOwner(p) ==
  /\ ClaimClass = "authoritative"
  /\ \/ role[p].kind = "owner" /\ Reconcile(p, "acquire")
     \/ role[p].kind = "recover" /\ Reconcile(p, "recover")

\* Carry a decision out: the stop happens outside the guard.
CarryOut(p, decision) ==
  /\ Remember(p, [mem[p] EXCEPT !.seen = lock])
  /\ CASE decision = "release" -> Go(p, "release") /\ UNCHANGED guard
       [] decision = "stop"    -> Out(p, "signal")
       [] decision = "reuse"   -> Out(p, IF role[p].accept THEN "join" ELSE "exit")
       [] OTHER                -> Out(p, "exit")
  /\ UNCHANGED <<world, files, ready, hand>>

\* acquireAuthoritativeWakeLockWithOptionsInDirAndStopPreparer.
AcquireOwner(p, observed) ==
  /\ Held(p, "acquire") /\ role[p].kind = "owner"
  /\ CASE ClaimClass \in {"generic", "invalid"} \/ role[p].owner \notin ownerUp -> Fail(p)
       [] ClaimClass = "authoritative" /\ role[p].owner \in ownerUp ->
            /\ ~NeedsReconcile(lock)
            /\ observed \in OwnerSeen(lock.owner)
            /\ IF Selected(lock)
               THEN CarryOut(p, AcquireDecision(p, observed))
               ELSE Fail(p)
       [] OTHER ->
            /\ Go(p, "stage")
            /\ UNCHANGED <<world, mem, guard, files, ready, hand>>

\* publishAuthoritativeWakeClaim commits with a link that replaces nothing.
Link(p) ==
  /\ Held(p, "link")
  /\ IF lock = None
     THEN lock' = NewLock(p) /\ Out(p, "adopt")
     ELSE UNCHANGED lock /\ Out(p, "acquire")
  /\ UNCHANGED <<world, mem, target, state, prepared, floor, ready, hand>>

\* The owner's health check ends an owner-bound wake; its claim stays.
OwnerLost(p) ==
  /\ pc[p] \in {"serving", "acquire"} /\ guard # p
  /\ role[p].kind = "owner" /\ role[p].owner \notin ownerUp
  /\ Go(p, "exit")
  /\ UNCHANGED <<world, mem, guard, files, ready, hand>>

-----------------------------------------------------------------------------
(* recover-owner *)

\* Without a claim, only the target of an owner that is proven dead goes.
RecoverOrphan(p, observed) ==
  /\ Held(p, "recover") /\ ClaimClass = "absent"
  /\ LET owned == target # None /\ target.owner # None
         dead == owned /\ observed = "dead" /\ "dead" \in OwnerSeen(target.owner)
     IN IF target = None \/ dead
        THEN /\ target' = None
             /\ Remember(p, [mem[p] EXCEPT !.st = state, !.prep = None])
             /\ Go(p, "relstate") /\ UNCHANGED guard
        ELSE Out(p, "exit") /\ UNCHANGED <<target, mem>>
  /\ UNCHANGED <<world, lock, state, prepared, floor, ready, hand>>

\* recoverOwnerWakeWithStopPreparer.
RecoverClaim(p, observed) ==
  /\ Held(p, "recover") /\ ClaimClass # "absent"
  /\ IF ClaimClass # "authoritative" THEN Fail(p)
     ELSE /\ ~NeedsReconcile(lock)
          /\ observed \in OwnerSeen(lock.owner)
          /\ IF Selected(lock)
             THEN CarryOut(p, RecoverDecision(p, observed))
             ELSE Fail(p)

-----------------------------------------------------------------------------
(* removeAuthoritativeWakeClaimAt: the claim first, then what it bound *)

ReleaseLock(p) ==
  /\ Held(p, "release")
  /\ IF lock = mem[p].seen /\ Mutable(lock)
     THEN /\ Remember(p, [mem[p] EXCEPT
                  !.tgt = target, !.st = state,
                  !.prep = IF PreparedNow(lock) THEN prepared ELSE None])
          /\ lock' = None
          /\ Go(p, "reltarget")
          /\ UNCHANGED guard
     ELSE Out(p, "exit") /\ UNCHANGED <<mem, lock>>
  /\ UNCHANGED <<world, target, state, prepared, floor, ready, hand>>

\* removeWakeTargetIfSnapshotMatchesAt.
ReleaseTarget(p) ==
  /\ Held(p, "reltarget")
  /\ target' = RemoveExact(target, mem[p].tgt)
  /\ Go(p, "relstate")
  /\ UNCHANGED <<world, mem, guard, lock, state, prepared, floor, ready, hand>>

\* removeWakeStateIfTargetAbsentAt.
ReleaseState(p) ==
  /\ Held(p, "relstate")
  /\ state' = IF target = None THEN RemoveExact(state, mem[p].st) ELSE state
  /\ Go(p, "relprepared")
  /\ UNCHANGED <<world, mem, guard, lock, target, prepared, floor, ready, hand>>

\* removeWakeGenerationFileIfSnapshotMatchesAt; an acquisition starts again.
ReleasePrepared(p) ==
  /\ Held(p, "relprepared")
  /\ prepared' = RemoveExact(prepared, mem[p].prep)
  /\ Out(p, IF role[p].kind = "owner" THEN "acquire" ELSE "exit")
  /\ UNCHANGED <<world, mem, lock, target, state, floor, ready, hand>>

OwnerStep(p) ==
  \/ ReconcileOwner(p) \/ Link(p) \/ OwnerLost(p)
  \/ \E observed \in {"same", "dead", "unknown"} :
       AcquireOwner(p, observed) \/ RecoverOrphan(p, observed)
         \/ RecoverClaim(p, observed)
  \/ ReleaseLock(p) \/ ReleaseTarget(p) \/ ReleaseState(p) \/ ReleasePrepared(p)

-----------------------------------------------------------------------------
(* Stopping a wake of another process and amq wake retire.  A terminator     *)
(* pins the process under the guard, signals and waits outside it, and looks *)
(* at everything again before it removes the claim it met.                   *)
(* wake_terminate_linux.go and wake_retire_unix.go.                          *)

Victim(p) == mem[p].seen.by

\* Where the command continues once the claim it met is gone.
Onward(p) == IF role[p].kind = "retire" THEN "artifacts" ELSE "acquire"

\* The first guarded section: the same claim, its binding, a pidfd.
Pin(p) ==
  /\ Held(p, "term")
  /\ CASE lock # mem[p].seen ->
            /\ Out(p, IF role[p].kind = "retire" THEN "exit" ELSE "acquire")
            /\ UNCHANGED lock
       [] lock = mem[p].seen /\ ~Selected(lock) -> Out(p, "exit") /\ UNCHANGED lock
       [] lock = mem[p].seen /\ Selected(lock) /\ ~Alive(lock.by) ->
            lock' = None /\ Out(p, Onward(p))
       [] OTHER ->
            /\ Out(p, IF Bound(lock) \/ NeedsReplacement(lock)
                      THEN "signal" ELSE "exit")
            /\ UNCHANGED lock
  /\ UNCHANGED <<world, mem, target, state, prepared, floor, ready, hand>>

\* terminateWakePidfd: SIGTERM, a grace period, SIGKILL; no guard is held.
Signal(p) ==
  /\ pc[p] = "signal"
  /\ term' = term \cup {Victim(p)}
  /\ Go(p, "await")
  /\ UNCHANGED <<role, ownerUp, mem, guard, files, ready, hand>>

\* The victim's loop takes the signal and leaves through its cleanup.
Terminated(q) ==
  /\ q \in term /\ pc[q] = "serving"
  /\ Go(q, "cleanup")
  /\ UNCHANGED <<world, mem, guard, files, ready, hand>>

\* The grace period is over: SIGKILL.
Kill(p) ==
  /\ pc[p] = "await" /\ Alive(Victim(p))
  /\ Go(Victim(p), "exit")
  /\ guard' = IF guard = Victim(p) THEN None ELSE guard
  /\ UNCHANGED <<world, mem, files, ready, hand>>

\* The exit is confirmed.  After an owner's stop nothing that was seen before
\* is used again.
Confirmed(p) ==
  /\ pc[p] = "await" /\ ~Alive(Victim(p))
  /\ Go(p, CASE role[p].kind = "owner"   -> "acquire"
             [] role[p].kind = "recover" -> "recover"
             [] OTHER                    -> "reap")
  /\ UNCHANGED <<world, mem, guard, files, ready, hand>>

\* The second guarded section: a replacement claim is preserved.
Reap(p) ==
  /\ Held(p, "reap")
  /\ IF lock # None /\ (lock # mem[p].seen \/ ~Selected(lock))
     THEN Out(p, "exit") /\ UNCHANGED lock
     ELSE lock' = None /\ Out(p, Onward(p))
  /\ UNCHANGED <<world, mem, target, state, prepared, floor, ready, hand>>

-----------------------------------------------------------------------------
(* retire *)

\* retireWakeIfGeneration looks at the claim before it takes the guard.
InspectRetire(p) ==
  /\ pc[p] = "retire"
  /\ Remember(p, [mem[p] EXCEPT !.seen = lock])
  /\ Go(p, IF /\ Status \in {"valid", "stale"}
              /\ lock.owner = None
              /\ Status = "valid" => lock.mode = "via"
           THEN "snapshot" ELSE "exit")
  /\ UNCHANGED <<world, guard, files, ready, hand>>

ReconcileRetire(p) ==
  /\ role[p].kind = "retire" /\ lock = mem[p].seen /\ Status = "valid"
  /\ Reconcile(p, "snapshot")

\* snapshotWakeRetireArtifactsAt: what the retirement may remove later.
Retirable(p) ==
  /\ lock = mem[p].seen /\ lock # None
  /\ Mutable(lock) /\ TargetMatches(lock)
  /\ target.owner = None /\ target.inj = role[p].inj

\* A live wake is stopped outside the guard, a stale claim goes at once.  The
\* stale path validates the selection before anything could reconcile it.
SnapshotRetire(p) ==
  /\ Held(p, "snapshot")
  /\ ~(lock = mem[p].seen /\ Status = "valid" /\ NeedsReconcile(lock))
  /\ IF Retirable(p)
     THEN /\ Remember(p, [mem[p] EXCEPT !.tgt = target, !.st = state])
          /\ IF Status = "valid"
             THEN Out(p, "term") /\ UNCHANGED lock
             ELSE lock' = None /\ Go(p, "artifacts") /\ UNCHANGED guard
     ELSE Out(p, "exit") /\ UNCHANGED <<mem, lock>>
  /\ UNCHANGED <<world, target, state, prepared, floor, ready, hand>>

\* Mutant: the artifacts go without another look at the claim.
RetireBlindly(p) ==
  /\ Held(p, "artifacts")
  /\ target' = None
  /\ Go(p, "retstate")
  /\ UNCHANGED <<world, mem, guard, lock, state, prepared, floor, ready, hand>>

\* validateWakeRetireCleanupSnapshotAt: no replacement, target and document
\* are still the files that were seen.  Otherwise they stay, as residue.
RetireTarget(p) ==
  /\ Held(p, "artifacts")
  /\ IF lock = None /\ target = mem[p].tgt /\ state = mem[p].st
     THEN target' = None /\ Go(p, "retstate") /\ UNCHANGED guard
     ELSE Out(p, "exit") /\ UNCHANGED target
  /\ UNCHANGED <<world, mem, lock, state, prepared, floor, ready, hand>>

\* removeWakeRetireStateIfSnapshotMatchesAt.
RetireState(p) ==
  /\ Held(p, "retstate")
  /\ state' = IF target = None THEN RemoveExact(state, mem[p].st) ELSE state
  /\ Out(p, "exit")
  /\ UNCHANGED <<world, mem, lock, target, prepared, floor, ready, hand>>

RetireStep(p) ==
  \/ Pin(p) \/ Signal(p) \/ Terminated(p) \/ Kill(p) \/ Confirmed(p) \/ Reap(p)
  \/ InspectRetire(p) \/ ReconcileRetire(p) \/ SnapshotRetire(p)
  \/ RetireTarget(p) \/ RetireState(p)
=============================================================================
