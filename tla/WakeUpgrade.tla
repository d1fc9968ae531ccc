---------------------------- MODULE WakeUpgrade ----------------------------
(* The wake's side of a restart: it takes a request at a loop boundary,      *)
(* stages and checks the candidate, execs it in the same process, and the    *)
(* new image claims the request, rotates the lock and consumes the record.   *)
(* The maintenance tick makes a request of its own when the launch command   *)
(* points at a newer version.                                                *)
EXTENDS WakeRestart

CONSTANTS MaxInstall,  \* bound on what the installer does
          MaxStart     \* bound on the wakes started

VARIABLE locator       \* the version the launch command points at

upgradeVars == <<holder, proof, request, stages, runner, caller, spent, locator>>

(* What keeps the wake from a quiescent boundary: some of it for good in     *)
(* this generation or unsafe to interrupt, the rest until it passes.         *)
Refusing == {"not_admitted", "input_recovery", "repair_state", "inject_cmd",
             "interrupt", "input_uncertain", "input_progress", "input_delivery",
             "owner_lost", "terminal_lost", "generation_lost", "target_lost"}
Deferring == {"injector_active", "injector_cleanup", "terminal_retry",
              "scan_retry", "watcher_unarmed", "watcher_error", "watcher_rebind",
              "generation_recovery", "debounce_active", "control_handlers",
              "control_listener", "owner_inconclusive", "terminal_inconclusive",
              "generation_inconclusive", "target_inconclusive",
              "directories_unverified", "scan_incomplete"}

(* A refusing condition decides before a deferring one. *)
Quiescence(found) ==
  IF found \cap Refusing # {} THEN "refuse"
  ELSE IF found \cap Deferring # {} THEN "defer" ELSE "proceed"

(* One observation of each disposition. *)
Observations == {{}, {"scan_retry"}, {"input_delivery", "scan_retry"}}

Wakes(pc) == runner.pc = pc
Goes(pc) == runner' = [runner EXCEPT !.pc = pc]
Rests == runner' = [runner EXCEPT !.pc = "loop", !.rec = Absent, !.want = 0]

(* The process holds the lock in the generation it serves. *)
Incumbent == LockRuns /\ holder.gen = runner.gen

(* No wake runs. *)
Dead == [pc |-> "dead", pid |-> 0, gen |-> 0, img |-> 0, stage |-> Absent, rec |-> Absent,
         debt |-> Absent, pending |-> FALSE, probe |-> 0, want |-> 0, sig |-> FALSE]

(* What a process remembers when its loop begins: the locator is the         *)
(* baseline only if it resolves to the image that runs.                      *)
Startup(img) == IF locator = img THEN img ELSE 0

Fresh(pid, gen, img, stage, pc) ==
  [pc |-> pc, pid |-> pid, gen |-> gen, img |-> img, stage |-> stage,
   rec |-> Absent, debt |-> Absent, pending |-> FALSE, probe |-> Startup(img),
   want |-> 0, sig |-> FALSE]
----------------------------------------------------------------------------
(* The loop takes the restart signal; a refusal not yet written comes first. *)
TakeSignal ==
  /\ Wakes("loop") /\ runner.sig
  /\ runner' = [runner EXCEPT !.sig = FALSE,
                  !.pc = IF runner.debt # Absent THEN "retry" ELSE "read"]
  /\ UNCHANGED <<restartFiles, caller, spent, locator>>

(* The refusal that could not be written is tried again, if the record is    *)
(* still that attempt.  A replaced or removed record settles it, and the     *)
(* observation goes on.                                                      *)
RetryRefusal ==
  /\ Wakes("retry") /\ GuardFree
  /\ LET debt == runner.debt
         settled == [runner EXCEPT !.debt = Absent, !.pending = FALSE]
     IN IF ~Incumbent THEN runner' = [settled EXCEPT !.pc = "loop"] /\ UNCHANGED request
        ELSE IF request = Absent \/ ~SameAttempt(debt, request)
        THEN runner' = [settled EXCEPT !.pc = "read"] /\ UNCHANGED request
        ELSE IF request.refused
        THEN runner' = [settled EXCEPT !.pc = "loop"] /\ UNCHANGED request
        ELSE \/ /\ request' = Refused(request)
                /\ runner' = [settled EXCEPT !.pc = "loop"]
             \/ Goes("loop") /\ UNCHANGED request
  /\ UNCHANGED <<holder, proof, stages, caller, spent, locator>>

(* The request must be pending, unclaimed, and of this generation. *)
Serviceable(rec) == ~rec.claimed /\ ~rec.refused /\ rec.gen = runner.gen
                /\ rec.prev = PreviousStage

ReadRequest ==
  /\ Wakes("read") /\ GuardFree
  /\ runner' = IF ~Incumbent THEN [runner EXCEPT !.pc = "loop"]
               ELSE IF request = Absent THEN [runner EXCEPT !.pc = "loop", !.pending = FALSE]
               ELSE IF ~Serviceable(request) THEN [runner EXCEPT !.pc = "loop"]
               ELSE [runner EXCEPT !.pc = "decide", !.rec = request,
                                   !.pending = request.self]
  /\ UNCHANGED <<restartFiles, caller, spent, locator>>

(* Away from a quiescent boundary a self-upgrade waits and a caller's        *)
(* request is refused.                                                       *)
Decide(found) ==
  /\ Wakes("decide")
  /\ IF Quiescence(found) = "proceed" THEN Goes("bind")
     ELSE IF runner.rec.self THEN Rests ELSE Goes("refuse")
  /\ UNCHANGED <<restartFiles, caller, spent, locator>>
----------------------------------------------------------------------------
(* The candidate is copied to its planned stage. *)
Bind ==
  /\ Wakes("bind")
  /\ \/ Goes("refuse") /\ UNCHANGED stages
     \/ Goes("persist") /\ stages' = stages \cup {runner.rec.id}
  /\ UNCHANGED <<holder, proof, request, caller, spent, locator>>

(* Leaving without an exec deletes the stage again, if that can be done. *)
Unbinds(next) ==
  /\ Goes(next)
  /\ \/ stages' = stages \ {runner.rec.id}
     \/ UNCHANGED stages

(* The record names the bound image before it runs: a compare-and-swap on    *)
(* the whole record.                                                         *)
PersistBound ==
  /\ Wakes("persist") /\ GuardFree
  /\ \/ /\ request = runner.rec
        /\ request' = [request EXCEPT !.bound = TRUE]
        /\ Goes("check")
        /\ UNCHANGED stages
     \/ Unbinds("refuse") /\ UNCHANGED request
  /\ UNCHANGED <<holder, proof, caller, spent, locator>>

(* The order of versions: an equal one is not newer. *)
StrictlyNewer(img, cand) == img < cand

(* A self-upgrade's bound image must say it is newer than the running one. *)
VersionAllows(rec) == rec.self => StrictlyNewer(runner.img, rec.cand)

(* A self-upgrade asks the bound image for its version, which must be newer; *)
(* every candidate proves that it takes the arguments.                       *)
CheckBound ==
  /\ Wakes("check")
  /\ \/ Unbinds("refuse")
     \/ /\ VersionAllows(runner.rec)
        /\ Goes("exec")
        /\ UNCHANGED stages
  /\ UNCHANGED <<holder, proof, request, caller, spent, locator>>

(* SIGUSR1 is ignored and the candidate runs in the same process; or exec    *)
(* fails and the handler is restored.                                        *)
Exec ==
  /\ Wakes("exec")
  /\ \/ /\ runner' = [Fresh(runner.pid, runner.gen, runner.rec.cand, runner.rec.id, "boot")
                        EXCEPT !.rec = runner.rec]
        /\ UNCHANGED stages
     \/ Unbinds("refuse")
  /\ UNCHANGED <<holder, proof, request, caller, spent, locator>>

(* The refusal uses the record as it was read.  One of a self-upgrade that   *)
(* cannot be written stays owed; the loop goes on.                           *)
RefuseRequest ==
  /\ Wakes("refuse") /\ GuardFree
  /\ LET rec == runner.rec
     IN \/ /\ CanRefuse(rec)
           /\ request' = Refused(request)
           /\ runner' = [runner EXCEPT !.pc = "loop", !.rec = Absent,
                            !.pending = IF rec.self THEN FALSE ELSE @]
        \/ /\ runner' = [runner EXCEPT !.pc = "loop", !.rec = Absent,
                            !.debt = IF rec.self /\ request # Absent THEN rec ELSE @,
                            !.pending = IF rec.self /\ request = Absent THEN FALSE ELSE @]
           /\ UNCHANGED request
  /\ UNCHANGED <<holder, proof, stages, caller, spent, locator>>
----------------------------------------------------------------------------
(* A resumed process that cannot go on deletes its stage and keeps the lock. *)
GivesUpResume ==
  /\ runner' = Dead
  /\ stages' = stages \ {runner.stage}

(* The image is the bound one, the lock is still this process's old          *)
(* generation and the request is the one it was started for.                 *)
Resumable ==
  /\ LockRuns /\ holder.gen = runner.gen
  /\ request # Absent /\ ~request.refused /\ ~request.claimed
  /\ request.id = runner.rec.id /\ request.gen = runner.gen
  /\ request.prev = runner.rec.prev /\ request.prev = PreviousStage
  /\ request.cand = runner.img /\ request.bound

(* Under the guard the record is claimed for the new generation first. *)
ClaimSuccessor ==
  /\ Wakes("boot") /\ spent.gens < MaxLease
  /\ \/ GivesUpResume /\ UNCHANGED <<request, spent>>
     \/ /\ Resumable
        /\ spent' = [spent EXCEPT !.gens = @ + 1]
        /\ request' = [request EXCEPT !.claimed = TRUE, !.succ = spent.gens + 1]
        /\ Goes("claimed")
        /\ UNCHANGED stages
  /\ UNCHANGED <<holder, proof, caller, locator>>

(* The lock is replaced by rename, still under the guard. *)
ReplaceLock ==
  /\ Wakes("claimed")
  /\ \/ GivesUpResume /\ UNCHANGED holder
     \/ /\ holder' = [gen |-> request.succ, pid |-> runner.pid, img |-> runner.img,
                      stage |-> runner.stage]
        /\ runner' = [runner EXCEPT !.pc = "prepare", !.gen = request.succ]
        /\ UNCHANGED stages
  /\ UNCHANGED <<proof, request, caller, spent, locator>>

(* The watcher runs: the generation is announced as prepared. *)
Prepare ==
  /\ Wakes("prepare") /\ GuardFree
  /\ \/ runner.rec # Absent /\ GivesUpResume /\ UNCHANGED proof
     \/ /\ Incumbent
        /\ proof' = runner.gen
        /\ Goes(IF runner.rec = Absent THEN "loop" ELSE "commit")
        /\ UNCHANGED stages
  /\ UNCHANGED <<holder, request, caller, spent, locator>>

(* The previous stage is deleted, then the record is consumed. *)
Commit ==
  /\ Wakes("commit")
  /\ \/ GivesUpResume /\ UNCHANGED request
     \/ /\ Incumbent /\ proof = runner.gen
        /\ request # Absent /\ request.claimed /\ ~request.refused
        /\ request.id = runner.rec.id /\ request.succ = runner.gen
        /\ stages' = stages \ {runner.rec.prev}
        /\ request' = Absent
        /\ runner' = [runner EXCEPT !.pc = "loop", !.rec = Absent]
  /\ UNCHANGED <<holder, proof, caller, spent, locator>>
----------------------------------------------------------------------------
(* The record is a self-upgrade of this generation, left by an earlier tick. *)
SelfPending == request # Absent /\ request.self /\ Serviceable(request)

(* The maintenance tick: an owed refusal, then a pending self-upgrade, then  *)
(* the launch command.  A flag that outlived its record is dropped.          *)
MaintenanceTick ==
  /\ Wakes("loop") /\ GuardFree
  /\ runner' = IF runner.debt # Absent THEN [runner EXCEPT !.pc = "retry"]
               ELSE IF Incumbent /\ SelfPending
               THEN [runner EXCEPT !.pc = "read", !.pending = TRUE]
               ELSE IF runner.pending /\ request # Absent /\ ~Serviceable(request) THEN runner
               ELSE [runner EXCEPT !.pc = "probe", !.pending = FALSE]
  /\ runner' # runner
  /\ UNCHANGED <<restartFiles, caller, spent, locator>>

(* The launch command is resolved; an image seen before is left alone.  Only *)
(* a strictly newer, conclusively different one at a quiescent boundary is   *)
(* worth a request; what is ruled out for good is remembered.                *)
Probe(found) ==
  /\ Wakes("probe") /\ locator # runner.probe
  /\ IF Quiescence(found) # "proceed" THEN Rests
     ELSE \/ Rests
          \/ IF StrictlyNewer(runner.img, locator)
             THEN runner' = [runner EXCEPT !.pc = "self", !.want = locator]
             ELSE runner' = [runner EXCEPT !.pc = "loop", !.probe = locator]
  /\ UNCHANGED <<restartFiles, caller, spent, locator>>

ProbeUnchanged ==
  /\ Wakes("probe") /\ locator = runner.probe
  /\ Rests
  /\ UNCHANGED <<restartFiles, caller, spent, locator>>

(* A refused self-upgrade of this generation keeps its memory. *)
SameScope(rec) == ~rec.claimed /\ rec.refused /\ rec.self
                   /\ rec.gen = holder.gen /\ rec.prev = PreviousStage
Memory == IF request # Absent /\ SameScope(request) THEN request.memory ELSE {}

Superseded == IF request = Absent THEN TRUE ELSE request.refused /\ request.self

Requested(next) ==
  runner' = [runner EXCEPT !.pc = next, !.probe = runner.want, !.want = 0,
                           !.pending = next = "read"]

(* The tick publishes under the guard: it adopts its own request, keeps      *)
(* anybody else's, does not repeat what this generation refused, and         *)
(* supersedes a refused self-upgrade.                                        *)
PublishSelf ==
  /\ Wakes("self") /\ GuardFree
  /\ \/ ~Incumbent /\ Rests /\ UNCHANGED <<request, stages, spent>>
     \/ /\ Incumbent /\ ~Superseded
        /\ IF SelfPending /\ request.cand = runner.want THEN Requested("read") ELSE Rests
        /\ UNCHANGED <<request, stages, spent>>
     \/ /\ Incumbent /\ runner.want \in Memory
        /\ Requested("loop")
        /\ UNCHANGED <<request, stages, spent>>
     \/ /\ Incumbent /\ runner.want \notin Memory
        /\ Superseded
        /\ spent.ids < MaxRequest
        /\ spent' = [spent EXCEPT !.ids = @ + 1]
        /\ stages' = Reclaimed
        /\ request' = NewRequest(spent.ids + 1, TRUE, runner.want, Memory)
        /\ Requested("read")
  /\ UNCHANGED <<holder, proof, caller, locator>>
----------------------------------------------------------------------------
(* The mutant leaves the record behind for the next generation. *)
RecordLeft == request
RecordAfterRemoval == IF holder = Absent THEN request ELSE Absent

(* Removing a lock first reclaims the stages of the record and the running   *)
(* image, and moves the record into quarantine.                              *)
RemovesLock ==
  stages' = Reclaimed \ {holder.stage}

(* The wake is told to stop: its stage, then the record, then the lock. *)
Stop ==
  /\ Wakes("loop") /\ GuardFree /\ Incumbent
  /\ RemovesLock
  /\ holder' = Absent /\ request' = RecordAfterRemoval
  /\ runner' = Dead
  /\ UNCHANGED <<proof, caller, spent, locator>>

(* The process is killed; what it held under the guard is released. *)
Killed ==
  /\ ~Wakes("dead")
  /\ runner' = Dead
  /\ UNCHANGED <<restartFiles, caller, spent, locator>>

(* A new wake removes the stale lock and takes its own, from the version the *)
(* launch command points at.                                                 *)
StartWake ==
  /\ Wakes("dead") /\ spent.starts < MaxStart /\ spent.gens < MaxLease
  /\ IF holder = Absent THEN UNCHANGED stages ELSE RemovesLock
  /\ request' = RecordAfterRemoval
  /\ LET n == spent.gens + 1
         pid == spent.starts + 1
     IN /\ holder' = [gen |-> n, pid |-> pid, img |-> locator, stage |-> Absent]
        /\ runner' = Fresh(pid, n, locator, Absent, "prepare")
        /\ spent' = [spent EXCEPT !.gens = n, !.starts = pid]
  /\ UNCHANGED <<proof, caller, locator>>

(* The installer points the launch command at another version. *)
Install(v) ==
  /\ v # locator /\ spent.installs < MaxInstall
  /\ locator' = v
  /\ spent' = [spent EXCEPT !.installs = @ + 1]
  /\ UNCHANGED <<restartFiles, runner, caller>>

UpgradeInit ==
  /\ holder = Absent /\ proof = 0 /\ request = Absent /\ stages = {}
  /\ locator \in Images
  /\ runner = Dead
  /\ caller = [c \in Callers |-> Idle]
  /\ spent = [ids |-> 0, gens |-> 0, starts |-> 0, installs |-> 0]

WakeSideNext ==
  \/ TakeSignal \/ RetryRefusal \/ ReadRequest
  \/ \E found \in Observations : Decide(found) \/ Probe(found)
  \/ Bind \/ PersistBound \/ CheckBound \/ Exec \/ RefuseRequest
  \/ ClaimSuccessor \/ ReplaceLock \/ Prepare \/ Commit
  \/ MaintenanceTick \/ ProbeUnchanged \/ PublishSelf
  \/ Stop \/ Killed \/ StartWake
  \/ \E v \in Images : Install(v)

UpgradeNext ==
  \/ CallerNext /\ UNCHANGED locator
  \/ WakeSideNext

UpgradeSpec == UpgradeInit /\ [][UpgradeNext]_upgradeVars
----------------------------------------------------------------------------
(* While the wake of a generation lives, the record is one its readers       *)
(* accept, and a pending request names that generation or the one it         *)
(* replaces: every caller can adopt it or wait for it, and no request is     *)
(* preserved for good against a live wake (classifyPendingWakeRestart,       *)
(* validateWakeRestartRecord, reclaimWakeRestartStateForLockRemovalAt).      *)
NoStrandedRequest ==
  /\ IF request = Absent THEN TRUE ELSE ValidRecord(request)
  /\ LockRuns /\ GuardFree /\ ~Open => Adoptable

(* Every staged image on disk is named by the record or the lock, so that    *)
(* the next start, retry or exit deletes it                                  *)
(* (reclaimWakeRestartStagePlatform, cleanupWakeResumeStageBeforeLock).      *)
StagesAccounted ==
  stages \subseteq (IF request = Absent THEN {} ELSE Owned(request))
                     \cup (IF holder = Absent THEN {} ELSE {holder.stage})
=============================================================================
