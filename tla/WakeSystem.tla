----------------------------- MODULE WakeSystem -----------------------------
(* All wake commands of one agent directory together, and what they promise. *)
EXTENDS WakeRepair

Step(p) ==
  Enter(p) \/ ClaimStep(p) \/ OwnerStep(p) \/ RetireStep(p) \/ RepairStep(p)

\* Processes that have a command to run and have not ended.
AtWork == {p \in Procs : role[p].kind # "none" /\ pc[p] # "exit"}

WakeNext ==
  \/ \E p \in AtWork : Step(p) \/ Start(p) \/ Quit(p) \/ Crash(p) \/ Deadline(p)
  \/ \E o \in Owners : OwnerExits(o)
  \/ Ages

WakeSpec == WakeInit /\ [][WakeNext]_wakeVars

-----------------------------------------------------------------------------
Pcs ==
  {"idle", "exit", "acquire", "admit", "stage", "project", "create", "write",
   "link", "adopt", "floor", "prepare", "refresh", "ready", "serving", "join", "confirm",
   "cleanup", "unprepare", "unproject", "unfloor", "term", "signal", "await",
   "reap", "recover", "release", "reltarget", "relstate", "relprepared",
   "retire", "snapshot", "artifacts", "retstate", "repair", "spawn", "watch",
   "winner", "admitting", "final", "offer", "stop", "waitexit", "rollback",
   "rollfloor"}

\* Types of the wake files and of the processes that work on them.
WakeTypeOK ==
  /\ pc \in [Procs -> Pcs]
  /\ role \in [Procs -> Commands]
  /\ guard \in Procs \cup {None} /\ term \subseteq Procs /\ ownerUp \subseteq Owners
  /\ lock \in Locks \cup {None} /\ target \in Targets \cup {None}
  /\ state \in States \cup {None} /\ prepared \in Markers \cup {None}
  /\ floor \in Floors \cup {None}
  /\ ready \in [Procs -> Procs \cup {None}]
  /\ hand \in [Procs -> {None, "open", "prepared", "admit", "ack", "release",
                         "closed"}]

\* Whatever process died at whatever step, a claim that is bound to a state
\* document can be read, or is in the one gap that the mutating paths close
\* (reconcileBoundWakePreparedProjectionAt): no crash makes a claim that every
\* later command must refuse as inconclusive.
BoundClaimReadable ==
  lock # None /\ lock.whole /\ Bound(lock) => Selected(lock) \/ NeedsReconcile(lock)

\* The claim of an owner that runs is released only by recover-owner with that
\* owner's token, and its target stays as long as the claim.  A target that such an
\* owner's wake left without a claim is removed by that recovery alone, or replaced
\* by the acquisition of an owner: never by a wake without one, a repair or a
\* retirement (decideOwnerLifecycleTransition, removeAuthoritativeWakeClaimAt).
LiveOwnerKept ==
  [][/\ lock # None /\ lock.owner \in ownerUp =>
          /\ target' = target
          /\ lock' # lock => /\ guard # None
                             /\ role[guard].kind = "recover" /\ role[guard].owner = lock.owner
     /\ target # None /\ target.owner \in ownerUp /\ target' # target =>
          /\ guard # None
          /\ \/ role[guard].kind = "recover" /\ role[guard].owner = target.owner
             \/ role[guard].kind = "owner" /\ target' # None]_wakeVars

\* A readiness file appears only for the generation that holds the claim, runs,
\* and has published its preparation (writeWakeReadyFileForPreparedWakeInDir,
\* writeWakeReadyFileAgainstOwnerInDir).
ReadyMeansPrepared ==
  [][\A p \in Procs : ready'[p] \notin {None, ready[p]} =>
       /\ lock # None /\ lock.by = ready'[p] /\ Alive(lock.by)
       /\ PreparedNow(lock)]_wakeVars

Running(p) ==
  pc[p] \in {"adopt", "floor", "prepare", "refresh", "offer", "ready", "serving"}

\* A wake whose identity can be confirmed holds the claim for as long as it runs:
\* every command, also one that cannot be identified itself, takes a claim over
\* only from a process that is proven gone, so two such wakes never serve the same
\* agent.  (A wake that cannot be identified is superseded without a signal and may
\* run on.)
OneWake == \A p \in Procs \ Opaque : Running(p) => lock # None /\ lock.by = p

\* From the moment a repair child has published its floor it continues the dead
\* generation, whatever other commands and crashes do meanwhile: claim, target
\* and floor carry the lineage, and the floor suppresses what the baseline of the
\* first generation suppressed (newInheritedWakeRepairFloor).
RepairInherits ==
  \A c \in Procs :
    (/\ pc[c] \in {"prepare", "refresh", "offer", "serving"}
     /\ role[c].kind = "child" /\ Mine(c)) =>
      /\ lock.src = mem[c].fl.gen
      /\ Digest(target) = Digest(mem[c].tgt)
      /\ floor # None /\ floor.gen = c /\ floor.src = mem[c].fl.gen
      /\ floor.base = mem[c].fl.base
=============================================================================
