-------------------------------- MODULE Wake --------------------------------
(* The wake state of one agent directory: the claim .wake.lock, the target   *)
(* it is bound to, the preparation marker, the canonical state document that *)
(* projects target and marker, the repair floor, and the readiness files of  *)
(* the callers.  Every writer holds the directory's flock, the lifecycle     *)
(* guard, while it reads and writes, one file at a time, and gives it up     *)
(* before it waits for another process; a crash at any step gives it up too. *)
(* This module holds the files and how a process reads them.  WakeClaim,     *)
(* WakeOwner and WakeRepair hold the commands.                               *)
EXTENDS Naturals, FiniteSets

CONSTANTS Procs,     \* processes; the generation of a claim is its process
          Opaque,    \* processes whose identity other processes cannot confirm
          Detached,  \* processes whose terminal is gone
          Sharing,   \* processes on the callers' terminal in another session
          Owners,    \* exact owner processes of owner-bound wakes
          Injectors, \* inject-via executables with their fixed arguments
          Seconds,   \* readings of the clock, in seconds
          Roles,     \* the assignments of commands to Procs
          None

VARIABLES
  role,      \* [Procs -> command]
  pc,        \* [Procs -> step]
  mem,       \* [Procs -> what the process remembers]
  term,      \* processes that were sent SIGTERM
  ownerUp,   \* owners that run
  guard,     \* the holder of the lifecycle guard
  lock,      \* .wake.lock
  target,    \* .wake.target
  state,     \* .wake.state
  prepared,  \* .wake.prepared
  floor,     \* .wake.repair-floor
  ready,     \* [Procs -> the generation its readiness file names]
  hand       \* [Procs -> the repair handoff with its parent]

files == <<lock, target, state, prepared, floor>>
world == <<role, term, ownerUp>>
wakeVars == <<world, pc, mem, guard, files, ready, hand>>

Kinds ==
  {"raw", "via", "owner", "child", "recover", "retire", "repair", "none"}
Commands ==
  [kind : Kinds, inj : Injectors \cup {None}, owner : Owners \cup {None},
   accept : BOOLEAN, strict : BOOLEAN]

Digests == [inj : Injectors, owner : Owners \cup {None}, sec : Seconds]
Targets ==
  [inj : Injectors, owner : Owners \cup {None}, sec : Seconds, by : Procs]
Markers == [gen : Procs, digest : Digests \cup {None}]
States ==
  [target : Digests, prepared : Markers \cup {None}, rev : {0, 1}]
Locks ==
  [by : Procs, mode : {"raw", "via", "owner"}, digest : Digests \cup {None},
   owner : Owners \cup {None}, src : Procs \cup {None},
   whole : BOOLEAN, aged : BOOLEAN]
Floors ==
  [gen : Procs, digest : Digests, src : Procs \cup {None}, base : Procs]

Empty == [seen |-> None, tgt |-> None, st |-> None, prep |-> None,
          fl |-> None, child |-> None]

-----------------------------------------------------------------------------
(* Digests and projections *)

\* wakeTargetDigest covers the whole target, its creation time in seconds and
\* its owner included, but not which file holds it.
Digest(t) == [inj |-> t.inj, owner |-> t.owner, sec |-> t.sec]

\* newWakeState: what the state document says of a target and a marker.
Projects(st, t, m) == st.target = Digest(t) /\ st.prepared = m

\* A freshly installed document; rev tells it from the file it replaces.
NewState(t, m) ==
  [target |-> Digest(t), prepared |-> m,
   rev |-> IF state = None THEN 0 ELSE 1 - state.rev]

-----------------------------------------------------------------------------
(* How a process observes the claim *)

Alive(p) == pc[p] \notin {"idle", "exit"}

\* classifyWakeIdentity: "same" needs the start token and the boot of a
\* running process; what cannot be read is "unknown".
Identity(p) ==
  CASE ~Alive(p)                -> "gone"
    [] Alive(p) /\ p \in Opaque -> "unknown"
    [] OTHER                    -> "same"

\* readWakeLockMetadata: a claim that does not parse is being created for its
\* first two seconds, and malformed afterwards.
Parses(l) == l.whole
Unparsed(l) == IF l.aged THEN "malformed" ELSE "creating"

\* classifyWakeLock.
Status ==
  IF lock = None THEN "missing"
  ELSE IF ~Parses(lock) THEN Unparsed(lock)
  ELSE CASE Identity(lock.by) = "gone" -> "stale"
         [] Identity(lock.by) = "same" -> "valid"
         [] OTHER                      -> "unverified"

\* sameWakeLockGeneration: the very file that was inspected before.
SameGeneration(l, seen) == l # None /\ l = seen

\* classifyPersistedWakeClaim: a claim being created counts as generic.
ClaimClass ==
  CASE Status = "missing"   -> "absent"
    [] Status = "malformed" -> "invalid"
    [] Status = "creating"  -> "generic"
    [] OTHER -> IF lock.owner # None THEN "authoritative" ELSE "generic"

\* wakeLockInspectionStateBound: claims with a target are bound to the state.
Bound(l) == l.digest # None

\* readWakeStateSelectionAt prefers the document only when it agrees with both
\* legacy files.
StatePreferred ==
  target # None /\ state # None /\ Projects(state, target, prepared)

\* readWakeStateSelectionForInspectionAt: a bound claim has no fallback.
Selected(l) == Bound(l) => StatePreferred /\ state.target = l.digest

\* validateWakeTargetMatchesLock.
TargetMatches(l) == target # None /\ Bound(l) /\ Digest(target) = l.digest

\* classifyWakeStatePrepared.
MarkerClass(m, l) ==
  CASE m = None                                              -> "absent"
    [] m # None /\ m.gen # l.by                              -> "stale"
    [] m # None /\ m.gen = l.by /\ m.digest # l.digest       -> "refused"
    [] OTHER                                                 -> "current"

\* reconcileBoundWakePreparedProjectionAt: the one gap that is closed is the
\* marker of this very claim, not yet projected.
NeedsReconcile(l) ==
  /\ Bound(l)
  /\ TargetMatches(l)
  /\ prepared # None /\ MarkerClass(prepared, l) = "current"
  /\ state # None /\ state.target = l.digest
  /\ MarkerClass(state.prepared, l) \in {"absent", "stale"}

\* validateBoundWakeMutationAt, once the gap is closed: what every change
\* derived from an observed claim passes.
Mutable(l) == ~NeedsReconcile(l) /\ Selected(l)

\* isLiveWake with a prepared marker: validateWakePreparedSelection.
PreparedNow(l) ==
  /\ prepared # None /\ MarkerClass(prepared, l) = "current"
  /\ Bound(l) => TargetMatches(l)

\* wakeLockNeedsReplacement: a confirmed wake whose terminal is gone, unless
\* an external injector is its notification path, or that shares the caller's
\* terminal from another session.
NeedsReplacement(l) ==
  /\ Identity(l.by) = "same"
  /\ IF l.by \in Detached THEN ~Bound(l) ELSE l.by \in Sharing

\* requireWakeLockUsable: the mode, a notification path, and for inject-via
\* the same injector.
UsableFor(p, l) ==
  /\ l.mode = role[p].kind
  /\ ~NeedsReplacement(l)
  /\ Bound(l) => Selected(l) /\ target.inj = role[p].inj

-----------------------------------------------------------------------------
(* Steps *)

Go(p, where) == pc' = [pc EXCEPT ![p] = where]

\* The process is at the step and holds the guard.
Held(p, where) == guard = p /\ pc[p] = where

\* The guarded section returns.
Out(p, where) == Go(p, where) /\ guard' = None

\* removeWakeLockIfUnchangedGuarded: the caller holds the guard and has just
\* seen the claim, so it is still the same file.
RemoveClaim == lock' = None

\* removeWakeGenerationFileIfSnapshotMatches and its like: a file goes only when
\* it is the one in the snapshot.
RemoveExact(f, snapshot) == IF snapshot # None /\ f = snapshot THEN None ELSE f

\* publishWakeState installs a document over the one before.
PublishState == state' = NewState(target, prepared)

Remember(p, m) == mem' = [mem EXCEPT ![p] = m]

\* Steps that begin a guarded section (withWakeLifecycleGuardInDir).
Guarded ==
  {"acquire", "floor", "prepare", "ready", "cleanup", "join", "confirm",
   "term", "reap", "recover", "snapshot", "artifacts", "repair", "winner",
   "final", "rollback"}

Enter(p) ==
  /\ guard = None /\ pc[p] \in Guarded
  /\ guard' = p
  /\ UNCHANGED <<world, pc, mem, files, ready, hand>>

\* The gap is closed before the claim is changed or trusted.
Reconcile(p, where) ==
  /\ Held(p, where)
  /\ lock # None /\ lock.whole /\ NeedsReconcile(lock)
  /\ PublishState
  /\ UNCHANGED <<world, pc, mem, guard, lock, target, prepared, floor, ready,
                 hand>>

\* The process dies: the kernel releases its guard.
Crash(p) ==
  /\ Alive(p)
  /\ Go(p, "exit")
  /\ guard' = IF guard = p THEN None ELSE guard
  /\ UNCHANGED <<world, mem, files, ready, hand>>

\* An owner process ends.
OwnerExits(o) ==
  /\ o \in ownerUp
  /\ ownerUp' = ownerUp \ {o}
  /\ UNCHANGED <<role, term, pc, mem, guard, files, ready, hand>>

\* A claim that was left half written passes the age of quarantine (a live
\* writer holds the guard until the claim is whole).
Ages ==
  /\ lock # None /\ ~lock.whole /\ ~lock.aged /\ ~Alive(lock.by)
  /\ lock' = [lock EXCEPT !.aged = TRUE]
  /\ UNCHANGED <<world, pc, mem, guard, target, state, prepared, floor, ready,
                 hand>>

\* A command starts.
Entry ==
  [raw |-> "acquire", via |-> "acquire", owner |-> "acquire",
   recover |-> "recover", retire |-> "retire", repair |-> "repair"]

Start(p) ==
  /\ pc[p] = "idle" /\ role[p].kind \in DOMAIN Entry
  /\ Go(p, Entry[role[p].kind])
  /\ UNCHANGED <<world, mem, guard, files, ready, hand>>

\* The command ends with an error and changes nothing more.
Fail(p) == Out(p, "exit") /\ UNCHANGED <<world, mem, files, ready, hand>>

WakeInit ==
  /\ role \in Roles
  /\ pc = [p \in Procs |-> "idle"] /\ mem = [p \in Procs |-> Empty]
  /\ term = {} /\ guard = None
  /\ ownerUp = {role[p].owner : p \in Procs} \ {None}
  /\ lock = None /\ target = None /\ state = None /\ prepared = None
  /\ floor = None
  /\ ready = [p \in Procs |-> None] /\ hand = [p \in Procs |-> None]
=============================================================================
