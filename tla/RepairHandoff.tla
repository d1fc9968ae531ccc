---------------------------- MODULE RepairHandoff ----------------------------
(* The private handoff between amq wake repair and the wake it starts:       *)
(* source, prepared, admit, acknowledgement and release over two pipes, with *)
(* a deadline on every read, the inherited directories, and the capability   *)
(* to stop the child (wake_repair_handoff_unix.go, wake_repair_dirs_unix.go, *)
(* startWakeFromTargetDefault and repairWake in wake_unix.go).  The rest of  *)
(* the wake's life is in WakeRepair; here each side is a process of its own, *)
(* directories move under it, rivals claim the wake, and both sides may die. *)
(* Digests are the value they digest.  The two sides take turns, so a pipe   *)
(* holds at most one frame.                                                  *)
EXTENDS Naturals
CONSTANTS
  Places,    \* identities a directory may have
  Absent,    \* a canonical path that cannot be opened
  NoFrame,   \* an empty pipe, or nothing where a value may be
  MaxDirMoves  \* how often the directories move

VARIABLES
  parent,    \* [at, dirs, source, prepared, detached]
  child,     \* [at, source, prepared, watching]
  down, up,  \* the pipe to the child and the pipe to the parent
  stopper,   \* capability to stop the child: "none", "bound", "stopped", "detached", "closed"
  home,      \* identities at the canonical paths: [agent, inbox]
  disk,      \* [claim, floor, target] in the retained agent directory
  moved

handoffVars == <<parent, child, down, up, stopper, home, disk, moved>>

\* wakeRepairDirectoryIdentityForFile: what an open directory is, device and
\* inode, never zero.
Directories == [agent : Places, inbox : Places]

\* What the canonical paths may name at any moment.
Paths == [agent : Places \cup {Absent}, inbox : Places \cup {Absent}]

-----------------------------------------------------------------------------
(* Frames *)

\* newWakeRepairHandoffSource: the lineage of the dead claim.
NewSource(dirs) ==
  [kind |-> "source", gen |-> "dead", target |-> disk.target, floor |-> disk.floor,
   dirs |-> dirs]

\* source.validate: an identity is never missing.
SourceValid(source) == source.dirs \in Directories

\* newWakeRepairHandoffPrepared.
NewPrepared(source) ==
  [kind |-> "prepared", source |-> source, gen |-> disk.claim.gen,
   target |-> disk.target, floor |-> disk.floor]

\* prepared.validate: the floor is the one of the prepared claim.
PreparedValid(prepared) == prepared.floor.gen = prepared.gen

\* prepared.validateSource.
PreparedMatches(prepared, source) ==
  prepared.source = source /\ prepared.floor.src = source.floor.gen

\* newWakeRepairHandoffAdmit; the acknowledgement repeats it.
NewAdmit(prepared) == [kind |-> "admit", prepared |-> prepared]

\* admit.validatePrepared.
AdmitMatches(admit, prepared) == admit = NewAdmit(prepared)

\* newWakeRepairHandoffReject.
NewReject(admit) == [kind |-> "reject", prepared |-> admit.prepared]

\* newWakeRepairHandoffRelease.
NewRelease(admit) == [kind |-> "release", admit |-> admit]

\* release.validateAdmit.
ReleaseMatches(release, admit) == release = NewRelease(admit)

\* readWakeRepairHandoffFrame and what each reader makes of a frame.
Framed(pipe, kinds) == pipe # NoFrame /\ pipe.kind \in kinds

\* sourceFromWire.
SourceArrives == Framed(down, {"source"})

\* preparedFromWire.
PreparedArrives == Framed(up, {"prepared"}) /\ PreparedValid(up)

\* admitFromWire.
AdmitArrives == Framed(down, {"admit"})

\* readWakeRepairHandoffAdmissionResult: an acknowledgement or a rejection.
AnswerArrives == Framed(up, {"admit", "reject"})

\* releaseFromWire.
ReleaseArrives == Framed(down, {"release"})

-----------------------------------------------------------------------------
(* Pipes: a read ends with a frame, at its deadline, or at the end of the    *)
(* stream once the other side is gone; a write needs a reader.               *)

\* Close of the parent's and of the child's handoff.
ParentOpen == parent.at \notin {"wait", "rollback", "failed", "repaired", "dead"}
ChildOpen == child.at \notin {"none", "exiting", "exited"}

\* writeWakeRepairHandoffFrame.
WriteDown(frame) == ChildOpen /\ down' = frame
WriteUp(frame) == IF ParentOpen THEN up' = frame ELSE UNCHANGED up

ParentAt(at) == parent' = [parent EXCEPT !.at = at]
ChildAt(at) == child' = [child EXCEPT !.at = at]

-----------------------------------------------------------------------------
(* Directories and lineage *)

\* openValidatedWakeDirectoryAt: a direct child that is a directory.
Opens(place) == place # Absent

\* openWakeRepairInboxDir: the agent directory and the inbox below it.
CanRetain == Opens(home.agent) /\ Opens(home.inbox)

\* The descriptors are of the directories the source names: checked before
\* they are passed on, and again by the child that inherits them.
DescriptorsMatch(source) == parent.dirs = source.dirs
InheritedMatch(source) == SourceValid(source) /\ DescriptorsMatch(source)

\* validateCanonicalWakeRepairDirectories.
Canonical(source) ==
  /\ CanRetain
  /\ home.agent = source.dirs.agent /\ home.inbox = source.dirs.inbox

\* The target and the floor on disk are still those of the source.
LineageHolds(source) == disk.target = source.target /\ disk.floor = source.floor

\* validatePreparedRepairWakeWinnerInDir: the claim, the target and the floor
\* are the ones the child prepared, and continue the dead claim.
WinnerHolds(source, prepared) ==
  /\ PreparedMatches(prepared, source)
  /\ Canonical(source)
  /\ disk.claim = [gen |-> "child", src |-> source.gen]
  /\ child.at # "exited"
  /\ disk.target = source.target /\ disk.target = prepared.target
  /\ disk.floor = prepared.floor /\ disk.floor.gen = "child"
  /\ disk.floor.base = source.floor.base

-----------------------------------------------------------------------------
(* The parent *)

\* The guarded section of repairWake: the directories are retained, the
\* lineage captured, and the dead claim removed.
Capture ==
  /\ parent.at = "start"
  /\ IF CanRetain
     THEN /\ parent' = [parent EXCEPT !.at = "spawn", !.dirs = home, !.source = NewSource(home)]
          /\ disk' = [disk EXCEPT !.claim = NoFrame]
     ELSE ParentAt("failed") /\ UNCHANGED disk
  /\ UNCHANGED <<child, down, up, stopper, home, moved>>

\* prepareWakeRepairHandoff: one end of each pipe and both directories for the
\* child.
HandoffReady(source) == SourceValid(source) /\ DescriptorsMatch(source)

\* startWakeFromTargetDefault up to the start of the process.
StartChild ==
  /\ parent.at = "spawn" /\ HandoffReady(parent.source)
  /\ ParentAt("bind") /\ ChildAt("adopt")
  /\ UNCHANGED <<down, up, stopper, home, disk, moved>>

StartFails ==
  /\ parent.at = "spawn"
  /\ ParentAt("failed")
  /\ UNCHANGED <<child, down, up, stopper, home, disk, moved>>

\* Bind of the capability.
BindCapability == stopper' = "bound"

\* Then the parent's copies of the descriptors are closed and the source is
\* sent.
BindChild ==
  /\ parent.at = "bind"
  /\ BindCapability
  /\ \/ WriteDown(parent.source) /\ ParentAt("receive")
     \/ ParentAt("stop") /\ UNCHANGED down
  /\ UNCHANGED <<child, up, home, disk, moved>>

\* ReceivePrepared.
ReceivePrepared ==
  /\ parent.at = "receive" /\ PreparedArrives
  /\ up' = NoFrame
  /\ parent' = IF PreparedMatches(up, parent.source)
               THEN [parent EXCEPT !.at = "winner", !.prepared = up]
               ELSE [parent EXCEPT !.at = "stop"]
  /\ UNCHANGED <<child, down, stopper, home, disk, moved>>

ValidateWinner ==
  /\ parent.at = "winner"
  /\ ParentAt(IF WinnerHolds(parent.source, parent.prepared) THEN "admit" ELSE "stop")
  /\ UNCHANGED <<child, down, up, stopper, home, disk, moved>>

\* Admit: one attempt.
SendAdmit ==
  /\ parent.at = "admit"
  /\ \/ WriteDown(NewAdmit(parent.prepared)) /\ ParentAt("answer")
     \/ ~ChildOpen /\ ParentAt("stop") /\ UNCHANGED down
  /\ UNCHANGED <<child, up, stopper, home, disk, moved>>

\* The exact acknowledgement, or a rejection.
ReceiveAnswer ==
  /\ parent.at = "answer" /\ AnswerArrives
  /\ up' = NoFrame
  /\ ParentAt(IF AdmitMatches(up, parent.prepared) THEN "final" ELSE "stop")
  /\ UNCHANGED <<child, down, stopper, home, disk, moved>>

\* Deadline, end of stream, or the child's exit.
ParentGivesUp ==
  /\ parent.at \in {"receive", "answer"}
  /\ ParentAt("stop")
  /\ UNCHANGED <<child, down, up, stopper, home, disk, moved>>

\* child.validateAdmission, once more after the acknowledgement.
ValidateFinal ==
  /\ parent.at = "final"
  /\ ParentAt(IF WinnerHolds(parent.source, parent.prepared) THEN "detach" ELSE "stop")
  /\ UNCHANGED <<child, down, up, stopper, home, disk, moved>>

\* Detach of the capability.
DetachCapability == stopper' = "detached"

\* The stop authority is given away before the release.
Detach ==
  /\ parent.at = "detach"
  /\ \/ /\ DetachCapability
        /\ parent' = [parent EXCEPT !.at = "release", !.detached = TRUE]
     \/ ~ChildOpen /\ ParentAt("stop") /\ UNCHANGED stopper
  /\ UNCHANGED <<child, down, up, home, disk, moved>>

\* Release is the commit.
Release ==
  /\ parent.at = "release"
  /\ \/ WriteDown(NewRelease(NewAdmit(parent.prepared))) /\ ParentAt("repaired")
     \/ ~ChildOpen /\ ParentAt("stop") /\ UNCHANGED down
  /\ UNCHANGED <<child, up, stopper, home, disk, moved>>

\* Stop of the capability; after Detach there is none.
StopCapability == stopper' = IF parent.detached THEN stopper ELSE "stopped"

\* cleanupFailedWakeRepairChild: stop, close, and wait.
StopChild ==
  /\ parent.at = "stop"
  /\ StopCapability
  /\ ParentAt("wait")
  /\ UNCHANGED <<child, down, up, home, disk, moved>>

\* Without proof of the exit the claim and the floor stay.
AwaitExit ==
  /\ parent.at = "wait"
  /\ ParentAt(IF child.at = "exited" THEN "rollback" ELSE "failed")
  /\ UNCHANGED <<child, down, up, stopper, home, disk, moved>>

\* The claim of this child, and the floor of the tuple it prepared.
WithoutClaim ==
  IF disk.claim = [gen |-> "child", src |-> parent.source.gen]
  THEN [disk EXCEPT !.claim = NoFrame,
                    !.floor = IF parent.prepared # NoFrame /\ disk.floor = parent.prepared.floor
                              THEN NoFrame ELSE @]
  ELSE disk

Rollback ==
  /\ parent.at = "rollback"
  /\ disk' = WithoutClaim
  /\ ParentAt("failed")
  /\ UNCHANGED <<child, down, up, stopper, home, moved>>

\* A parent that dies closes its ends of the pipes.
ParentDies ==
  /\ parent.at \notin {"start", "failed", "repaired", "dead"}
  /\ ParentAt("dead")
  /\ stopper' = IF stopper = "bound" THEN "closed" ELSE stopper
  /\ UNCHANGED <<child, down, up, home, disk, moved>>

-----------------------------------------------------------------------------
(* The child *)

\* wakeRepairChildHandoffFromEnv.
AdoptPipes ==
  /\ child.at = "adopt"
  /\ ChildAt("source")
  /\ UNCHANGED <<parent, down, up, stopper, home, disk, moved>>

\* ReceiveSource and TakeRetainedDirectories; the target and the floor are
\* read in a guarded section.
ReceiveSource ==
  /\ child.at = "source" /\ SourceArrives
  /\ down' = NoFrame
  /\ child' = IF InheritedMatch(down) /\ LineageHolds(down)
              THEN [child EXCEPT !.at = "acquire", !.source = down]
              ELSE [child EXCEPT !.at = "exiting"]
  /\ UNCHANGED <<parent, up, stopper, home, disk, moved>>

\* acquireWakeLockWithOptionsInDir with a repair lineage.
AcquireClaim ==
  /\ child.at = "acquire"
  /\ IF disk.claim = NoFrame /\ LineageHolds(child.source)
     THEN /\ disk' = [disk EXCEPT !.claim = [gen |-> "child", src |-> child.source.gen]]
          /\ ChildAt("floor")
     ELSE ChildAt("exiting") /\ UNCHANGED disk
  /\ UNCHANGED <<parent, down, up, stopper, home, moved>>

HoldsClaim == disk.claim = [gen |-> "child", src |-> child.source.gen]

\* onBaselineReady: the inherited floor, under the claim of this child.
PublishFloor ==
  /\ child.at = "floor"
  /\ IF HoldsClaim
     THEN /\ disk' = [disk EXCEPT !.floor = [gen |-> "child", src |-> child.source.gen,
                                            base |-> child.source.floor.base]]
          /\ ChildAt("prepare")
     ELSE ChildAt("exiting") /\ UNCHANGED disk
  /\ UNCHANGED <<parent, down, up, stopper, home, moved>>

\* onPrepared: claim, target and floor are read once more, then the tuple is
\* sent.
SendPrepared ==
  /\ child.at = "prepare"
  /\ IF HoldsClaim /\ disk.target = child.source.target
        /\ disk.floor # NoFrame /\ disk.floor.gen = "child" /\ ParentOpen
     THEN /\ child' = [child EXCEPT !.at = "admit", !.prepared = NewPrepared(child.source)]
          /\ up' = NewPrepared(child.source)
     ELSE ChildAt("exiting") /\ UNCHANGED up
  /\ UNCHANGED <<parent, down, stopper, home, disk, moved>>

\* pendingWakeWatcherError: no error of the watcher is pending.
Watching == child.watching

\* validateWakeRepairChildAdmission.
AdmissionHolds == Watching /\ Canonical(child.source)

\* rejectAdmission: the rejection is reported if its reason can be.
ReportRejection(admit) == WriteUp(NewReject(admit)) \/ UNCHANGED up

\* Mutant: the acknowledgement is taken for the authorization.
AcknowledgedServes == IF ParentOpen THEN "recheck" ELSE "exiting"

\* An acknowledgement alone authorizes nothing: the child waits for the
\* release.
Acknowledged == IF ParentOpen THEN "hold" ELSE "exiting"

\* AwaitAdmitAcknowledgeAndRelease up to the acknowledgement.
ReceiveAdmit ==
  /\ child.at = "admit" /\ AdmitArrives
  /\ down' = NoFrame
  /\ IF ~AdmitMatches(down, child.prepared)
     THEN ChildAt("exiting") /\ UNCHANGED up
     ELSE IF AdmissionHolds
     THEN WriteUp(down) /\ ChildAt(Acknowledged)
     ELSE ReportRejection(down) /\ ChildAt("exiting")
  /\ UNCHANGED <<parent, stopper, home, disk, moved>>

\* The release is the last frame and stays in the pipe.
ReceiveRelease ==
  /\ child.at = "hold" /\ ReleaseArrives
  /\ ChildAt(IF ReleaseMatches(down, NewAdmit(child.prepared)) THEN "recheck" ELSE "exiting")
  /\ UNCHANGED <<parent, down, up, stopper, home, disk, moved>>

\* watchWakeRepairDarwinChildControl: a stop, or the end of the stream before
\* a detach.
StopOrdered == stopper \in {"stopped", "closed"}

\* After the release the validation runs again, and a stop order that was
\* noticed wins.
BeginServing ==
  /\ child.at = "recheck"
  /\ \/ AdmissionHolds /\ ChildAt("serving")
     \/ (~AdmissionHolds \/ StopOrdered) /\ ChildAt("exiting")
  /\ UNCHANGED <<parent, down, up, stopper, home, disk, moved>>

\* The end of the stream, or a deadline; the source is awaited without one.
ChildGivesUp ==
  /\ child.at \in {"source", "admit", "hold"}
  /\ child.at = "source" => ~ParentOpen
  /\ ChildAt("exiting")
  /\ UNCHANGED <<parent, down, up, stopper, home, disk, moved>>

\* The watcher reports an error; it stays pending.
WatchFails ==
  /\ child.at \in {"admit", "hold", "recheck"} /\ child.watching
  /\ child' = [child EXCEPT !.watching = FALSE]
  /\ UNCHANGED <<parent, down, up, stopper, home, disk, moved>>

\* A child that ends by itself gives its claim and its floor back.
ChildExits ==
  /\ child.at = "exiting"
  /\ ChildAt("exited")
  /\ disk' = IF child.source # NoFrame /\ HoldsClaim
             THEN [disk EXCEPT !.claim = NoFrame,
                               !.floor = IF @ # NoFrame /\ @.gen = "child" THEN NoFrame ELSE @]
             ELSE disk
  /\ UNCHANGED <<parent, down, up, stopper, home, moved>>

\* A child that is killed leaves both.
ChildKilled ==
  /\ child.at \notin {"none", "exited"}
  /\ ChildAt("exited")
  /\ UNCHANGED <<parent, down, up, stopper, home, disk, moved>>

-----------------------------------------------------------------------------
(* Others *)

\* A directory is replaced at its canonical path, or put back.
DirectoriesMove ==
  /\ moved < MaxDirMoves
  /\ home' \in Paths \ {home}
  /\ moved' = moved + 1
  /\ UNCHANGED <<parent, child, down, up, stopper, disk>>

\* Another wake claims the agent while no live claim is in its way.
RivalClaims ==
  /\ parent.at # "start" /\ disk.claim = NoFrame
  /\ disk' = [claim |-> [gen |-> "rival", src |-> NoFrame],
              floor |-> [gen |-> "rival", src |-> NoFrame, base |-> "later"],
              target |-> "other"]
  /\ UNCHANGED <<parent, child, down, up, stopper, home, moved>>

-----------------------------------------------------------------------------
HandoffInit ==
  /\ parent = [at |-> "start", dirs |-> NoFrame, source |-> NoFrame,
               prepared |-> NoFrame, detached |-> FALSE]
  /\ child = [at |-> "none", source |-> NoFrame, prepared |-> NoFrame, watching |-> TRUE]
  /\ down = NoFrame /\ up = NoFrame /\ stopper = "none" /\ moved = 0
  /\ home \in Directories
  /\ disk = [claim |-> [gen |-> "dead", src |-> NoFrame],
             floor |-> [gen |-> "dead", src |-> NoFrame, base |-> "first"],
             target |-> "saved"]

ParentStep ==
  \/ Capture \/ StartChild \/ StartFails \/ BindChild \/ ReceivePrepared
  \/ ValidateWinner \/ SendAdmit \/ ReceiveAnswer \/ ParentGivesUp \/ ValidateFinal
  \/ Detach \/ Release \/ StopChild \/ AwaitExit \/ Rollback \/ ParentDies

ChildStep ==
  \/ AdoptPipes \/ ReceiveSource \/ AcquireClaim \/ PublishFloor \/ SendPrepared
  \/ ReceiveAdmit \/ ReceiveRelease \/ BeginServing \/ ChildGivesUp \/ WatchFails
  \/ ChildExits \/ ChildKilled

HandoffNext == ParentStep \/ ChildStep \/ DirectoriesMove \/ RivalClaims

HandoffSpec == HandoffInit /\ [][HandoffNext]_handoffVars

-----------------------------------------------------------------------------
\* The release is written, and the parent reports the repair.
Released == parent.at = "repaired"

PhaseOf ==
  CASE child.at = "serving" -> "serving"
    [] child.at \in {"exiting", "exited"} -> "gone"
    [] child.at \notin {"serving", "exiting", "exited"} /\ Released -> "committed"
    [] OTHER -> "open"

VerdictOf ==
  CASE Released -> "repaired"
    [] parent.at \in {"stop", "wait", "rollback", "failed", "dead"} -> "failed"
    [] OTHER -> "none"

InPlaceOf == parent.source = NoFrame \/ Canonical(parent.source)

Admission == INSTANCE RepairAdmission
  WITH phase <- PhaseOf, verdict <- VerdictOf, inPlace <- InPlaceOf

\* The frames implement the admission: the child serves only after the parent
\* wrote the release, in the directories of the dead wake, and a parent that
\* gave up before it, or died, never has a serving child (Release and
\* AwaitAdmitAcknowledgeAndRelease in wake_repair_handoff_unix.go).
ImplementsAdmission == Admission!Spec
=============================================================================
