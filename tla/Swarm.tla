-------------------------------- MODULE Swarm --------------------------------
(* The shared task list of an Agent Team: amq swarm join, leave, claim,      *)
(* complete, fail and block, and amq swarm bridge, which turns changes of    *)
(* the list into messages (internal/swarm and cli/swarm.go).  The list is    *)
(* one file, or one file per task; commands change it under a lock, the      *)
(* bridge reads it without one.  A name is <<handle, n>>: the handle itself  *)
(* when n is 0, and otherwise the n-th agent id made for it.                 *)
EXTENDS Naturals
CONSTANTS
  Agents,     \* handles
  Tasks,
  DependsOn,  \* a function from tasks to sets of tasks
  Bridged,    \* the handles that may run a bridge
  Nobody,     \* no assignee, no holder of the lock
  NoTask,     \* a task that is not in the list
  Single,     \* the list is one file, not one per task
  MaxIds      \* how many agent ids are made

\* Agent ids, and what the list says of a task.
AgentIds == Agents \X (0..MaxIds)
TaskRecords ==
  [status : {"pending", "in_progress", "completed", "failed", "blocked"},
   assigned : AgentIds \cup {Nobody}]

ASSUME SwarmAssumption ==
  /\ MaxIds \in Nat /\ DependsOn \in [Tasks -> SUBSET Tasks] /\ Bridged \subseteq Agents
  /\ Nobody \notin Agents /\ Nobody \notin AgentIds
  /\ NoTask \notin TaskRecords

VARIABLES
  tasks,      \* task -> [status, assigned] or NoTask
  members,    \* agent -> its ids in the team's list, which is in the order they were made
  ids,        \* agent ids made so far
  tasksLock,  \* who holds the tasks lock
  command,    \* agent -> [at, op, task, id, seen]
  held,       \* agent -> the tasks it was told it claimed and has not reported on
  bridge      \* agent -> [at, id, watching, dirty, states, deps, queue, lost, blind,
              \*           offered]: lost and offered are the claimable tasks whose message
              \*           failed or arrived, blind says the last look at the list was none

swarmVars == <<tasks, members, ids, tasksLock, command, held, bridge>>

NoCommand == [at |-> "none", op |-> "none", task |-> NoTask, id |-> Nobody, seen |-> NoTask]

NoBridge ==
  [at |-> "off", id |-> Nobody, watching |-> FALSE, dirty |-> FALSE, states |-> NoTask,
   deps |-> NoTask, queue |-> {}, lost |-> {}, blind |-> FALSE, offered |-> {}]

-----------------------------------------------------------------------------
(* The task list *)

Status(list, t) == IF list[t] = NoTask THEN "none" ELSE list[t].status

\* allDepsCompleted, and the gate of ClaimTask.
AllDepsCompleted(list, t) == \A d \in DependsOn[t] : Status(list, d) = "completed"

\* requireInProgress.
RequireInProgress(task) == task.status = "in_progress"

\* isAssignedToMe.
IsAssignedToMe(assigned, a, id) == assigned \in {<<a, 0>>, id}

\* requireTaskAssignee: an unassigned task is anybody's to report on.
RequireTaskAssignee(task, a, id) ==
  task.assigned = Nobody \/ IsAssignedToMe(task.assigned, a, id)

\* ClaimTask's update: a failed or blocked task may be claimed again.
MayClaim(list, t, id) ==
  /\ list[t] # NoTask
  /\ AllDepsCompleted(list, t)
  /\ list[t].status # "completed"
  /\ list[t].assigned \in {Nobody, id}

\* CompleteTask, FailTask and BlockTask.
MayReport(list, t, a, id) ==
  /\ list[t] # NoTask
  /\ RequireInProgress(list[t])
  /\ RequireTaskAssignee(list[t], a, id)

Outcome(op) ==
  CASE op = "complete" -> "completed"
    [] op = "fail" -> "failed"
    [] op = "block" -> "blocked"

Claimed(id) == [status |-> "in_progress", assigned |-> id]
Reported(task, op) == [task EXCEPT !.status = Outcome(op)]

\* updateTaskRaw: the whole file is rewritten from what was read of it.
Rewritten(list, t, value) == [(IF Single THEN list ELSE tasks) EXCEPT ![t] = value]

\* A rename in the watched directory.
Touched ==
  [a \in Agents |-> IF bridge[a].watching THEN [bridge[a] EXCEPT !.dirty = TRUE] ELSE bridge[a]]

-----------------------------------------------------------------------------
(* Commands *)

\* FindMemberByName: the first one.
FirstMember(a) == <<a, CHOOSE n \in members[a] : \A m \in members[a] : n <= m>>

\* resolveAgentID: an explicit id, the first member's, or the handle.
ResolveAgentID(a) ==
  {IF members[a] = {} THEN <<a, 0>> ELSE FirstMember(a)} \cup {<<a, n>> : n \in 1..ids[a]}

NewExternalAgentID(a) == <<a, ids[a] + 1>>
RegisterMember(id) == members' = [members EXCEPT ![id[1]] = @ \cup {id[2]}]
UnregisterMember(id) == members' = [members EXCEPT ![id[1]] = @ \ {id[2]}]

\* amq swarm join, with a new id.
JoinTeam(a) ==
  /\ ids[a] < MaxIds
  /\ ids' = [ids EXCEPT ![a] = @ + 1]
  /\ RegisterMember(NewExternalAgentID(a))
  /\ UNCHANGED <<tasks, tasksLock, command, held, bridge>>

\* amq swarm leave, with one of its ids; an id that is not listed is refused.
LeaveTeam(a) ==
  /\ \E n \in members[a] : UnregisterMember(<<a, n>>)
  /\ UNCHANGED <<tasks, ids, tasksLock, command, held, bridge>>

\* Mutant: the lock does not exclude.
LockShared == TRUE

\* withTasksLock.
LockFree == tasksLock = Nobody

\* ListTasks, inside the lock.  A command on a task that is not listed fails
\* without effect and is left out.
ReadList(a, op, t, id) ==
  /\ command[a].at = "none" /\ LockFree /\ tasks[t] # NoTask
  /\ tasksLock' = a
  /\ command' = [command EXCEPT ![a] = [at |-> "inside", op |-> op, task |-> t, id |-> id,
                                        seen |-> tasks]]

\* runSwarmClaim up to the read.
StartClaim(a, t) ==
  /\ \E id \in ResolveAgentID(a) : ReadList(a, "claim", t, id)
  /\ UNCHANGED <<tasks, members, ids, held, bridge>>

\* The agent lets go of the task before it knows the outcome.
StartReport(a, t, op) ==
  /\ \E id \in ResolveAgentID(a) : ReadList(a, op, t, id)
  /\ held' = [held EXCEPT ![a] = @ \ {t}]
  /\ UNCHANGED <<tasks, members, ids, bridge>>

\* runSwarmComplete, runSwarmFail and runSwarmBlock up to the read.
StartComplete(a, t) == StartReport(a, t, "complete")
StartFail(a, t) == StartReport(a, t, "fail")
StartBlock(a, t) == StartReport(a, t, "block")

Finish(a) ==
  /\ command' = [command EXCEPT ![a] = NoCommand]
  /\ tasksLock' = Nobody

Inside(a, op) == command[a].at = "inside" /\ command[a].op = op

\* ClaimTask: the agent is told, unless the command dies after the rename.
ClaimTask(a) ==
  /\ Inside(a, "claim")
  /\ LET c == command[a] IN
     /\ MayClaim(c.seen, c.task, c.id)
     /\ tasks' = Rewritten(c.seen, c.task, Claimed(c.id))
     /\ \E told \in BOOLEAN :
          held' = [held EXCEPT ![a] = IF told THEN @ \cup {c.task} ELSE @]
  /\ bridge' = Touched
  /\ Finish(a)
  /\ UNCHANGED <<members, ids>>

ReportTask(a, op) ==
  /\ Inside(a, op)
  /\ LET c == command[a] IN
     /\ MayReport(c.seen, c.task, a, c.id)
     /\ tasks' = Rewritten(c.seen, c.task, Reported(c.seen[c.task], op))
  /\ bridge' = Touched
  /\ Finish(a)
  /\ UNCHANGED <<members, ids, held>>

CompleteTask(a) == ReportTask(a, "complete")
FailTask(a) == ReportTask(a, "fail")
BlockTask(a) == ReportTask(a, "block")

\* A refusal, a failed write, or a command that dies before the rename.
CommandFails(a) ==
  /\ command[a].at = "inside"
  /\ Finish(a)
  /\ UNCHANGED <<tasks, members, ids, held, bridge>>

-----------------------------------------------------------------------------
(* The team lead, who does not take the lock: no write of theirs is assumed *)
(* to fall between the read and the write of a command.                     *)

LeadMayWrite == \A a \in Agents : command[a].at = "none"

LeadAdds(t) ==
  /\ tasks[t] = NoTask /\ LeadMayWrite
  /\ tasks' = [tasks EXCEPT ![t] = [status |-> "pending", assigned |-> Nobody]]
  /\ bridge' = Touched
  /\ UNCHANGED <<members, ids, tasksLock, command, held>>

LeadReopens(t) ==
  /\ Status(tasks, t) \in {"failed", "blocked"} /\ LeadMayWrite
  /\ tasks' = [tasks EXCEPT ![t] = [status |-> "pending", assigned |-> Nobody]]
  /\ bridge' = Touched
  /\ UNCHANGED <<members, ids, tasksLock, command, held>>

-----------------------------------------------------------------------------
(* The bridge *)

Claimable(list) ==
  {t \in Tasks : /\ Status(list, t) = "pending" /\ list[t].assigned = Nobody
                 /\ AllDepsCompleted(list, t)}

\* ListTasks without the lock: a task file that cannot be read is skipped.
ListTasks ==
  {[t \in Tasks |-> IF t \in skipped THEN NoTask ELSE tasks[t]] :
     skipped \in IF Single THEN {{}} ELSE SUBSET Tasks}

InitialDeps(seen) == [t \in Tasks |-> AllDepsCompleted(seen, t)]

\* RunBridge: a member's bridge scans (initialScan), and then polls or watches.
StartBridge(a) ==
  /\ bridge[a].at = "off" /\ members[a] # {}
  /\ \E seen \in ListTasks :
       bridge' = [bridge EXCEPT ![a] = [NoBridge EXCEPT
         !.at = "scanned", !.id = FirstMember(a),
         !.states = seen, !.deps = InitialDeps(seen), !.offered = Claimable(seen)]]
  /\ UNCHANGED <<tasks, members, ids, tasksLock, command, held>>

\* bridgeWithPolling.
FallBack(a) ==
  /\ bridge[a].at = "scanned"
  /\ bridge' = [bridge EXCEPT ![a].at = "idle"]
  /\ UNCHANGED <<tasks, members, ids, tasksLock, command, held>>

\* Mutant: no poll makes up for what happened before the watch.
NoCatchUp == FALSE

\* bridgeWithFsnotify polls once after the watch is in place.
CatchUp == TRUE

Watch(a) ==
  /\ bridge[a].at = "scanned"
  /\ bridge' = [bridge EXCEPT ![a].at = "idle", ![a].watching = TRUE, ![a].dirty = CatchUp]
  /\ UNCHANGED <<tasks, members, ids, tasksLock, command, held>>

\* isRelevantToAgent.
IsRelevant(task, a) == task.assigned = Nobody \/ IsAssignedToMe(task.assigned, a, bridge[a].id)

\* The type pollForChanges gives to a changed task.
ChangeType(prev, task) ==
  CASE prev = NoTask -> "task_added"
    [] prev # NoTask /\ task.status = "in_progress" /\ task.assigned # Nobody -> "task_assigned"
    [] prev # NoTask /\ task.status = "completed" -> "task_completed"
    [] prev # NoTask /\ task.status = "failed" -> "task_failed"
    [] prev # NoTask /\ task.status = "blocked" -> "task_blocked"
    [] OTHER -> "task_updated"

Changed(a, seen) ==
  {t \in Tasks : /\ seen[t] # NoTask /\ seen[t] # bridge[a].states[t]
                 /\ IsRelevant(seen[t], a)}

\* The dependencies of a known pending task became complete.
Unblocked(a, seen) ==
  {t \in Tasks : /\ seen[t] # NoTask /\ bridge[a].states[t] # NoTask
                 /\ DependsOn[t] # {} /\ seen[t].status = "pending"
                 /\ AllDepsCompleted(seen, t) /\ ~bridge[a].deps[t]
                 /\ IsRelevant(seen[t], a)}

\* What is remembered of the dependencies: only a pending task has any.
DepsNow(seen) == [t \in Tasks |-> Status(seen, t) = "pending" => AllDepsCompleted(seen, t)]

Event(t, type, seen) == [task |-> t, type |-> type, open |-> t \in Claimable(seen)]

Events(a, seen) ==
  {Event(t, ChangeType(bridge[a].states[t], seen[t]), seen) : t \in Changed(a, seen)}
    \cup {Event(t, "task_unblocked", seen) : t \in Unblocked(a, seen)}

\* A watching bridge polls after a change, a polling one at any time.
MayPoll(a) ==
  /\ bridge[a].at = "idle" /\ bridge[a].queue = {}
  /\ bridge[a].watching => bridge[a].dirty

\* pollForChanges: all is remembered before anything is delivered, and a task
\* that was not read is forgotten.
PollTasks(a) ==
  /\ MayPoll(a)
  /\ \E seen \in ListTasks :
       bridge' = [bridge EXCEPT ![a] = [bridge[a] EXCEPT
         !.dirty = FALSE, !.blind = seen # tasks, !.states = seen, !.deps = DepsNow(seen),
         !.queue = Events(a, seen),
         !.offered = @ \cap Claimable(seen), !.lost = @ \cap Claimable(seen)]]
  /\ UNCHANGED <<tasks, members, ids, tasksLock, command, held>>

\* processPollEvents when ListTasks fails: the trigger is used up, and nothing
\* else happens until the next one.
PollFails(a) ==
  /\ MayPoll(a)
  /\ bridge' = [bridge EXCEPT ![a].dirty = FALSE, ![a].blind = TRUE]
  /\ UNCHANGED <<tasks, members, ids, tasksLock, command, held>>

\* The watcher reports an error, such as an overflow, instead of the events.
WatcherError(a) ==
  /\ bridge[a].watching /\ bridge[a].dirty
  /\ bridge' = [bridge EXCEPT ![a].dirty = FALSE, ![a].blind = TRUE]
  /\ UNCHANGED <<tasks, members, ids, tasksLock, command, held>>

\* deliverBridgeEvent; a failure is written to stderr, and no more.
Deliver(a) ==
  /\ \E e \in bridge[a].queue :
       LET claimable == IF e.open THEN {e.task} ELSE {} IN
       \/ bridge' = [bridge EXCEPT ![a].queue = @ \ {e}, ![a].offered = @ \cup claimable]
       \/ bridge' = [bridge EXCEPT ![a].queue = @ \ {e}, ![a].lost = @ \cup claimable]
  /\ UNCHANGED <<tasks, members, ids, tasksLock, command, held>>

StopBridge(a) ==
  /\ bridge[a].at # "off"
  /\ bridge' = [bridge EXCEPT ![a] = NoBridge]
  /\ UNCHANGED <<tasks, members, ids, tasksLock, command, held>>

-----------------------------------------------------------------------------
SwarmInit ==
  /\ tasks \in [Tasks -> {NoTask, [status |-> "pending", assigned |-> Nobody]}]
  /\ members = [a \in Agents |-> {}] /\ ids = [a \in Agents |-> 0] /\ tasksLock = Nobody
  /\ command = [a \in Agents |-> NoCommand]
  /\ held = [a \in Agents |-> {}]
  /\ bridge = [a \in Agents |-> NoBridge]

CommandStep(a) ==
  \/ JoinTeam(a) \/ LeaveTeam(a) \/ CommandFails(a)
  \/ ClaimTask(a) \/ CompleteTask(a) \/ FailTask(a) \/ BlockTask(a)
  \/ \E t \in Tasks : StartClaim(a, t) \/ StartComplete(a, t) \/ StartFail(a, t) \/ StartBlock(a, t)

BridgeStep(a) ==
  \/ StartBridge(a) \/ FallBack(a) \/ Watch(a) \/ StopBridge(a)
  \/ PollTasks(a) \/ PollFails(a) \/ WatcherError(a) \/ Deliver(a)

SwarmNext ==
  \/ \E a \in Agents : CommandStep(a)
  \/ \E a \in Bridged : BridgeStep(a)
  \/ \E t \in Tasks : LeadAdds(t) \/ LeadReopens(t)

SwarmSpec == SwarmInit /\ [][SwarmNext]_swarmVars

-----------------------------------------------------------------------------
\* A claim that was reported to an agent stays its own, in progress, with all
\* dependencies completed, until that agent reports on it: ClaimTask,
\* CompleteTask, FailTask and BlockTask run under one lock (tasks.go).
ClaimsHold ==
  \A a \in Agents : \A t \in held[a] :
    /\ Status(tasks, t) = "in_progress"
    /\ \E n \in 0..MaxIds : tasks[t].assigned = <<a, n>>
    /\ AllDepsCompleted(tasks, t)

\* A watching bridge at rest has told its agent of every claimable task it did not
\* list when it started, or failed to send the message: no change falls between
\* the first scan and the watch, and what a failed poll, a lost event or a skipped
\* file kept from it, the next complete poll makes up for (bridgeWithFsnotify,
\* pollForChanges in bridge.go).
NoMissedWork ==
  \A a \in Bridged :
    LET b == bridge[a] IN
    b.watching /\ ~b.dirty /\ ~b.blind /\ b.queue = {}
      => Claimable(tasks) \subseteq b.offered \cup b.lost
=============================================================================
