---------------------------- MODULE WatchProofs -----------------------------
(* What Swarm and RepairHandoff guarantee. For any number of agents, tasks,  *)
(* dependencies and ids, a claim an agent was told of stays its own until it *)
(* reports, and a watching bridge misses no task that it could have read. For *)
(* any directories and any number of moves, every step of the handoff is a   *)
(* step of RepairAdmission under the mapping of its Admission instance, or   *)
(* leaves the mapped state alone.                                            *)
EXTENDS Swarm, RepairHandoff, WellFoundedInduction, TLAPS

\* A leaf that names no prover is Zenon's.
USE ZenonT(60)

Lists == [Tasks -> TaskRecords \cup {NoTask}]

CommandRecords ==
  [at : {"inside"}, op : {"claim", "complete", "fail", "block"}, task : Tasks, id : AgentIds,
   seen : Lists]

CommandTypes ==
  /\ tasks \in Lists
  /\ members \in [Agents -> SUBSET (1..MaxIds)] /\ ids \in [Agents -> 0..MaxIds]
  /\ tasksLock \in Agents \cup {Nobody}
  /\ command \in [Agents -> CommandRecords \cup {NoCommand}]
  /\ held \in [Agents -> SUBSET Tasks]

\* A command inside the lock has read what the list still says, acts under an id
\* of its own agent, and the agent has let go of a task it reports on.
Locked ==
  \A a \in Agents : command[a].at = "inside" =>
    /\ tasksLock = a
    /\ command[a].seen = tasks
    /\ command[a].id[1] = a
    /\ command[a].op # "claim" => command[a].task \notin held[a]

ClaimInv == CommandTypes /\ Locked /\ ClaimsHold

EventTypes ==
  {ChangeType(x, y) : x, y \in TaskRecords \cup {NoTask}} \cup {"task_unblocked"}
EventRecords == [task : Tasks, type : EventTypes, open : BOOLEAN]

BridgeRecords ==
  [at : {"off", "scanned", "idle"}, id : AgentIds \cup {Nobody}, watching : BOOLEAN,
   dirty : BOOLEAN, states : Lists \cup {NoTask}, deps : [Tasks -> BOOLEAN] \cup {NoTask},
   queue : SUBSET EventRecords, lost : SUBSET Tasks, blind : BOOLEAN, offered : SUBSET Tasks]

\* Tasks the agent was told of, or is about to be, or should have been.
Announced(b) == b.offered \cup b.lost \cup {e.task : e \in {x \in b.queue : x.open}}

\* What bridge b knows of a list: what it remembers is the list unless a change
\* is signalled or it is blind, and of what it remembers every claimable task is announced.
Told(b, list) ==
  /\ b.at # "idle" => b.queue = {} /\ ~b.watching
  /\ b.watching /\ ~b.dirty /\ ~b.blind => b.states = list
  /\ b.at # "off" =>
       /\ b.states \in Lists
       /\ \A t \in Tasks : Status(b.states, t) = "pending" =>
            (b.deps[t] <=> AllDepsCompleted(b.states, t))
       /\ Claimable(b.states) \subseteq Announced(b)

BridgeInv == bridge \in [Agents -> BridgeRecords] /\ \A a \in Agents : Told(bridge[a], tasks)

-----------------------------------------------------------------------------
(* Ids *)

\* A set of numbers has a least one.
LEMMA LeastNumber ==
  ASSUME NEW S, S \subseteq Nat, S # {}
  PROVE  \E m \in S : \A n \in S : m <= n
<1>1. \A m, n \in Nat : <<n, m>> \in OpToRel(<, Nat) <=> n < m
  BY DEF OpToRel
<1>2. PICK less : /\ IsWellFoundedOn(less, Nat)
                  /\ \A m, n \in Nat : <<n, m>> \in less <=> n < m
  BY <1>1, NatLessThanWellFounded
<1>3. \E m \in S : \A n \in S : ~(<<n, m>> \in less)
  BY <1>2, WFMin
<1>4. PICK m \in S : \A n \in S : ~(<<n, m>> \in less)
  BY <1>3
<1>5. \A x, y \in Nat : <<y, x>> \in less <=> y < x
  BY <1>2
<1>6. ASSUME NEW n \in S
      PROVE  m <= n
  <2>1. m \in Nat /\ n \in Nat
    OBVIOUS
  <2>2. ~(n < m)
    BY <1>4, <1>5, <2>1
  <2> QED
    BY <2>1, <2>2, SMTT(20)
<1> QED
  BY <1>6

\* The first member of a handle has an id of that handle.
LEMMA FirstMemberId ==
  ASSUME CommandTypes, NEW a \in Agents, members[a] # {}
  PROVE  FirstMember(a) \in AgentIds /\ FirstMember(a)[1] = a
<1>1. members[a] \subseteq 1..MaxIds /\ members[a] \subseteq Nat
  BY SwarmAssumption, SMTT(20) DEF CommandTypes
<1>2. \E n \in members[a] : \A m \in members[a] : n <= m
  BY <1>1, LeastNumber
<1>3. PICK n \in members[a] : FirstMember(a) = <<a, n>>
  BY <1>2 DEF FirstMember
<1>4. n \in 0..MaxIds
  BY <1>1, SMTT(20)
<1> QED
  BY <1>3, <1>4, SMTT(20) DEF AgentIds

\* resolveAgentID gives an agent an id of its own.
LEMMA OwnId ==
  ASSUME CommandTypes, NEW a \in Agents, NEW id \in ResolveAgentID(a)
  PROVE  id \in AgentIds /\ id[1] = a
<1>1. ids[a] \in 0..MaxIds /\ MaxIds \in Nat
  BY SwarmAssumption DEF CommandTypes
<1>2. CASE id \in {<<a, n>> : n \in 1..ids[a]}
  <2>1. PICK n \in 1..ids[a] : id = <<a, n>>
    BY <1>2
  <2>2. n \in 0..MaxIds
    BY <1>1, SMTT(20)
  <2> QED
    BY <2>1, <2>2 DEF AgentIds
<1>3. CASE id = <<a, 0>>
  BY <1>1, <1>3, SMTT(20) DEF AgentIds
<1>4. CASE members[a] # {} /\ id = FirstMember(a)
  BY <1>4, FirstMemberId
<1> QED
  BY <1>2, <1>3, <1>4 DEF ResolveAgentID
-----------------------------------------------------------------------------
(* Claims *)

\* A reported task keeps its assignee and is no longer in progress.
LEMMA RecordTyped ==
  ASSUME NEW r \in TaskRecords
  PROVE  /\ r # NoTask
         /\ \A op \in {"complete", "fail", "block"} :
              /\ Reported(r, op) \in TaskRecords
              /\ Reported(r, op).status = Outcome(op)
              /\ Reported(r, op).assigned = r.assigned
              /\ Outcome(op) # "in_progress"
  BY SwarmAssumption DEF TaskRecords, Reported, Outcome

\* A claimed task is in progress and belongs to the id that claimed it.
LEMMA ClaimedTyped ==
  ASSUME NEW id \in AgentIds
  PROVE  /\ Claimed(id) \in TaskRecords /\ Claimed(id) # NoTask
         /\ Claimed(id).status = "in_progress" /\ Claimed(id).assigned = id
  BY SwarmAssumption, SMTT(20) DEF TaskRecords, Claimed

\* The list of a command inside the lock, and what it may do to it.
LEMMA InsideTyped ==
  ASSUME ClaimInv, NEW a \in Agents, command[a].at = "inside"
  PROVE  /\ command[a] \in CommandRecords
         /\ tasksLock = a /\ command[a].seen = tasks
         /\ command[a].task \in Tasks /\ command[a].id \in AgentIds /\ command[a].id[1] = a
         /\ \A b \in Agents : b # a => command[b].at # "inside"
<1>1. command[a] \in CommandRecords
  BY SMTT(20) DEF ClaimInv, CommandTypes, NoCommand
<1> QED
  BY <1>1 DEF ClaimInv, Locked, CommandRecords

\* Reading the list under the lock.
LEMMA ReadKeeps ==
  ASSUME ClaimInv, NEW a \in Agents, NEW t \in Tasks,
         NEW op \in {"claim", "complete", "fail", "block"}, NEW id \in ResolveAgentID(a),
         ReadList(a, op, t, id), UNCHANGED tasks,
         held' \in [Agents -> SUBSET Tasks],
         \A b \in Agents : held'[b] \subseteq held[b],
         op # "claim" => t \notin held'[a],
         UNCHANGED <<members, ids>>
  PROVE  ClaimInv'
<1>0. id \in AgentIds /\ id[1] = a
  BY OwnId DEF ClaimInv
<1>1. PICK c \in CommandRecords : c = [at |-> "inside", op |-> op, task |-> t, id |-> id, seen |-> tasks]
  BY <1>0 DEF CommandRecords, ClaimInv, CommandTypes
<1>2. /\ command' = [command EXCEPT ![a] = c] /\ tasksLock' = a /\ tasksLock = Nobody
  BY <1>1 DEF ReadList, LockFree
<1>3. CommandTypes'
  BY <1>1, <1>2 DEF ClaimInv, CommandTypes
<1>4. \A b \in Agents : command[b].at # "inside"
  BY <1>2, SwarmAssumption DEF ClaimInv, Locked
<1>5. Locked'
  BY <1>0, <1>1, <1>2, <1>4, SMTT(20) DEF ClaimInv, CommandTypes, Locked
<1>6. ClaimsHold'
  BY SMTT(20) DEF ClaimInv, ClaimsHold, AllDepsCompleted, Status
<1> QED
  BY <1>3, <1>5, <1>6 DEF ClaimInv

\* A completed task stays completed, so dependencies stay completed when other
\* tasks change.
LEMMA DepsStay ==
  ASSUME NEW l \in Lists, NEW m \in Lists, NEW t \in Tasks, AllDepsCompleted(l, t),
         \A d \in Tasks : Status(l, d) = "completed" => Status(m, d) = "completed"
  PROVE  AllDepsCompleted(m, t)
  BY SwarmAssumption DEF AllDepsCompleted

\* The write of a command, which ends it.
LEMMA WriteKeeps ==
  ASSUME ClaimInv, NEW a \in Agents, command[a].at = "inside", Finish(a),
         NEW r \in TaskRecords, NEW t \in Tasks, tasks' = [tasks EXCEPT ![t] = r],
         Status(tasks, t) # "completed",
         held' \in [Agents -> SUBSET Tasks],
         \A b \in Agents : \A u \in held'[b] :
           \/ u # t /\ u \in held[b]
           \/ /\ u = t /\ r.status = "in_progress" /\ \E n \in 0..MaxIds : r.assigned = <<b, n>>
              /\ AllDepsCompleted(tasks, t),
         UNCHANGED <<members, ids>>
  PROVE  ClaimInv'
<1>0. NoCommand.at = "none"
  BY DEF NoCommand
<1>1. /\ command' = [command EXCEPT ![a] = NoCommand] /\ tasksLock' = Nobody
      /\ \A b \in Agents : command'[b].at # "inside"
  BY <1>0, InsideTyped DEF Finish, ClaimInv, CommandTypes
<1>2. tasks \in Lists /\ tasks' \in Lists
  BY DEF ClaimInv, CommandTypes, Lists
<1>3. CommandTypes'
  BY <1>1, <1>2 DEF ClaimInv, CommandTypes
<1>4. Locked'
  BY <1>1 DEF Locked
<1>5. \A d \in Tasks : Status(tasks, d) = "completed" => Status(tasks', d) = "completed"
  BY <1>2 DEF Status, Lists
<1>6. ASSUME NEW b \in Agents, NEW u \in held'[b]
      PROVE  /\ Status(tasks', u) = "in_progress"
             /\ \E n \in 0..MaxIds : tasks'[u].assigned = <<b, n>>
             /\ AllDepsCompleted(tasks', u)
  <2>0. u \in Tasks
    OBVIOUS
  <2>1. CASE u # t /\ u \in held[b]
    <3>1. tasks'[u] = tasks[u]
      BY <1>2, <2>0, <2>1 DEF Lists
    <3>2. /\ Status(tasks, u) = "in_progress" /\ AllDepsCompleted(tasks, u)
          /\ \E n \in 0..MaxIds : tasks[u].assigned = <<b, n>>
      BY <2>1 DEF ClaimInv, ClaimsHold
    <3>3. AllDepsCompleted(tasks', u)
      BY <1>2, <1>5, <2>0, <3>2, DepsStay
    <3> QED
      BY <3>1, <3>2, <3>3 DEF Status
  <2>2. CASE /\ u = t /\ r.status = "in_progress" /\ \E n \in 0..MaxIds : r.assigned = <<b, n>>
             /\ AllDepsCompleted(tasks, t)
    <3>1. tasks'[u] = r /\ r # NoTask
      BY <1>2, <2>2, RecordTyped DEF Lists
    <3>2. AllDepsCompleted(tasks', u)
      BY <1>2, <1>5, <2>2, DepsStay
    <3> QED
      BY <2>2, <3>1, <3>2 DEF Status
  <2> QED
    BY <2>1, <2>2
<1>7. ClaimsHold'
  BY <1>6 DEF ClaimsHold, Status, AllDepsCompleted
<1> QED
  BY <1>3, <1>4, <1>7 DEF ClaimInv

\* Whoever holds a task is the agent its assignment names.
LEMMA HeldAssigned ==
  ASSUME ClaimInv, NEW a \in Agents, NEW b \in Agents, NEW t \in held[b],
         NEW id \in AgentIds, id[1] = a, tasks[t].assigned \in {Nobody, <<a, 0>>, id}
  PROVE  b = a
<1>1. PICK n \in 0..MaxIds : tasks[t].assigned = <<b, n>>
  BY DEF ClaimInv, ClaimsHold
<1>2. <<b, n>> \in AgentIds /\ <<b, n>> # Nobody
  BY SwarmAssumption, SMTT(20) DEF AgentIds
<1>3. CASE tasks[t].assigned = id
  BY <1>1, <1>3, SMTT(20)
<1>4. CASE tasks[t].assigned = <<a, 0>>
  BY <1>1, <1>4, SMTT(20)
<1> QED
  BY <1>1, <1>2, <1>3, <1>4

\* ClaimTask, CompleteTask, FailTask and BlockTask.
LEMMA ClaimTaskKeeps ==
  ASSUME ClaimInv, NEW a \in Agents, ClaimTask(a)
  PROVE  ClaimInv'
<1>0. command[a].at = "inside"
  BY DEF ClaimTask, Inside
<1>1. PICK t \in Tasks, id \in AgentIds :
        /\ t = command[a].task /\ id = command[a].id /\ id[1] = a /\ command[a].seen = tasks
  BY <1>0, InsideTyped
<1>2. /\ MayClaim(tasks, t, id) /\ tasks' = Rewritten(tasks, t, Claimed(id))
      /\ \E told \in BOOLEAN : held' = [held EXCEPT ![a] = IF told THEN @ \cup {t} ELSE @]
      /\ Finish(a) /\ UNCHANGED <<members, ids>>
  BY <1>1 DEF ClaimTask
<1>3. tasks' = [tasks EXCEPT ![t] = Claimed(id)]
  BY <1>2 DEF Rewritten
<1>4. Status(tasks, t) # "completed" /\ AllDepsCompleted(tasks, t)
      /\ tasks[t].assigned \in {Nobody, <<a, 0>>, id}
  BY <1>2 DEF MayClaim, Status
<1>5. PICK n \in 0..MaxIds : id = <<a, n>>
  BY <1>1, SMTT(20) DEF AgentIds
<1>6. held \in [Agents -> SUBSET Tasks]
  BY DEF ClaimInv, CommandTypes
<1>7. held' \in [Agents -> SUBSET Tasks]
  BY <1>2, <1>6
<1>8. ASSUME NEW b \in Agents, NEW u \in held'[b]
      PROVE  \/ u # t /\ u \in held[b]
             \/ /\ u = t /\ Claimed(id).status = "in_progress"
                /\ \E k \in 0..MaxIds : Claimed(id).assigned = <<b, k>>
                /\ AllDepsCompleted(tasks, t)
  <2>1. u \in held[b] \/ (b = a /\ u = t)
    BY <1>2, <1>6
  <2>2. CASE u = t
    <3>1. b = a
      BY <1>1, <1>4, <2>1, <2>2, HeldAssigned, SMTT(20)
    <3> QED
      BY <1>4, <1>5, <2>2, <3>1, ClaimedTyped
  <2> QED
    BY <2>1, <2>2
<1>9. PICK r \in TaskRecords : r = Claimed(id)
  BY ClaimedTyped
<1>10. tasks' = [tasks EXCEPT ![t] = r]
  BY <1>3, <1>9
<1>11. \A b \in Agents : \A u \in held'[b] :
         \/ u # t /\ u \in held[b]
         \/ /\ u = t /\ r.status = "in_progress" /\ \E k \in 0..MaxIds : r.assigned = <<b, k>>
            /\ AllDepsCompleted(tasks, t)
  BY <1>8, <1>9
<1> QED
  BY <1>0, <1>2, <1>4, <1>7, <1>10, <1>11, WriteKeeps

\* A report is on a task its agent let go of, and nobody else may report on it.
LEMMA ReportTaskKeeps ==
  ASSUME ClaimInv, NEW a \in Agents, NEW op \in {"complete", "fail", "block"}, ReportTask(a, op)
  PROVE  ClaimInv'
<1>0. command[a].at = "inside" /\ command[a].op = op
  BY DEF ReportTask, Inside
<1>1. PICK t \in Tasks, id \in AgentIds :
        /\ t = command[a].task /\ id = command[a].id /\ id[1] = a /\ command[a].seen = tasks
  BY <1>0, InsideTyped
<1>2. /\ MayReport(tasks, t, a, id) /\ tasks' = Rewritten(tasks, t, Reported(tasks[t], op))
      /\ Finish(a) /\ UNCHANGED <<members, ids, held>>
  BY <1>1 DEF ReportTask
<1>3. tasks' = [tasks EXCEPT ![t] = Reported(tasks[t], op)]
  BY <1>2 DEF Rewritten
<1>4. tasks[t] \in TaskRecords
  BY <1>2 DEF MayReport, ClaimInv, CommandTypes, Lists
<1>5. Status(tasks, t) # "completed" /\ tasks[t].assigned \in {Nobody, <<a, 0>>, id}
  BY <1>2 DEF MayReport, RequireInProgress, RequireTaskAssignee, IsAssignedToMe, Status
<1>6. t \notin held[a] /\ held \in [Agents -> SUBSET Tasks]
  BY <1>0, <1>1 DEF ClaimInv, CommandTypes, Locked
<1>7. ASSUME NEW b \in Agents, NEW u \in held'[b]
      PROVE  u # t /\ u \in held[b]
  BY <1>1, <1>2, <1>5, <1>6, HeldAssigned, SMTT(20)
<1>8. PICK r \in TaskRecords : tasks' = [tasks EXCEPT ![t] = r]
  BY <1>3, <1>4, RecordTyped
<1>9. held' \in [Agents -> SUBSET Tasks]
  BY <1>2, <1>6
<1>10. \A b \in Agents : \A u \in held'[b] :
         \/ u # t /\ u \in held[b]
         \/ /\ u = t /\ r.status = "in_progress" /\ \E k \in 0..MaxIds : r.assigned = <<b, k>>
            /\ AllDepsCompleted(tasks, t)
  BY <1>7
<1> QED
  BY <1>0, <1>2, <1>5, <1>8, <1>9, <1>10, WriteKeeps

\* The start of a command.
LEMMA StartKeeps ==
  ASSUME ClaimInv, NEW a \in Agents, NEW t \in Tasks,
         StartClaim(a, t) \/ StartComplete(a, t) \/ StartFail(a, t) \/ StartBlock(a, t)
  PROVE  ClaimInv'
<1>0. held \in [Agents -> SUBSET Tasks]
  BY DEF ClaimInv, CommandTypes
<1>1. CASE StartClaim(a, t)
  <2>1. PICK id \in ResolveAgentID(a) : ReadList(a, "claim", t, id)
    BY <1>1 DEF StartClaim
  <2> QED
    BY <1>0, <1>1, <2>1, ReadKeeps DEF StartClaim
<1>2. ASSUME NEW op \in {"complete", "fail", "block"}, StartReport(a, t, op)
      PROVE  ClaimInv'
  <2>1. PICK id \in ResolveAgentID(a) : ReadList(a, op, t, id)
    BY <1>2 DEF StartReport
  <2>2. /\ held' \in [Agents -> SUBSET Tasks] /\ t \notin held'[a]
        /\ \A b \in Agents : held'[b] \subseteq held[b]
    BY <1>0, <1>2 DEF StartReport
  <2>3. UNCHANGED <<tasks, members, ids>>
    BY <1>2 DEF StartReport
  <2> QED
    BY <2>1, <2>2, <2>3, ReadKeeps
<1> QED
  BY <1>1, <1>2 DEF StartComplete, StartFail, StartBlock

\* Joining and leaving.
LEMMA MembersKeep ==
  ASSUME ClaimInv, NEW a \in Agents, JoinTeam(a) \/ LeaveTeam(a)
  PROVE  ClaimInv'
<1>1. UNCHANGED <<tasks, tasksLock, command, held>>
  BY DEF JoinTeam, LeaveTeam
<1>2. members \in [Agents -> SUBSET (1..MaxIds)] /\ ids \in [Agents -> 0..MaxIds] /\ MaxIds \in Nat
  BY SwarmAssumption DEF ClaimInv, CommandTypes
<1>3. members' \in [Agents -> SUBSET (1..MaxIds)] /\ ids' \in [Agents -> 0..MaxIds]
  <2>1. CASE JoinTeam(a)
    <3>1. /\ ids[a] < MaxIds /\ ids' = [ids EXCEPT ![a] = @ + 1]
          /\ members' = [members EXCEPT ![a] = @ \cup {ids[a] + 1}]
      BY <2>1 DEF JoinTeam, RegisterMember, NewExternalAgentID
    <3>2. ids[a] + 1 \in 1..MaxIds /\ ids[a] + 1 \in 0..MaxIds
      BY <1>2, <3>1, SMTT(20)
    <3> QED
      BY <1>2, <3>1, <3>2
  <2>2. CASE LeaveTeam(a)
    <3>1. PICK n \in members[a] : members' = [members EXCEPT ![a] = @ \ {n}]
      BY <2>2 DEF LeaveTeam, UnregisterMember
    <3> QED
      BY <1>2, <2>2, <3>1 DEF LeaveTeam
  <2> QED
    BY <2>1, <2>2
<1> QED
  BY <1>1, <1>3, SMTT(20) DEF ClaimInv, CommandTypes, Locked, ClaimsHold, Status, AllDepsCompleted

\* The lead writes between commands; no held task is failed, blocked or absent.
LEMMA LeadKeeps ==
  ASSUME ClaimInv, NEW t \in Tasks, LeadAdds(t) \/ LeadReopens(t)
  PROVE  ClaimInv'
<1>0. PICK r \in TaskRecords : r = [status |-> "pending", assigned |-> Nobody]
  BY DEF TaskRecords
<1>1. /\ tasks' = [tasks EXCEPT ![t] = r]
      /\ UNCHANGED <<members, ids, tasksLock, command, held>>
      /\ \A a \in Agents : command[a].at = "none"
      /\ Status(tasks, t) \in {"none", "failed", "blocked"}
  BY <1>0 DEF LeadAdds, LeadReopens, LeadMayWrite, Status
<1>2. tasks \in Lists /\ tasks' \in Lists
  BY <1>1 DEF ClaimInv, CommandTypes, Lists
<1>3. CommandTypes' /\ Locked'
  BY <1>1, <1>2 DEF ClaimInv, CommandTypes, Locked
<1>4. \A d \in Tasks : Status(tasks, d) = "completed" => Status(tasks', d) = "completed"
  BY <1>1, <1>2 DEF Status, Lists
<1>5. ASSUME NEW b \in Agents, NEW u \in held[b]
      PROVE  /\ Status(tasks', u) = "in_progress"
             /\ \E n \in 0..MaxIds : tasks'[u].assigned = <<b, n>>
             /\ AllDepsCompleted(tasks', u)
  <2>1. /\ Status(tasks, u) = "in_progress" /\ AllDepsCompleted(tasks, u)
        /\ \E n \in 0..MaxIds : tasks[u].assigned = <<b, n>>
    BY DEF ClaimInv, ClaimsHold
  <2>2. u \in Tasks
    BY DEF ClaimInv, CommandTypes
  <2>3. u # t
    BY <1>1, <2>1
  <2>4. tasks'[u] = tasks[u]
    BY <1>1, <1>2, <2>2, <2>3 DEF Lists
  <2>5. AllDepsCompleted(tasks', u)
    BY <1>2, <1>4, <2>1, <2>2, DepsStay
  <2> QED
    BY <2>1, <2>4, <2>5 DEF Status
<1>6. ClaimsHold'
  BY <1>1, <1>5 DEF ClaimsHold, Status, AllDepsCompleted
<1> QED
  BY <1>3, <1>6 DEF ClaimInv

\* A step that leaves the list, the members and the commands alone.
LEMMA ClaimStays ==
  ASSUME ClaimInv, UNCHANGED <<tasks, members, ids, tasksLock, command, held>>
  PROVE  ClaimInv'
  BY SMTT(20) DEF ClaimInv, CommandTypes, Locked, ClaimsHold, Status, AllDepsCompleted

\* A command that fails leaves the lock and the list as it found them.
LEMMA FailureKeeps ==
  ASSUME ClaimInv, NEW a \in Agents, CommandFails(a)
  PROVE  ClaimInv'
<1>0. NoCommand.at = "none"
  BY DEF NoCommand
<1>1. /\ command' = [command EXCEPT ![a] = NoCommand] /\ tasksLock' = Nobody
      /\ command[a].at = "inside" /\ UNCHANGED <<tasks, members, ids, held>>
  BY DEF CommandFails, Finish
<1>2. CommandTypes'
  BY <1>1 DEF ClaimInv, CommandTypes
<1>3. \A b \in Agents : command'[b].at # "inside"
  BY <1>0, <1>1, InsideTyped DEF ClaimInv, CommandTypes
<1>4. Locked'
  BY <1>3 DEF Locked
<1>5. ClaimsHold'
  BY <1>1, SMTT(20) DEF ClaimInv, ClaimsHold, Status, AllDepsCompleted
<1> QED
  BY <1>2, <1>4, <1>5 DEF ClaimInv

\* No claim at the start.
LEMMA ClaimInit ==
  ASSUME SwarmInit
  PROVE  ClaimInv
<1>1. [status |-> "pending", assigned |-> Nobody] \in TaskRecords
  BY DEF TaskRecords
<1>2. tasks \in Lists
  BY <1>1 DEF SwarmInit, Lists
<1>3. MaxIds \in Nat /\ 0 \in 0..MaxIds
  BY SwarmAssumption, SMTT(20)
<1>4. CommandTypes
  BY <1>2, <1>3 DEF SwarmInit, CommandTypes
<1>5. Locked /\ ClaimsHold
  BY DEF SwarmInit, Locked, ClaimsHold, NoCommand
<1> QED
  BY <1>4, <1>5 DEF ClaimInv

\* Every step keeps the claims.
LEMMA ClaimNext ==
  ASSUME ClaimInv, [SwarmNext]_swarmVars
  PROVE  ClaimInv'
<1>1. ASSUME NEW a \in Agents, CommandStep(a)
      PROVE  ClaimInv'
  <2>1. CASE JoinTeam(a) \/ LeaveTeam(a)
    BY <2>1, MembersKeep
  <2>2. CASE CommandFails(a)
    BY <2>2, FailureKeeps
  <2>3. CASE ClaimTask(a)
    BY <2>3, ClaimTaskKeeps
  <2>4. CASE CompleteTask(a) \/ FailTask(a) \/ BlockTask(a)
    BY <2>4, ReportTaskKeeps DEF CompleteTask, FailTask, BlockTask
  <2>5. CASE \E t \in Tasks :
               StartClaim(a, t) \/ StartComplete(a, t) \/ StartFail(a, t) \/ StartBlock(a, t)
    BY <2>5, StartKeeps
  <2> QED
    BY <1>1, <2>1, <2>2, <2>3, <2>4, <2>5 DEF CommandStep
<1>2. ASSUME NEW a \in Bridged, BridgeStep(a)
      PROVE  ClaimInv'
  BY <1>2, ClaimStays DEF BridgeStep, StartBridge, FallBack, Watch, PollTasks, PollFails,
                            WatcherError, Deliver, StopBridge
<1>3. CASE UNCHANGED swarmVars
  BY <1>3, ClaimStays DEF swarmVars
<1> QED
  BY <1>1, <1>2, <1>3, LeadKeeps DEF SwarmNext

\* An agent that was told it claimed a task keeps it, in progress and with its
\* dependencies completed, until it reports on it: the one lock around ClaimTask,
\* CompleteTask, FailTask and BlockTask is enough for any number of agents.
THEOREM ClaimsAreKept == SwarmSpec => []ClaimsHold
<1>1. SwarmInit => ClaimInv
  BY ClaimInit
<1>2. ClaimInv /\ [SwarmNext]_swarmVars => ClaimInv'
  BY ClaimNext
<1>3. ClaimInv => ClaimsHold
  BY DEF ClaimInv
<1> QED
  BY <1>1, <1>2, <1>3, PTL DEF SwarmSpec
-----------------------------------------------------------------------------
(* The bridge *)

\* Told speaks only of the bridge and the list it is given.
LEMMA ToldThen ==
  ASSUME bridge' \in [Agents -> BridgeRecords],
         \A a \in Agents : Told(bridge'[a], tasks')
  PROVE  BridgeInv'
  BY DEF BridgeInv, Told, Announced, Claimable, AllDepsCompleted, Status, Lists, BridgeRecords,
         EventRecords, TaskRecords, AgentIds

\* A write of the list signals a change to every watching bridge.
LEMMA TouchedKeeps ==
  ASSUME BridgeInv, bridge' = Touched
  PROVE  BridgeInv'
<1>1. ASSUME NEW a \in Agents
      PROVE  bridge'[a] \in BridgeRecords /\ Told(bridge'[a], tasks')
  <2>1. PICK b \in BridgeRecords : b = bridge[a] /\ Told(b, tasks)
    BY DEF BridgeInv
  <2>2. bridge'[a] = IF b.watching THEN [b EXCEPT !.dirty = TRUE] ELSE b
    BY <2>1 DEF Touched
  <2>3. CASE b.watching
    <3>1. PICK c \in BridgeRecords : c = [b EXCEPT !.dirty = TRUE]
      BY DEF BridgeRecords
    <3>2. /\ c.at = b.at /\ c.queue = b.queue /\ c.watching = b.watching /\ c.dirty
          /\ c.states = b.states /\ c.deps = b.deps /\ c.lost = b.lost /\ c.offered = b.offered
      BY <3>1 DEF BridgeRecords
    <3>3. Announced(c) = Announced(b)
      BY <3>2 DEF Announced
    <3>4. Told(c, tasks')
      BY <2>1, <3>2, <3>3 DEF Told
    <3> QED
      BY <2>2, <2>3, <3>1, <3>4
  <2>4. CASE ~b.watching
    <3>1. Told(b, tasks')
      BY <2>1, <2>4 DEF Told
    <3> QED
      BY <2>2, <2>4, <3>1
  <2> QED
    BY <2>3, <2>4
<1>2. bridge' = [a \in Agents |-> bridge'[a]]
  BY DEF Touched
<1>3. bridge' \in [Agents -> BridgeRecords]
  BY <1>1, <1>2
<1> QED
  BY <1>1, <1>3, ToldThen

\* A step of one bridge leaves the list and the other bridges alone.
LEMMA OneBridge ==
  ASSUME BridgeInv, NEW a \in Agents, NEW c \in BridgeRecords,
         bridge' = [bridge EXCEPT ![a] = c], UNCHANGED tasks, Told(c, tasks)
  PROVE  BridgeInv'
<1>1. bridge' \in [Agents -> BridgeRecords]
  BY DEF BridgeInv
<1>2. \A x \in Agents : bridge'[x] = c \/ bridge'[x] = bridge[x]
  BY DEF BridgeInv
<1>3. \A x \in Agents : Told(bridge'[x], tasks')
  BY <1>2 DEF BridgeInv
<1> QED
  BY <1>1, <1>3, ToldThen

\* What ListTasks returns is a list.
LEMMA Listing ==
  ASSUME tasks \in Lists, NEW seen \in ListTasks
  PROVE  seen \in Lists
<1>1. PICK skipped : seen = [t \in Tasks |-> IF t \in skipped THEN NoTask ELSE tasks[t]]
  BY DEF ListTasks
<1> QED
  BY <1>1 DEF Lists

\* The first scan: what is claimable then is taken as known.
LEMMA StartBridgeTells ==
  ASSUME ClaimInv, BridgeInv, NEW a \in Agents, StartBridge(a)
  PROVE  BridgeInv'
<1>0. tasks \in Lists /\ CommandTypes
  BY DEF ClaimInv, CommandTypes
<1>1. PICK seen \in ListTasks :
      /\ members[a] # {} /\ UNCHANGED tasks
      /\ bridge' = [bridge EXCEPT ![a] = [NoBridge EXCEPT
           !.at = "scanned", !.id = FirstMember(a),
           !.states = seen, !.deps = InitialDeps(seen), !.offered = Claimable(seen)]]
  BY DEF StartBridge
<1>2. PICK id \in AgentIds : id = FirstMember(a)
  BY <1>0, <1>1, FirstMemberId
<1>3. seen \in Lists
  BY <1>0, Listing
<1>4. PICK deps \in [Tasks -> BOOLEAN] : deps = InitialDeps(seen)
  BY DEF InitialDeps, AllDepsCompleted
<1>5. \A t \in Tasks : deps[t] <=> AllDepsCompleted(seen, t)
  BY <1>4 DEF InitialDeps
<1>6. PICK offered \in SUBSET Tasks : offered = Claimable(seen)
  BY DEF Claimable
<1>7. PICK c : c = [NoBridge EXCEPT !.at = "scanned", !.id = id, !.states = seen,
                                    !.deps = deps, !.offered = offered]
  OBVIOUS
<1>8. NoBridge \in BridgeRecords
  BY DEF NoBridge, BridgeRecords
<1>9. c \in BridgeRecords
  BY <1>3, <1>7, <1>8 DEF BridgeRecords
<1>10. /\ c.at = "scanned" /\ c.states = seen /\ c.deps = deps /\ c.offered = offered
       /\ c.queue = {} /\ c.watching = FALSE
  BY <1>7 DEF NoBridge
<1>11. bridge' = [bridge EXCEPT ![a] = c]
  BY <1>1, <1>2, <1>4, <1>6, <1>7
<1>12. Told(c, tasks)
  BY <1>3, <1>5, <1>6, <1>10 DEF Told, Announced
<1> QED
  BY <1>1, <1>9, <1>11, <1>12, OneBridge

\* Polling or watching begins; a watch begins with a poll to make.
LEMMA SettleTells ==
  ASSUME BridgeInv, NEW a \in Agents, FallBack(a) \/ Watch(a)
  PROVE  BridgeInv'
<1>1. PICK b \in BridgeRecords : b = bridge[a] /\ Told(b, tasks)
  BY DEF BridgeInv
<1>2. b.at = "scanned" /\ UNCHANGED tasks
  BY <1>1 DEF FallBack, Watch
<1>3. PICK c \in BridgeRecords :
        /\ bridge' = [bridge EXCEPT ![a] = c]
        /\ c.at = "idle" /\ c.queue = b.queue /\ (c.watching => c.dirty)
        /\ c.states = b.states /\ c.deps = b.deps /\ c.lost = b.lost /\ c.offered = b.offered
  <2>0. bridge \in [Agents -> BridgeRecords]
    BY DEF BridgeInv
  <2>1. CASE FallBack(a)
    <3>1. PICK c \in BridgeRecords : c = [b EXCEPT !.at = "idle"]
      BY DEF BridgeRecords
    <3>2. bridge' = [bridge EXCEPT ![a] = c]
      BY <1>1, <2>0, <2>1, <3>1 DEF FallBack
    <3>3. ~b.watching
      BY <1>1, <1>2 DEF Told
    <3> QED
      BY <3>1, <3>2, <3>3 DEF BridgeRecords
  <2>2. CASE Watch(a)
    <3>1. PICK c \in BridgeRecords : c = [b EXCEPT !.at = "idle", !.watching = TRUE, !.dirty = TRUE]
      BY DEF BridgeRecords
    <3>2. bridge' = [bridge EXCEPT ![a] = c]
      BY <1>1, <2>0, <2>2, <3>1 DEF Watch, CatchUp
    <3> QED
      BY <3>1, <3>2 DEF BridgeRecords
  <2> QED
    BY <2>1, <2>2
<1>4. Announced(c) = Announced(b)
  BY <1>3 DEF Announced
<1>5. Told(c, tasks)
  BY <1>1, <1>2, <1>3, <1>4 DEF Told
<1> QED
  BY <1>2, <1>3, <1>5, OneBridge

\* The dependencies a poll remembers.
LEMMA DepsRemembered ==
  ASSUME NEW seen, NEW t \in Tasks, Status(seen, t) = "pending"
  PROVE  DepsNow(seen)[t] <=> AllDepsCompleted(seen, t)
<1>1. DepsNow(seen)[t] <=> (Status(seen, t) = "pending" => AllDepsCompleted(seen, t))
  BY DEF DepsNow
<1> QED
  BY <1>1

\* A task that became claimable since the last poll is a change of the task, or of
\* the dependencies it was waiting for.
LEMMA PollSees ==
  ASSUME NEW seen \in Lists, NEW a \in Agents, NEW b \in BridgeRecords, b = bridge[a],
         Told(b, tasks), b.at = "idle", b.queue = {},
         NEW t \in Claimable(seen), t \notin b.offered \cup b.lost
  PROVE  t \in Changed(a, seen) \cup Unblocked(a, seen)
<1>1. /\ t \in Tasks /\ Status(seen, t) = "pending" /\ seen[t].assigned = Nobody
      /\ AllDepsCompleted(seen, t)
  BY DEF Claimable
<1>2. seen[t] # NoTask /\ seen[t].status = "pending" /\ IsRelevant(seen[t], a)
  BY <1>1 DEF Status, IsRelevant
<1>3. t \notin Claimable(b.states)
  BY DEF Told, Announced
<1>4. CASE seen[t] = b.states[t]
  <2>1. Status(b.states, t) = "pending"
    BY <1>1, <1>4 DEF Status
  <2>2. ~AllDepsCompleted(b.states, t)
    BY <1>1, <1>3, <1>4, <2>1 DEF Claimable
  <2>3. ~b.deps[t]
    BY <1>1, <2>1, <2>2 DEF Told
  <2>4. DependsOn[t] # {}
    BY <2>2 DEF AllDepsCompleted
  <2> QED
    BY <1>1, <1>2, <1>4, <2>3, <2>4 DEF Unblocked
<1>5. CASE seen[t] # b.states[t]
  BY <1>1, <1>2, <1>5 DEF Changed
<1> QED
  BY <1>4, <1>5

\* A poll queues an event for every newly claimable task.
LEMMA PollTells ==
  ASSUME ClaimInv, BridgeInv, NEW a \in Agents, PollTasks(a)
  PROVE  BridgeInv'
<1>0. tasks \in Lists
  BY DEF ClaimInv, CommandTypes
<1>1. PICK b \in BridgeRecords : b = bridge[a] /\ Told(b, tasks)
  BY DEF BridgeInv
<1>2. PICK seen \in ListTasks :
        bridge' = [bridge EXCEPT ![a] = [bridge[a] EXCEPT !.dirty = FALSE,
          !.blind = seen # tasks, !.states = seen, !.deps = DepsNow(seen),
          !.queue = Events(a, seen), !.offered = @ \cap Claimable(seen),
          !.lost = @ \cap Claimable(seen)]]
  BY DEF PollTasks
<1>3. b.at = "idle" /\ b.queue = {} /\ UNCHANGED tasks /\ seen \in Lists
  BY <1>0, <1>1, Listing DEF PollTasks, MayPoll
<1>4. PICK queue \in SUBSET EventRecords : queue = Events(a, seen)
  <2>1. Changed(a, seen) \subseteq Tasks /\ Unblocked(a, seen) \subseteq Tasks
    BY DEF Changed, Unblocked
  <2>2. ASSUME NEW t \in Tasks, NEW type \in EventTypes
        PROVE  Event(t, type, seen) \in EventRecords
    <3>1. (t \in Claimable(seen)) \in BOOLEAN
      BY SMT
    <3>2. PICK o \in BOOLEAN : o = (t \in Claimable(seen))
      BY <3>1
    <3>3. Event(t, type, seen) = [task |-> t, type |-> type, open |-> o]
      BY <3>2 DEF Event
    <3> QED
      BY <3>3, SMTT(20) DEF EventRecords
  <2>3. ASSUME NEW t \in Tasks
        PROVE  ChangeType(b.states[t], seen[t]) \in EventTypes
    <3>1. b.states[t] \in TaskRecords \cup {NoTask} /\ seen[t] \in TaskRecords \cup {NoTask}
      BY <1>1, <1>3 DEF Told, Lists
    <3> QED
      BY <3>1, SMTT(20) DEF EventTypes
  <2>4. "task_unblocked" \in EventTypes
    BY SMTT(20) DEF EventTypes
  <2>5. Events(a, seen) \subseteq EventRecords
    BY <1>1, <2>1, <2>2, <2>3, <2>4 DEF Events
  <2> QED
    BY <2>5
<1>5. PICK deps \in [Tasks -> BOOLEAN] : deps = DepsNow(seen)
  BY DEF DepsNow
<1>6. PICK offered \in SUBSET Tasks, lost \in SUBSET Tasks, blind \in BOOLEAN :
        /\ offered = b.offered \cap Claimable(seen) /\ lost = b.lost \cap Claimable(seen)
        /\ blind = (seen # tasks)
  BY DEF Claimable
<1>7. PICK c \in BridgeRecords :
        c = [b EXCEPT !.dirty = FALSE, !.blind = blind, !.states = seen, !.deps = deps,
                      !.queue = queue, !.offered = offered, !.lost = lost]
  BY <1>3 DEF BridgeRecords
<1>8. bridge' = [bridge EXCEPT ![a] = c]
  BY <1>1, <1>2, <1>4, <1>5, <1>6, <1>7
<1>9. /\ c.at = "idle" /\ c.states = seen /\ c.deps = DepsNow(seen) /\ c.queue = queue
      /\ c.lost = b.lost \cap Claimable(seen) /\ c.offered = b.offered \cap Claimable(seen)
      /\ ~c.blind => seen = tasks
  BY <1>3, <1>5, <1>6, <1>7 DEF BridgeRecords
<1>10. ASSUME NEW t \in Claimable(seen)
       PROVE  t \in Announced(c)
  <2>1. CASE t \in b.offered \cup b.lost
    BY <1>9, <2>1 DEF Announced
  <2>2. CASE t \notin b.offered \cup b.lost
    <3>1. t \in Changed(a, seen) \cup Unblocked(a, seen)
      BY <1>1, <1>3, <1>10, <2>2, PollSees
    <3>2. PICK e \in queue : e.task = t /\ e.open
      <4>1. \A type : Event(t, type, seen).task = t /\ Event(t, type, seen).open
        BY DEF Event
      <4>2. \E type : Event(t, type, seen) \in Events(a, seen)
        BY <3>1 DEF Events
      <4> QED
        BY <1>4, <4>1, <4>2
    <3> QED
      BY <1>9, <3>2 DEF Announced
  <2> QED
    BY <2>1, <2>2
<1>11. Told(c, tasks)
  <2>1. \A t \in Tasks : Status(c.states, t) = "pending" =>
          (c.deps[t] <=> AllDepsCompleted(c.states, t))
    BY <1>9, DepsRemembered
  <2> QED
    BY <1>3, <1>9, <1>10, <2>1 DEF Told
<1> QED
  BY <1>3, <1>8, <1>11, OneBridge

\* A failed poll or a lost event changes nothing that is remembered.
LEMMA BlindTells ==
  ASSUME BridgeInv, NEW a \in Agents, PollFails(a) \/ WatcherError(a)
  PROVE  BridgeInv'
<1>1. PICK b \in BridgeRecords : b = bridge[a] /\ Told(b, tasks)
  BY DEF BridgeInv
<1>2. PICK c \in BridgeRecords : c = [b EXCEPT !.dirty = FALSE, !.blind = TRUE]
  BY DEF BridgeRecords
<1>3. bridge' = [bridge EXCEPT ![a] = c] /\ UNCHANGED tasks
  BY <1>1, <1>2 DEF PollFails, WatcherError, BridgeInv
<1>4. /\ c.at = b.at /\ c.queue = b.queue /\ c.watching = b.watching /\ c.blind
      /\ c.states = b.states /\ c.deps = b.deps /\ c.lost = b.lost /\ c.offered = b.offered
  BY <1>2 DEF BridgeRecords
<1>5. Announced(c) = Announced(b)
  BY <1>4 DEF Announced
<1>6. Told(c, tasks)
  BY <1>1, <1>4, <1>5 DEF Told
<1> QED
  BY <1>3, <1>6, OneBridge

\* A delivery tells the agent, or is lost.
LEMMA DeliverTells ==
  ASSUME BridgeInv, NEW a \in Agents, Deliver(a)
  PROVE  BridgeInv'
<1>1. PICK b \in BridgeRecords : b = bridge[a] /\ Told(b, tasks)
  BY DEF BridgeInv
<1>2. bridge \in [Agents -> BridgeRecords] /\ UNCHANGED tasks
  BY DEF BridgeInv, Deliver
<1>3. PICK e \in b.queue :
        LET claimable == IF e.open THEN {e.task} ELSE {} IN
        \/ bridge' = [bridge EXCEPT ![a].queue = @ \ {e}, ![a].offered = @ \cup claimable]
        \/ bridge' = [bridge EXCEPT ![a].queue = @ \ {e}, ![a].lost = @ \cup claimable]
  BY <1>1 DEF Deliver
<1>4. b.at = "idle" /\ e.task \in Tasks
  BY <1>1 DEF Told, BridgeRecords, EventRecords
<1>5. PICK rest \in SUBSET EventRecords : rest = b.queue \ {e}
  BY DEF BridgeRecords
<1>6. PICK claimable \in SUBSET Tasks : claimable = IF e.open THEN {e.task} ELSE {}
  BY <1>4
<1>7. PICK c \in BridgeRecords :
        /\ bridge' = [bridge EXCEPT ![a] = c]
        /\ c.at = b.at /\ c.watching = b.watching /\ c.dirty = b.dirty /\ c.blind = b.blind
        /\ c.states = b.states /\ c.deps = b.deps /\ c.queue = rest
        /\ c.lost \cup c.offered = b.lost \cup b.offered \cup claimable
  <2>1. CASE bridge' = [bridge EXCEPT ![a].queue = @ \ {e}, ![a].offered = @ \cup claimable]
    <3>1. PICK c \in BridgeRecords :
            c = [b EXCEPT !.queue = rest, !.offered = b.offered \cup claimable]
      BY DEF BridgeRecords
    <3>2. bridge' = [bridge EXCEPT ![a] = c]
      BY <1>1, <1>2, <1>5, <2>1, <3>1
    <3> QED
      BY <3>1, <3>2 DEF BridgeRecords
  <2>2. CASE bridge' = [bridge EXCEPT ![a].queue = @ \ {e}, ![a].lost = @ \cup claimable]
    <3>1. PICK c \in BridgeRecords :
            c = [b EXCEPT !.queue = rest, !.lost = b.lost \cup claimable]
      BY DEF BridgeRecords
    <3>2. bridge' = [bridge EXCEPT ![a] = c]
      BY <1>1, <1>2, <1>5, <2>2, <3>1
    <3> QED
      BY <3>1, <3>2 DEF BridgeRecords
  <2> QED
    BY <1>3, <1>6, <2>1, <2>2
<1>8. Announced(b) \subseteq Announced(c)
  BY <1>5, <1>6, <1>7 DEF Announced
<1>9. Told(c, tasks)
  BY <1>1, <1>4, <1>7, <1>8 DEF Told
<1> QED
  BY <1>2, <1>7, <1>9, OneBridge

\* A bridge that is off promises nothing.
LEMMA OffTells == NoBridge \in BridgeRecords /\ \A list : Told(NoBridge, list)
  BY DEF NoBridge, BridgeRecords, Told

\* No bridge at the start.
LEMMA BridgeInit ==
  ASSUME SwarmInit
  PROVE  BridgeInv
<1>1. bridge = [a \in Agents |-> NoBridge]
  BY DEF SwarmInit
<1> QED
  BY <1>1, OffTells DEF BridgeInv

\* Every step keeps what the bridges were told.
LEMMA BridgeNext ==
  ASSUME ClaimInv, BridgeInv, [SwarmNext]_swarmVars
  PROVE  BridgeInv'
<1>0. ASSUME UNCHANGED <<tasks, bridge>>
      PROVE  BridgeInv'
  BY <1>0, ToldThen DEF BridgeInv
<1>1. ASSUME NEW a \in Agents, CommandStep(a)
      PROVE  bridge' = Touched \/ UNCHANGED <<tasks, bridge>>
  BY <1>1 DEF CommandStep, JoinTeam, LeaveTeam, CommandFails, ClaimTask, CompleteTask, FailTask,
              BlockTask, ReportTask, StartClaim, StartComplete, StartFail, StartBlock, StartReport
<1>2. ASSUME NEW a \in Agents, BridgeStep(a)
      PROVE  BridgeInv'
  <2>1. CASE StopBridge(a)
    BY <2>1, OffTells, OneBridge DEF StopBridge
  <2> QED
    BY <1>2, <2>1, StartBridgeTells, SettleTells, PollTells, BlindTells, DeliverTells
       DEF BridgeStep
<1>3. ASSUME NEW t \in Tasks, LeadAdds(t) \/ LeadReopens(t)
      PROVE  bridge' = Touched
  BY <1>3 DEF LeadAdds, LeadReopens
<1>4. CASE UNCHANGED swarmVars
  BY <1>0, <1>4 DEF swarmVars
<1>5. Bridged \subseteq Agents
  BY SwarmAssumption
<1> QED
  BY <1>0, <1>1, <1>2, <1>3, <1>4, <1>5, TouchedKeeps DEF SwarmNext

\* A watching bridge at rest has told its agent of every task that became claimable
\* since it started, or failed to send that message, for any list and any
\* dependencies: bridgeWithFsnotify's poll after the watch closes the gap behind the
\* first scan, pollForChanges sees both the changed tasks and the unblocked ones,
\* and a poll that failed or skipped a file is made up for by the next complete one.
THEOREM NothingMissed == SwarmSpec => []NoMissedWork
<1>1. SwarmInit => ClaimInv /\ BridgeInv
  BY ClaimInit, BridgeInit
<1>2. ClaimInv /\ BridgeInv /\ [SwarmNext]_swarmVars => (ClaimInv /\ BridgeInv)'
  BY ClaimNext, BridgeNext
<1>3. BridgeInv => NoMissedWork
  <2>1. ASSUME BridgeInv, NEW a \in Bridged, bridge[a].watching, ~bridge[a].dirty,
               ~bridge[a].blind, bridge[a].queue = {}
        PROVE  Claimable(tasks) \subseteq bridge[a].offered \cup bridge[a].lost
    <3>1. Told(bridge[a], tasks)
      BY <2>1, SwarmAssumption DEF BridgeInv
    <3> QED
      BY <2>1, <3>1 DEF Told, Announced
  <2> QED
    BY <2>1 DEF NoMissedWork
<1> QED
  BY <1>1, <1>2, <1>3, PTL DEF SwarmSpec

-----------------------------------------------------------------------------
Failing == {"stop", "wait", "rollback", "failed", "dead"}
Going == {"exiting", "exited"}

\* Where the child works for the lineage it received.
Inheriting == {"acquire", "floor", "prepare", "admit", "hold", "recheck"}

ParentShape ==
  parent = [at |-> parent.at, dirs |-> parent.dirs, source |-> parent.source,
            prepared |-> parent.prepared, detached |-> parent.detached]

ChildShape ==
  child = [at |-> child.at, source |-> child.source, prepared |-> child.prepared,
           watching |-> child.watching]

\* No child before it is started, and nothing written before the lineage is
\* captured.
Beginning ==
  /\ parent.at \in {"start", "spawn"} => child.at = "none"
  /\ parent.at = "start" => down = NoFrame /\ parent.source = NoFrame

\* The pipe to the child: a source is the parent's, and a release was written
\* by the parent's last step.
Written ==
  /\ parent.source # NoFrame => parent.source.kind = "source"
  /\ down # NoFrame =>
       \/ down.kind = "source" /\ down = parent.source
       \/ down.kind = "admit"
       \/ down.kind = "release" /\ parent.at = "repaired"

\* A child that passed the release has it from the parent, and works for the
\* parent's source.
Authorized ==
  /\ child.at \in {"recheck", "serving"} => parent.at = "repaired"
  /\ child.at \in Inheriting => child.source = parent.source

HandoffInv == ParentShape /\ ChildShape /\ Beginning /\ Written /\ Authorized

-----------------------------------------------------------------------------
(* Records *)

\* A step of the parent or of the child moves it and keeps the other fields.
LEMMA ParentMoves ==
  ASSUME ParentShape, NEW at, ParentAt(at)
  PROVE  ParentShape' /\ parent'.at = at /\ parent'.source = parent.source
  BY DEF ParentShape, ParentAt

\* The same for the child.
LEMMA ChildMoves ==
  ASSUME ChildShape, NEW at, ChildAt(at)
  PROVE  ChildShape' /\ child'.at = at /\ child'.source = child.source
  BY DEF ChildShape, ChildAt

-----------------------------------------------------------------------------
(* What steps do *)

\* The parent goes on, or gives up; what it writes is its source or an admit.
ParentWorks ==
  /\ UNCHANGED <<child, home>>
  /\ parent'.source = parent.source
  /\ parent.at # "repaired" /\ parent'.at \notin {"start", "spawn", "repaired"}
  /\ parent.at \in Failing => parent'.at \in Failing
  /\ \/ down' = down \/ down' = parent.source
     \/ down' # NoFrame => down'.kind = "admit"

\* The lineage is captured, in the directories the canonical paths name.
ParentCaptures ==
  /\ parent.at = "start" /\ parent'.at = "spawn"
  /\ parent'.source.kind = "source" /\ (parent'.source = NoFrame \/ Canonical(parent'.source))
  /\ UNCHANGED <<child, home, down>>

ParentStarts ==
  /\ parent.at = "spawn" /\ parent'.at = "bind" /\ parent'.source = parent.source
  /\ child'.at = "adopt"
  /\ UNCHANGED <<home, down>>

ParentCommits ==
  /\ parent.at = "release" /\ parent'.at = "repaired" /\ parent'.source = parent.source
  /\ ChildOpen /\ (down' # NoFrame => down'.kind = "release")
  /\ UNCHANGED <<child, home>>

\* The child reads a frame, works, or ends.
ChildWorks ==
  /\ UNCHANGED <<parent, home>> /\ (down' = down \/ down' = NoFrame)
  /\ child.at # "none" /\ child.at # "exited"
  /\ \/ child'.at \in Going
     \/ /\ child.at \notin Going /\ child.at # "serving"
        /\ child'.at \notin Going /\ child'.at # "none" /\ child'.at # "serving"
        /\ child'.at = "recheck" => parent.at = "repaired"
        /\ child'.at \in Inheriting => child'.source = parent.source

ChildServes ==
  /\ UNCHANGED <<parent, home, down>>
  /\ child.at = "recheck" /\ child'.at = "serving" /\ Canonical(child.source)

\* Others, and steps that change neither pipe nor process.
OthersMove == UNCHANGED <<parent, child, down>>

\* Capture fails, or takes the directories at the canonical paths.
LEMMA CaptureEffect ==
  ASSUME HandoffInv, Capture
  PROVE  ParentShape' /\ (ParentWorks \/ ParentCaptures)
<1>0. ParentShape /\ UNCHANGED <<child, home, down>> /\ parent.at = "start"
  BY DEF HandoffInv, Capture
<1>1. CASE ~CanRetain
  <2>1. ParentAt("failed")
    BY <1>1 DEF Capture
  <2>2. ParentShape' /\ parent'.at = "failed" /\ parent'.source = parent.source
    BY <1>0, <2>1, ParentMoves
  <2> QED
    BY <1>0, <2>2 DEF ParentWorks, Failing
<1>2. CASE CanRetain
  <2>1. PICK source : source = NewSource(home)
    OBVIOUS
  <2>2. parent' = [parent EXCEPT !.at = "spawn", !.dirs = home, !.source = source]
    BY <1>2, <2>1 DEF Capture
  <2>3. ParentShape' /\ parent'.at = "spawn" /\ parent'.source = source
    BY <1>0, <2>2 DEF ParentShape
  <2>4. source.kind = "source" /\ source.dirs = home
    BY <2>1 DEF NewSource
  <2>5. Canonical(source)
    BY <1>2, <2>4 DEF Canonical
  <2> QED
    BY <1>0, <2>3, <2>4, <2>5 DEF ParentCaptures
<1> QED
  BY <1>1, <1>2

\* StartChild is the one step that brings the child to life.
LEMMA StartEffect ==
  ASSUME HandoffInv, StartChild
  PROVE  ParentShape' /\ ChildShape' /\ ParentStarts
<1>1. ParentShape /\ ChildShape /\ ParentAt("bind") /\ ChildAt("adopt")
  BY DEF HandoffInv, StartChild
<1> QED
  BY <1>1, ParentMoves, ChildMoves DEF StartChild, ParentStarts

\* The steps of a parent that already has a child, or failed to start it.
LEMMA WorkEffect ==
  ASSUME HandoffInv, NEW from, NEW to,
         parent.at = from, ParentAt(to), UNCHANGED <<child, home>>,
         from # "repaired", to \notin {"start", "spawn", "repaired"},
         from \in Failing => to \in Failing,
         \/ down' = down \/ down' = parent.source
         \/ down' # NoFrame => down'.kind = "admit"
  PROVE  ParentShape' /\ ParentWorks
<1>1. ParentShape' /\ parent'.at = to /\ parent'.source = parent.source
  BY ParentMoves DEF HandoffInv
<1> QED
  BY <1>1 DEF ParentWorks

\* ReceivePrepared.
LEMMA PreparedEffect ==
  ASSUME HandoffInv, ReceivePrepared
  PROVE  ParentShape' /\ ParentWorks
<1>1. ParentShape /\ parent.at = "receive" /\ UNCHANGED <<child, home, down>>
  BY DEF HandoffInv, ReceivePrepared
<1>2. /\ ParentShape' /\ parent'.source = parent.source
      /\ parent'.at \in {"winner", "stop"}
  BY <1>1 DEF ReceivePrepared, ParentShape
<1> QED
  BY <1>1, <1>2 DEF ParentWorks, Failing

\* Detach gives the stop authority away and writes nothing.
LEMMA DetachEffect ==
  ASSUME HandoffInv, Detach
  PROVE  ParentShape' /\ ParentWorks
<1>1. ParentShape /\ parent.at = "detach" /\ UNCHANGED <<child, home, down>>
  BY DEF HandoffInv, Detach
<1>2. /\ ParentShape' /\ parent'.source = parent.source
      /\ parent'.at \in {"release", "stop"}
  BY <1>1 DEF Detach, ParentShape, ParentAt
<1> QED
  BY <1>1, <1>2 DEF ParentWorks, Failing

\* Release writes the release to a child that is there, or the parent gives up.
LEMMA ReleaseEffect ==
  ASSUME HandoffInv, Release
  PROVE  ParentShape' /\ (ParentWorks \/ ParentCommits)
<1>1. ParentShape /\ parent.at = "release" /\ UNCHANGED <<child, home>>
  BY DEF HandoffInv, Release
<1>2. CASE WriteDown(NewRelease(NewAdmit(parent.prepared))) /\ ParentAt("repaired")
  <2>1. ParentShape' /\ parent'.at = "repaired" /\ parent'.source = parent.source
    BY <1>1, <1>2, ParentMoves
  <2>2. ChildOpen /\ down'.kind = "release"
    BY <1>2 DEF WriteDown, NewRelease
  <2> QED
    BY <1>1, <2>1, <2>2 DEF ParentCommits
<1>3. CASE ParentAt("stop") /\ UNCHANGED down
  BY <1>1, <1>3, WorkEffect DEF Failing
<1> QED
  BY <1>2, <1>3 DEF Release

\* Every step of the parent works, captures the lineage, starts the child or
\* commits.
LEMMA ParentEffect ==
  ASSUME HandoffInv, ParentStep
  PROVE  /\ ParentShape' /\ ChildShape'
         /\ ParentWorks \/ ParentCaptures \/ ParentStarts \/ ParentCommits
<1>0. ASSUME UNCHANGED child
      PROVE  ChildShape'
  BY <1>0 DEF HandoffInv, ChildShape
<1>1. CASE Capture
  BY <1>0, <1>1, CaptureEffect DEF Capture
<1>2. CASE StartChild
  BY <1>2, StartEffect
<1>3. CASE StartFails
  BY <1>0, <1>3, WorkEffect DEF StartFails, Failing
<1>4. CASE BindChild
  <2>1. ParentAt("receive") \/ ParentAt("stop")
    BY <1>4 DEF BindChild
  <2>2. /\ parent.at = "bind" /\ UNCHANGED <<child, home>>
        /\ down' = down \/ down' = parent.source
    BY <1>4 DEF BindChild, WriteDown
  <2> QED
    BY <1>0, <2>1, <2>2, WorkEffect DEF Failing
<1>5. CASE ReceivePrepared
  BY <1>0, <1>5, PreparedEffect DEF ReceivePrepared
<1>6. CASE ValidateWinner
  BY <1>0, <1>6, WorkEffect DEF ValidateWinner, Failing
<1>7. CASE SendAdmit
  <2>1. ParentAt("answer") \/ ParentAt("stop")
    BY <1>7 DEF SendAdmit
  <2>2. /\ parent.at = "admit" /\ UNCHANGED <<child, home>>
        /\ down' = down \/ down'.kind = "admit"
    BY <1>7, SMTT(20) DEF SendAdmit, WriteDown, NewAdmit
  <2> QED
    BY <1>0, <2>1, <2>2, WorkEffect DEF Failing
<1>8. CASE ReceiveAnswer
  BY <1>0, <1>8, WorkEffect DEF ReceiveAnswer, Failing
<1>9. CASE ParentGivesUp
  BY <1>0, <1>9, WorkEffect DEF ParentGivesUp, Failing
<1>10. CASE ValidateFinal
  BY <1>0, <1>10, WorkEffect DEF ValidateFinal, Failing
<1>11. CASE Detach
  BY <1>0, <1>11, DetachEffect DEF Detach
<1>12. CASE Release
  BY <1>0, <1>12, ReleaseEffect DEF Release
<1>13. CASE StopChild
  BY <1>0, <1>13, WorkEffect DEF StopChild, Failing
<1>14. CASE AwaitExit
  BY <1>0, <1>14, WorkEffect DEF AwaitExit, Failing
<1>15. CASE Rollback
  BY <1>0, <1>15, WorkEffect DEF Rollback, Failing
<1>16. CASE ParentDies
  BY <1>0, <1>16, WorkEffect DEF ParentDies, Failing
<1> QED
  BY <1>1, <1>2, <1>3, <1>4, <1>5, <1>6, <1>7, <1>8, <1>9, <1>10, <1>11, <1>12, <1>13, <1>14,
     <1>15, <1>16 DEF ParentStep

\* The steps of a child that keep its source.
LEMMA MoveEffect ==
  ASSUME HandoffInv, NEW to, ChildAt(to), UNCHANGED <<parent, home>>,
         down' = down \/ down' = NoFrame,
         child.at \notin {"none", "exited"},
         \/ to \in Going
         \/ /\ child.at \in Inheriting \cup {"adopt", "source"}
            /\ to \in Inheriting \cup {"source"}
            /\ to = "recheck" => parent.at = "repaired"
            /\ to \in Inheriting => child.at \in Inheriting
  PROVE  ChildShape' /\ ChildWorks
<1>1. ChildShape' /\ child'.at = to /\ child'.source = child.source
  BY ChildMoves DEF HandoffInv
<1>2. child.at \in Inheriting => child.source = parent.source
  BY DEF HandoffInv, Authorized
<1>3. CASE to \in Going
  BY <1>1, <1>3 DEF ChildWorks
<1>4. CASE to \notin Going
  BY <1>1, <1>2, <1>4 DEF ChildWorks, Going, Inheriting
<1> QED
  BY <1>1, <1>3, <1>4

\* ReceiveSource: the source that arrives is the one of the parent.
LEMMA SourceEffect ==
  ASSUME HandoffInv, ReceiveSource
  PROVE  ChildShape' /\ ChildWorks
<1>1. /\ ChildShape /\ child.at = "source" /\ UNCHANGED <<parent, home>> /\ down' = NoFrame
      /\ down # NoFrame /\ down.kind = "source"
  BY DEF HandoffInv, ReceiveSource, SourceArrives, Framed
<1>2. down = parent.source
  BY <1>1 DEF HandoffInv, Written
<1>3. CASE child' = [child EXCEPT !.at = "acquire", !.source = down]
  <2>1. ChildShape' /\ child'.at = "acquire" /\ child'.source = parent.source
    BY <1>1, <1>2, <1>3 DEF ChildShape
  <2> QED
    BY <1>1, <2>1 DEF ChildWorks, Going, Inheriting
<1>4. CASE child' = [child EXCEPT !.at = "exiting"]
  BY <1>1, <1>4, MoveEffect DEF ChildAt, Going
<1> QED
  BY <1>3, <1>4 DEF ReceiveSource

\* SendPrepared.
LEMMA SendEffect ==
  ASSUME HandoffInv, SendPrepared
  PROVE  ChildShape' /\ ChildWorks
<1>1. /\ ChildShape /\ child.at = "prepare" /\ UNCHANGED <<parent, home, down>>
  BY DEF HandoffInv, SendPrepared
<1>2. child.source = parent.source
  BY <1>1 DEF HandoffInv, Authorized, Inheriting
<1>3. /\ ChildShape' /\ child'.at \in {"admit", "exiting"} /\ child'.source = child.source
  BY <1>1 DEF SendPrepared, ChildAt, ChildShape
<1> QED
  BY <1>1, <1>2, <1>3 DEF ChildWorks, Going, Inheriting

\* WatchFails.
LEMMA WatchEffect ==
  ASSUME HandoffInv, WatchFails
  PROVE  ChildShape' /\ ChildWorks
<1>1. /\ ChildShape /\ child.at \in {"admit", "hold", "recheck"} /\ UNCHANGED <<parent, home, down>>
      /\ child' = [child EXCEPT !.watching = FALSE]
  BY DEF HandoffInv, WatchFails
<1>2. child.source = parent.source /\ (child.at = "recheck" => parent.at = "repaired")
  BY <1>1 DEF HandoffInv, Authorized, Inheriting
<1>3. /\ ChildShape' /\ child'.at = child.at /\ child'.source = child.source
  BY <1>1 DEF ChildShape
<1> QED
  BY <1>1, <1>2, <1>3 DEF ChildWorks, Going, Inheriting

\* A child past the hold read the release, which only the parent's last step
\* writes.
LEMMA ReleasedEffect ==
  ASSUME HandoffInv, ReceiveRelease
  PROVE  ChildShape' /\ ChildWorks
<1>1. /\ child.at = "hold" /\ UNCHANGED <<parent, home, down>>
      /\ down # NoFrame /\ down.kind = "release"
      /\ ChildAt("recheck") \/ ChildAt("exiting")
  BY DEF ReceiveRelease, ReleaseArrives, Framed
<1>2. parent.at = "repaired"
  BY <1>1 DEF HandoffInv, Written
<1> QED
  BY <1>1, <1>2, MoveEffect DEF Going, Inheriting

\* BeginServing: the directories are checked once more.
LEMMA ServeEffect ==
  ASSUME HandoffInv, BeginServing
  PROVE  ChildShape' /\ (ChildWorks \/ ChildServes)
<1>1. child.at = "recheck" /\ UNCHANGED <<parent, home, down>>
  BY DEF BeginServing
<1>2. CASE AdmissionHolds /\ ChildAt("serving")
  <2>1. ChildShape' /\ child'.at = "serving"
    BY <1>2, ChildMoves DEF HandoffInv
  <2> QED
    BY <1>1, <1>2, <2>1 DEF ChildServes, AdmissionHolds
<1>3. CASE ChildAt("exiting")
  BY <1>1, <1>3, MoveEffect DEF Going
<1> QED
  BY <1>2, <1>3 DEF BeginServing

\* Every step of the child works towards the release, serves, or ends it.
LEMMA ChildEffect ==
  ASSUME HandoffInv, ChildStep
  PROVE  ParentShape' /\ ChildShape' /\ (ChildWorks \/ ChildServes)
<1>0. ASSUME UNCHANGED parent
      PROVE  ParentShape'
  BY <1>0 DEF HandoffInv, ParentShape
<1>1. CASE AdoptPipes
  BY <1>0, <1>1, MoveEffect DEF AdoptPipes, Going, Inheriting
<1>2. CASE ReceiveSource
  BY <1>0, <1>2, SourceEffect DEF ReceiveSource
<1>3. CASE AcquireClaim
  BY <1>0, <1>3, MoveEffect DEF AcquireClaim, Going, Inheriting
<1>4. CASE PublishFloor
  BY <1>0, <1>4, MoveEffect DEF PublishFloor, Going, Inheriting
<1>5. CASE SendPrepared
  BY <1>0, <1>5, SendEffect DEF SendPrepared
<1>6. CASE ReceiveAdmit
  <2>1. ChildAt("hold") \/ ChildAt("exiting")
    BY <1>6 DEF ReceiveAdmit, Acknowledged
  <2>2. child.at = "admit" /\ UNCHANGED <<parent, home>> /\ down' = NoFrame
    BY <1>6 DEF ReceiveAdmit
  <2> QED
    BY <1>0, <2>1, <2>2, MoveEffect DEF Going, Inheriting
<1>7. CASE ReceiveRelease
  BY <1>0, <1>7, ReleasedEffect DEF ReceiveRelease
<1>8. CASE BeginServing
  BY <1>0, <1>8, ServeEffect DEF BeginServing
<1>9. CASE ChildGivesUp
  BY <1>0, <1>9, MoveEffect DEF ChildGivesUp, Going
<1>10. CASE WatchFails
  BY <1>0, <1>10, WatchEffect DEF WatchFails
<1>11. CASE ChildExits
  BY <1>0, <1>11, MoveEffect DEF ChildExits, Going
<1>12. CASE ChildKilled
  BY <1>0, <1>12, MoveEffect DEF ChildKilled, Going
<1> QED
  BY <1>1, <1>2, <1>3, <1>4, <1>5, <1>6, <1>7, <1>8, <1>9, <1>10, <1>11, <1>12 DEF ChildStep

\* What a step of the handoff is.
Effects ==
  \/ ParentWorks \/ ParentCaptures \/ ParentStarts \/ ParentCommits
  \/ ChildWorks \/ ChildServes \/ OthersMove

\* Every step of the handoff is of one of seven kinds.
LEMMA StepEffect ==
  ASSUME HandoffInv, [HandoffNext]_handoffVars
  PROVE  ParentShape' /\ ChildShape' /\ Effects
<1>1. CASE UNCHANGED <<parent, child, down>>
  BY <1>1 DEF HandoffInv, ParentShape, ChildShape, Effects, OthersMove
<1>2. CASE ParentStep
  BY <1>2, ParentEffect DEF Effects
<1>3. CASE ChildStep
  BY <1>3, ChildEffect DEF Effects
<1> QED
  BY <1>1, <1>2, <1>3 DEF HandoffNext, handoffVars, DirectoriesMove, RivalClaims

-----------------------------------------------------------------------------
(* The invariant *)

\* Every kind of step keeps the invariant.
LEMMA HandoffStep ==
  ASSUME HandoffInv, ParentShape', ChildShape', Effects
  PROVE  HandoffInv'
<1>0. Beginning /\ Written /\ Authorized
  BY DEF HandoffInv
<1>1. CASE ParentWorks
  <2>1. Beginning'
    BY <1>1 DEF ParentWorks, Beginning
  <2>2. Written'
    BY <1>0, <1>1 DEF ParentWorks, Written
  <2>3. Authorized'
    BY <1>0, <1>1 DEF ParentWorks, Authorized
  <2> QED
    BY <2>1, <2>2, <2>3 DEF HandoffInv
<1>2. CASE ParentCaptures
  BY <1>0, <1>2 DEF ParentCaptures, HandoffInv, Beginning, Written, Authorized, Inheriting
<1>3. CASE ParentStarts
  BY <1>0, <1>3 DEF ParentStarts, HandoffInv, Beginning, Written, Authorized, Inheriting
<1>4. CASE ParentCommits
  BY <1>0, <1>4 DEF ParentCommits, HandoffInv, Beginning, Written, Authorized
<1>5. CASE ChildWorks
  <2>1. Beginning' /\ Written'
    BY <1>0, <1>5 DEF ChildWorks, Beginning, Written
  <2>2. Authorized'
    BY <1>0, <1>5 DEF ChildWorks, Authorized, Going, Inheriting
  <2> QED
    BY <2>1, <2>2 DEF HandoffInv
<1>6. CASE ChildServes
  BY <1>0, <1>6 DEF ChildServes, HandoffInv, Beginning, Written, Authorized, Inheriting
<1>7. CASE OthersMove
  BY <1>0, <1>7 DEF OthersMove, HandoffInv, Beginning, Written, Authorized
<1> QED
  BY <1>1, <1>2, <1>3, <1>4, <1>5, <1>6, <1>7 DEF Effects

\* The invariant holds at the start.
LEMMA HandoffStarts ==
  ASSUME HandoffInit
  PROVE  HandoffInv
  BY DEF HandoffInit, HandoffInv, ParentShape, ChildShape, Beginning, Written, Authorized,
         Inheriting

-----------------------------------------------------------------------------
(* The refinement *)

\* The phase of the child, case by case.
LEMMA PhaseIs ==
  /\ child.at = "serving" => PhaseOf = "serving"
  /\ child.at \in Going => PhaseOf = "gone"
  /\ child.at \notin Going /\ child.at # "serving" /\ parent.at = "repaired" => PhaseOf = "committed"
  /\ child.at \notin Going /\ child.at # "serving" /\ parent.at # "repaired" => PhaseOf = "open"
<1>1. CASE child.at = "serving"
  BY <1>1 DEF PhaseOf, Going
<1>2. CASE child.at \in Going
  BY <1>2 DEF PhaseOf, Going
<1>3. CASE child.at \notin Going /\ child.at # "serving" /\ parent.at = "repaired"
  BY <1>3 DEF PhaseOf, Released, Going
<1>4. CASE child.at \notin Going /\ child.at # "serving" /\ parent.at # "repaired"
  BY <1>4 DEF PhaseOf, Released, Going
<1> QED
  BY <1>1, <1>2, <1>3, <1>4 DEF Going

\* The verdict of the parent, case by case.
LEMMA VerdictIs ==
  /\ parent.at = "repaired" => VerdictOf = "repaired"
  /\ parent.at \in Failing => VerdictOf = "failed"
  /\ parent.at # "repaired" /\ parent.at \notin Failing => VerdictOf = "none"
  BY DEF VerdictOf, Released, Failing

\* The same after a step.
LEMMA PhaseThen ==
  /\ child'.at = "serving" => PhaseOf' = "serving"
  /\ child'.at \in Going => PhaseOf' = "gone"
  /\ child'.at \notin Going /\ child'.at # "serving" /\ parent'.at = "repaired"
       => PhaseOf' = "committed"
  /\ child'.at \notin Going /\ child'.at # "serving" /\ parent'.at # "repaired"
       => PhaseOf' = "open"
<1>1. CASE child'.at = "serving"
  BY <1>1 DEF PhaseOf, Going
<1>2. CASE child'.at \in Going
  BY <1>2 DEF PhaseOf, Going
<1>3. CASE child'.at \notin Going /\ child'.at # "serving" /\ parent'.at = "repaired"
  BY <1>3 DEF PhaseOf, Released, Going
<1>4. CASE child'.at \notin Going /\ child'.at # "serving" /\ parent'.at # "repaired"
  BY <1>4 DEF PhaseOf, Released, Going
<1> QED
  BY <1>1, <1>2, <1>3, <1>4 DEF Going

\* The same for the verdict.
LEMMA VerdictThen ==
  /\ parent'.at = "repaired" => VerdictOf' = "repaired"
  /\ parent'.at \in Failing => VerdictOf' = "failed"
  /\ parent'.at # "repaired" /\ parent'.at \notin Failing => VerdictOf' = "none"
  BY DEF VerdictOf, Released, Failing

\* Only a capture or a move changes whether the directories are in place.
LEMMA InPlaceStays ==
  ASSUME parent'.source = parent.source, UNCHANGED home
  PROVE  InPlaceOf' = InPlaceOf
<1>1. InPlaceOf' <=> InPlaceOf
  BY DEF InPlaceOf, Canonical, CanRetain, Opens
<1> QED
  BY <1>1 DEF InPlaceOf

mapped == <<PhaseOf, VerdictOf, InPlaceOf>>

\* A working parent gives up once, or nothing changes.
LEMMA WorksRefines ==
  ASSUME HandoffInv, ParentWorks
  PROVE  Admission!Fail \/ UNCHANGED mapped
<1>1. UNCHANGED child /\ parent.at # "repaired" /\ parent'.at # "repaired"
  BY DEF ParentWorks
<1>2. InPlaceOf' = InPlaceOf
  BY InPlaceStays DEF ParentWorks
<1>3. PhaseOf' = PhaseOf
  BY <1>1, PhaseIs, PhaseThen, SMTT(20) DEF Going
<1>4. CASE parent.at \in Failing
  BY <1>1, <1>2, <1>3, <1>4, VerdictIs, VerdictThen DEF ParentWorks, mapped
<1>5. CASE parent.at \notin Failing /\ parent'.at \in Failing
  BY <1>1, <1>2, <1>3, <1>5, VerdictIs, VerdictThen DEF Admission!Fail
<1>6. CASE parent.at \notin Failing /\ parent'.at \notin Failing
  BY <1>1, <1>2, <1>3, <1>6, VerdictIs, VerdictThen DEF mapped
<1> QED
  BY <1>4, <1>5, <1>6

\* The capture takes the directories that are in place.
LEMMA CaptureRefines ==
  ASSUME HandoffInv, ParentCaptures
  PROVE  UNCHANGED mapped
<1>1. /\ parent.at = "start" /\ parent'.at = "spawn" /\ UNCHANGED <<child, home>>
      /\ parent.source = NoFrame /\ (parent'.source = NoFrame \/ Canonical(parent'.source))
  BY DEF ParentCaptures, HandoffInv, Beginning
<1>2. InPlaceOf' <=> InPlaceOf
  BY <1>1 DEF InPlaceOf, Canonical, CanRetain, Opens
<1>3. InPlaceOf' = InPlaceOf
  BY <1>2 DEF InPlaceOf
<1> QED
  BY <1>1, <1>3, PhaseIs, PhaseThen, VerdictIs, VerdictThen DEF mapped, Going, Failing

\* The start of the child is not seen.
LEMMA StartRefines ==
  ASSUME HandoffInv, ParentStarts
  PROVE  UNCHANGED mapped
<1>1. /\ parent.at = "spawn" /\ parent'.at = "bind" /\ child.at = "none" /\ child'.at = "adopt"
  BY DEF ParentStarts, HandoffInv, Beginning
<1>2. InPlaceOf' = InPlaceOf
  BY InPlaceStays DEF ParentStarts
<1> QED
  BY <1>1, <1>2, PhaseIs, PhaseThen, VerdictIs, VerdictThen DEF mapped, Going, Failing

\* The release commits: no child serves before it, and the child is still there.
LEMMA CommitRefines ==
  ASSUME HandoffInv, ParentCommits
  PROVE  Admission!Commit
<1>1. /\ parent.at = "release" /\ parent'.at = "repaired" /\ UNCHANGED child
      /\ child.at \notin Going /\ child.at # "serving"
  BY DEF ParentCommits, ChildOpen, HandoffInv, Authorized, Going
<1>2. InPlaceOf' = InPlaceOf
  BY InPlaceStays DEF ParentCommits
<1> QED
  BY <1>1, <1>2, PhaseIs, PhaseThen, VerdictIs, VerdictThen DEF Admission!Commit, Failing

\* A working child stays where it is for the parent, or is gone.
LEMMA ChildRefines ==
  ASSUME HandoffInv, ChildWorks
  PROVE  Admission!Go \/ UNCHANGED mapped
<1>1. UNCHANGED parent
  BY DEF ChildWorks
<1>2. InPlaceOf' = InPlaceOf
  BY <1>1, InPlaceStays DEF ChildWorks
<1>3. VerdictOf' = VerdictOf
  BY <1>1, VerdictIs, VerdictThen, SMTT(20) DEF Failing
<1>4. CASE child'.at \in Going /\ child.at \notin Going
  <2>1. PhaseOf # "gone"
    BY <1>4, PhaseIs
  <2> QED
    BY <1>2, <1>3, <1>4, <2>1, PhaseThen DEF Admission!Go
<1>5. CASE child'.at \in Going /\ child.at \in Going
  BY <1>2, <1>3, <1>5, PhaseIs, PhaseThen, SMTT(20) DEF mapped
<1>6. CASE child'.at \notin Going
  BY <1>1, <1>2, <1>3, <1>6, PhaseIs, PhaseThen, SMTT(20) DEF ChildWorks, mapped
<1> QED
  BY <1>4, <1>5, <1>6

\* The child serves after the commit, in the directories of the dead wake.
LEMMA ServeRefines ==
  ASSUME HandoffInv, ChildServes
  PROVE  Admission!Serve
<1>1. /\ UNCHANGED parent /\ child.at = "recheck" /\ child'.at = "serving"
      /\ parent.at = "repaired" /\ child.source = parent.source /\ Canonical(child.source)
  BY DEF ChildServes, HandoffInv, Authorized, Inheriting
<1>2. InPlaceOf' = InPlaceOf
  BY <1>1, InPlaceStays DEF ChildServes
<1>3. InPlaceOf
  BY <1>1 DEF InPlaceOf
<1>4. VerdictOf' = VerdictOf
  BY <1>1, VerdictIs, VerdictThen
<1> QED
  BY <1>1, <1>2, <1>3, <1>4, PhaseIs, PhaseThen DEF Admission!Serve, Going

\* Whatever others do is at most a move of the directories.
LEMMA OthersRefine ==
  ASSUME OthersMove
  PROVE  Admission!Move
<1>1. UNCHANGED <<parent, child>>
  BY DEF OthersMove
<1>2. PhaseOf' = PhaseOf /\ VerdictOf' = VerdictOf
  BY <1>1, PhaseIs, PhaseThen, VerdictIs, VerdictThen DEF Going, Failing
<1>3. InPlaceOf' \in BOOLEAN
  BY DEF InPlaceOf
<1> QED
  BY <1>2, <1>3 DEF Admission!Move

\* Every kind of step is a step of the admission, or none.
LEMMA StepRefines ==
  ASSUME HandoffInv, Effects
  PROVE  [Admission!Next]_mapped
  BY WorksRefines, CaptureRefines, StartRefines, CommitRefines, ChildRefines, ServeRefines,
     OthersRefine DEF Effects, Admission!Next

\* The handoff of amq wake repair implements the admission, step by step: the
\* child serves only after the parent wrote the release, in the directories the
\* dead wake served, and a parent that gave up before the release never has a
\* serving child, whatever directories move, whoever claims the wake and
\* whichever side dies (repairWake, Release, AwaitAdmitAcknowledgeAndRelease).
THEOREM AdmissionImplemented == HandoffSpec => ImplementsAdmission
<1>1. HandoffInit => HandoffInv
  BY HandoffStarts
<1>2. HandoffInv /\ [HandoffNext]_handoffVars => HandoffInv'
  BY StepEffect, HandoffStep
<1>3. HandoffInit => Admission!Init
  <2>1. ASSUME HandoffInit
        PROVE  InPlaceOf = TRUE
    BY <2>1 DEF HandoffInit, InPlaceOf
  <2>2. ASSUME HandoffInit
        PROVE  PhaseOf = "open" /\ VerdictOf = "none"
    BY <2>2, PhaseIs, VerdictIs DEF HandoffInit, Going, Failing
  <2> QED
    BY <2>1, <2>2 DEF Admission!Init
<1>4. HandoffInv /\ [HandoffNext]_handoffVars => [Admission!Next]_<<PhaseOf, VerdictOf, InPlaceOf>>
  BY StepEffect, StepRefines DEF mapped
<1> QED
  BY <1>1, <1>2, <1>3, <1>4, PTL DEF HandoffSpec, ImplementsAdmission, Admission!Spec
=============================================================================
