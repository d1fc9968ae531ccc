------------------------------- MODULE MCWatch ------------------------------
(* Small instances of the processes that watch for work: the wake loop, the  *)
(* admission of a repaired wake to that loop, and a swarm's commands and     *)
(* bridges.  A behaviour belongs to one part; the other parts' variables do  *)
(* not change.                                                               *)
EXTENDS WakeServe, RepairHandoff, Swarm, TLC

CONSTANTS t1, t2

VARIABLE part

\* The second task waits for the first.
MCDeps == [t \in Tasks |-> IF t = t2 THEN {t1} ELSE {}]

\* A loop starts with a backlog or with an empty inbox, after one or more messages
\* were read.  A start after a single one has no TIOCSTI switch, one with a single
\* message waiting no fault, and one before any message neither: only there three
\* messages meet.
LoopStart ==
  LET used == {n \in Names : made[n] = 1}
  IN /\ conf.backlog <=> inbox # {}
     /\ conf.mode = "via" => ~conf.backlog
     /\ conf.switched <=> Cardinality(used) <= 1
     /\ loop.faults = IF Cardinality(inbox) = 1 \/ used = {} THEN 0 ELSE FaultLimit
     /\ Cardinality(used) <= Cardinality(inbox) + 2
     /\ used = {} => conf.mode = "codex"
     /\ used # {} => Cardinality(inbox) < Cardinality(used)

\* The parts that do not run.
Resting ==
  /\ part # "loop" => \A n \in Names : made[n] = 0
  /\ part # "handoff" => home = CHOOSE d \in Directories : TRUE
  /\ part \notin {"claims", "events"} => \A t \in Tasks : tasks[t] = NoTask
  /\ part = "events" => tasks[t2] = NoTask

WatchInit ==
  /\ part \in {"loop", "handoff", "claims", "events"}
  /\ LoopInit /\ LoopStart /\ HandoffInit /\ SwarmInit /\ Resting

SwarmPart ==
  \/ part = "claims" /\ \E a \in Agents : CommandStep(a)
  \/ part = "events" /\ \E a \in Bridged : CommandStep(a) \/ BridgeStep(a)
  \/ part \in {"claims", "events"} /\ \E t \in Tasks : LeadAdds(t) \/ LeadReopens(t)

WatchNext ==
  \/ part = "loop" /\ LoopNext /\ UNCHANGED <<handoffVars, swarmVars, part>>
  \/ part = "handoff" /\ HandoffNext /\ UNCHANGED <<wakeLoopVars, swarmVars, part>>
  \/ SwarmPart /\ UNCHANGED <<wakeLoopVars, handoffVars, part>>

WatchSpec == WatchInit /\ [][WatchNext]_<<wakeLoopVars, handoffVars, swarmVars, part>>

\* The messages of the wake loop are interchangeable.
NamesAlike == Permutations(Names)
=============================================================================
