---------------------------- MODULE KeepCommands ----------------------------
(* The keepalive commands, step by step, and what they keep true.          *)
EXTENDS Keepalive

\* Every save may fail before the rename, or after it.
Saved(next) == rows' \in {o.rows : o \in SaveOutcomes(rows, next)}

-----------------------------------------------------------------------------
(* Starting a wake: StartWake, then how each command takes the outcome.    *)

ReadinessFailed(k) ==
  LET j == job[k] IN
  IF MayRestore(rows, j.row) THEN Saved(RestoreSessionAdapter(rows, j.row, j.prev))
  ELSE UNCHANGED rows
\* Mutant: a start that timed out is rolled back like one that failed.
ReadinessUncertainRestores(k) == ReadinessFailed(k)
\* Readiness in doubt: the child may still come up, so its row is kept.
ReadinessUncertain(k) == Saved(UpdateEntry(rows, MarkBackoff(job[k].row, job[k].row.key)))

StartedIn(k) == job[k].inv[job[k].row.target].key

AfterStart(k, outcome) ==
  LET j == job[k] IN
  \/ /\ j.op \in {"attach", "reattach"} /\ outcome = "ready"
     /\ Saved(UpdateEntry(rows, MarkActive(j.row, j.row.key)))
     /\ Leave(k)
  \/ /\ j.op = "attach" /\ outcome \in {"failed", "uncertain"}
     /\ Saved(UpdateEntry(rows, MarkBackoff(j.row, j.row.key)))
     /\ Leave(k)
  \/ /\ j.op = "reattach" /\ outcome = "uncertain"
     /\ ReadinessUncertain(k)
     /\ Leave(k)
  \/ /\ j.op = "reattach" /\ outcome = "failed" /\ j.phase # "recover"
     /\ ReadinessFailed(k)
     /\ Leave(k)
  \/ /\ j.op = "reattach" /\ outcome = "failed" /\ j.phase = "recover"
     /\ Go(k, [j EXCEPT !.step = "retire"])
     /\ UNCHANGED rows
  \/ /\ j.op = "supervise"
     /\ LET after == IF outcome = "ready" THEN MarkActive(j.row, StartedIn(k))
                     ELSE MarkBackoff(j.row, StartedIn(k))
        IN Go(k, [j EXCEPT !.step = "entries", !.updates = @ \cup {<<j.row, after>>},
                           !.row = NoRow, !.child = "none"])
     /\ UNCHANGED rows

StartWake(k) ==
  LET j == job[k] a == j.row.agent IN
  /\ j.step = "start"
  /\ \E o \in RefreshOutcomes(a, j.row.target) :
       /\ wake' = [wake EXCEPT ![a] = o.wake]
       /\ \/ /\ o.confirmed
             /\ children' = children \cup {Spawned(k, j.row)}
             /\ Go(k, [j EXCEPT !.step = "await", !.child = "running"])
             /\ UNCHANGED rows
          \/ AfterStart(k, "failed") /\ UNCHANGED children
  /\ UNCHANGED <<tree, busy, moves, born>>

\* The ready file, the child's exit, or the timeout, in which case the child
\* is left alone.
AwaitReady(k) ==
  /\ job[k].step = "await"
  /\ \/ job[k].child = "ready" /\ AfterStart(k, "ready") /\ UNCHANGED children
     \/ job[k].child = "exited" /\ AfterStart(k, "failed") /\ UNCHANGED children
     \/ /\ job[k].child = "running"
        /\ AfterStart(k, "uncertain")
        /\ children' = LetGo(k)
  /\ UNCHANGED <<tree, busy, wake, moves, born>>

-----------------------------------------------------------------------------
(* attach and reattach                                                     *)

Register(k) ==
  /\ MayEnter(k)
  /\ \E a \in Handles, s \in Surfaces, op \in {"attach", "reattach"} :
     \E noStart, retireDetached \in BOOLEAN :
       /\ op = "attach" => ~retireDetached
       /\ Enter(k, [Nothing EXCEPT !.op = op, !.row = FreshRow(a, s, NoKey),
                      !.noStart = noStart, !.retireDetached = retireDetached,
                      !.step = "inventory", !.then = "check"])
  /\ UNCHANGED <<tree, busy, rows, wake, children, moves, born>>

\* No other row's surface is, or may be, the candidate's terminal.
PhysicallyAvailable(k, key) ==
  \A r \in rows :
    \/ EntryId(r) = EntryId(job[k].row)
    \/ job[k].op = "reattach" /\ SameRootAgent(r, job[k].row)
    \/ LET answer == job[k].inv[r.target]
       IN answer.v = "absent" \/ (answer.key # NoKey /\ answer.key # key)

CheckAndReserve(k) ==
  LET j      == job[k]
      answer == j.inv[j.row.target]
      entry  == [j.row EXCEPT !.key = answer.key]
      gone   == IF j.op = "reattach" THEN Displaced(rows, entry) ELSE {}
      next   == IF j.op = "reattach" THEN ReplaceSessionAdapter(rows, entry)
                ELSE Upsert(rows, entry)
  IN /\ j.step = "check"
     /\ IF /\ answer.v = "ok"
           /\ PhysicallyAvailable(k, answer.key)
           /\ IF j.op = "reattach" THEN CheckTargetAvailable(rows, entry)
              ELSE MayUpsert(rows, entry)
          THEN \E o \in SaveOutcomes(rows, next) :
                 /\ rows' = o.rows
                 /\ children' = Orphaned(o.rows)
                 /\ IF ~o.ok \/ j.noStart THEN Leave(k)
                    ELSE Go(k, [j EXCEPT !.row = entry, !.prev = gone, !.inv = NoAnswer,
                                  !.retireDetached = FALSE, !.step = IF j.retireDetached THEN "recover" ELSE "start"])
          ELSE Leave(k) /\ UNCHANGED <<rows, children>>
     /\ UNCHANGED <<tree, busy, wake, moves, born>>

\* --retire-detached: look at the one row the reservation displaced.
RecoverDetached(k) ==
  LET j == job[k] IN
  /\ j.step = "recover"
  /\ IF \A r \in j.prev : r.target = j.row.target
       THEN Go(k, [j EXCEPT !.step = "start"]) /\ UNCHANGED rows
     ELSE IF Cardinality(j.prev) = 1
       THEN Go(k, [j EXCEPT !.step = "inventory", !.then = "previous"]) /\ UNCHANGED rows
     ELSE ReadinessFailed(k) /\ Leave(k)
  /\ UNCHANGED <<tree, busy, wake, children, moves, born>>

\* Only a target proven absent lets its wake be retired.
JudgePrevious(k) ==
  LET j      == job[k]
      answer == j.inv[(CHOOSE r \in j.prev : TRUE).target].v
  IN /\ j.step = "previous"
     /\ \/ /\ answer = "ok"
           /\ Go(k, [j EXCEPT !.step = "start", !.inv = NoAnswer]) /\ UNCHANGED rows
        \/ /\ answer = "absent"
           /\ Go(k, [j EXCEPT !.step = "start", !.inv = NoAnswer, !.phase = "recover",
                              !.gen = ObserveGeneration(j.row.agent)])
           /\ UNCHANGED rows
        \/ answer # "ok" /\ ReadinessFailed(k) /\ Leave(k)
     /\ UNCHANGED <<tree, busy, wake, children, moves, born>>

RetirePrevious(k) ==
  LET j == job[k] a == j.row.agent
  IN /\ j.step = "retire"
     /\ \E o \in RetireOutcomes(a, (CHOOSE r \in j.prev : TRUE).target, j.gen) :
          /\ wake' = [wake EXCEPT ![a] = o.wake]
          /\ IF o.confirmed
               THEN Go(k, [j EXCEPT !.step = "start", !.phase = "again"]) /\ UNCHANGED rows
               ELSE ReadinessFailed(k) /\ Leave(k)
     /\ UNCHANGED <<tree, busy, children, moves, born>>

-----------------------------------------------------------------------------
(* The supervisor pass                                                     *)

Supervise(k) ==
  /\ rows # {}
  /\ Enter(k, [Nothing EXCEPT !.op = "supervise", !.todo = rows, !.seen = rows,
                 !.step = "inventory", !.then = "entries"])
  /\ UNCHANGED <<tree, busy, rows, wake, children, moves, born>>

\* Two rows for one target.
TargetConflict(k, r) == \E x \in job[k].seen \ {r} : x.target = r.target
\* Two rows for one physical terminal.
PhysicalConflict(k, r) ==
  \E x \in job[k].seen \ {r} :
    LET mine == job[k].inv[r.target] other == job[k].inv[x.target]
    IN mine.v = "ok" /\ other.v = "ok" /\ mine.key = other.key
OwnershipConflict(k, r) == TargetConflict(k, r) \/ PhysicalConflict(k, r)

\* What a pass may do with a row before amq is touched.
LocalReadiness(k, r) ==
  LET answer == job[k].inv[r.target].v IN
  (IF r.waits THEN {"deferred"} ELSE {})
    \cup IF OwnershipConflict(k, r) THEN {"backoff"}
         ELSE CASE answer = "absent"   -> {"detached"}
                [] answer = "degraded" -> {"deferred"}
                [] answer = "error"    -> {"backoff"}
                [] OTHER               -> {"ready"}

Reconcile(k) ==
  /\ At(k, "supervise", "entries")
  /\ \E r \in job[k].todo :
       LET j == [job[k] EXCEPT !.todo = @ \ {r}]
           wrote(x) == Go(k, [j EXCEPT !.updates = @ \cup {<<r, x>>}])
       IN \/ "deferred" \in LocalReadiness(k, r) /\ Go(k, j)
          \/ "backoff" \in LocalReadiness(k, r) /\ wrote(MarkBackoff(r, r.key))
          \/ "detached" \in LocalReadiness(k, r) /\ wrote(MarkDetached(r))
          \/ "ready" \in LocalReadiness(k, r)
               /\ Go(k, [j EXCEPT !.step = "start", !.row = r])
  /\ UNCHANGED <<tree, busy, rows, wake, children, moves, born>>

CommitPass(k) ==
  /\ At(k, "supervise", "entries") /\ job[k].todo = {}
  /\ Saved(UpdateEntries(rows, job[k].updates))
  /\ Leave(k)
  /\ UNCHANGED <<tree, busy, wake, children, moves, born>>

-----------------------------------------------------------------------------
(* gc --apply, retire-session, forget                                      *)

CollectGarbage(k) ==
  /\ rows # {}
  /\ Enter(k, [Nothing EXCEPT !.op = "gc", !.todo = rows, !.seen = rows,
                 !.step = "inventory", !.then = "entries"])
  /\ UNCHANGED <<tree, busy, rows, wake, children, moves, born>>

\* A detached row, old enough, alone on its terminal, whose target the pass's
\* inventory proves absent; its wake's generation is what retirement names.
JudgeGarbage(k) ==
  /\ At(k, "gc", "entries")
  /\ \E r \in job[k].todo :
       LET j == [job[k] EXCEPT !.todo = @ \ {r}]
       IN \/ Go(k, j)
          \/ /\ r.state = "detached" /\ ~OwnershipConflict(k, r)
             /\ j.inv[r.target].v = "absent"
             /\ Go(k, [j EXCEPT !.step = "forget",
                         !.proven = {<<r, ObserveGeneration(r.agent)>>}])
  /\ UNCHANGED <<tree, busy, rows, wake, children, moves, born>>

RetireSession(k) ==
  /\ MayEnter(k)
  /\ \E agents \in SUBSET Handles \ {{}} :
       LET mine == {r \in rows : r.agent \in agents}
       IN /\ \A a \in agents : Cardinality({r \in mine : r.agent = a}) = 1
          /\ Enter(k, [Nothing EXCEPT !.op = "retire-session", !.todo = mine,
                         !.step = "prove"])
  /\ UNCHANGED <<tree, busy, rows, wake, children, moves, born>>

\* Every target is proven absent, each by an inventory of its own read after
\* the generation, before the first wake is retired.
ProveAbsent(k) ==
  LET j == job[k] IN
  /\ \/ /\ At(k, "retire-session", "prove")
        /\ IF j.todo = {} THEN Go(k, [j EXCEPT !.step = "forget"])
           ELSE \E r \in j.todo :
                  \/ Go(k, [j EXCEPT !.row = r, !.gen = ObserveGeneration(r.agent),
                              !.step = "inventory", !.then = "judge"])
                  \/ Leave(k)
     \/ /\ At(k, "retire-session", "judge")
        /\ IF j.inv[j.row.target].v = "absent"
             THEN Go(k, [j EXCEPT !.step = "prove", !.todo = @ \ {j.row},
                                  !.row = NoRow, !.gen = NoGen, !.inv = NoAnswer, !.proven = @ \cup {<<j.row, j.gen>>}])
             ELSE Leave(k)
  /\ UNCHANGED <<tree, busy, rows, wake, children, moves, born>>

\* Retire the wakes proven obsolete; forget the rows whose wake was confirmed.
RetireAndForget(k) ==
  LET j == job[k] IN
  /\ j.step = "forget"
  /\ IF j.proven = {}
       THEN /\ IF j.op = "gc" THEN Go(k, [j EXCEPT !.step = "entries"]) ELSE Leave(k)
            /\ UNCHANGED <<rows, wake, children>>
       ELSE \E x \in j.proven : \E o \in RetireOutcomes(x[1].agent, x[1].target, x[2]) :
              /\ wake' = [wake EXCEPT ![x[1].agent] = o.wake]
              /\ IF o.confirmed
                   THEN Saved(ForgetIfUnchanged(rows, x[1])) /\ children' = Orphaned(rows')
                   ELSE UNCHANGED <<rows, children>>
              /\ Go(k, [j EXCEPT !.proven = @ \ {x}])
  /\ UNCHANGED <<tree, busy, moves, born>>

FinishGc(k) ==
  /\ At(k, "gc", "entries") /\ job[k].todo = {}
  /\ Leave(k)
  /\ UNCHANGED <<tree, busy, rows, wake, children, moves, born>>

Forget(k) ==
  /\ job[k].op = "none" /\ LeaseFree
  /\ \E r \in rows : Saved(ForgetMany(rows, {EntryId(r)}))
  /\ children' = Orphaned(rows')
  /\ UNCHANGED <<tree, busy, wake, lease, job, moves, born, jobs>>

\* The process dies or is cancelled; its child lives on.
KeeperDies(k) ==
  /\ job[k].op # "none"
  /\ Leave(k)
  /\ children' = LetGo(k)
  /\ UNCHANGED <<tree, busy, rows, wake, moves, born>>

KeeperSteps(k) ==
  \/ Register(k) \/ CheckAndReserve(k)
  \/ RecoverDetached(k) \/ JudgePrevious(k) \/ RetirePrevious(k)
  \/ Supervise(k) \/ Reconcile(k) \/ CommitPass(k)
  \/ CollectGarbage(k) \/ JudgeGarbage(k) \/ FinishGc(k)
  \/ RetireSession(k) \/ ProveAbsent(k) \/ RetireAndForget(k)
  \/ Forget(k)
  \/ BuildInventory(k) \/ EvictAliases(k)
  \/ StartWake(k) \/ AwaitReady(k)
  \/ KeeperDies(k)

KeepaliveNext ==
  \/ \E k \in Keepers : KeeperSteps(k)
  \/ \E c \in children : ChildRuns(c)
  \/ \E a \in Handles : WakeDies(a)
  \/ TerminalMoves

KeepaliveSpec == KeepaliveInit /\ [][KeepaliveNext]_keepVars

-----------------------------------------------------------------------------
(* An agent has at most one row and a terminal at most one agent, whatever *)
(* is interrupted.  Rolling a reattach back puts the displaced rows back   *)
(* without looking who took their targets since: only the lease, held over *)
(* the whole start, keeps a second registration out of that window.        *)
OneRowEach ==
  \A r, x \in rows : r # x => r.agent # x.agent /\ r.target # x.target

(* A wake that may still come up has its row: a start whose readiness      *)
(* timed out, or whose keeper died, leaves the reservation for the         *)
(* supervisor to converge on, until another command removes it.            *)
StartsRegistered ==
  \A c \in children : c.late \/ HasEntry(rows, c)
=============================================================================
