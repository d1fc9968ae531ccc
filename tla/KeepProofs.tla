----------------------------- MODULE KeepProofs -----------------------------
(* What keepalive guarantees for any number of agents, terminals, keepers    *)
(* and commands: an agent keeps one row and a terminal one agent, and a wake *)
(* that may still come up has its row.  And what send and reply guarantee    *)
(* for any trees, sessions and configurations: a reply returns, and a pinned *)
(* terminal works on the pinned queue.                                       *)
EXTENDS KeepCommands, Routing, TLAPS

\* A leaf that names no prover is Zenon's.
USE ZenonT(60)

RowFields == {"agent", "target", "key", "state", "waits"}
ChildFields == {"agent", "target", "of", "late"}
JobFields ==
  {"op", "step", "then", "row", "prev", "noStart", "retireDetached", "phase", "gen",
   "child", "inv", "tr", "status", "todo", "seen", "updates", "proven"}

IsRow(r) == DOMAIN r = RowFields
IsChild(c) == DOMAIN c = ChildFields
IsJob(j) == DOMAIN j = JobFields

\* The steps of a command.
StepOf(j) ==
  \/ j.op = "none" /\ j.step = "idle"
  \/ /\ j.op = "attach" /\ j.then = "check" /\ ~j.retireDetached
     /\ j.step \in {"inventory", "evict", "check", "start", "await"}
  \/ /\ j.op = "reattach" /\ j.then \in {"check", "previous"}
     /\ j.step \in {"inventory", "evict", "check", "start", "await", "recover", "previous", "retire"}
  \/ /\ j.op = "supervise" /\ j.then = "entries"
     /\ j.step \in {"inventory", "evict", "entries", "start", "await"}
  \/ /\ j.op = "gc" /\ j.then = "entries"
     /\ j.step \in {"inventory", "evict", "entries", "forget"}
  \/ /\ j.op = "retire-session"
     /\ j.step \in {"prove", "inventory", "evict", "judge", "forget"}
     /\ j.step \in {"inventory", "evict"} => j.then = "judge"

\* A registration before and after its row is in the registry.
Registers(j) == j.op \in {"attach", "reattach"}
Checking(j) == j.step = "check" \/ (j.step \in {"inventory", "evict"} /\ j.then = "check")
Reserved(j) == Registers(j) /\ ~Checking(j)

\* Every command in progress holds the lease.
LeaseInv ==
  /\ job = [k \in Keepers |-> job[k]]
  /\ \A k \in Keepers : /\ IsJob(job[k]) /\ StepOf(job[k])
                        /\ job[k].op # "none" => lease = k

\* A registry with one row for an agent and one agent for a terminal.
GoodRows(R) ==
  /\ \A r \in R : IsRow(r)
  /\ \A r, x \in R : r # x => r.agent # x.agent /\ r.target # x.target

\* What a command remembers of registry R is still so.  The rows a reservation
\* displaced are of its agent, and no other agent has taken their terminal.
Displacing(j, R) ==
  /\ j.row \in R
  /\ \A p, q \in j.prev : p = q
  /\ \A p \in j.prev :
       /\ IsRow(p) /\ p.agent = j.row.agent
       /\ \A r \in R : r.agent # p.agent => r.target # p.target
Supervising(j, R) ==
  /\ j.todo \subseteq R
  /\ j.step \in {"start", "await"} => j.row \in R
  /\ \A u \in j.updates : IsRow(u[2]) /\ EntryId(u[2]) = EntryId(u[1])
Remembers(j, R) ==
  /\ Registers(j) => IsRow(j.row)
  /\ Reserved(j) => Displacing(j, R)
  /\ j.op = "supervise" => Supervising(j, R)

RegistryInv == GoodRows(rows) /\ \A k \in Keepers : Remembers(job[k], rows)

\* A child is awaited by the keeper that started it, or by nobody; it has its
\* entry, and a child the reservation's rollback could orphan has one among the
\* displaced rows.
Awaited(c) ==
  /\ c.of \in Keepers
  /\ job[c.of].step = "await" /\ job[c.of].child = "running"
  /\ c = Spawned(c.of, job[c.of].row)
Survives(c, j) == EntryId(c) # EntryId(j.row) \/ HasEntry(j.prev, c)
ChildInv ==
  \A c \in children :
    /\ IsChild(c)
    /\ c.of = NoKeeper \/ Awaited(c)
    /\ c.late \/ HasEntry(rows, c)
    /\ \A k \in Keepers : job[k].op = "reattach" /\ Reserved(job[k]) =>
         c.late \/ c.of = k \/ Survives(c, job[k])

KeepInv == LeaseInv /\ RegistryInv /\ ChildInv

-----------------------------------------------------------------------------
(* The registry's operators *)

\* Every entry of R is one of S: nothing that has a row in R loses it.
Covers(S, R) == \A r \in R : \E s \in S : EntryId(s) = EntryId(r)

\* Overwriting the row of an id keeps the registry and its ids (UpdateEntry).
LEMMA UpdateEntryKeeps ==
  ASSUME NEW R, GoodRows(R), NEW x, IsRow(x)
  PROVE  GoodRows(UpdateEntry(R, x)) /\ Covers(UpdateEntry(R, x), R)
<1>1. ASSUME NEW r \in R
      PROVE  \E s \in UpdateEntry(R, x) : EntryId(s) = EntryId(r)
  BY SMTT(20) DEF UpdateEntry
<1>2. ASSUME NEW s \in UpdateEntry(R, x)
      PROVE  \E r \in R : IsRow(s) /\ s.agent = r.agent /\ s.target = r.target
                          /\ s = IF EntryId(r) = EntryId(x) THEN x ELSE r
  BY DEF UpdateEntry, GoodRows, EntryId
<1>3. ASSUME NEW s \in UpdateEntry(R, x), NEW t \in UpdateEntry(R, x), s # t
      PROVE  s.agent # t.agent /\ s.target # t.target
  BY <1>2, <1>3, SMTT(20) DEF GoodRows
<1> QED
  BY <1>1, <1>2, <1>3 DEF GoodRows, Covers

\* A supervisor pass rewrites rows and never their ids (UpdateEntries).
LEMMA UpdateEntriesKeep ==
  ASSUME NEW R, GoodRows(R), NEW updates,
         \A u \in updates : IsRow(u[2]) /\ EntryId(u[2]) = EntryId(u[1])
  PROVE  GoodRows(UpdateEntries(R, updates)) /\ Covers(UpdateEntries(R, updates), R)
<1> DEFINE New(r) == IF \E u \in updates : u[1] = r
                     THEN (CHOOSE u \in updates : u[1] = r)[2] ELSE r
<1>1. ASSUME NEW r \in R
      PROVE  IsRow(New(r)) /\ EntryId(New(r)) = EntryId(r)
  <2>1. CASE \E u \in updates : u[1] = r
    <3>1. PICK u \in updates : u = CHOOSE v \in updates : v[1] = r
      BY <2>1
    <3>2. u[1] = r
      BY <2>1, <3>1
    <3> QED
      BY <2>1, <3>1, <3>2
  <2>2. CASE ~\E u \in updates : u[1] = r
    BY <2>2 DEF GoodRows
  <2> QED
    BY <2>1, <2>2
<1>2. UpdateEntries(R, updates) = {New(r) : r \in R}
  BY DEF UpdateEntries
<1> HIDE DEF New
<1>3. \A r \in R : New(r).agent = r.agent /\ New(r).target = r.target
  BY <1>1 DEF EntryId
<1> QED
  BY <1>1, <1>2, <1>3, SMTT(20) DEF GoodRows, Covers

\* attach adds a row for an agent and a terminal that have none (Upsert).
LEMMA UpsertKeeps ==
  ASSUME NEW R, GoodRows(R), NEW x, IsRow(x), MayUpsert(R, x)
  PROVE  /\ GoodRows(Upsert(R, x)) /\ Covers(Upsert(R, x), R)
         /\ x \in Upsert(R, x)
<1>1. \A r \in R : EntryId(r) # EntryId(x) => r.agent # x.agent /\ r.target # x.target
  BY DEF MayUpsert, ConflictingRegistrationOwners, ConflictingTargetOwners, SameRootAgent
<1>2. Covers(Upsert(R, x), R)
  BY SMTT(20) DEF Covers, Upsert
<1>3. GoodRows(Upsert(R, x))
  BY <1>1 DEF GoodRows, Upsert
<1> QED
  BY <1>2, <1>3 DEF Upsert

\* reattach replaces the rows of its agent by one, on a terminal no other agent
\* has; the displaced row is the agent's only one (ReplaceSessionAdapter).
LEMMA ReplaceKeeps ==
  ASSUME NEW R, GoodRows(R), NEW x, IsRow(x), CheckTargetAvailable(R, x)
  PROVE  LET S == ReplaceSessionAdapter(R, x)
             gone == Displaced(R, x)
         IN /\ GoodRows(S) /\ x \in S
            /\ \A p, q \in gone : p = q
            /\ \A p \in gone : /\ IsRow(p) /\ p.agent = x.agent
                               /\ \A r \in S : r.agent # p.agent => r.target # p.target
<1> DEFINE S == ReplaceSessionAdapter(R, x)
           gone == Displaced(R, x)
<1>1. \A r \in R : r.agent # x.agent => r.target # x.target
  BY DEF CheckTargetAvailable, ConflictingTargetOwners, SameRootAgent, EntryId
<1>2. \A r \in S : r = x \/ (r \in R /\ r.agent # x.agent)
  BY DEF ReplaceSessionAdapter, Displaced, SameRootAgent
<1>3. x \in S
  BY DEF ReplaceSessionAdapter
<1>4. \A p \in gone : p \in R /\ p.agent = x.agent
  BY DEF Displaced, SameRootAgent
<1> HIDE DEF S, gone
<1>5. GoodRows(S)
  BY <1>1, <1>2 DEF GoodRows
<1>6. \A p, q \in gone : p = q
  BY <1>4 DEF GoodRows
<1>7. \A p \in gone : \A r \in S : r.agent # p.agent => r.target # p.target
  BY <1>2, <1>4 DEF GoodRows
<1>8. \A p \in gone : IsRow(p)
  BY <1>4 DEF GoodRows
<1> QED
  BY <1>3, <1>4, <1>5, <1>6, <1>7, <1>8 DEF S, gone

\* Rolling a reservation back restores rows nobody has taken the place of
\* (RestoreSessionAdapter).
LEMMA RestoreKeeps ==
  ASSUME NEW R, GoodRows(R), NEW j, Displacing(j, R), MayRestore(R, j.row)
  PROVE  LET S == RestoreSessionAdapter(R, j.row, j.prev)
         IN /\ GoodRows(S)
            /\ \A r \in R : r = j.row \/ r \in S
            /\ j.prev \subseteq S
<1> DEFINE S == RestoreSessionAdapter(R, j.row, j.prev)
<1>1. \A r \in S : (r \in R /\ r.agent # j.row.agent) \/ r \in j.prev
  BY DEF RestoreSessionAdapter, MayRestore, SameRootAgent
<1>2. (\A r \in R : r = j.row \/ r \in S) /\ j.prev \subseteq S
  BY DEF RestoreSessionAdapter
<1> HIDE DEF S
<1>3. GoodRows(S)
  BY <1>1 DEF GoodRows, Displacing
<1> QED
  BY <1>2, <1>3 DEF S

-----------------------------------------------------------------------------
(* Steps of a command *)

\* While one keeper runs a command, or the lease is free, the others are idle.
Alone(k) == job[k].op # "none" \/ LeaseFree
LEMMA OthersIdle ==
  ASSUME LeaseInv, NEW k \in Keepers, Alone(k)
  PROVE  \A i \in Keepers : i # k => job[i].op = "none" /\ job[i].step = "idle"
BY KeeperAssumption DEF LeaseInv, Alone, LeaseFree, StepOf

OnlyJob(k) == job' = [job EXCEPT ![k] = job'[k]]

\* A command that goes on under the lease, or takes it, leaves the lease and the
\* registry in order when its own record is (Enter, Go).
LEMMA WorkStep ==
  ASSUME LeaseInv, RegistryInv, NEW k \in Keepers, Alone(k), lease' = k, OnlyJob(k),
         IsJob(job'[k]), StepOf(job'[k]), GoodRows(rows'), Remembers(job'[k], rows')
  PROVE  LeaseInv' /\ RegistryInv'
<1>1. \A i \in Keepers : i # k => job'[i] = job[i] /\ job[i].op = "none"
  BY OthersIdle DEF LeaseInv, OnlyJob
<1>2. LeaseInv'
  <2>1. job' = [i \in Keepers |-> job'[i]]
    BY DEF LeaseInv, OnlyJob
  <2>2. \A i \in Keepers : /\ IsJob(job'[i]) /\ StepOf(job'[i])
                           /\ job'[i].op # "none" => lease' = i
    BY <1>1 DEF LeaseInv
  <2> QED
    BY <2>1, <2>2 DEF LeaseInv
<1>3. \A i \in Keepers : Remembers(job'[i], rows')
  BY <1>1 DEF Remembers, Registers, Reserved
<1> QED
  BY <1>2, <1>3 DEF RegistryInv

\* A command that returns releases the lease (Leave).
LEMMA LeaveStep ==
  ASSUME LeaseInv, RegistryInv, NEW k \in Keepers, Alone(k), Leave(k), GoodRows(rows')
  PROVE  LeaseInv' /\ RegistryInv'
<1>1. OnlyJob(k) /\ job'[k] = Nothing
  BY DEF Leave, LeaseInv, OnlyJob
<1>2. \A i \in Keepers : job'[i] = Nothing \/ (job'[i] = job[i] /\ job[i].op = "none")
  BY <1>1, OthersIdle DEF LeaseInv, OnlyJob
<1>3. Nothing.op = "none" /\ Nothing.step = "idle" /\ IsJob(Nothing)
  BY DEF Nothing, IsJob, JobFields
<1>4. LeaseInv'
  <2>1. job' = [i \in Keepers |-> job'[i]]
    BY <1>1 DEF LeaseInv, OnlyJob
  <2>2. \A i \in Keepers : IsJob(job'[i]) /\ StepOf(job'[i]) /\ job'[i].op = "none"
    BY <1>2, <1>3, SMTT(20) DEF LeaseInv, StepOf
  <2> QED
    BY <2>1, <2>2 DEF LeaseInv
<1>5. \A i \in Keepers : job'[i].op = "none"
  BY <1>2, <1>3
<1>6. \A i \in Keepers : Remembers(job'[i], rows')
  BY <1>5 DEF Remembers, Registers, Reserved
<1> QED
  BY <1>4, <1>6 DEF RegistryInv

\* Only the working keeper's record bears on the children.
LEMMA ChildStep ==
  ASSUME LeaseInv, NEW k \in Keepers, Alone(k), OnlyJob(k),
         \A c \in children' : /\ IsChild(c) /\ (c.of = NoKeeper \/ Awaited(c)')
                              /\ c.late \/ HasEntry(rows', c),
         job'[k].op = "reattach" /\ Reserved(job'[k]) =>
           \A c \in children' : c.late \/ c.of = k \/ Survives(c, job'[k])
  PROVE  ChildInv'
<1>1. \A i \in Keepers : i # k => job'[i].op = "none"
  BY OthersIdle DEF LeaseInv, OnlyJob
<1> QED
  BY <1>1 DEF ChildInv

\* A keeper that awaits nothing has no child; then no child is awaited.
Childless(k) == job[k].step # "await" \/ job[k].child # "running"
LEMMA NobodyAwaited ==
  ASSUME LeaseInv, ChildInv, NEW k \in Keepers, Alone(k), Childless(k)
  PROVE  \A c \in children : c.of = NoKeeper
BY OthersIdle DEF ChildInv, Awaited, Childless

\* A step that starts no wake and takes no child's entry away.
LEMMA ChildrenStay ==
  ASSUME LeaseInv, ChildInv, NEW k \in Keepers, Alone(k), OnlyJob(k), Childless(k),
         children' = children,
         \A c \in children : c.late \/ HasEntry(rows', c),
         job'[k].op = "reattach" /\ Reserved(job'[k]) =>
           /\ job[k].op = "reattach" /\ Reserved(job[k])
           /\ job'[k].row = job[k].row /\ job'[k].prev = job[k].prev
  PROVE  ChildInv'
<1>1. \A c \in children : c.of = NoKeeper
  BY NobodyAwaited
<1>2. job'[k].op = "reattach" /\ Reserved(job'[k]) =>
           \A c \in children : c.late \/ c.of = k \/ Survives(c, job'[k])
  BY DEF ChildInv, Survives
<1>3. \A c \in children : IsChild(c)
  BY DEF ChildInv
<1> QED
  BY <1>1, <1>2, <1>3, ChildStep

\* Nobody awaits the child any more: it keeps its entry (LetGo).
LEMMA ChildrenLetGo ==
  ASSUME LeaseInv, ChildInv, NEW k \in Keepers, Alone(k), OnlyJob(k),
         children' = LetGo(k), job'[k].op # "reattach", Covers(rows', rows)
  PROVE  ChildInv'
<1>1. ASSUME NEW c \in children'
      PROVE  /\ IsChild(c) /\ c.of = NoKeeper /\ (c.late \/ HasEntry(rows', c))
  <2>1. PICK d \in children : c = IF d.of = k THEN [d EXCEPT !.of = NoKeeper] ELSE d
    BY DEF LetGo
  <2>2. IsChild(d) /\ (d.of = NoKeeper \/ Awaited(d)) /\ (d.late \/ HasEntry(rows, d))
    BY DEF ChildInv
  <2>3. d.of = NoKeeper \/ d.of = k
    BY <2>2, OthersIdle DEF Awaited
  <2>4. IsChild(c) /\ c.of = NoKeeper /\ c.late = d.late /\ EntryId(c) = EntryId(d)
    BY <2>1, <2>2, <2>3 DEF IsChild, ChildFields, EntryId
  <2> QED
    BY <2>2, <2>4 DEF Covers, HasEntry
<1> QED
  BY <1>1, ChildStep

\* A command that removes rows accounts for the children that had them (Orphaned).
LEMMA ChildrenOrphaned ==
  ASSUME LeaseInv, ChildInv, NEW k \in Keepers, Alone(k), Childless(k), NEW S
  PROVE  \A c \in Orphaned(S) :
           /\ IsChild(c) /\ c.of = NoKeeper /\ (c.late \/ (HasEntry(rows, c) /\ HasEntry(S, c)))
<1> SUFFICES ASSUME NEW c \in Orphaned(S)
             PROVE  /\ IsChild(c) /\ c.of = NoKeeper
                    /\ c.late \/ (HasEntry(rows, c) /\ HasEntry(S, c))
  OBVIOUS
<1>1. PICK d \in children : c = IF HasEntry(rows, d) /\ ~HasEntry(S, d)
                                THEN [d EXCEPT !.late = TRUE] ELSE d
  BY DEF Orphaned
<1>2. IsChild(d) /\ d.of = NoKeeper /\ (d.late \/ HasEntry(rows, d))
  BY NobodyAwaited DEF ChildInv
<1>3. CASE HasEntry(rows, d) /\ ~HasEntry(S, d)
  BY <1>1, <1>2, <1>3 DEF IsChild, ChildFields
<1>4. CASE ~(HasEntry(rows, d) /\ ~HasEntry(S, d))
  BY <1>1, <1>2, <1>4
<1> QED
  BY <1>3, <1>4

-----------------------------------------------------------------------------
(* The registrations *)

\* A save of an overwritten row, whatever became of it (Saved, UpdateEntry).
LEMMA SavedUpdate ==
  ASSUME RegistryInv, NEW x, IsRow(x), Saved(UpdateEntry(rows, x))
  PROVE  GoodRows(rows') /\ Covers(rows', rows)
<1>1. rows' = UpdateEntry(rows, x) \/ rows' = rows
  BY SMTT(20) DEF Saved, SaveOutcomes
<1>2. GoodRows(rows)
  BY DEF RegistryInv
<1>3. CASE rows' = UpdateEntry(rows, x)
  BY <1>2, <1>3, UpdateEntryKeeps
<1>4. CASE rows' = rows
  BY <1>2, <1>4 DEF Covers
<1> QED
  BY <1>1, <1>3, <1>4

\* A child keeps its entry when the ids of the registry stay.
LEMMA CoveredChildren ==
  ASSUME ChildInv, Covers(rows', rows)
  PROVE  \A c \in children : c.late \/ HasEntry(rows', c)
BY DEF ChildInv, Covers, HasEntry

\* A rollback, made while the reservation is still the agent's only row, orphans
\* no child and puts no second agent on a terminal (ReadinessFailed).
LEMMA RolledBack ==
  ASSUME KeepInv, NEW k \in Keepers, job[k].op = "reattach", Reserved(job[k]),
         Childless(k), ReadinessFailed(k)
  PROVE  GoodRows(rows') /\ \A c \in children : c.late \/ HasEntry(rows', c)
<1>1. GoodRows(rows) /\ Displacing(job[k], rows)
  BY DEF KeepInv, RegistryInv, Remembers
<1>2. \A c \in children : /\ c.late \/ HasEntry(rows, c)
                          /\ c.late \/ Survives(c, job[k])
  BY NobodyAwaited, KeeperAssumption DEF KeepInv, ChildInv, Alone
<1>3. CASE rows' = rows
  BY <1>1, <1>2, <1>3
<1>4. CASE /\ MayRestore(rows, job[k].row)
           /\ rows' = RestoreSessionAdapter(rows, job[k].row, job[k].prev)
  <2>1. PICK j : j = job[k]
    OBVIOUS
  <2>2. /\ GoodRows(rows')
        /\ \A r \in rows : r = job[k].row \/ r \in rows'
        /\ job[k].prev \subseteq rows'
    BY <1>1, <1>4, <2>1, RestoreKeeps
  <2> QED
    BY <1>2, <2>2 DEF Survives, HasEntry
<1> QED
  BY <1>3, <1>4, SMTT(20) DEF ReadinessFailed, Saved, SaveOutcomes

\* How a command takes the outcome of a start (AfterStart).  The start may have
\* been refused, or its child has reported: then the children stay.
LEMMA StartSettled ==
  ASSUME KeepInv, NEW k \in Keepers, job[k].step \in {"start", "await"}, Childless(k),
         NEW outcome, AfterStart(k, outcome), children' = children
  PROVE  KeepInv'
<1>1. /\ IsJob(job[k]) /\ StepOf(job[k]) /\ Remembers(job[k], rows)
      /\ LeaseInv /\ RegistryInv /\ ChildInv /\ job \in [Keepers -> {job[i] : i \in Keepers}]
  BY DEF KeepInv, LeaseInv, RegistryInv
<1>2. Alone(k) /\ ~Checking(job[k]) /\ job[k].op # "none"
  BY <1>1 DEF Alone, Checking, StepOf
<1>3. lease = k
  BY <1>2 DEF KeepInv, LeaseInv
<1>4. ASSUME Leave(k), GoodRows(rows'), \A c \in children : c.late \/ HasEntry(rows', c)
      PROVE  KeepInv'
  <2>1. OnlyJob(k) /\ job'[k].op # "reattach"
    BY <1>1, <1>4 DEF Leave, OnlyJob, Nothing
  <2>2. LeaseInv' /\ RegistryInv'
    BY <1>1, <1>2, <1>4, LeaveStep
  <2>3. ChildInv'
    BY <1>1, <1>2, <1>4, <2>1, ChildrenStay
  <2> QED
    BY <2>2, <2>3 DEF KeepInv
<1>5. ASSUME NEW x, IsRow(x), Saved(UpdateEntry(rows, x)), Leave(k)
      PROVE  KeepInv'
  BY <1>1, <1>4, <1>5, SavedUpdate, CoveredChildren
<1>6. IsRow(job[k].row)
  BY <1>1, <1>2 DEF Remembers, Registers, Supervising, StepOf, RegistryInv, GoodRows
<1>7. \A key : IsRow(MarkActive(job[k].row, key)) /\ IsRow(MarkBackoff(job[k].row, key))
  BY <1>6 DEF IsRow, MarkActive, MarkBackoff
<1>8. \A key : /\ EntryId(MarkActive(job[k].row, key)) = EntryId(job[k].row)
               /\ EntryId(MarkBackoff(job[k].row, key)) = EntryId(job[k].row)
  BY <1>6 DEF IsRow, RowFields, MarkActive, MarkBackoff, EntryId
<1>9. CASE Saved(UpdateEntry(rows, MarkActive(job[k].row, job[k].row.key))) /\ Leave(k)
  <2>1. PICK x : x = MarkActive(job[k].row, job[k].row.key)
    OBVIOUS
  <2> QED
    BY <1>5, <1>7, <1>9, <2>1
<1>10. CASE Saved(UpdateEntry(rows, MarkBackoff(job[k].row, job[k].row.key))) /\ Leave(k)
  <2>1. PICK x : x = MarkBackoff(job[k].row, job[k].row.key)
    OBVIOUS
  <2> QED
    BY <1>5, <1>7, <1>10, <2>1
<1>11. CASE job[k].op = "reattach" /\ ReadinessFailed(k) /\ Leave(k)
  <2>1. Reserved(job[k])
    BY <1>2, <1>11 DEF Reserved, Registers
  <2> QED
    BY <1>4, <1>11, <2>1, RolledBack
<1>12. CASE /\ job[k].op = "reattach"
            /\ Go(k, [job[k] EXCEPT !.step = "retire"])
            /\ UNCHANGED rows
  <2>1. /\ OnlyJob(k) /\ lease' = k /\ IsJob(job'[k])
        /\ job'[k].step = "retire" /\ job'[k].op = "reattach" /\ job'[k].then = job[k].then
        /\ job'[k].row = job[k].row /\ job'[k].prev = job[k].prev
    BY <1>1, <1>3, <1>12 DEF Go, OnlyJob, IsJob, JobFields
  <2>2. StepOf(job'[k])
    BY <1>1, <1>12, <2>1 DEF StepOf
  <2>3. Reserved(job[k]) /\ Reserved(job'[k])
    BY <1>2, <1>12, <2>1 DEF Reserved, Registers, Checking
  <2>4. Remembers(job'[k], rows') /\ GoodRows(rows')
    BY <1>1, <1>6, <1>12, <2>1, <2>3 DEF Remembers, Displacing, RegistryInv
  <2>5. ChildInv'
    <3>1. \A c \in children : c.late \/ HasEntry(rows', c)
      BY <1>12 DEF KeepInv, ChildInv
    <3> QED
      BY <1>1, <1>2, <1>12, <2>1, <2>3, <3>1, ChildrenStay
  <2> QED
    BY <1>1, <1>2, <2>1, <2>2, <2>4, <2>5, WorkStep DEF KeepInv
<1>13. CASE job[k].op = "supervise" /\ UNCHANGED rows
  <2>1. PICK after : /\ IsRow(after) /\ EntryId(after) = EntryId(job[k].row)
                     /\ Go(k, [job[k] EXCEPT !.step = "entries",
                                 !.updates = @ \cup {<<job[k].row, after>>},
                                 !.row = NoRow, !.child = "none"])
    BY <1>7, <1>8, <1>13 DEF AfterStart
  <2>2. /\ OnlyJob(k) /\ lease' = k /\ IsJob(job'[k])
        /\ job'[k].step = "entries" /\ job'[k].op = "supervise" /\ job'[k].then = job[k].then
        /\ job'[k].todo = job[k].todo
        /\ job'[k].updates = job[k].updates \cup {<<job[k].row, after>>}
    BY <1>1, <1>3, <1>13, <2>1 DEF Go, OnlyJob, IsJob, JobFields
  <2>3. StepOf(job'[k])
    BY <1>1, <1>13, <2>2 DEF StepOf
  <2>4. Remembers(job'[k], rows') /\ GoodRows(rows')
    BY <1>1, <1>13, <2>1, <2>2, SMTT(20)
       DEF Remembers, Registers, Reserved, Supervising, RegistryInv
  <2>5. ChildInv'
    <3>1. \A c \in children : c.late \/ HasEntry(rows', c)
      BY <1>13 DEF KeepInv, ChildInv
    <3> QED
      BY <1>1, <1>2, <2>2, <3>1, ChildrenStay
  <2> QED
    BY <1>1, <1>2, <2>2, <2>3, <2>4, <2>5, WorkStep DEF KeepInv
<1> QED
  BY <1>9, <1>10, <1>11, <1>12, <1>13 DEF AfterStart, ReadinessUncertain

\* The readiness of the child timed out: nothing is rolled back, and the child
\* that nobody awaits any more keeps its entry (AfterStart, LetGo).
LEMMA StartInDoubt ==
  ASSUME KeepInv, NEW k \in Keepers, job[k].step = "await",
         AfterStart(k, "uncertain"), children' = LetGo(k)
  PROVE  KeepInv'
<1>1. /\ IsJob(job[k]) /\ StepOf(job[k]) /\ Remembers(job[k], rows)
      /\ LeaseInv /\ RegistryInv /\ ChildInv /\ job \in [Keepers -> {job[i] : i \in Keepers}]
  BY DEF KeepInv, LeaseInv, RegistryInv
<1>2. Alone(k) /\ ~Checking(job[k]) /\ job[k].op # "none"
  BY <1>1 DEF Alone, Checking, StepOf
<1>3. lease = k
  BY <1>2 DEF KeepInv, LeaseInv
<1>4. IsRow(job[k].row)
  BY <1>1, <1>2 DEF Remembers, Registers, Supervising, StepOf, RegistryInv, GoodRows
<1>5. CASE /\ Saved(UpdateEntry(rows, MarkBackoff(job[k].row, job[k].row.key)))
           /\ Leave(k)
  <2>1. PICK x : x = MarkBackoff(job[k].row, job[k].row.key)
    OBVIOUS
  <2>2. IsRow(x)
    BY <1>4, <2>1 DEF IsRow, MarkBackoff
  <2>3. GoodRows(rows') /\ Covers(rows', rows)
    BY <1>1, <1>5, <2>1, <2>2, SavedUpdate
  <2>4. OnlyJob(k) /\ job'[k].op # "reattach"
    BY <1>1, <1>5 DEF Leave, OnlyJob, Nothing
  <2>5. LeaseInv' /\ RegistryInv'
    BY <1>1, <1>2, <1>5, <2>3, LeaveStep
  <2>6. ChildInv'
    BY <1>1, <1>2, <2>3, <2>4, ChildrenLetGo
  <2> QED
    BY <2>5, <2>6 DEF KeepInv
<1>6. CASE job[k].op = "supervise" /\ UNCHANGED rows
  <2>1. PICK after : /\ after = MarkBackoff(job[k].row, StartedIn(k))
                     /\ Go(k, [job[k] EXCEPT !.step = "entries",
                                 !.updates = @ \cup {<<job[k].row, after>>},
                                 !.row = NoRow, !.child = "none"])
    BY <1>6 DEF AfterStart
  <2>2. IsRow(after) /\ EntryId(after) = EntryId(job[k].row)
    BY <1>4, <2>1 DEF IsRow, RowFields, MarkBackoff, EntryId
  <2>3. /\ OnlyJob(k) /\ lease' = k /\ IsJob(job'[k])
        /\ job'[k].step = "entries" /\ job'[k].op = "supervise" /\ job'[k].then = job[k].then
        /\ job'[k].todo = job[k].todo
        /\ job'[k].updates = job[k].updates \cup {<<job[k].row, after>>}
    BY <1>1, <1>3, <1>6, <2>1 DEF Go, OnlyJob, IsJob, JobFields
  <2>4. StepOf(job'[k])
    BY <1>1, <1>6, <2>3 DEF StepOf
  <2>5. Remembers(job'[k], rows') /\ GoodRows(rows')
    BY <1>1, <1>6, <2>2, <2>3, SMTT(20)
       DEF Remembers, Registers, Reserved, Supervising, RegistryInv
  <2>6. Covers(rows', rows)
    BY <1>6 DEF Covers
  <2>7. ChildInv'
    BY <1>1, <1>2, <2>3, <2>6, ChildrenLetGo
  <2> QED
    BY <1>1, <1>2, <2>3, <2>4, <2>5, <2>7, WorkStep DEF KeepInv
<1> QED
  BY <1>5, <1>6 DEF AfterStart, ReadinessUncertain

\* A wake is started only for a row that is in the registry (StartWake).
LEMMA StartWakeStep ==
  ASSUME KeepInv, NEW k \in Keepers, StartWake(k)
  PROVE  KeepInv'
<1>1. /\ IsJob(job[k]) /\ StepOf(job[k]) /\ Remembers(job[k], rows) /\ job[k].step = "start"
      /\ LeaseInv /\ RegistryInv /\ ChildInv /\ job \in [Keepers -> {job[i] : i \in Keepers}]
  BY DEF KeepInv, LeaseInv, RegistryInv, StartWake
<1>2. Alone(k) /\ ~Checking(job[k]) /\ job[k].op # "none" /\ Childless(k)
  BY <1>1 DEF Alone, Checking, StepOf, Childless
<1>3. lease = k
  BY <1>2 DEF KeepInv, LeaseInv
<1>4. CASE AfterStart(k, "failed") /\ UNCHANGED children
  BY <1>1, <1>2, <1>4, StartSettled
<1>5. CASE /\ children' = children \cup {Spawned(k, job[k].row)}
           /\ Go(k, [job[k] EXCEPT !.step = "await", !.child = "running"])
           /\ UNCHANGED rows
  <2>1. /\ OnlyJob(k) /\ lease' = k /\ IsJob(job'[k])
        /\ job'[k].step = "await" /\ job'[k].child = "running" /\ job'[k].op = job[k].op
        /\ job'[k].then = job[k].then /\ job'[k].retireDetached = job[k].retireDetached
        /\ job'[k].row = job[k].row /\ job'[k].prev = job[k].prev
        /\ job'[k].todo = job[k].todo /\ job'[k].updates = job[k].updates
    BY <1>1, <1>3, <1>5 DEF Go, OnlyJob, IsJob, JobFields
  <2>2. StepOf(job'[k])
    BY <1>1, <2>1 DEF StepOf
  <2>3. job[k].row \in rows
    BY <1>1, <1>2 DEF Remembers, Reserved, Registers, Displacing, Supervising, StepOf
  <2>4. Remembers(job'[k], rows') /\ GoodRows(rows')
    BY <1>1, <1>2, <1>5, <2>1, <2>3, SMTT(20)
       DEF Remembers, Registers, Reserved, Checking, Displacing, Supervising, RegistryInv
  <2>5. ASSUME NEW c \in children'
        PROVE  /\ IsChild(c) /\ (c.of = NoKeeper \/ Awaited(c)')
               /\ c.late \/ HasEntry(rows', c)
               /\ job[k].op = "reattach" => c.late \/ c.of = k \/ Survives(c, job[k])
    <3>1. CASE c = Spawned(k, job[k].row)
      BY <1>5, <2>1, <2>3, <3>1
         DEF Spawned, IsChild, ChildFields, Awaited, HasEntry, EntryId
    <3>2. CASE c \in children
      BY <1>1, <1>2, <1>5, <3>2, NobodyAwaited DEF ChildInv, Reserved, Registers
    <3> QED
      BY <1>5, <3>1, <3>2
  <2>6. ChildInv'
    <3>1. \A c : Survives(c, job[k]) => Survives(c, job'[k])
      BY <2>1 DEF Survives
    <3> QED
      BY <1>1, <1>2, <2>1, <2>5, <3>1, ChildStep
  <2> QED
    BY <1>1, <1>2, <2>1, <2>2, <2>4, <2>6, WorkStep DEF KeepInv
<1> QED
  BY <1>4, <1>5 DEF StartWake

\* AwaitReady: ready, exited, or timed out.
LEMMA AwaitReadyStep ==
  ASSUME KeepInv, NEW k \in Keepers, AwaitReady(k)
  PROVE  KeepInv'
<1>1. job[k].step = "await"
  BY DEF AwaitReady
<1>2. CASE job[k].child = "ready" /\ AfterStart(k, "ready") /\ UNCHANGED children
  BY <1>1, <1>2, StartSettled DEF Childless
<1>3. CASE job[k].child = "exited" /\ AfterStart(k, "failed") /\ UNCHANGED children
  BY <1>1, <1>3, StartSettled DEF Childless
<1>4. CASE job[k].child = "running" /\ AfterStart(k, "uncertain") /\ children' = LetGo(k)
  BY <1>1, <1>4, StartInDoubt
<1> QED
  BY <1>2, <1>3, <1>4 DEF AwaitReady

\* A child that comes up, or fails, is awaited by at most one keeper (ChildRuns).
LEMMA ChildRunsStep ==
  ASSUME KeepInv, NEW c \in children, ChildRuns(c)
  PROVE  KeepInv'
<1>1. children' = children \ {c} /\ rows' = rows /\ lease' = lease
  BY DEF ChildRuns
<1>2. PICK outcome : job' = Told(c, outcome)
  BY DEF ChildRuns
<1>3. /\ LeaseInv /\ RegistryInv /\ ChildInv /\ IsChild(c) /\ (c.of = NoKeeper \/ Awaited(c))
  BY DEF KeepInv, ChildInv
<1>4. CASE c.of = NoKeeper
  <2>1. job' = job
    BY <1>2, <1>4 DEF Told
  <2> QED
    BY <1>1, <1>3, <2>1 DEF KeepInv, LeaseInv, RegistryInv, ChildInv, Awaited
<1>5. CASE c.of # NoKeeper
  <2>1. PICK k \in Keepers : k = c.of
    BY <1>3, <1>5 DEF Awaited
  <2>2. /\ job[k].step = "await" /\ job[k].child = "running" /\ c = Spawned(k, job[k].row)
    BY <1>3, <1>5, <2>1 DEF Awaited
  <2>3. /\ job \in [Keepers -> {job[i] : i \in Keepers}]
        /\ IsJob(job[k]) /\ StepOf(job[k]) /\ job[k].op # "none" /\ Remembers(job[k], rows)
    BY <1>3, <2>2 DEF LeaseInv, RegistryInv, StepOf
  <2>4. lease = k /\ Alone(k)
    BY <1>3, <2>3 DEF LeaseInv, Alone
  <2>5. job' = [job EXCEPT ![k].child = outcome]
    BY <1>2, <1>5, <2>1 DEF Told
  <2>6. /\ OnlyJob(k) /\ IsJob(job'[k])
        /\ job'[k].step = job[k].step /\ job'[k].op = job[k].op
        /\ job'[k].then = job[k].then /\ job'[k].retireDetached = job[k].retireDetached
        /\ job'[k].row = job[k].row /\ job'[k].prev = job[k].prev
        /\ job'[k].todo = job[k].todo /\ job'[k].updates = job[k].updates
    BY <2>3, <2>5 DEF OnlyJob, IsJob, JobFields
  <2>7. StepOf(job'[k])
    BY <2>3, <2>6 DEF StepOf
  <2>8. Remembers(job'[k], rows') /\ GoodRows(rows')
    BY <1>1, <1>3, <2>3, <2>6
       DEF Remembers, Registers, Reserved, Checking, Displacing, Supervising, RegistryInv
  <2>9. \A d \in children' : d.of = NoKeeper
    BY <1>1, <1>3, <2>2, <2>4, OthersIdle, SMTT(20) DEF ChildInv, Awaited
  <2>10. ChildInv'
    <3>1. job[k].op = "reattach" => Reserved(job[k])
      BY <2>2 DEF Reserved, Registers, Checking
    <3>2. \A d \in children' :
            /\ IsChild(d) /\ (d.late \/ HasEntry(rows', d))
            /\ job[k].op = "reattach" => d.late \/ d.of = k \/ Survives(d, job'[k])
      BY <1>1, <1>3, <2>6, <3>1 DEF ChildInv, Survives
    <3> QED
      BY <1>3, <2>4, <2>6, <2>9, <3>2, ChildStep
  <2> QED
    BY <1>1, <1>3, <2>4, <2>6, <2>7, <2>8, <2>10, WorkStep DEF KeepInv
<1> QED
  BY <1>4, <1>5

\* A command with no child under way goes on, the registry and the children as
\* they were.
LEMMA GoesOn ==
  ASSUME KeepInv, NEW k \in Keepers, job[k].op # "none", Childless(k), OnlyJob(k),
         lease' = lease, UNCHANGED <<rows, children>>,
         IsJob(job'[k]), StepOf(job'[k]), Remembers(job'[k], rows),
         job'[k].op = "reattach" /\ Reserved(job'[k]) =>
           /\ job[k].op = "reattach" /\ Reserved(job[k])
           /\ job'[k].row = job[k].row /\ job'[k].prev = job[k].prev
  PROVE  KeepInv'
<1>1. LeaseInv /\ RegistryInv /\ ChildInv /\ Alone(k) /\ lease = k /\ GoodRows(rows)
  BY DEF KeepInv, LeaseInv, RegistryInv, Alone
<1>2. LeaseInv' /\ RegistryInv'
  BY <1>1, WorkStep
<1>3. \A c \in children : c.late \/ HasEntry(rows', c)
  BY <1>1 DEF ChildInv
<1>4. ChildInv'
  BY <1>1, <1>3, ChildrenStay
<1> QED
  BY <1>2, <1>4 DEF KeepInv

\* A command with no child under way returns.
LEMMA Returns ==
  ASSUME KeepInv, NEW k \in Keepers, job[k].op # "none", Childless(k), Leave(k),
         children' = children, GoodRows(rows'),
         \A c \in children : c.late \/ HasEntry(rows', c)
  PROVE  KeepInv'
<1>1. LeaseInv /\ RegistryInv /\ ChildInv /\ Alone(k)
  BY DEF KeepInv, Alone
<1>2. OnlyJob(k) /\ job'[k].op # "reattach"
  BY <1>1 DEF Leave, OnlyJob, Nothing, LeaseInv
<1>3. LeaseInv' /\ RegistryInv'
  BY <1>1, LeaveStep
<1>4. ChildInv'
  BY <1>1, <1>2, ChildrenStay
<1> QED
  BY <1>3, <1>4 DEF KeepInv

\* A command that returns and leaves the registry alone.
LEMMA ReturnsIdly ==
  ASSUME KeepInv, NEW k \in Keepers, job[k].op # "none", Childless(k), Leave(k),
         UNCHANGED <<rows, children>>
  PROVE  KeepInv'
<1>1. GoodRows(rows') /\ \A c \in children : c.late \/ HasEntry(rows', c)
  BY DEF KeepInv, RegistryInv, ChildInv
<1> QED
  BY <1>1, Returns

\* A command begins: it takes the free lease and has reserved nothing.
LEMMA Begins ==
  ASSUME KeepInv, NEW k \in Keepers, NEW j, Enter(k, j), UNCHANGED <<rows, children>>,
         IsJob(j), StepOf(j), Remembers(j, rows), ~Reserved(j)
  PROVE  KeepInv'
<1>1. LeaseInv /\ RegistryInv /\ ChildInv /\ Alone(k) /\ lease' = k /\ GoodRows(rows)
  BY DEF KeepInv, RegistryInv, Alone, Enter, MayEnter
<1>2. OnlyJob(k) /\ job'[k] = j
  BY <1>1 DEF Enter, MayEnter, OnlyJob, LeaseInv
<1>3. Childless(k)
  BY <1>1 DEF Enter, MayEnter, LeaseInv, StepOf, Childless
<1>4. LeaseInv' /\ RegistryInv'
  BY <1>1, <1>2, WorkStep
<1>5. \A c \in children : c.late \/ HasEntry(rows', c)
  BY <1>1 DEF ChildInv
<1>6. ChildInv'
  BY <1>1, <1>2, <1>3, <1>5, ChildrenStay
<1> QED
  BY <1>4, <1>6 DEF KeepInv

-----------------------------------------------------------------------------
(* attach and reattach *)

\* The candidate row is checked against an inventory first (Register).
LEMMA RegisterStep ==
  ASSUME KeepInv, NEW k \in Keepers, Register(k)
  PROVE  KeepInv'
<1>1. PICK a \in Handles, t \in Surfaces, op \in {"attach", "reattach"},
           noStart \in BOOLEAN, retireDetached \in BOOLEAN :
        /\ op = "attach" => ~retireDetached
        /\ Enter(k, [Nothing EXCEPT !.op = op, !.row = FreshRow(a, t, NoKey),
                       !.noStart = noStart, !.retireDetached = retireDetached,
                       !.step = "inventory", !.then = "check"])
  BY DEF Register
<1>2. PICK j : j = [Nothing EXCEPT !.op = op, !.row = FreshRow(a, t, NoKey),
                      !.noStart = noStart, !.retireDetached = retireDetached,
                      !.step = "inventory", !.then = "check"]
  OBVIOUS
<1>3. /\ IsJob(j) /\ j.op = op /\ j.row = FreshRow(a, t, NoKey)
      /\ j.retireDetached = retireDetached /\ j.step = "inventory" /\ j.then = "check"
  BY <1>2 DEF Nothing, IsJob, JobFields
<1>4. IsRow(j.row)
  BY <1>3 DEF FreshRow, IsRow, RowFields
<1>5. StepOf(j) /\ ~Reserved(j) /\ Remembers(j, rows)
  BY <1>1, <1>3, <1>4 DEF StepOf, Reserved, Registers, Checking, Remembers
<1> QED
  BY <1>1, <1>2, <1>3, <1>5, Begins DEF Register

\* The row is reserved: the displaced rows are the agent's only one, and every
\* child that loses its entry is accounted for (CheckAndReserve).
LEMMA CheckAndReserveStep ==
  ASSUME KeepInv, NEW k \in Keepers, CheckAndReserve(k)
  PROVE  KeepInv'
<1>1. /\ IsJob(job[k]) /\ StepOf(job[k]) /\ Remembers(job[k], rows) /\ job[k].step = "check"
      /\ LeaseInv /\ RegistryInv /\ ChildInv /\ job \in [Keepers -> {job[i] : i \in Keepers}]
  BY DEF KeepInv, LeaseInv, RegistryInv, CheckAndReserve
<1>2. Alone(k) /\ Registers(job[k]) /\ job[k].op # "none" /\ Childless(k)
  BY <1>1 DEF Alone, Registers, StepOf, Childless
<1>3. lease = k /\ GoodRows(rows) /\ IsRow(job[k].row)
  BY <1>1, <1>2 DEF LeaseInv, RegistryInv, Remembers
<1>4. CASE Leave(k) /\ UNCHANGED <<rows, children>>
  BY <1>2, <1>4, ReturnsIdly
<1>5. PICK entry : entry = [job[k].row EXCEPT !.key = job[k].inv[job[k].row.target].key]
  OBVIOUS
<1>6. PICK gone : gone = IF job[k].op = "reattach" THEN Displaced(rows, entry) ELSE {}
  OBVIOUS
<1>7. PICK next : next = IF job[k].op = "reattach" THEN ReplaceSessionAdapter(rows, entry)
                         ELSE Upsert(rows, entry)
  OBVIOUS
<1>8. IsRow(entry)
  BY <1>3, <1>5 DEF IsRow
<1>9. CASE /\ IF job[k].op = "reattach" THEN CheckTargetAvailable(rows, entry)
              ELSE MayUpsert(rows, entry)
           /\ \E o \in SaveOutcomes(rows, next) :
                 /\ rows' = o.rows
                 /\ children' = Orphaned(o.rows)
                 /\ IF ~o.ok \/ job[k].noStart THEN Leave(k)
                    ELSE Go(k, [job[k] EXCEPT !.row = entry, !.prev = gone, !.inv = NoAnswer,
                                  !.retireDetached = FALSE,
                                  !.step = IF job[k].retireDetached THEN "recover" ELSE "start"])
  <2>1. PICK o \in SaveOutcomes(rows, next) :
                 /\ rows' = o.rows
                 /\ children' = Orphaned(o.rows)
                 /\ IF ~o.ok \/ job[k].noStart THEN Leave(k)
                    ELSE Go(k, [job[k] EXCEPT !.row = entry, !.prev = gone, !.inv = NoAnswer,
                                  !.retireDetached = FALSE,
                                  !.step = IF job[k].retireDetached THEN "recover" ELSE "start"])
    BY <1>9
  <2>2. /\ GoodRows(next) /\ entry \in next
        /\ \A p, q \in gone : p = q
        /\ \A p \in gone : /\ IsRow(p) /\ p.agent = entry.agent
                           /\ \A r \in next : r.agent # p.agent => r.target # p.target
    <3>1. CASE job[k].op = "reattach"
      BY <1>3, <1>6, <1>7, <1>8, <1>9, <3>1, ReplaceKeeps, SMTT(20)
    <3>2. CASE job[k].op # "reattach"
      BY <1>3, <1>6, <1>7, <1>8, <1>9, <3>2, UpsertKeeps
    <3> QED
      BY <3>1, <3>2
  <2>3. (rows' = next \/ rows' = rows) /\ (o.ok => rows' = next)
    BY <2>1, SMTT(20) DEF SaveOutcomes
  <2>4. GoodRows(rows')
    BY <1>3, <2>2, <2>3
  <2>5. PICK S : S = o.rows
    OBVIOUS
  <2>6. \A c \in children' :
          /\ IsChild(c) /\ c.of = NoKeeper
          /\ c.late \/ (HasEntry(rows, c) /\ HasEntry(rows', c))
    BY <1>1, <1>2, <2>1, <2>5, ChildrenOrphaned
  <2>7. CASE Leave(k)
    <3>1. OnlyJob(k) /\ job'[k].op # "reattach"
      BY <1>1, <2>7 DEF Leave, OnlyJob, Nothing
    <3>2. ChildInv'
      BY <1>1, <1>2, <2>6, <3>1, ChildStep
    <3> QED
      BY <1>1, <1>2, <2>4, <2>7, <3>2, LeaveStep DEF KeepInv
  <2>8. CASE /\ o.ok
             /\ Go(k, [job[k] EXCEPT !.row = entry, !.prev = gone, !.inv = NoAnswer,
                         !.retireDetached = FALSE,
                         !.step = IF job[k].retireDetached THEN "recover" ELSE "start"])
    <3>1. /\ OnlyJob(k) /\ lease' = k /\ IsJob(job'[k])
          /\ job'[k].op = job[k].op /\ job'[k].then = job[k].then
          /\ job'[k].row = entry /\ job'[k].prev = gone /\ ~job'[k].retireDetached
          /\ job'[k].step = IF job[k].retireDetached THEN "recover" ELSE "start"
      BY <1>1, <1>3, <2>8 DEF Go, OnlyJob, IsJob, JobFields
    <3>2. StepOf(job'[k])
      BY <1>1, <1>2, <3>1 DEF StepOf, Registers
    <3>3. Remembers(job'[k], rows')
      BY <1>2, <1>8, <2>2, <2>3, <2>8, <3>1 DEF Remembers, Registers, Displacing
    <3>4. ASSUME job[k].op = "reattach", NEW c \in children'
          PROVE  c.late \/ Survives(c, job'[k])
      <4>1. SUFFICES ASSUME HasEntry(rows, c), EntryId(c) = EntryId(entry)
                     PROVE  HasEntry(gone, c)
        BY <2>6, <3>1 DEF Survives
      <4>2. PICK r \in rows : EntryId(r) = EntryId(c)
        BY <4>1 DEF HasEntry
      <4>3. r \in gone
        BY <1>6, <3>4, <4>1, <4>2 DEF Displaced, SameRootAgent, EntryId
      <4> QED
        BY <4>2, <4>3 DEF HasEntry
    <3>5. ChildInv'
      BY <1>1, <1>2, <2>6, <3>1, <3>4, ChildStep
    <3> QED
      BY <1>1, <1>2, <2>4, <3>1, <3>2, <3>3, <3>5, WorkStep DEF KeepInv
  <2> QED
    BY <2>1, <2>7, <2>8
<1> QED
  BY <1>4, <1>5, <1>6, <1>7, <1>9 DEF CheckAndReserve

\* The steps of --retire-detached keep the reservation or roll it back
\* (RecoverDetached, JudgePrevious, RetirePrevious).
LEMMA RecoveryStep ==
  ASSUME KeepInv, NEW k \in Keepers,
         RecoverDetached(k) \/ JudgePrevious(k) \/ RetirePrevious(k)
  PROVE  KeepInv'
<1>1. /\ IsJob(job[k]) /\ StepOf(job[k]) /\ Remembers(job[k], rows)
      /\ job[k].step \in {"recover", "previous", "retire"}
      /\ LeaseInv /\ RegistryInv /\ ChildInv /\ job \in [Keepers -> {job[i] : i \in Keepers}]
  BY DEF KeepInv, LeaseInv, RegistryInv, RecoverDetached, JudgePrevious, RetirePrevious
<1>2. job[k].op = "reattach" /\ Reserved(job[k]) /\ Childless(k) /\ lease = k
  BY <1>1 DEF Reserved, Registers, Checking, StepOf, Childless, LeaseInv
<1>3. children' = children
  BY DEF RecoverDetached, JudgePrevious, RetirePrevious
<1>4. CASE ReadinessFailed(k) /\ Leave(k)
  BY <1>2, <1>3, <1>4, RolledBack, Returns
<1>5. ASSUME NEW j, Go(k, j), rows' = rows, IsJob(j), j.op = "reattach",
             j.row = job[k].row, j.prev = job[k].prev, j.then \in {"check", "previous"},
             j.step = "start" \/ (j.step = "inventory" /\ j.then = "previous")
      PROVE  KeepInv'
  <2>1. OnlyJob(k) /\ job'[k] = j /\ lease' = lease
    BY <1>1, <1>5 DEF Go, OnlyJob
  <2>2. StepOf(j) /\ Reserved(j)
    BY <1>5 DEF StepOf, Reserved, Registers, Checking
  <2>3. Remembers(j, rows)
    BY <1>1, <1>2, <1>5 DEF Remembers, Registers, Displacing, Reserved
  <2> QED
    BY <1>2, <1>3, <1>5, <2>1, <2>2, <2>3, GoesOn
<1>6. CASE /\ Go(k, [job[k] EXCEPT !.step = "start"])
           /\ UNCHANGED rows
  <2>1. PICK j : j = [job[k] EXCEPT !.step = "start"]
    OBVIOUS
  <2>2. /\ IsJob(j) /\ j.op = "reattach" /\ j.row = job[k].row /\ j.prev = job[k].prev
        /\ j.then \in {"check", "previous"} /\ j.step = "start"
    BY <1>1, <1>2, <2>1 DEF IsJob, JobFields, StepOf
  <2> QED
    BY <1>5, <1>6, <2>1, <2>2
<1>7. CASE /\ Go(k, [job[k] EXCEPT !.step = "inventory", !.then = "previous"])
           /\ UNCHANGED rows
  <2>1. PICK j : j = [job[k] EXCEPT !.step = "inventory", !.then = "previous"]
    OBVIOUS
  <2>2. /\ IsJob(j) /\ j.op = "reattach" /\ j.row = job[k].row /\ j.prev = job[k].prev
        /\ j.then = "previous" /\ j.step = "inventory"
    BY <1>1, <1>2, <2>1 DEF IsJob, JobFields
  <2> QED
    BY <1>5, <1>7, <2>1, <2>2
<1>8. CASE /\ Go(k, [job[k] EXCEPT !.step = "start", !.inv = NoAnswer])
           /\ UNCHANGED rows
  <2>1. PICK j : j = [job[k] EXCEPT !.step = "start", !.inv = NoAnswer]
    OBVIOUS
  <2>2. /\ IsJob(j) /\ j.op = "reattach" /\ j.row = job[k].row /\ j.prev = job[k].prev
        /\ j.then \in {"check", "previous"} /\ j.step = "start"
    BY <1>1, <1>2, <2>1 DEF IsJob, JobFields, StepOf
  <2> QED
    BY <1>5, <1>8, <2>1, <2>2
<1>9. CASE /\ Go(k, [job[k] EXCEPT !.step = "start", !.inv = NoAnswer, !.phase = "recover",
                              !.gen = ObserveGeneration(job[k].row.agent)])
           /\ UNCHANGED rows
  <2>1. PICK j : j = [job[k] EXCEPT !.step = "start", !.inv = NoAnswer, !.phase = "recover",
                                    !.gen = ObserveGeneration(job[k].row.agent)]
    OBVIOUS
  <2>2. /\ IsJob(j) /\ j.op = "reattach" /\ j.row = job[k].row /\ j.prev = job[k].prev
        /\ j.then \in {"check", "previous"} /\ j.step = "start"
    BY <1>1, <1>2, <2>1 DEF IsJob, JobFields, StepOf
  <2> QED
    BY <1>5, <1>9, <2>1, <2>2
<1>10. CASE /\ Go(k, [job[k] EXCEPT !.step = "start", !.phase = "again"])
            /\ UNCHANGED rows
  <2>1. PICK j : j = [job[k] EXCEPT !.step = "start", !.phase = "again"]
    OBVIOUS
  <2>2. /\ IsJob(j) /\ j.op = "reattach" /\ j.row = job[k].row /\ j.prev = job[k].prev
        /\ j.then \in {"check", "previous"} /\ j.step = "start"
    BY <1>1, <1>2, <2>1 DEF IsJob, JobFields, StepOf
  <2> QED
    BY <1>5, <1>10, <2>1, <2>2
<1> QED
  BY <1>4, <1>6, <1>7, <1>8, <1>9, <1>10 DEF RecoverDetached, JudgePrevious, RetirePrevious

-----------------------------------------------------------------------------
(* Inventories, the supervisor pass, gc, retire-session, forget *)

\* An inventory touches neither registry nor children (BuildInventory,
\* EvictAliases).
LEMMA InventoryStep ==
  ASSUME KeepInv, NEW k \in Keepers, BuildInventory(k) \/ EvictAliases(k)
  PROVE  KeepInv'
<1>1. /\ IsJob(job[k]) /\ StepOf(job[k]) /\ Remembers(job[k], rows)
      /\ job[k].step \in {"inventory", "evict"}
      /\ LeaseInv /\ job \in [Keepers -> {job[i] : i \in Keepers}]
      /\ UNCHANGED <<rows, children>>
  BY DEF KeepInv, LeaseInv, RegistryInv, BuildInventory, EvictAliases
<1>2. job[k].op # "none" /\ Childless(k) /\ job[k].step \notin {"start", "await"}
  BY <1>1 DEF StepOf, Childless
<1>3. ASSUME NEW j, Go(k, j), IsJob(j), j.op = job[k].op, j.then = job[k].then,
             j.row = job[k].row, j.prev = job[k].prev, j.todo = job[k].todo,
             j.updates = job[k].updates, j.retireDetached = job[k].retireDetached,
             j.step = "evict" \/ j.step = job[k].then
      PROVE  KeepInv'
  <2>1. OnlyJob(k) /\ job'[k] = j /\ lease' = lease
    BY <1>1, <1>3 DEF Go, OnlyJob
  <2>2. StepOf(j)
    BY <1>1, <1>2, <1>3 DEF StepOf
  <2>3. Reserved(j) => Reserved(job[k])
    BY <1>1, <1>3 DEF Reserved, Registers, Checking, StepOf
  <2>4. j.op = "supervise" => j.step \notin {"start", "await"}
    BY <1>1, <1>3 DEF StepOf
  <2>5. Remembers(j, rows)
    BY <1>1, <1>3, <2>3, <2>4 DEF Remembers, Registers, Displacing, Supervising
  <2> QED
    BY <1>1, <1>2, <1>3, <2>1, <2>2, <2>3, <2>5, GoesOn
<1>4. ASSUME NEW inv, Go(k, Inventoried(k, inv))
      PROVE  KeepInv'
  <2>1. PICK j : j = Inventoried(k, inv)
    OBVIOUS
  <2>2. /\ IsJob(j) /\ j.op = job[k].op /\ j.then = job[k].then
        /\ j.row = job[k].row /\ j.prev = job[k].prev /\ j.todo = job[k].todo
        /\ j.updates = job[k].updates /\ j.retireDetached = job[k].retireDetached
        /\ j.step = job[k].then
    BY <1>1, <2>1 DEF Inventoried, IsJob, JobFields
  <2> QED
    BY <1>3, <1>4, <2>1, <2>2
<1>5. ASSUME NEW tr, NEW status,
             Go(k, [job[k] EXCEPT !.step = "evict", !.tr = tr, !.status = status])
      PROVE  KeepInv'
  <2>1. PICK j : j = [job[k] EXCEPT !.step = "evict", !.tr = tr, !.status = status]
    OBVIOUS
  <2>2. /\ IsJob(j) /\ j.op = job[k].op /\ j.then = job[k].then
        /\ j.row = job[k].row /\ j.prev = job[k].prev /\ j.todo = job[k].todo
        /\ j.updates = job[k].updates /\ j.retireDetached = job[k].retireDetached
        /\ j.step = "evict"
    BY <1>1, <2>1 DEF IsJob, JobFields
  <2> QED
    BY <1>3, <1>5, <2>1, <2>2
<1>6. CASE BuildInventory(k)
  <2>1. CASE Go(k, Inventoried(k, NoAnswer))
    <3>1. PICK inv : inv = NoAnswer
      OBVIOUS
    <3> QED
      BY <1>4, <2>1, <3>1
  <2>2. ASSUME NEW blind \in SUBSET {t \in Ttys : Claimants(tree, t) # {}},
               Go(k, Inventoried(k, Snapshot(tree, ResolveOwners(tree, blind), Recorded(k))))
        PROVE  KeepInv'
    <3>1. PICK inv : inv = Snapshot(tree, ResolveOwners(tree, blind), Recorded(k))
      OBVIOUS
    <3> QED
      BY <1>4, <2>2, <3>1
  <2>3. ASSUME NEW blind \in SUBSET {t \in Ttys : Claimants(tree, t) # {}},
               Go(k, [job[k] EXCEPT !.step = "evict", !.tr = tree,
                                    !.status = ResolveOwners(tree, blind)])
        PROVE  KeepInv'
    <3>1. PICK tr, status : tr = tree /\ status = ResolveOwners(tree, blind)
      OBVIOUS
    <3> QED
      BY <1>5, <2>3, <3>1
  <2> QED
    BY <1>6, <2>1, <2>2, <2>3 DEF BuildInventory
<1>7. CASE EvictAliases(k)
  <2>1. PICK inv : Go(k, Inventoried(k, inv))
    BY <1>7 DEF EvictAliases
  <2> QED
    BY <1>4, <2>1
<1> QED
  BY <1>6, <1>7

-----------------------------------------------------------------------------
(* The supervisor pass, gc, retire-session and forget *)

\* A sweep of the registry reserves nothing and remembers no row it would restore.
Sweeps(j) == j.op \in {"gc", "retire-session"}
LEMMA SweepRemembersNothing ==
  ASSUME NEW j, Sweeps(j), NEW R
  PROVE  Remembers(j, R) /\ ~Reserved(j) /\ j.op # "reattach" /\ j.op # "none"
BY DEF Sweeps, Remembers, Reserved, Registers

\* The three sweeps begin (Supervise, CollectGarbage, RetireSession).
LEMMA SweepBegins ==
  ASSUME KeepInv, NEW k \in Keepers, Supervise(k) \/ CollectGarbage(k) \/ RetireSession(k)
  PROVE  KeepInv'
<1>1. UNCHANGED <<rows, children>>
  BY DEF Supervise, CollectGarbage, RetireSession
<1>2. CASE Supervise(k)
  <2>1. PICK j : j = [Nothing EXCEPT !.op = "supervise", !.todo = rows, !.seen = rows,
                        !.step = "inventory", !.then = "entries"]
    OBVIOUS
  <2>2. /\ IsJob(j) /\ j.op = "supervise" /\ j.step = "inventory" /\ j.then = "entries"
        /\ j.todo = rows /\ j.updates = {}
    BY <2>1 DEF Nothing, IsJob, JobFields
  <2>3. StepOf(j) /\ ~Reserved(j) /\ Remembers(j, rows)
    BY <2>2 DEF StepOf, Reserved, Registers, Remembers, Supervising
  <2> QED
    BY <1>1, <1>2, <2>1, <2>2, <2>3, Begins DEF Supervise
<1>3. CASE CollectGarbage(k)
  <2>1. PICK j : j = [Nothing EXCEPT !.op = "gc", !.todo = rows, !.seen = rows,
                        !.step = "inventory", !.then = "entries"]
    OBVIOUS
  <2>2. /\ IsJob(j) /\ j.op = "gc" /\ j.step = "inventory" /\ j.then = "entries"
    BY <2>1 DEF Nothing, IsJob, JobFields
  <2>3. StepOf(j) /\ ~Reserved(j) /\ Remembers(j, rows)
    BY <2>2, SweepRemembersNothing, SMTT(20) DEF StepOf, Sweeps
  <2> QED
    BY <1>1, <1>3, <2>1, <2>2, <2>3, Begins DEF CollectGarbage
<1>4. CASE RetireSession(k)
  <2>1. PICK mine : Enter(k, [Nothing EXCEPT !.op = "retire-session", !.todo = mine,
                                !.step = "prove"])
    BY <1>4 DEF RetireSession
  <2>2. PICK j : j = [Nothing EXCEPT !.op = "retire-session", !.todo = mine, !.step = "prove"]
    OBVIOUS
  <2>3. /\ IsJob(j) /\ j.op = "retire-session" /\ j.step = "prove"
    BY <2>2 DEF Nothing, IsJob, JobFields
  <2>4. StepOf(j) /\ ~Reserved(j) /\ Remembers(j, rows)
    BY <2>3, SweepRemembersNothing, SMTT(20) DEF StepOf, Sweeps
  <2> QED
    BY <1>1, <2>1, <2>2, <2>3, <2>4, Begins
<1> QED
  BY <1>2, <1>3, <1>4

\* A pass writes down what to do with a row, under the row's id (Reconcile).
LEMMA ReconcileStep ==
  ASSUME KeepInv, NEW k \in Keepers, Reconcile(k)
  PROVE  KeepInv'
<1>1. /\ IsJob(job[k]) /\ StepOf(job[k]) /\ Remembers(job[k], rows)
      /\ job[k].op = "supervise" /\ job[k].step = "entries" /\ GoodRows(rows)
      /\ job \in [Keepers -> {job[i] : i \in Keepers}]
  BY DEF KeepInv, LeaseInv, RegistryInv, Reconcile, At
<1>2. PICK r \in job[k].todo :
        \/ Go(k, [job[k] EXCEPT !.todo = @ \ {r}])
        \/ Go(k, [[job[k] EXCEPT !.todo = @ \ {r}] EXCEPT
                     !.updates = @ \cup {<<r, MarkBackoff(r, r.key)>>}])
        \/ Go(k, [[job[k] EXCEPT !.todo = @ \ {r}] EXCEPT
                     !.updates = @ \cup {<<r, MarkDetached(r)>>}])
        \/ Go(k, [[job[k] EXCEPT !.todo = @ \ {r}] EXCEPT !.step = "start", !.row = r])
  BY DEF Reconcile
<1>3. r \in rows /\ IsRow(r) /\ Supervising(job[k], rows)
  BY <1>1 DEF Remembers, Supervising, GoodRows
<1>4. /\ IsRow(MarkBackoff(r, r.key)) /\ EntryId(MarkBackoff(r, r.key)) = EntryId(r)
      /\ IsRow(MarkDetached(r)) /\ EntryId(MarkDetached(r)) = EntryId(r)
  BY <1>3 DEF IsRow, RowFields, MarkBackoff, MarkDetached, EntryId
<1>5. ASSUME NEW j, Go(k, j), IsJob(j), j.op = "supervise", j.then = job[k].then,
             j.todo \subseteq job[k].todo,
             j.step = "entries" \/ (j.step = "start" /\ j.row = r),
             \A u \in j.updates : IsRow(u[2]) /\ EntryId(u[2]) = EntryId(u[1])
      PROVE  KeepInv'
  <2>1. OnlyJob(k) /\ job'[k] = j /\ lease' = lease
    BY <1>1, <1>5 DEF Go, OnlyJob
  <2>2. StepOf(j)
    BY <1>1, <1>5 DEF StepOf
  <2>3. Remembers(j, rows)
    BY <1>3, <1>5 DEF Remembers, Registers, Reserved, Supervising
  <2>4. Childless(k) /\ UNCHANGED <<rows, children>>
    BY <1>1 DEF Childless, Reconcile
  <2> QED
    BY <1>1, <1>5, <2>1, <2>2, <2>3, <2>4, GoesOn
<1>6. PICK j0 : j0 = [job[k] EXCEPT !.todo = @ \ {r}]
  OBVIOUS
<1>7. /\ IsJob(j0) /\ j0.op = "supervise" /\ j0.then = job[k].then /\ j0.step = "entries"
      /\ j0.todo \subseteq job[k].todo /\ j0.updates = job[k].updates
  BY <1>1, <1>6 DEF IsJob, JobFields
<1>8. CASE Go(k, j0)
  BY <1>3, <1>5, <1>7, <1>8 DEF Supervising
<1>9. ASSUME NEW x, IsRow(x), EntryId(x) = EntryId(r),
             Go(k, [j0 EXCEPT !.updates = @ \cup {<<r, x>>}])
      PROVE  KeepInv'
  <2>1. PICK j : j = [j0 EXCEPT !.updates = @ \cup {<<r, x>>}]
    OBVIOUS
  <2>2. /\ IsJob(j) /\ j.op = "supervise" /\ j.then = job[k].then /\ j.step = "entries"
        /\ j.todo = j0.todo /\ j.updates = job[k].updates \cup {<<r, x>>}
    BY <1>7, <2>1 DEF IsJob, JobFields
  <2>3. \A u \in j.updates : IsRow(u[2]) /\ EntryId(u[2]) = EntryId(u[1])
    BY <1>3, <1>9, <2>2, SMTT(20) DEF Supervising
  <2>4. Go(k, j) /\ j.todo \subseteq job[k].todo
    BY <1>7, <1>9, <2>1, <2>2
  <2> QED
    BY <1>5, <2>2, <2>3, <2>4
<1>10. CASE Go(k, [j0 EXCEPT !.step = "start", !.row = r])
  <2>1. PICK j : j = [j0 EXCEPT !.step = "start", !.row = r]
    OBVIOUS
  <2>2. /\ IsJob(j) /\ j.op = "supervise" /\ j.then = job[k].then /\ j.step = "start"
        /\ j.row = r /\ j.todo = j0.todo /\ j.updates = job[k].updates
    BY <1>7, <2>1 DEF IsJob, JobFields
  <2> QED
    BY <1>3, <1>5, <1>7, <1>10, <2>1, <2>2 DEF Supervising
<1> QED
  BY <1>2, <1>4, <1>6, <1>8, <1>9, <1>10

\* The pass writes its rows back (CommitPass).
LEMMA CommitPassStep ==
  ASSUME KeepInv, NEW k \in Keepers, CommitPass(k)
  PROVE  KeepInv'
<1>1. /\ job[k].op = "supervise" /\ job[k].step = "entries" /\ Supervising(job[k], rows)
      /\ GoodRows(rows) /\ Leave(k) /\ children' = children /\ Childless(k)
  BY DEF KeepInv, RegistryInv, Remembers, CommitPass, At, Childless
<1>2. PICK updates : updates = job[k].updates
  OBVIOUS
<1>3. \A u \in updates : IsRow(u[2]) /\ EntryId(u[2]) = EntryId(u[1])
  BY <1>1, <1>2 DEF Supervising
<1>4. rows' = UpdateEntries(rows, updates) \/ rows' = rows
  BY <1>2, SMTT(20) DEF CommitPass, Saved, SaveOutcomes
<1>5. GoodRows(rows') /\ Covers(rows', rows)
  <2>1. CASE rows' = rows
    BY <1>1, <2>1 DEF Covers
  <2>2. CASE rows' = UpdateEntries(rows, updates)
    BY <1>1, <1>3, <2>2, UpdateEntriesKeep
  <2> QED
    BY <1>4, <2>1, <2>2
<1>6. \A c \in children : c.late \/ HasEntry(rows', c)
  BY <1>5, CoveredChildren DEF KeepInv
<1> QED
  BY <1>1, <1>5, <1>6, Returns

\* A sweep goes on and leaves the registry alone.
LEMMA SweepGoesOn ==
  ASSUME KeepInv, NEW k \in Keepers, Sweeps(job[k]), NEW j, Go(k, j),
         UNCHANGED <<rows, children>>, IsJob(j), j.op = job[k].op, StepOf(j)
  PROVE  KeepInv'
<1>1. /\ job \in [Keepers -> {job[i] : i \in Keepers}] /\ StepOf(job[k])
  BY DEF KeepInv, LeaseInv
<1>2. OnlyJob(k) /\ job'[k] = j /\ lease' = lease
  BY <1>1 DEF Go, OnlyJob
<1>3. Childless(k) /\ Sweeps(j) /\ job[k].op # "none"
  BY <1>1 DEF Childless, StepOf, Sweeps
<1>4. Remembers(j, rows) /\ j.op # "reattach"
  BY <1>3, SweepRemembersNothing
<1> QED
  BY <1>2, <1>3, <1>4, GoesOn

\* A sweep ends without touching the registry.
LEMMA SweepReturns ==
  ASSUME KeepInv, NEW k \in Keepers, Sweeps(job[k]), Leave(k), UNCHANGED <<rows, children>>
  PROVE  KeepInv'
<1>1. Childless(k) /\ job[k].op # "none"
  BY DEF KeepInv, LeaseInv, Childless, StepOf, Sweeps
<1> QED
  BY <1>1, ReturnsIdly

\* gc judges one row after the other (JudgeGarbage, FinishGc).
LEMMA GcStep ==
  ASSUME KeepInv, NEW k \in Keepers, JudgeGarbage(k) \/ FinishGc(k)
  PROVE  KeepInv'
<1>1. /\ IsJob(job[k]) /\ StepOf(job[k]) /\ job[k].op = "gc" /\ job[k].step = "entries"
      /\ Sweeps(job[k]) /\ UNCHANGED <<rows, children>>
  BY DEF KeepInv, LeaseInv, JudgeGarbage, FinishGc, At, Sweeps
<1>2. CASE FinishGc(k)
  BY <1>1, <1>2, SweepReturns DEF FinishGc
<1>3. CASE JudgeGarbage(k)
  <2>1. PICK r \in job[k].todo :
          \/ Go(k, [job[k] EXCEPT !.todo = @ \ {r}])
          \/ Go(k, [[job[k] EXCEPT !.todo = @ \ {r}] EXCEPT !.step = "forget",
                       !.proven = {<<r, ObserveGeneration(r.agent)>>}])
    BY <1>3 DEF JudgeGarbage
  <2>2. PICK j : j = [job[k] EXCEPT !.todo = @ \ {r}]
    OBVIOUS
  <2>3. IsJob(j) /\ j.op = "gc" /\ j.step = "entries" /\ j.then = job[k].then
    BY <1>1, <2>2 DEF IsJob, JobFields
  <2>4. StepOf(j)
    BY <1>1, <2>3 DEF StepOf
  <2>5. CASE Go(k, j)
    BY <1>1, <2>3, <2>4, <2>5, SweepGoesOn
  <2>6. CASE Go(k, [j EXCEPT !.step = "forget",
                      !.proven = {<<r, ObserveGeneration(r.agent)>>}])
    <3>1. PICK i : i = [j EXCEPT !.step = "forget",
                          !.proven = {<<r, ObserveGeneration(r.agent)>>}]
      OBVIOUS
    <3>2. IsJob(i) /\ i.op = "gc" /\ i.step = "forget" /\ i.then = job[k].then
      BY <2>3, <3>1 DEF IsJob, JobFields
    <3>3. StepOf(i)
      BY <1>1, <3>2 DEF StepOf
    <3> QED
      BY <1>1, <2>6, <3>1, <3>2, <3>3, SweepGoesOn
  <2> QED
    BY <2>1, <2>2, <2>5, <2>6
<1> QED
  BY <1>2, <1>3

\* retire-session proves every target absent first (ProveAbsent).
LEMMA ProveAbsentStep ==
  ASSUME KeepInv, NEW k \in Keepers, ProveAbsent(k)
  PROVE  KeepInv'
<1>1. /\ IsJob(job[k]) /\ StepOf(job[k]) /\ job[k].op = "retire-session"
      /\ Sweeps(job[k]) /\ UNCHANGED <<rows, children>>
  BY DEF KeepInv, LeaseInv, ProveAbsent, At, Sweeps
<1>2. ASSUME NEW j, Go(k, j), IsJob(j), j.op = "retire-session",
             j.step \in {"prove", "forget"} \/ (j.step = "inventory" /\ j.then = "judge")
      PROVE  KeepInv'
  <2>1. StepOf(j)
    BY <1>2 DEF StepOf
  <2> QED
    BY <1>1, <1>2, <2>1, SweepGoesOn
<1>3. CASE Leave(k)
  BY <1>1, <1>3, SweepReturns
<1>4. CASE Go(k, [job[k] EXCEPT !.step = "forget"])
  <2>1. PICK j : j = [job[k] EXCEPT !.step = "forget"]
    OBVIOUS
  <2>2. IsJob(j) /\ j.op = "retire-session" /\ j.step = "forget"
    BY <1>1, <2>1 DEF IsJob, JobFields
  <2> QED
    BY <1>2, <1>4, <2>1, <2>2
<1>5. ASSUME NEW r, Go(k, [job[k] EXCEPT !.row = r, !.gen = ObserveGeneration(r.agent),
                             !.step = "inventory", !.then = "judge"])
      PROVE  KeepInv'
  <2>1. PICK j : j = [job[k] EXCEPT !.row = r, !.gen = ObserveGeneration(r.agent),
                        !.step = "inventory", !.then = "judge"]
    OBVIOUS
  <2>2. IsJob(j) /\ j.op = "retire-session" /\ j.step = "inventory" /\ j.then = "judge"
    BY <1>1, <2>1 DEF IsJob, JobFields
  <2> QED
    BY <1>2, <1>5, <2>1, <2>2
<1>6. CASE Go(k, [job[k] EXCEPT !.step = "prove", !.todo = @ \ {job[k].row},
                    !.row = NoRow, !.gen = NoGen, !.inv = NoAnswer,
                    !.proven = @ \cup {<<job[k].row, job[k].gen>>}])
  <2>1. PICK j : j = [job[k] EXCEPT !.step = "prove", !.todo = @ \ {job[k].row},
                        !.row = NoRow, !.gen = NoGen, !.inv = NoAnswer,
                        !.proven = @ \cup {<<job[k].row, job[k].gen>>}]
    OBVIOUS
  <2>2. IsJob(j) /\ j.op = "retire-session" /\ j.step = "prove"
    BY <1>1, <2>1 DEF IsJob, JobFields
  <2> QED
    BY <1>2, <1>6, <2>1, <2>2
<1> QED
  BY <1>3, <1>4, <1>5, <1>6 DEF ProveAbsent

\* Removing rows leaves a registry in order.
LEMMA FewerRows ==
  ASSUME NEW R, GoodRows(R), NEW S, S \subseteq R
  PROVE  GoodRows(S)
BY DEF GoodRows

\* A row goes only with the wake that was confirmed retired; a child still coming
\* up for it is late from then on (RetireAndForget).
LEMMA RetireAndForgetStep ==
  ASSUME KeepInv, NEW k \in Keepers, RetireAndForget(k)
  PROVE  KeepInv'
<1>1. /\ IsJob(job[k]) /\ StepOf(job[k]) /\ job[k].step = "forget"
      /\ LeaseInv /\ RegistryInv /\ ChildInv /\ GoodRows(rows)
      /\ job \in [Keepers -> {job[i] : i \in Keepers}]
  BY DEF KeepInv, LeaseInv, RegistryInv, RetireAndForget
<1>2. Sweeps(job[k]) /\ Childless(k) /\ Alone(k) /\ job[k].op # "none" /\ lease = k
  BY <1>1 DEF StepOf, Sweeps, Childless, Alone, LeaseInv
<1>3. CASE Leave(k) /\ UNCHANGED <<rows, children>>
  BY <1>2, <1>3, SweepReturns
<1>4. CASE /\ job[k].op = "gc" /\ Go(k, [job[k] EXCEPT !.step = "entries"])
           /\ UNCHANGED <<rows, children>>
  <2>1. PICK j : j = [job[k] EXCEPT !.step = "entries"]
    OBVIOUS
  <2>2. IsJob(j) /\ j.op = "gc" /\ j.step = "entries" /\ j.then = job[k].then
    BY <1>1, <1>4, <2>1 DEF IsJob, JobFields
  <2>3. StepOf(j)
    BY <1>1, <1>4, <2>2 DEF StepOf
  <2> QED
    BY <1>2, <1>4, <2>1, <2>2, <2>3, SweepGoesOn
<1>5. ASSUME NEW x, Go(k, [job[k] EXCEPT !.proven = @ \ {x}]),
             \/ UNCHANGED <<rows, children>>
             \/ Saved(ForgetIfUnchanged(rows, x[1])) /\ children' = Orphaned(rows')
      PROVE  KeepInv'
  <2>1. PICK j : j = [job[k] EXCEPT !.proven = @ \ {x}]
    OBVIOUS
  <2>2. IsJob(j) /\ j.op = job[k].op /\ j.step = "forget" /\ j.then = job[k].then
    BY <1>1, <2>1 DEF IsJob, JobFields
  <2>3. StepOf(j) /\ Sweeps(j)
    BY <1>1, <1>2, <2>2 DEF StepOf, Sweeps
  <2>4. CASE UNCHANGED <<rows, children>>
    BY <1>2, <1>5, <2>1, <2>2, <2>3, <2>4, SweepGoesOn
  <2>5. CASE Saved(ForgetIfUnchanged(rows, x[1])) /\ children' = Orphaned(rows')
    <3>1. OnlyJob(k) /\ job'[k] = j /\ lease' = k
      BY <1>1, <1>2, <1>5, <2>1 DEF Go, OnlyJob
    <3>2. PICK S : S = rows' /\ S \subseteq rows
      BY <2>5, SMTT(20) DEF Saved, SaveOutcomes, ForgetIfUnchanged
    <3>3. GoodRows(rows')
      BY <1>1, <3>2, FewerRows
    <3>4. LeaseInv' /\ RegistryInv'
      BY <1>1, <1>2, <2>2, <2>3, <3>1, <3>3, WorkStep, SweepRemembersNothing
    <3>5. \A c \in children' : IsChild(c) /\ c.of = NoKeeper /\ (c.late \/ HasEntry(rows', c))
      BY <1>1, <1>2, <2>5, <3>2, ChildrenOrphaned
    <3>6. job'[k].op # "reattach"
      BY <2>3, <3>1 DEF Sweeps
    <3>7. ChildInv'
      BY <1>1, <1>2, <3>1, <3>5, <3>6, ChildStep
    <3> QED
      BY <3>4, <3>7 DEF KeepInv
  <2> QED
    BY <1>5, <2>4, <2>5
<1> QED
  BY <1>3, <1>4, <1>5 DEF RetireAndForget

\* amq-keepalive forget removes a row outright, while no command runs (Forget).
LEMMA ForgetStep ==
  ASSUME KeepInv, NEW k \in Keepers, Forget(k)
  PROVE  KeepInv'
<1>1. /\ LeaseInv /\ ChildInv /\ GoodRows(rows) /\ Alone(k) /\ Childless(k)
      /\ job' = job /\ lease' = lease /\ children' = Orphaned(rows')
      /\ job \in [Keepers -> {job[i] : i \in Keepers}]
  BY DEF KeepInv, LeaseInv, RegistryInv, Forget, Alone, Childless, StepOf
<1>2. \A i \in Keepers : job[i].op = "none"
  BY <1>1, OthersIdle DEF Forget
<1>3. PICK S : S = rows' /\ S \subseteq rows
  BY SMTT(20) DEF Forget, Saved, SaveOutcomes, ForgetMany
<1>4. RegistryInv'
  <2>1. GoodRows(rows')
    BY <1>1, <1>3, FewerRows
  <2>2. \A i \in Keepers : Remembers(job'[i], rows')
    BY <1>1, <1>2 DEF Remembers, Registers, Reserved
  <2> QED
    BY <2>1, <2>2 DEF RegistryInv
<1>5. LeaseInv'
  BY <1>1 DEF LeaseInv
<1>6. ChildInv'
  <2>1. \A c \in children' : IsChild(c) /\ c.of = NoKeeper /\ (c.late \/ HasEntry(rows', c))
    BY <1>1, <1>3, ChildrenOrphaned
  <2>2. OnlyJob(k) /\ job'[k].op # "reattach"
    BY <1>1, <1>2 DEF OnlyJob
  <2> QED
    BY <1>1, <2>1, <2>2, ChildStep
<1> QED
  BY <1>4, <1>5, <1>6 DEF KeepInv

\* A keeper dies at any of its steps; its child keeps its entry (KeeperDies).
LEMMA KeeperDiesStep ==
  ASSUME KeepInv, NEW k \in Keepers, KeeperDies(k)
  PROVE  KeepInv'
<1>1. /\ LeaseInv /\ RegistryInv /\ ChildInv /\ GoodRows(rows) /\ Alone(k)
      /\ Leave(k) /\ rows' = rows /\ children' = LetGo(k)
  BY DEF KeepInv, RegistryInv, KeeperDies, Alone
<1>2. OnlyJob(k) /\ job'[k].op # "reattach" /\ Covers(rows', rows)
  BY <1>1 DEF Leave, OnlyJob, Nothing, LeaseInv, Covers
<1> QED
  BY <1>1, <1>2, LeaveStep, ChildrenLetGo DEF KeepInv

\* What the registry, the lease and the children do not show changes nothing.
LEMMA KeepUntouched ==
  ASSUME KeepInv, UNCHANGED <<rows, children, lease, job>>
  PROVE  KeepInv'
BY DEF KeepInv, LeaseInv, RegistryInv, ChildInv, Awaited

-----------------------------------------------------------------------------
(* The theorems *)

\* The registry starts empty, or with one row.
LEMMA KeepInitially == KeepaliveInit => KeepInv
<1> SUFFICES ASSUME KeepaliveInit PROVE KeepInv
  OBVIOUS
<1>1. children = {} /\ lease = NoKeeper /\ job = [k \in Keepers |-> Nothing]
  BY DEF KeepaliveInit
<1>2. Nothing.op = "none" /\ Nothing.step = "idle" /\ IsJob(Nothing)
  BY DEF Nothing, IsJob, JobFields
<1>3. \A k \in Keepers : job[k] = Nothing
  BY <1>1
<1>4. LeaseInv
  BY <1>1, <1>2, <1>3 DEF LeaseInv, StepOf
<1>5. GoodRows(rows)
  <2>1. CASE rows = {}
    BY <2>1 DEF GoodRows
  <2>2. CASE rows # {}
    <3>1. PICK a \in Handles, s \in Surfaces :
            rows = {[FreshRow(a, s, tree[s].tty) EXCEPT !.state = "active", !.waits = TRUE]}
      BY <2>2 DEF KeepaliveInit
    <3> QED
      BY <3>1 DEF GoodRows, FreshRow, IsRow, RowFields
  <2> QED
    BY <2>1, <2>2
<1>6. RegistryInv
  BY <1>2, <1>3, <1>5 DEF RegistryInv, Remembers, Registers, Reserved
<1>7. ChildInv
  BY <1>1 DEF ChildInv
<1> QED
  BY <1>4, <1>6, <1>7 DEF KeepInv

\* Every step of every keeper, child, wake and terminal keeps the invariant.
LEMMA KeepSteps == KeepInv /\ [KeepaliveNext]_keepVars => KeepInv'
<1> SUFFICES ASSUME KeepInv, [KeepaliveNext]_keepVars PROVE KeepInv'
  OBVIOUS
<1>1. ASSUME NEW k \in Keepers, KeeperSteps(k)
      PROVE  KeepInv'
  BY <1>1, RegisterStep, CheckAndReserveStep, RecoveryStep, SweepBegins, ReconcileStep,
     CommitPassStep, GcStep, ProveAbsentStep, RetireAndForgetStep, ForgetStep,
     InventoryStep, StartWakeStep, AwaitReadyStep, KeeperDiesStep DEF KeeperSteps
<1>2. ASSUME NEW c \in children, ChildRuns(c)
      PROVE  KeepInv'
  BY <1>2, ChildRunsStep
<1>3. ASSUME NEW a \in Handles, WakeDies(a)
      PROVE  KeepInv'
  BY <1>3, KeepUntouched DEF WakeDies
<1>4. CASE TerminalMoves
  BY <1>4, KeepUntouched DEF TerminalMoves
<1>5. CASE UNCHANGED keepVars
  BY <1>5, KeepUntouched DEF keepVars
<1> QED
  BY <1>1, <1>2, <1>3, <1>4, <1>5 DEF KeepaliveNext

\* Under the lease a command finds the registry as it left it: the invariant of
\* the lease, the registry and the children always holds.
THEOREM KeepSafe == KeepaliveSpec => []KeepInv
BY KeepInitially, KeepSteps, PTL DEF KeepaliveSpec

\* An agent keeps one row and a terminal one agent, whatever is interrupted: a
\* rollback restores its rows under the lease its reservation was made under.
THEOREM OneRowEachHolds == KeepaliveSpec => []OneRowEach
<1>1. KeepInv => OneRowEach
  BY DEF KeepInv, RegistryInv, GoodRows, OneRowEach
<1> QED
  BY <1>1, KeepSafe, PTL

\* A wake that may still come up has its row, until a command removes the row
\* and knows of the child: no failed, timed out or killed start loses one.
THEOREM StartsRegisteredHolds == KeepaliveSpec => []StartsRegistered
<1>1. KeepInv => StartsRegistered
  BY DEF KeepInv, ChildInv, StartsRegistered
<1> QED
  BY <1>1, KeepSafe, PTL

-----------------------------------------------------------------------------
(* send, reply and the terminal they run in. *)

RcFiles == [Trees -> [present : BOOLEAN, root : Bases \union {Unset}, peers : SUBSET Trees]]
Machines == [global : Bases \union {Unset}, home : Bases \union {Unset}]

\* No configuration makes r a session of another root.
OwnBase(r) == r.tree \notin DefaultNamed /\ ConfiguredBase(r) = Unset

ContextInv ==
  /\ rc \in RcFiles /\ machine \in Machines
  /\ DOMAIN shell = {"root", "base", "session", "rootId", "baseId", "cwd"}
  /\ shell.root \in Roots \union {Unset} /\ shell.base \in Roots \union {Unset}
  /\ shell.base # Unset /\ shell.base.session \in Sessions => OwnBase(shell.base)

\* A message from the pinned directory says so.
PinTrue(c) == c.pin # Unset => c.pin = <<c.source, c.sourceId>>

\* A command that crosses no boundary delivers where it is.
AtHome(c) == ~c.routed => c.project = Unset /\ c.dest = c.source /\ c.destId = c.sourceId

\* The directories a message was authorized for stood as it was delivered.
Stood(m) == m.standing = <<m.sourceId, m.destId>>

\* The headers of a message lead from its destination back to its source.
Leads(from, source, dest, replyTo, replyProject) ==
  /\ source \in Roots /\ dest \in Roots
  /\ replyTo = Unset => dest = source /\ replyProject = Unset
  /\ replyTo # Unset => replyTo.handle = from
  /\ replyTo # Unset /\ replyProject # Unset =>
        /\ replyProject = source.tree
        /\ source.session \notin LegacyNames => replyTo.session = source.session
  /\ replyTo # Unset /\ replyProject = Unset =>
        dest.tree = source.tree /\ replyTo.session = source.session

\* A message from, to, source, dest answers o, or follows up on it.
Answers(from, to, source, dest, o) ==
  o.source.session \notin LegacyNames =>
    \/ dest = o.source /\ to = o.from
    \/ from = o.from /\ source = o.source /\ dest = o.dest /\ to = o.to

IsSeq(s) == \E S : s \in Seq(S)

PendingInv ==
  pending # NoSend =>
    /\ PinTrue(pending) /\ AtHome(pending)
    /\ Leads(pending.me, pending.source, pending.dest, pending.replyTo, pending.replyProject)
    /\ pending.re # 0 =>
         /\ pending.re \in DOMAIN mail
         /\ Answers(pending.me, pending.to, pending.source, pending.dest, mail[pending.re])

MailInv ==
  /\ IsSeq(mail)
  /\ \A i \in DOMAIN mail :
       /\ PinTrue(mail[i]) /\ Stood(mail[i])
       /\ Leads(mail[i].from, mail[i].source, mail[i].dest, mail[i].replyTo, mail[i].replyProject)
       /\ mail[i].re # 0 =>
            /\ mail[i].re \in DOMAIN mail
            /\ Answers(mail[i].from, mail[i].to, mail[i].source, mail[i].dest, mail[mail[i].re])

RoutingInv == ContextInv /\ PendingInv /\ MailInv

-----------------------------------------------------------------------------
(* Roots and their classification. *)

LEMMA RootParts ==
  ASSUME NEW r \in Roots
  PROVE  /\ r.tree \in Trees /\ r.session \in Sessions \union LegacyNames \union {Base}
         /\ BaseOf(r) \in Roots /\ BaseOf(r).tree = r.tree /\ BaseOf(r).session = Base
         /\ r = RootAt(r.tree, r.session)
  BY SMTT(20) DEF Roots, BaseOf, RootAt

LEMMA RootIs ==
  ASSUME NEW t \in Trees, NEW s \in Sessions \union LegacyNames \union {Base}
  PROVE  RootAt(t, s) \in Roots /\ RootAt(t, s).tree = t /\ RootAt(t, s).session = s
  BY SMTT(20) DEF Roots, RootAt

LEMMA BasesAre ==
  ASSUME NEW b \in Bases
  PROVE  b \in Roots /\ b.session = Base /\ BaseOf(b) = b /\ b # Unset
<1>1. PICK t \in Trees : b = RootAt(t, Base)
  BY DEF Bases
<1>2. b \in Roots /\ b.tree = t /\ b.session = Base
  BY <1>1, RootIs
<1>3. b # Unset
  BY <1>2, RoutingAssumption
<1> QED BY <1>1, <1>2, <1>3 DEF BaseOf

\* The configuration that owns a root names a base, and its project is the root's tree.
LEMMA AmqrcIs ==
  ASSUME ContextInv, NEW r \in Roots
  PROVE  /\ FindAmqrc(r).root \in Bases \union {Unset}
         /\ FindAmqrc(r).project \in {r.tree, Unset}
         /\ FindAmqrc(r).peers \subseteq Trees
<1>1. r.tree \in Trees
  BY RootParts
<1>2. rc[r.tree].root \in Bases \union {Unset} /\ rc[r.tree].peers \subseteq Trees
  BY <1>1, SMTT(20) DEF ContextInv, RcFiles
<1>3. machine.home \in Bases \union {Unset}
  BY SMTT(20) DEF ContextInv, Machines
<1> QED BY <1>2, <1>3, SMTT(20) DEF FindAmqrc

LEMMA ConfiguredIs ==
  ASSUME ContextInv, NEW r \in Roots
  PROVE  ConfiguredBase(r) \in {Unset, BaseOf(r)}
<1>1. FindAmqrc(r).root \in Bases \union {Unset}
  BY AmqrcIs
<1>2. FindAmqrc(r).root \in Bases => BaseOf(FindAmqrc(r).root) = FindAmqrc(r).root
  BY BasesAre
<1> QED BY <1>1, <1>2, SMTT(20) DEF ConfiguredBase, IsBaseOrSession

\* A root is classified as a session of its own base, and a base as none.
LEMMA Classified ==
  ASSUME ContextInv, NEW r \in Roots
  PROVE  /\ ClassifyRoot(r) \in {Unset, BaseOf(r)}
         /\ r.session = Base => ClassifyRoot(r) = Unset
<1>1. ConfiguredBase(r) \in {Unset, BaseOf(r)}
  BY ConfiguredIs
<1>2. r.session = Base => BaseOf(r) = r
  BY RootParts DEF BaseOf
<1> QED BY <1>1, <1>2 DEF ClassifyRoot, IsSessionUnder

\* A session name that is classified as no session is its own base.
LEMMA Unclassified ==
  ASSUME ContextInv, NEW r \in Roots, r.session \in Sessions, ClassifyRoot(r) = Unset
  PROVE  OwnBase(r)
<1>1. r # Unset /\ BaseOf(r) # Unset /\ BaseOf(r) \in Roots
  BY RootParts, RoutingAssumption
<1>2. r.session # Base
  BY RoutingAssumption
<1>3. ConfiguredBase(r) # r
  BY <1>1, <1>2, ConfiguredIs, RootParts
<1>4. CASE shell.base = r
  BY <1>1, <1>4 DEF ContextInv
<1>5. CASE shell.base # r
  <2>1. ~(shell.base # Unset /\ IsSessionUnder(r, shell.base))
    BY <1>5 DEF ClassifyRoot
  <2>2. r.tree \notin DefaultNamed
    BY <1>1, <1>2, <1>5, <2>1 DEF ClassifyRoot
  <2> QED BY <1>2, <1>3, <1>5, <2>1, <2>2 DEF ClassifyRoot, OwnBase
<1> QED BY <1>4, <1>5

LEMMA SessionsOf ==
  ASSUME ContextInv, NEW r \in Roots
  PROVE  /\ ResolveSessionName(r) # Base => ClassifyRoot(r) = BaseOf(r) /\ ResolveSessionName(r) = r.session
         /\ ResolveSessionName(r) = Base => ClassifyRoot(r) = Unset
         /\ BaseRootOf(r) \in Roots
<1>1. BaseOf(r) \in Roots /\ BaseOf(r) # Unset
  BY RootParts, RoutingAssumption
<1>2. ClassifyRoot(r) \in {Unset, BaseOf(r)} /\ (r.session = Base => ClassifyRoot(r) = Unset)
  BY Classified
<1> QED BY <1>1, <1>2 DEF ResolveSessionName, BaseRootOf

-----------------------------------------------------------------------------
(* The terminal. *)

LEMMA Discovered ==
  ASSUME ContextInv
  PROVE  DiscoveredBase \in Roots \union {Unset}
<1>1. CwdRc \in Bases \union {Unset}
  BY SMTT(20) DEF CwdRc, ContextInv, RcFiles
<1>2. machine.global \in Bases \union {Unset} /\ machine.home \in Bases \union {Unset}
  BY SMTT(20) DEF ContextInv, Machines
<1>3. DetectAgentMail \in Bases \union {Unset}
  BY RoutingAssumption DEF DetectAgentMail, Bases
<1>4. Bases \subseteq Roots
  BY BasesAre
<1>5. DiscoveredBase \in Bases \union {Unset}
  BY <1>1, <1>2, <1>3 DEF DiscoveredBase
<1> QED BY <1>4, <1>5

LEMMA EnvRootIs ==
  ASSUME ContextInv, NEW flag \in Roots \union {Unset}
  PROVE  ResolveEnvRoot(flag) \in Roots \union {Unset}
  BY Discovered DEF ResolveEnvRoot, ContextInv

\* The shell's own variables changed, and neither configuration nor machine.
LEMMA ShellStep ==
  ASSUME ContextInv, UNCHANGED <<rc, machine>>,
         DOMAIN shell' = DOMAIN shell,
         shell'.root \in Roots \union {Unset}, shell'.base \in Roots \union {Unset},
         shell'.base # Unset => shell'.base.session \notin Sessions \/ OwnBase(shell'.base)
  PROVE  ContextInv'
  BY DEF ContextInv, OwnBase, ConfiguredBase, FindAmqrc, IsBaseOrSession, BaseOf, RootAt

LEMMA ExportedIs ==
  ASSUME ContextInv, NEW root, NEW base, NEW session
  PROVE  /\ DOMAIN Exported(root, base, session) = DOMAIN shell
         /\ Exported(root, base, session).root = root
         /\ Exported(root, base, session).base = base
  BY SMTT(20) DEF Exported, ContextInv

\* A root exported as its own base is one.
LEMMA OwnExported ==
  ASSUME ContextInv, NEW r \in Roots, ClassifyRoot(r) = Unset \/ InferredSession(r) = Base
  PROVE  r.session \in Sessions => OwnBase(r)
<1> SUFFICES ASSUME r.session \in Sessions PROVE OwnBase(r)
  OBVIOUS
<1>1. r.session # Base
  BY RoutingAssumption
<1>2. ClassifyRoot(r) # Unset => InferredSession(r) = r.session
  BY DEF InferredSession, ResolveSessionName, ValidSessionName
<1>3. ClassifyRoot(r) = Unset
  BY <1>1, <1>2
<1> QED BY <1>3, Unclassified

LEMMA EnvRootContext ==
  ASSUME ContextInv, NEW r \in Roots, shell' = ClassifyEnvRoot(r), UNCHANGED <<rc, machine>>
  PROVE  ContextInv'
<1>1. BaseOf(r) \in Roots /\ BaseOf(r).session = Base /\ Base \notin Sessions
  BY RootParts, RoutingAssumption
<1>2. CASE ClassifyRoot(r) # Unset /\ InferredSession(r) # Base
  <2>1. ClassifyRoot(r) = BaseOf(r)
    BY <1>2, Classified
  <2>2. shell' = Exported(r, BaseOf(r), InferredSession(r))
    BY <1>2, <2>1 DEF ClassifyEnvRoot
  <2>3. DOMAIN shell' = DOMAIN shell /\ shell'.root = r /\ shell'.base = BaseOf(r)
    BY <2>2, ExportedIs, SMTT(20)
  <2>4. shell'.base.session \notin Sessions /\ shell'.base \in Roots /\ shell'.root \in Roots
    BY <1>1, <2>3
  <2> QED BY <2>3, <2>4, ShellStep
<1>3. CASE ~(ClassifyRoot(r) # Unset /\ InferredSession(r) # Base)
  <2>1. shell' = Exported(r, r, Base)
    BY <1>3 DEF ClassifyEnvRoot
  <2>2. DOMAIN shell' = DOMAIN shell /\ shell'.root = r /\ shell'.base = r
    BY <2>1, ExportedIs, SMTT(20)
  <2>3. r.session \in Sessions => OwnBase(r)
    BY <1>3, OwnExported
  <2>4. shell'.base \in Roots /\ shell'.root \in Roots
    BY <2>2
  <2>5. shell'.base.session \in Sessions => OwnBase(shell'.base)
    BY <2>2, <2>3
  <2> QED BY <2>2, <2>4, <2>5, ShellStep
<1> QED BY <1>2, <1>3

LEMMA CoopContextStep ==
  ASSUME ContextInv, NEW r \in Roots, CoopContext(r)
  PROVE  ContextInv'
<1>1. BaseOf(r) \in Roots /\ BaseOf(r).session = Base /\ Base \notin Sessions
  BY RootParts, RoutingAssumption
<1>2. CASE InferredSession(r) = Base
  <2>1. shell' = Exported(r, r, Base)
    BY <1>2 DEF CoopContext
  <2>2. DOMAIN shell' = DOMAIN shell /\ shell'.root = r /\ shell'.base = r
    BY <2>1, ExportedIs, SMTT(20)
  <2>3. r.session \in Sessions => OwnBase(r)
    BY <1>2, OwnExported
  <2> QED BY <2>2, <2>3, ShellStep DEF CoopContext
<1>3. CASE InferredSession(r) # Base
  <2>1. shell' = Exported(r, BaseOf(r), InferredSession(r))
    BY <1>3 DEF CoopContext
  <2>2. DOMAIN shell' = DOMAIN shell /\ shell'.root = r /\ shell'.base = BaseOf(r)
    BY <2>1, ExportedIs, SMTT(20)
  <2>3. shell'.base.session \notin Sessions /\ shell'.base \in Roots /\ shell'.root \in Roots
    BY <1>1, <2>2
  <2> QED BY <2>2, <2>3, ShellStep DEF CoopContext
<1> QED BY <1>2, <1>3

LEMMA EnvSessionStep ==
  ASSUME ContextInv, NEW s \in Sessions, EnvSession(s)
  PROVE  ContextInv'
<1>1. ResolveEnvRoot(Unset) \in Roots \union {Unset}
  BY EnvRootIs
<1>2. EnvSessionBase \in Roots
  <2>1. EnvSessionBase # Unset
    BY DEF EnvSession, EnvSessionAllowed
  <2>2. ResolveEnvRoot(Unset) \in Roots => BaseRootOf(ResolveEnvRoot(Unset)) \in Roots
    BY SessionsOf
  <2> QED BY <1>1, <2>1, <2>2 DEF EnvSessionBase, ContextInv
<1>3. EnvSessionBase.session = Base /\ Base \notin Sessions
  BY RoutingAssumption DEF EnvSession, EnvSessionAllowed
<1>4. SessionRoot(EnvSessionBase, s) \in Roots
  BY <1>2, RootParts, RootIs DEF SessionRoot
<1>5. /\ DOMAIN shell' = DOMAIN shell
      /\ shell'.root = SessionRoot(EnvSessionBase, s) /\ shell'.base = EnvSessionBase
  BY ExportedIs, SMTT(20) DEF EnvSession
<1>6. shell'.base.session \notin Sessions /\ shell'.base \in Roots /\ shell'.root \in Roots
  BY <1>2, <1>3, <1>4, <1>5
<1> QED BY <1>5, <1>6, ShellStep DEF EnvSession

LEMMA ByHandStep ==
  ASSUME ContextInv,
         \/ \E s \in Sessions : ExportSession(s)
         \/ \E r \in Roots : ExportRoot(r)
         \/ \E t \in Trees \union {Elsewhere} : ChangeDirectory(t)
  PROVE  ContextInv'
<1>1. DOMAIN shell' = DOMAIN shell /\ shell'.base = shell.base /\ UNCHANGED <<rc, machine>>
  BY SMTT(20) DEF ExportSession, ExportRoot, ChangeDirectory, ContextInv
<1>2. shell'.root \in Roots \union {Unset}
  BY SMTT(20) DEF ExportSession, ExportRoot, ChangeDirectory, ContextInv
<1> QED BY <1>1, <1>2, ShellStep DEF ContextInv

LEMMA MoveContext ==
  ASSUME ContextInv, Move
  PROVE  ContextInv'
<1>1. CASE \E s \in Sessions : EnvSession(s)
  BY <1>1, EnvSessionStep
<1>2. CASE \E r \in Roots : EnvRoot(r)
  BY <1>2, EnvRootContext DEF EnvRoot
<1>3. CASE \E r \in Roots : CoopContext(r)
  BY <1>3, CoopContextStep
<1>4. CASE Env
  <2>1. ResolveEnvRoot(Unset) \in Roots
    BY <1>4, EnvRootIs DEF Env
  <2> QED BY <1>4, <2>1, EnvRootContext DEF Env
<1>5. CASE \/ \E s \in Sessions : ExportSession(s)
           \/ \E r \in Roots : ExportRoot(r)
           \/ \E t \in Trees \union {Elsewhere} : ChangeDirectory(t)
  BY <1>5, ByHandStep
<1> QED BY <1>1, <1>2, <1>3, <1>4, <1>5 DEF Move

-----------------------------------------------------------------------------
(* The route and the headers. *)

\* A session of a project's own base is classified as one.
LEMMA OwnedSource ==
  ASSUME ContextInv, NEW source \in Roots, OwnsSource(FindAmqrc(source), source),
         ClassifyRoot(source) = Unset
  PROVE  source.session \notin Sessions
<1>1. FindAmqrc(source).root # Unset /\ IsBaseOrSession(source, FindAmqrc(source).root)
  BY DEF OwnsSource, IsSessionUnder, IsBaseOrSession
<1>2. ConfiguredBase(source) # Unset
  BY <1>1 DEF ConfiguredBase
<1> QED BY <1>2, Unclassified DEF OwnBase

LEMMA PeerRoute ==
  ASSUME ContextInv, NEW source \in Roots, NEW project, NEW session, NEW mirror,
         PlanPeer(source, project, session, mirror).ok
  PROVE  LET plan == PlanPeer(source, project, session, mirror)
         IN  /\ plan.dest = RootAt(project, PeerSession(source, session, mirror))
             /\ plan.dest \in Roots
             /\ plan.project = source.tree /\ plan.project # Unset
             /\ ClassifyRoot(source) = Unset => source.session \notin Sessions
<1> DEFINE cfg == FindAmqrc(source)
           s == PeerSession(source, session, mirror)
<1>1. /\ OwnsSource(cfg, source) /\ project \in cfg.peers
      /\ session # Unset => ValidSessionName(session)
      /\ PlanPeer(source, project, session, mirror) =
           [ok |-> TRUE, dest |-> RootAt(project, s), session |-> s, project |-> cfg.project]
  BY SMTT(20) DEF PlanPeer, Refused
<1>2. project \in Trees
  BY <1>1, AmqrcIs
<1>3. source.session \in Sessions \union LegacyNames \union {Base}
  BY RootParts
<1>4. s \in Sessions \union LegacyNames \union {Base}
  BY <1>1, <1>3 DEF PeerSession, ValidSessionName
<1>5. RootAt(project, s) \in Roots
  BY <1>2, <1>4, RootIs
<1>6. cfg.project = source.tree /\ cfg.project # Unset
  BY <1>1, AmqrcIs DEF OwnsSource
<1>7. ClassifyRoot(source) = Unset => source.session \notin Sessions
  BY <1>1, OwnedSource
<1> HIDE DEF s, cfg
<1>8. /\ PlanPeer(source, project, session, mirror).dest = RootAt(project, s)
      /\ PlanPeer(source, project, session, mirror).project = cfg.project
  BY <1>1, SMTT(20)
<1> QED BY <1>5, <1>6, <1>7, <1>8 DEF s

LEMMA SessionRoute ==
  ASSUME ContextInv, NEW source \in Roots, NEW session, PlanSession(source, session).ok
  PROVE  LET plan == PlanSession(source, session)
         IN  /\ plan.dest = RootAt(source.tree, session)
             /\ plan.dest \in Roots /\ plan.dest.tree = source.tree
             /\ plan.project = Unset
             /\ ClassifyRoot(source) = BaseOf(source)
             /\ ClassifyRoot(source) # Unset /\ source.session # Base
<1>1. /\ ValidSessionName(session) /\ ClassifyRoot(source) # Unset
      /\ PlanSession(source, session) =
           [ok |-> TRUE, dest |-> SessionRoot(ClassifyRoot(source), session),
            session |-> session, project |-> Unset]
  BY SMTT(20) DEF PlanSession, Refused
<1>2. ClassifyRoot(source) = BaseOf(source) /\ source.session # Base
  BY <1>1, Classified
<1>3. source.tree \in Trees /\ BaseOf(source).tree = source.tree
  BY RootParts
<1>4. RootAt(source.tree, session) \in Roots /\ RootAt(source.tree, session).tree = source.tree
  BY <1>1, <1>3, RootIs DEF ValidSessionName
<1>5. /\ PlanSession(source, session).dest = SessionRoot(ClassifyRoot(source), session)
      /\ PlanSession(source, session).project = Unset
  BY <1>1, SMTT(20)
<1>6. SessionRoot(ClassifyRoot(source), session) = RootAt(source.tree, session)
  BY <1>2, <1>3 DEF SessionRoot
<1> QED BY <1>1, <1>2, <1>4, <1>5, <1>6

LEMMA LocalRoute ==
  ASSUME NEW source, NEW mirror
  PROVE  LET plan == PlanDeliveryRoute(source, Unset, Unset, mirror)
         IN  plan.dest = source /\ plan.project = Unset
  BY SMTT(20) DEF PlanDeliveryRoute

LEMMA RouteKinds ==
  ASSUME NEW source, NEW project, NEW session, NEW mirror
  PROVE  /\ project # Unset => PlanDeliveryRoute(source, project, session, mirror)
                                 = PlanPeer(source, project, session, mirror)
         /\ project = Unset /\ session # Unset =>
              PlanDeliveryRoute(source, project, session, mirror) = PlanSession(source, session)
  BY DEF PlanDeliveryRoute

\* Headers that name the sender, and its session where it has one.
LEMMA HeadersLead ==
  ASSUME ContextInv, NEW me, NEW source \in Roots, NEW project, NEW session, NEW mirror,
         PlanDeliveryRoute(source, project, session, mirror).ok,
         NEW replyTo,
         project = Unset /\ session = Unset => replyTo = Unset,
         project # Unset =>
           /\ replyTo # Unset /\ replyTo.handle = me
           /\ \/ replyTo.session = source.session
              \/ ClassifyRoot(source) = Unset /\ replyTo.session = Base,
         project = Unset /\ session # Unset /\ ClassifyRoot(source) = BaseOf(source) =>
           replyTo # Unset /\ replyTo.handle = me /\ replyTo.session = source.session
  PROVE  LET plan == PlanDeliveryRoute(source, project, session, mirror)
         IN  Leads(me, source, plan.dest, replyTo, plan.project)
<1> DEFINE plan == PlanDeliveryRoute(source, project, session, mirror)
<1>1. CASE project = Unset /\ session = Unset
  <2>1. plan.dest = source /\ plan.project = Unset
    BY <1>1, LocalRoute
  <2> QED BY <1>1, <2>1 DEF Leads
<1>2. CASE project = Unset /\ session # Unset
  <2>1. plan = PlanSession(source, session)
    BY <1>2, RouteKinds
  <2>2. PlanSession(source, session).ok
    BY <2>1
  <2>3. /\ plan.dest \in Roots /\ plan.dest.tree = source.tree /\ plan.project = Unset
        /\ ClassifyRoot(source) = BaseOf(source)
    BY <2>1, <2>2, SessionRoute, SMTT(20)
  <2> QED BY <1>2, <2>3 DEF Leads
<1>3. CASE project # Unset
  <2>1. plan = PlanPeer(source, project, session, mirror)
    BY <1>3, RouteKinds
  <2>2. PlanPeer(source, project, session, mirror).ok
    BY <2>1
  <2>3. /\ plan.dest \in Roots /\ plan.project = source.tree /\ plan.project # Unset
        /\ ClassifyRoot(source) = Unset => source.session \notin Sessions
    BY <2>1, <2>2, PeerRoute, SMTT(20)
  <2>4. source.session \notin LegacyNames => replyTo.session = source.session
    BY <1>3, <2>3, RootParts
  <2> QED BY <1>3, <2>3, <2>4 DEF Leads
<1> QED BY <1>1, <1>2, <1>3

-----------------------------------------------------------------------------
(* The pin. *)

LEMMA CurrentToken ==
  ASSUME NEW r, IsCurrent(r, shell.rootId)
  PROVE  shell.rootId = <<r, dirs[r]>>
  BY DEF IsCurrent, Token

\* What the guard lets through under an identity pin is the pinned directory.
LEMMA GuardedSource ==
  ASSUME NEW r, NEW cross, NEW explicit, GuardSource(r, cross, FALSE, explicit), shell.rootId # Unset
  PROVE  IsCurrent(r, shell.rootId)
<1>1. Allowed("source", PinState, Relation(r), {}) /\ PinIdentity /\ PinPresent
  BY DEF GuardSource, PinIdentity, PinPresent
<1>2. Relation(r) \in {"unbound", "match", "own_base"}
  BY <1>1 DEF Allowed
<1>3. ~PinMismatch(r)
  BY <1>2, SMTT(20) DEF Relation
<1> QED BY <1>1, <1>3 DEF PinMismatch, VerifyRootUnderBase

-----------------------------------------------------------------------------
(* The plans. *)

LEMMA SendPlanned ==
  ASSUME ContextInv, NEW a \in ValidSendArgs, PlanSend(a) # NoSend
  PROVE  LET c == PlanSend(a)
         IN  /\ PinTrue(c) /\ AtHome(c) /\ c.re = 0
             /\ Leads(c.me, c.source, c.dest, c.replyTo, c.replyProject)
<1> DEFINE root   == ResolveEnvRoot(a.root)
           source == SendSource(a, root)
           plan   == PlanDeliveryRoute(source, a.project, a.session, TRUE)
           c      == PlanSend(a)
<1>1. /\ root # Unset /\ SendSourceGuarded(a, root) /\ SendSourceFound(a, root) /\ plan.ok
      /\ c.me = a.me /\ c.source = source /\ c.dest = plan.dest /\ c.sourceId = dirs[source]
      /\ c.destId = dirs[plan.dest] /\ c.routed = Routed(a) /\ c.project = a.project
      /\ c.replyTo = SendReplyTo(a, root) /\ c.replyProject = plan.project /\ c.re = 0
      /\ c.pin = IF a.ignorePin \/ a.from # Unset THEN Unset ELSE shell.rootId
  <2>1. root # Unset /\ SendSourceGuarded(a, root) /\ SendSourceFound(a, root) /\ plan.ok
    BY DEF PlanSend
  <2> DEFINE auth == ConfigAuthority(plan.dest,
                       IF a.project # Unset THEN BaseOf(plan.dest)
                       ELSE IF a.from # Unset THEN root
                       ELSE LocalConfigBase(plan.dest, a.ignorePin))
             own == ConfigAuthority(source, LocalConfigBase(source, a.ignorePin))
  <2>2. c = [verb |-> "send", me |-> a.me, to |-> a.to, strict |-> a.strict,
             source |-> source, dest |-> plan.dest,
             sourceId |-> dirs[source], destId |-> dirs[plan.dest],
             project |-> a.project, routed |-> Routed(a), re |-> 0, auth |-> auth, own |-> own,
             roster |-> config, replyTo |-> SendReplyTo(a, root),
             replyProject |-> plan.project,
             pin |-> IF a.ignorePin \/ a.from # Unset THEN Unset ELSE shell.rootId]
    BY DEF PlanSend
  <2> HIDE DEF source, plan, root, c, auth, own
  <2> QED BY <2>1, <2>2, SMTT(20)
<1>2. /\ a.root \in Roots \union {Unset} /\ a.from \in Sessions \union {Unset}
      /\ a.me \in Correspondents
      /\ a.ignorePin \in BOOLEAN /\ SendFlagsValid(a)
  BY SMTT(20) DEF ValidSendArgs, SendArgs
<1>3. root \in Roots
  BY <1>1, <1>2, EnvRootIs
<1>4. ASSUME a.from # Unset PROVE source \in Roots
  <2>1. root.tree \in Trees /\ a.from \in Sessions
    BY <1>2, <1>3, <1>4, RootParts
  <2>2. source = RootAt(root.tree, a.from)
    BY <1>4 DEF SendSource, SessionRoot
  <2> QED BY <2>1, <2>2, RootIs
<1>5. a.from = Unset => source = root
  BY DEF SendSource
<1>6. source \in Roots
  BY <1>3, <1>4, <1>5
<1>7. PinTrue(c)
  <2>1. CASE a.ignorePin \/ a.from # Unset \/ shell.rootId = Unset
    BY <1>1, <2>1 DEF PinTrue
  <2>2. CASE ~a.ignorePin /\ a.from = Unset /\ shell.rootId # Unset
    <3>1. GuardSource(source, a.project # Unset, FALSE, a.root # Unset)
      BY <1>1, <1>2, <1>5, <2>2 DEF SendSourceGuarded
    <3>2. shell.rootId = <<source, dirs[source]>>
      BY <2>2, <3>1, GuardedSource, CurrentToken
    <3> QED BY <1>1, <2>2, <3>2 DEF PinTrue
  <2> QED BY <2>1, <2>2
<1>8. Leads(a.me, source, plan.dest, SendReplyTo(a, root), plan.project)
  <2> DEFINE replyTo == SendReplyTo(a, root)
             headers == [handle |-> a.me, session |-> source.session]
             bare    == [handle |-> a.me, session |-> Base]
  <2>1. a.project = Unset /\ a.session = Unset => replyTo = Unset
    BY DEF SendReplyTo
  <2>2. headers \in ReplyHeaders /\ bare \in ReplyHeaders
    BY <1>2, <1>6, RootParts, SMTT(20) DEF ReplyHeaders
  <2>3. headers # Unset /\ bare # Unset
    BY <2>2, RoutingAssumption
  <2>5. headers.handle = a.me /\ bare.handle = a.me
        /\ headers.session = source.session /\ bare.session = Base
    OBVIOUS
  <2>6. ASSUME a.project # Unset
        PROVE  /\ replyTo # Unset /\ replyTo.handle = a.me
               /\ \/ replyTo.session = source.session
                  \/ ClassifyRoot(source) = Unset /\ replyTo.session = Base
    <3>1. CASE SenderInSession(a, root)
      <4>1. replyTo = headers
        BY <2>6, <3>1 DEF SendReplyTo
      <4> QED BY <2>3, <2>5, <4>1
    <3>2. CASE ~SenderInSession(a, root)
      <4>1. replyTo = bare /\ ClassifyRoot(source) = Unset
        BY <1>5, <2>6, <3>2 DEF SendReplyTo, SenderInSession
      <4> QED BY <2>3, <2>5, <4>1
    <3> QED BY <3>1, <3>2
  <2>7. ASSUME a.project = Unset, a.session # Unset, ClassifyRoot(source) = BaseOf(source)
        PROVE  replyTo # Unset /\ replyTo.handle = a.me /\ replyTo.session = source.session
    <3>1. BaseOf(source) # Unset
      BY <1>6, RootParts, RoutingAssumption
    <3>2. SenderInSession(a, root)
      BY <1>5, <2>7, <3>1 DEF SenderInSession
    <3>3. replyTo = headers
      BY <2>7, <3>2 DEF SendReplyTo
    <3> QED BY <2>3, <2>5, <3>3
  <2> HIDE DEF replyTo, headers, bare, source
  <2>8. Leads(a.me, source, plan.dest, replyTo, plan.project)
    BY <1>1, <1>6, <2>1, <2>6, <2>7, HeadersLead
  <2> QED BY <2>8 DEF replyTo
<1>9. AtHome(c)
  <2>1. ASSUME ~Routed(a) PROVE a.project = Unset /\ plan.dest = source
    <3>1. a.project = Unset /\ a.session = Unset
      BY <2>1 DEF Routed
    <3> HIDE DEF source
    <3> QED BY <3>1, LocalRoute
  <2> HIDE DEF source, plan, c
  <2> QED BY <1>1, <2>1 DEF AtHome
<1> QED BY <1>1, <1>7, <1>8, <1>9

\* A reply's headers restamp the replier.
LEMMA RestampLeads ==
  ASSUME ContextInv, NEW me \in Correspondents, NEW root \in Roots, NEW project, NEW session,
         PlanDeliveryRoute(root, project, session, FALSE).ok
  PROVE  LET plan == PlanDeliveryRoute(root, project, session, FALSE)
         IN  Leads(me, root, plan.dest, ReplyToForSource(me, root, project, session), plan.project)
<1> DEFINE replyTo == ReplyToForSource(me, root, project, session)
           headers == [handle |-> me, session |-> root.session]
           bare    == [handle |-> me, session |-> Base]
<1>1. project = Unset /\ session = Unset => replyTo = Unset
  BY DEF ReplyToForSource
<1>2. headers \in ReplyHeaders /\ bare \in ReplyHeaders
  BY RootParts, SMTT(20) DEF ReplyHeaders
<1>3. headers # Unset /\ bare # Unset
  BY <1>2, RoutingAssumption
<1>4. headers.handle = me /\ bare.handle = me /\ headers.session = root.session /\ bare.session = Base
  OBVIOUS
<1>5. ASSUME project # Unset
      PROVE  /\ replyTo # Unset /\ replyTo.handle = me
             /\ \/ replyTo.session = root.session
                \/ ClassifyRoot(root) = Unset /\ replyTo.session = Base
  <2>1. CASE ResolveSessionName(root) # Base
    <3>1. replyTo = headers
      BY <1>5, <2>1, SessionsOf DEF ReplyToForSource
    <3> QED BY <1>3, <1>4, <3>1
  <2>2. CASE ResolveSessionName(root) = Base
    <3>1. replyTo = bare /\ ClassifyRoot(root) = Unset
      BY <1>5, <2>2, SessionsOf DEF ReplyToForSource
    <3> QED BY <1>3, <1>4, <3>1
  <2> QED BY <2>1, <2>2
<1>6. ASSUME project = Unset, session # Unset, ClassifyRoot(root) = BaseOf(root)
      PROVE  replyTo # Unset /\ replyTo.handle = me /\ replyTo.session = root.session
  <2>1. BaseOf(root) # Unset
    BY RootParts, RoutingAssumption
  <2>2. ResolveSessionName(root) # Base
    BY <1>6, <2>1, SessionsOf
  <2>3. replyTo = headers
    BY <1>6, <2>2, SessionsOf DEF ReplyToForSource
  <2> QED BY <1>3, <1>4, <2>3
<1> HIDE DEF replyTo, headers, bare
<1>7. Leads(me, root, PlanDeliveryRoute(root, project, session, FALSE).dest, replyTo,
            PlanDeliveryRoute(root, project, session, FALSE).project)
  BY <1>1, <1>5, <1>6, HeadersLead
<1> QED BY <1>7 DEF replyTo

LEMMA BoxIs ==
  ASSUME NEW m, NEW root, NEW h, BoxOf(m, root, h) # "none"
  PROVE  \/ BoxOf(m, root, h) = "inbox" /\ m.dest = root /\ m.to = h
         \/ BoxOf(m, root, h) = "sent" /\ m.source = root /\ m.from = h
  BY SMTT(20) DEF BoxOf

\* The route a reply takes leads to the source of its original.
LEMMA RouteReturns ==
  ASSUME ContextInv, NEW m, NEW me, NEW root \in Roots,
         Leads(m.from, m.source, m.dest, m.replyTo, m.replyProject),
         BoxOf(m, root, me) # "none",
         BoxOf(m, root, me) = "sent" => m.replyTo = Unset,
         ReplyRoute(m, me).ok,
         PlanDeliveryRoute(root, ReplyRoute(m, me).project, ReplyRoute(m, me).session, FALSE).ok
  PROVE  Answers(me, ReplyRoute(m, me).to, root,
                 PlanDeliveryRoute(root, ReplyRoute(m, me).project, ReplyRoute(m, me).session, FALSE).dest, m)
<1> DEFINE route == ReplyRoute(m, me)
           plan == PlanDeliveryRoute(root, route.project, route.session, FALSE)
<1> SUFFICES ASSUME m.source.session \notin LegacyNames
             PROVE  \/ plan.dest = m.source /\ route.to = m.from
                    \/ me = m.from /\ root = m.source /\ plan.dest = m.dest /\ route.to = m.to
  BY DEF Answers
<1>1. m.source \in Roots /\ m.source = RootAt(m.source.tree, m.source.session)
      /\ m.source.session \in Sessions \union {Base} /\ m.source.tree \in Trees
  BY RootParts DEF Leads
<1>2. \/ m.dest = root /\ m.to = me
      \/ m.source = root /\ m.from = me /\ m.replyTo = Unset
  BY BoxIs, SMTT(20)
<1>3. CASE m.replyTo = Unset
  <2>1. m.dest = m.source
    BY <1>3 DEF Leads
  <2>2. /\ route.to = IF m.from = me THEN m.to ELSE m.from
        /\ route.project = Unset /\ route.session = Unset
    <3>1. route = [to |-> IF m.from = me THEN m.to ELSE m.from, project |-> Unset,
                   session |-> Unset, ok |-> m.replyProject = Unset]
      BY <1>3 DEF ReplyRoute
    <3> HIDE DEF route
    <3> QED BY <3>1
  <2>3. plan.dest = root
    BY <2>2, LocalRoute
  <2>4. CASE m.dest = root /\ m.to = me
    BY <2>1, <2>2, <2>3, <2>4
  <2>5. CASE m.source = root /\ m.from = me
    BY <2>1, <2>2, <2>3, <2>5
  <2> QED BY <1>2, <2>4, <2>5
<1>4. CASE m.replyTo # Unset
  <2>1. m.dest = root
    BY <1>4, <1>2
  <2>2. /\ route.to = m.replyTo.handle /\ route.project = m.replyProject
        /\ route.session = IF m.replyTo.session = Base THEN Unset ELSE m.replyTo.session
        /\ m.replyTo.session # Base \/ m.replyProject # Unset
    <3>1. route = [to |-> m.replyTo.handle, project |-> m.replyProject,
                   session |-> IF m.replyTo.session = Base THEN Unset ELSE m.replyTo.session,
                   ok |-> m.replyTo.session # Base \/ m.replyProject # Unset]
      BY <1>4 DEF ReplyRoute
    <3>2. route.ok
      OBVIOUS
    <3> HIDE DEF route
    <3>3. m.replyTo.session # Base \/ m.replyProject # Unset
      BY <3>1, <3>2
    <3>4. route.to = m.replyTo.handle /\ route.project = m.replyProject
      BY <3>1
    <3>5. route.session = IF m.replyTo.session = Base THEN Unset ELSE m.replyTo.session
      BY <3>1
    <3> QED BY <3>3, <3>4, <3>5
  <2> plan.ok
    OBVIOUS
  <2> HIDE DEF route, plan
  <2>3. route.to = m.from
    BY <1>4, <2>2 DEF Leads
  <2>4. m.replyTo.session = m.source.session
    BY <1>4 DEF Leads
  <2>5. CASE m.replyProject = Unset
    <3>1. m.source.session # Base /\ m.source.session # Unset
      BY <1>1, <2>2, <2>4, <2>5, RoutingAssumption
    <3>2. route.project = Unset /\ route.session = m.source.session
      BY <2>2, <2>4, <2>5, <3>1
    <3>3. plan = PlanSession(root, m.source.session)
      <4>1. plan = PlanDeliveryRoute(root, Unset, m.source.session, FALSE)
        BY <3>2 DEF plan
      <4>2. PlanDeliveryRoute(root, Unset, m.source.session, FALSE)
              = PlanSession(root, m.source.session)
        BY <3>1, RouteKinds
      <4> QED BY <4>1, <4>2
    <3>4. PlanSession(root, m.source.session).ok
      BY <3>3
    <3>5. PlanSession(root, m.source.session).dest = RootAt(root.tree, m.source.session)
      BY <3>4, SessionRoute
    <3>6. root.tree = m.source.tree
      BY <1>4, <2>1, <2>5 DEF Leads
    <3>7. plan.dest = m.source
      BY <1>1, <3>3, <3>5, <3>6
    <3> QED BY <2>3, <3>7
  <2>6. CASE m.replyProject # Unset
    <3>1. route.project = m.source.tree /\ route.project # Unset
      BY <1>4, <2>2, <2>6 DEF Leads
    <3>2. PeerSession(root, route.session, FALSE) = m.source.session
      BY <1>1, <2>2, <2>4, RoutingAssumption DEF PeerSession
    <3>3. plan = PlanPeer(root, route.project, route.session, FALSE)
      BY <3>1, RouteKinds DEF plan
    <3>4. PlanPeer(root, route.project, route.session, FALSE).ok
      BY <3>3
    <3>5. PlanPeer(root, route.project, route.session, FALSE).dest
            = RootAt(route.project, PeerSession(root, route.session, FALSE))
      <4>1. \A p, s : PlanPeer(root, p, s, FALSE).ok =>
              PlanPeer(root, p, s, FALSE).dest = RootAt(p, PeerSession(root, s, FALSE))
        BY PeerRoute
      <4> QED BY <3>4, <4>1
    <3>6. plan.dest = RootAt(route.project, PeerSession(root, route.session, FALSE))
      BY <3>3, <3>5
    <3>7. plan.dest = m.source
      BY <1>1, <3>1, <3>2, <3>6
    <3> QED BY <2>3, <3>7
  <2> QED BY <2>5, <2>6
<1> QED BY <1>3, <1>4

LEMMA ReplyPlanned ==
  ASSUME ContextInv, NEW i, NEW flag \in Roots \union {Unset}, NEW me \in Correspondents,
         NEW ignorePin \in BOOLEAN, NEW strict,
         PlanReply(i, flag, me, ignorePin, strict) # NoSend,
         Leads(mail[i].from, mail[i].source, mail[i].dest, mail[i].replyTo, mail[i].replyProject)
  PROVE  LET c == PlanReply(i, flag, me, ignorePin, strict)
         IN  /\ PinTrue(c) /\ AtHome(c) /\ c.re = i
             /\ Leads(c.me, c.source, c.dest, c.replyTo, c.replyProject)
             /\ Answers(c.me, c.to, c.source, c.dest, mail[i])
<1> DEFINE root  == ResolveEnvRoot(flag)
           route == ReplyRoute(mail[i], me)
           plan  == PlanDeliveryRoute(root, route.project, route.session, FALSE)
           c     == PlanReply(i, flag, me, ignorePin, strict)
<1>1. /\ root # Unset /\ GuardSource(root, FALSE, ignorePin, flag # Unset)
      /\ BoxOf(mail[i], root, me) # "none"
      /\ BoxOf(mail[i], root, me) = "sent" => mail[i].replyTo = Unset
      /\ route.ok /\ plan.ok
      /\ c.me = me /\ c.to = route.to /\ c.source = root /\ c.dest = plan.dest /\ c.re = i
      /\ c.sourceId = dirs[root] /\ c.destId = dirs[plan.dest] /\ c.project = route.project
      /\ c.routed = (route.project # Unset \/ route.session # Unset)
      /\ c.replyProject = plan.project
      /\ c.replyTo = ReplyToForSource(me, root, route.project, route.session)
      /\ c.pin = IF ignorePin THEN Unset ELSE shell.rootId
  <2>1. /\ root # Unset /\ GuardSource(root, FALSE, ignorePin, flag # Unset)
        /\ BoxOf(mail[i], root, me) # "none"
        /\ BoxOf(mail[i], root, me) = "sent" => mail[i].replyTo = Unset
        /\ route.ok /\ plan.ok
    BY DEF PlanReply
  <2> DEFINE auth == ConfigAuthority(plan.dest,
                       IF route.project # Unset THEN BaseOf(plan.dest)
                       ELSE LocalConfigBase(plan.dest, ignorePin))
             own == ConfigAuthority(root, LocalConfigBase(root, ignorePin))
             routed == route.project # Unset \/ route.session # Unset
  <2>2. c = [verb |-> "reply", me |-> me, to |-> route.to, strict |-> strict,
             source |-> root, dest |-> plan.dest,
             sourceId |-> dirs[root], destId |-> dirs[plan.dest],
             project |-> route.project, routed |-> routed, re |-> i, auth |-> auth, own |-> own,
             roster |-> config,
             replyTo |-> ReplyToForSource(me, root, route.project, route.session),
             replyProject |-> plan.project,
             pin |-> IF ignorePin THEN Unset ELSE shell.rootId]
    BY DEF PlanReply
  <2> HIDE DEF root, route, plan, c, auth, own, routed
  <2>3. /\ c.me = me /\ c.to = route.to /\ c.source = root /\ c.dest = plan.dest /\ c.re = i
        /\ c.sourceId = dirs[root] /\ c.destId = dirs[plan.dest] /\ c.project = route.project
        /\ c.routed = routed
        /\ c.replyProject = plan.project
        /\ c.replyTo = ReplyToForSource(me, root, route.project, route.session)
        /\ c.pin = IF ignorePin THEN Unset ELSE shell.rootId
    BY <2>2
  <2> QED BY <2>1, <2>3 DEF routed
<1>2. root \in Roots
  BY <1>1, EnvRootIs
<1>3. PinTrue(c)
  <2>1. CASE ignorePin \/ shell.rootId = Unset
    BY <1>1, <2>1 DEF PinTrue
  <2>2. CASE ~ignorePin /\ shell.rootId # Unset
    <3>1. GuardSource(root, FALSE, FALSE, flag # Unset)
      BY <1>1, <2>2
    <3>2. shell.rootId = <<root, dirs[root]>>
      BY <2>2, <3>1, GuardedSource, CurrentToken
    <3> QED BY <1>1, <2>2, <3>2 DEF PinTrue
  <2> QED BY <2>1, <2>2
<1>4. Leads(me, root, plan.dest, ReplyToForSource(me, root, route.project, route.session), plan.project)
  <2> HIDE DEF root, route
  <2> QED BY <1>1, <1>2, RestampLeads
<1>5. Answers(me, route.to, root, plan.dest, mail[i])
  <2> HIDE DEF root
  <2> QED BY <1>1, <1>2, RouteReturns
<1>6. AtHome(c)
  <2>1. ASSUME route.project = Unset, route.session = Unset PROVE plan.dest = root
    <3> HIDE DEF root, route
    <3> QED BY <2>1, LocalRoute
  <2> HIDE DEF root, route, plan, c
  <2> QED BY <1>1, <2>1 DEF AtHome
<1> QED BY <1>1, <1>3, <1>4, <1>5, <1>6

-----------------------------------------------------------------------------
(* The steps. *)

LEMMA Longer ==
  ASSUME NEW S, NEW s \in Seq(S), NEW x
  PROVE  /\ Append(s, x) \in Seq(S \union {x})
         /\ DOMAIN Append(s, x) = DOMAIN s \union {Len(s) + 1}
         /\ \A i \in DOMAIN s : Append(s, x)[i] = s[i]
         /\ Append(s, x)[Len(s) + 1] = x
<1>1. s \in Seq(S \union {x})
  BY SMTT(20)
<1> QED BY <1>1, SMTT(20)

LEMMA RoutingStart == RoutingInit => RoutingInv
<1> SUFFICES ASSUME RoutingInit PROVE RoutingInv
  OBVIOUS
<1>1. rc \in RcFiles /\ machine \in Machines
  BY RoutingAssumption DEF RoutingInit, RcFiles, Machines
<1>2. DOMAIN shell = {"root", "base", "session", "rootId", "baseId", "cwd"}
      /\ shell.root = Unset /\ shell.base = Unset
  BY SMTT(20) DEF RoutingInit, InitialShells
<1>3. mail = <<>> /\ pending = NoSend
  BY DEF RoutingInit
<1>4. IsSeq(mail) /\ DOMAIN mail = {}
  <2>1. mail \in Seq({}) /\ DOMAIN mail = {}
    BY <1>3, SMTT(20)
  <2> QED BY <2>1 DEF IsSeq
<1> QED BY <1>1, <1>2, <1>3, <1>4 DEF RoutingInv, ContextInv, PendingInv, MailInv

\* What does not touch the terminal or the mail keeps what is said of them.
LEMMA ContextKept ==
  ASSUME ContextInv, UNCHANGED <<rc, machine, shell>>
  PROVE  ContextInv'
  BY DEF ContextInv, OwnBase, ConfiguredBase, FindAmqrc, IsBaseOrSession, BaseOf, RootAt

LEMMA MailKept ==
  ASSUME MailInv, UNCHANGED mail
  PROVE  MailInv'
  BY DEF MailInv, IsSeq, PinTrue, Stood, Leads, Answers

LEMMA PendingKept ==
  ASSUME PendingInv, UNCHANGED <<mail, pending>>
  PROVE  PendingInv'
  BY DEF PendingInv, PinTrue, AtHome, Leads, Answers

LEMMA SendStep ==
  ASSUME RoutingInv, StartSend
  PROVE  RoutingInv'
<1>1. UNCHANGED <<rc, machine, shell, mail>>
  BY DEF StartSend, contextVars
<1>2. PICK a \in ValidSendArgs : PlanSend(a) # NoSend /\ pending' = PlanSend(a)
  BY DEF StartSend
<1>3. /\ PinTrue(pending') /\ AtHome(pending') /\ pending'.re = 0
      /\ Leads(pending'.me, pending'.source, pending'.dest, pending'.replyTo, pending'.replyProject)
  BY <1>2, SendPlanned DEF RoutingInv
<1>4. PendingInv'
  BY <1>3 DEF PendingInv, PinTrue, AtHome, Leads
<1> QED BY <1>1, <1>4, ContextKept, MailKept DEF RoutingInv

LEMMA ReplyStep ==
  ASSUME RoutingInv, StartReply
  PROVE  RoutingInv'
<1>1. UNCHANGED <<rc, machine, shell, mail>>
  BY DEF StartReply, contextVars
<1>2. PICK flag \in Roots \union {Unset}, me \in Correspondents, ignorePin \in BOOLEAN, strict \in Strictness :
        /\ PlanReply(Len(mail), flag, me, ignorePin, strict) # NoSend
        /\ pending' = PlanReply(Len(mail), flag, me, ignorePin, strict)
  BY DEF StartReply
<1>3. Len(mail) \in DOMAIN mail
  <2>1. PICK S : mail \in Seq(S)
    BY DEF RoutingInv, MailInv, IsSeq
  <2>2. mail # <<>>
    BY DEF StartReply
  <2> QED BY <2>1, <2>2, SMTT(20)
<1>4. /\ PinTrue(pending') /\ AtHome(pending') /\ pending'.re = Len(mail)
      /\ Leads(pending'.me, pending'.source, pending'.dest, pending'.replyTo, pending'.replyProject)
      /\ Answers(pending'.me, pending'.to, pending'.source, pending'.dest, mail[Len(mail)])
  <2> DEFINE last == mail[Len(mail)]
  <2>1. Leads(last.from, last.source, last.dest, last.replyTo, last.replyProject)
    BY <1>3 DEF RoutingInv, MailInv
  <2> DEFINE c == PlanReply(Len(mail), flag, me, ignorePin, strict)
  <2>2. /\ PinTrue(c) /\ AtHome(c) /\ c.re = Len(mail)
        /\ Leads(c.me, c.source, c.dest, c.replyTo, c.replyProject)
        /\ Answers(c.me, c.to, c.source, c.dest, last)
    BY <1>2, <2>1, ReplyPlanned DEF RoutingInv
  <2> HIDE DEF c
  <2> QED BY <1>2, <2>2 DEF c
<1>5. PendingInv'
  BY <1>1, <1>3, <1>4 DEF PendingInv, PinTrue, AtHome, Leads, Answers
<1> QED BY <1>1, <1>5, ContextKept, MailKept DEF RoutingInv

LEMMA DeliverStep ==
  ASSUME RoutingInv, DeliverMessage
  PROVE  RoutingInv'
<1> DEFINE m == Message(pending)
<1>1. UNCHANGED <<rc, machine, shell>> /\ pending' = NoSend /\ mail' = Append(mail, m)
  BY DEF DeliverMessage
<1>2. /\ m.from = pending.me /\ m.to = pending.to /\ m.source = pending.source
      /\ m.sourceId = pending.sourceId /\ m.dest = pending.dest /\ m.replyTo = pending.replyTo
      /\ m.replyProject = pending.replyProject /\ m.re = pending.re /\ m.pin = pending.pin
      /\ m.destId = pending.destId /\ m.standing = <<dirs[pending.source], dirs[pending.dest]>>
  BY DEF Message
<1> HIDE DEF m
<1>3. /\ PinTrue(m) /\ Leads(m.from, m.source, m.dest, m.replyTo, m.replyProject)
      /\ m.re # 0 => m.re \in DOMAIN mail /\ Answers(m.from, m.to, m.source, m.dest, mail[m.re])
  BY <1>2 DEF RoutingInv, PendingInv, DeliverMessage, PinTrue, Leads, Answers
<1>3a. Stood(m)
  <2>1. dirs[pending.dest] = pending.destId
    BY DEF DeliverMessage, Delivers, StillThere
  <2>2. dirs[pending.source] = pending.sourceId
    <3>1. pending # NoSend /\ AtHome(pending)
      BY DEF DeliverMessage, RoutingInv, PendingInv
    <3>2. CASE pending.project # Unset
      BY <3>2 DEF DeliverMessage, Delivers, PeerRevalidated, StillThere
    <3>3. CASE pending.project = Unset /\ pending.routed
      BY <3>3 DEF DeliverMessage, Delivers, LocalRevalidated, StillThere
    <3>4. CASE ~pending.routed
      BY <2>1, <3>1, <3>4 DEF AtHome
    <3> QED BY <3>2, <3>3, <3>4
  <2> QED BY <1>2, <2>1, <2>2 DEF Stood
<1>4. PICK S : mail \in Seq(S)
  BY DEF RoutingInv, MailInv, IsSeq
<1>5. /\ mail' \in Seq(S \union {m}) /\ DOMAIN mail' = DOMAIN mail \union {Len(mail) + 1}
      /\ \A i \in DOMAIN mail : mail'[i] = mail[i]
      /\ mail'[Len(mail) + 1] = m
  BY <1>1, <1>4, Longer, SMTT(20)
<1>6. ASSUME NEW i \in DOMAIN mail'
      PROVE  /\ PinTrue(mail'[i]) /\ Stood(mail'[i])
             /\ Leads(mail'[i].from, mail'[i].source, mail'[i].dest, mail'[i].replyTo, mail'[i].replyProject)
             /\ mail'[i].re # 0 =>
                  /\ mail'[i].re \in DOMAIN mail'
                  /\ Answers(mail'[i].from, mail'[i].to, mail'[i].source, mail'[i].dest, mail'[mail'[i].re])
  <2>1. CASE i \in DOMAIN mail
    <3>1. mail'[i] = mail[i]
      BY <1>5, <2>1
    <3>2. /\ PinTrue(mail[i]) /\ Stood(mail[i])
          /\ Leads(mail[i].from, mail[i].source, mail[i].dest, mail[i].replyTo, mail[i].replyProject)
          /\ mail[i].re # 0 =>
                  /\ mail[i].re \in DOMAIN mail
                  /\ Answers(mail[i].from, mail[i].to, mail[i].source, mail[i].dest, mail[mail[i].re])
      BY <2>1 DEF RoutingInv, MailInv
    <3>3. mail[i].re \in DOMAIN mail => mail'[mail[i].re] = mail[mail[i].re] /\ mail[i].re \in DOMAIN mail'
      BY <1>5
    <3> QED BY <3>1, <3>2, <3>3
  <2>2. CASE i = Len(mail) + 1
    <3>1. mail'[i] = m
      BY <1>5, <2>2
    <3>2. m.re \in DOMAIN mail => mail'[m.re] = mail[m.re] /\ m.re \in DOMAIN mail'
      BY <1>5
    <3> QED BY <1>3, <1>3a, <3>1, <3>2
  <2> QED BY <1>5, <2>1, <2>2
<1>7. IsSeq(mail)'
  BY <1>5 DEF IsSeq
<1>8. MailInv'
  BY <1>6, <1>7 DEF MailInv, IsSeq, PinTrue, Stood, Leads, Answers
<1>9. PendingInv'
  BY <1>1 DEF PendingInv, NoSend
<1> QED BY <1>1, <1>8, <1>9, ContextKept DEF RoutingInv

LEMMA RoutingStep ==
  ASSUME RoutingInv, [RoutingNext]_routingVars
  PROVE  RoutingInv'
<1>1. CASE Move
  <2>1. ContextInv' /\ UNCHANGED <<mail, pending>>
    BY <1>1, MoveContext DEF RoutingInv, Move
  <2> QED BY <2>1, MailKept, PendingKept DEF RoutingInv
<1>2. CASE StartSend
  BY <1>2, SendStep
<1>3. CASE StartReply
  BY <1>3, ReplyStep
<1>4. CASE DeliverMessage
  BY <1>4, DeliverStep
<1>5. CASE Abandon
  <2>1. UNCHANGED <<rc, machine, shell, mail>> /\ pending' = NoSend
    BY <1>5 DEF Abandon, contextVars
  <2>2. PendingInv'
    BY <2>1 DEF PendingInv, NoSend
  <2> QED BY <2>1, <2>2, ContextKept, MailKept DEF RoutingInv
<1>6. CASE \E r \in Roots : ReplaceDirectory(r)
  <2>1. UNCHANGED <<rc, machine, shell, mail, pending>>
    BY <1>6 DEF ReplaceDirectory
  <2> QED BY <2>1, ContextKept, MailKept, PendingKept DEF RoutingInv
<1>7. CASE \E r \in Roots, roster \in {Unset, {}} : EditRoster(r, roster)
  <2>1. UNCHANGED <<rc, machine, shell, mail, pending>>
    BY <1>7 DEF EditRoster, contextVars
  <2> QED BY <2>1, ContextKept, MailKept, PendingKept DEF RoutingInv
<1>8. CASE UNCHANGED routingVars
  <2>1. UNCHANGED <<rc, machine, shell, mail, pending>>
    BY <1>8 DEF routingVars
  <2> QED BY <2>1, ContextKept, MailKept, PendingKept DEF RoutingInv
<1> QED BY <1>1, <1>2, <1>3, <1>4, <1>5, <1>6, <1>7, <1>8 DEF RoutingNext

\* The inductive invariant of send, reply and their terminal holds: headers
\* lead back to the source, and a pinned message comes from the pinned directory.
THEOREM RoutingSafe == RoutingSpec => []RoutingInv
  BY RoutingStart, RoutingStep, PTL DEF RoutingSpec

\* A reply reaches the mailbox its original was sent from or is refused, for
\* any trees, sessions, configurations and any number of moves and edits.
THEOREM RepliesReturnHolds == RoutingSpec => []RepliesReturn
<1>1. RoutingInv => RepliesReturn
  BY DEF RoutingInv, MailInv, RepliesReturn, Answers
<1> QED BY <1>1, RoutingSafe, PTL

LEMMA OpenedMailbox ==
  ASSUME ContextInv, PinIdentity, NEW flag \in Roots \union {Unset},
         NEW session \in Sessions \union {Unset}, NEW me,
         OpensMailbox(flag, session, FALSE, me)
  PROVE  IF session = Unset THEN Token(ResolveMailboxRoot(flag, session)) = shell.rootId
         ELSE /\ Token(BaseOf(ResolveMailboxRoot(flag, session))) = shell.baseId
              /\ ResolveMailboxRoot(flag, session).session = session
<1>1. CASE session = Unset
  BY <1>1 DEF OpensMailbox, SnapshotAuthorized, IsCurrent
<1>2. CASE session # Unset
  <2> DEFINE root == ResolveEnvRoot(flag)
  <2>1. RoutedSessionAllowed(root, session) /\ ResolveMailboxRoot(flag, session) = SessionRoot(RouteBase(root), session)
    BY <1>2 DEF OpensMailbox, ResolveMailboxRoot
  <2>2. RouteBase(root) = shell.base /\ shell.base # Unset
    BY <2>1 DEF RouteBase, PinIdentity, RoutedSessionAllowed, PinInvalid
  <2>3. Token(shell.base) = shell.baseId /\ shell.base.session = Base
    BY <2>1, <2>2 DEF RoutedSessionAllowed, VerifyRootUnderBase, IsCurrent, SessionRootFound
  <2>4. shell.base \in Roots
    BY <2>2 DEF ContextInv
  <2>5. shell.base.tree \in Trees /\ shell.base = RootAt(shell.base.tree, Base)
    BY <2>3, <2>4, RootParts
  <2>6. ResolveMailboxRoot(flag, session) = RootAt(shell.base.tree, session)
    BY <2>1, <2>2 DEF SessionRoot
  <2>7. ResolveMailboxRoot(flag, session).tree = shell.base.tree /\ ResolveMailboxRoot(flag, session).session = session
    BY <1>2, <2>5, <2>6, RootIs, SMTT(20)
  <2>8. BaseOf(ResolveMailboxRoot(flag, session)) = shell.base
    BY <2>5, <2>7 DEF BaseOf
  <2> QED BY <1>2, <2>3, <2>7, <2>8
<1> QED BY <1>1, <1>2

\* A message is delivered while the directories it was authorized for stand, and
\* under an identity pin messages come from, and mailboxes are opened in, the
\* pinned directory or a session of the pinned base.
THEOREM PinnedSourceHolds == RoutingSpec => []PinnedSource
<1>1. RoutingInv => PinnedSource
  BY OpenedMailbox DEF RoutingInv, MailInv, PinnedSource, PinTrue, Stood
<1> QED BY <1>1, RoutingSafe, PTL

-----------------------------------------------------------------------------
(* route explain and the command line it prints. *)

\* A session's base exists as long as the session does.
DirsInv ==
  /\ dirs \in [Roots -> Nat]
  /\ \A r \in Roots : Exists(r) => Exists(BaseOf(r))

LEMMA DirsStart == RoutingInit => DirsInv
<1> SUFFICES ASSUME RoutingInit PROVE DirsInv
  OBVIOUS
<1>1. dirs = [r \in Roots |-> IF r \in Present THEN 1 ELSE 0]
  BY DEF RoutingInit
<1>2. dirs \in [Roots -> Nat]
  BY <1>1, SMTT(20)
<1>3. \A r \in Roots : Exists(r) <=> r \in Present
  BY <1>1, SMTT(20) DEF Exists
<1>4. \A r \in Roots : BaseOf(r) \in Roots
  BY RootParts
<1> QED BY <1>2, <1>3, <1>4, RoutingAssumption DEF DirsInv

LEMMA DirsStep ==
  ASSUME DirsInv, [RoutingNext]_routingVars
  PROVE  DirsInv'
<1>1. CASE UNCHANGED dirs
  BY <1>1 DEF DirsInv, Exists, BaseOf, RootAt
<1>2. CASE \E r \in Roots : ReplaceDirectory(r)
  <2>1. PICK r \in Roots : Exists(r) /\ dirs' = [dirs EXCEPT ![r] = @ + 1]
    BY <1>2 DEF ReplaceDirectory
  <2>2. dirs' \in [Roots -> Nat]
    BY <2>1, SMTT(20) DEF DirsInv
  <2>3. \A x \in Roots : dirs'[x] # 0 <=> dirs[x] # 0
    BY <2>1, SMTT(20) DEF DirsInv, Exists
  <2>4. \A x \in Roots : BaseOf(x) \in Roots
    BY RootParts
  <2>5. \A x \in Roots : dirs'[x] # 0 => dirs'[BaseOf(x)] # 0
    BY <2>3, <2>4 DEF DirsInv, Exists
  <2> QED BY <2>2, <2>5 DEF DirsInv, Exists, BaseOf, RootAt
<1>3. Move => UNCHANGED dirs
  BY DEF Move, EnvSession, ExportSession, EnvRoot, CoopContext, ExportRoot, Env, ChangeDirectory
<1>4. StartSend \/ StartReply \/ DeliverMessage \/ Abandon => UNCHANGED dirs
  BY DEF StartSend, StartReply, DeliverMessage, Abandon, contextVars
<1>5. (\E r \in Roots, roster \in {Unset, {}} : EditRoster(r, roster)) => UNCHANGED dirs
  BY DEF EditRoster, contextVars
<1>6. UNCHANGED routingVars => UNCHANGED dirs
  BY DEF routingVars
<1> QED BY <1>1, <1>2, <1>3, <1>4, <1>5, <1>6 DEF RoutingNext

\* What a guard that lets a source pass establishes.
LEMMA GuardPasses ==
  ASSUME NEW root, NEW cross, NEW explicit, GuardSource(root, cross, FALSE, explicit)
  PROVE  ~PinInvalid /\ ~PinMismatch(root) /\ GuardSource(root, cross, FALSE, TRUE)
  BY DEF GuardSource, Allowed, Relation

\* A root that agrees with the pin is the pinned base, or the pinned session below it.
LEMMA PinnedRoot ==
  ASSUME ContextInv, DirsInv, NEW root \in Roots, Exists(root),
         ~PinInvalid, ~PinMismatch(root), PinPresent
  PROVE  /\ LegacyPinAgrees /\ root = ExpectedRoot
         /\ shell.base \in Roots /\ shell.base # Unset /\ Exists(shell.base)
         /\ \/ PinSession = Base /\ root = shell.base
            \/ PinSession # Base /\ root # shell.base /\ shell.base = BaseOf(root)
<1>1. LegacyPinAgrees
  BY DEF PinMismatch
<1>2. shell.base # Unset /\ shell.base \in Roots
  BY DEF PinInvalid, ContextInv
<1>3. root # Unset
  BY RoutingAssumption
<1>4. root = ExpectedRoot
  <2>1. CASE ~PinIdentity
    BY <2>1 DEF PinMismatch
  <2>2. CASE PinIdentity /\ PinSession = Base
    <3>1. RelateTrees(shell.base, root) = "same"
      BY <2>2 DEF PinMismatch, VerifyRootUnderBase
    <3>2. Token(shell.base) = Token(root) /\ Exists(shell.base)
      BY <3>1 DEF RelateTrees
    <3>3. shell.base = root
      BY <3>2, SMTT(20) DEF Token
    <3> QED BY <2>2, <3>3 DEF ExpectedRoot
  <2>3. CASE PinIdentity /\ PinSession # Base
    <3>1. /\ SessionRootFound(shell.base, PinSession)
          /\ RelateTrees(SessionRoot(shell.base, PinSession), root) = "same"
      BY <2>3 DEF PinMismatch, VerifyRootUnderBase
    <3>2. /\ Token(SessionRoot(shell.base, PinSession)) = Token(root)
          /\ Exists(SessionRoot(shell.base, PinSession))
      BY <3>1 DEF RelateTrees
    <3>3. SessionRoot(shell.base, PinSession) = root
      BY <3>2, SMTT(20) DEF Token
    <3> QED BY <2>3, <3>1, <3>3 DEF ExpectedRoot, SessionRootFound, SessionRoot
  <2> QED BY <2>1, <2>2, <2>3
<1>5. CASE PinSession = Base
  BY <1>1, <1>2, <1>4, <1>5 DEF ExpectedRoot
<1>6. CASE PinSession # Base
  <2>1. shell.base.session = Base /\ root = RootAt(shell.base.tree, PinSession)
    BY <1>3, <1>4, <1>6 DEF ExpectedRoot
  <2>2. root.tree = shell.base.tree /\ root.session = PinSession
    BY <2>1, SMTT(20) DEF RootAt
  <2>3. shell.base = BaseOf(root)
    BY <1>2, <2>1, <2>2, RootParts DEF BaseOf
  <2>4. root # shell.base
    BY <1>6, <2>1, <2>2
  <2>5. Exists(shell.base)
    BY <2>3 DEF DirsInv
  <2> QED BY <1>1, <1>2, <1>4, <1>6, <2>3, <2>4, <2>5
<1> QED BY <1>5, <1>6

\* The roster of such a root's sender can be opened.
LEMMA SenderOpens ==
  ASSUME ContextInv, DirsInv, NEW root \in Roots, Exists(root),
         ~PinInvalid, ~PinMismatch(root)
  PROVE  AuthorityOpens(root, LocalConfigBase(root, FALSE))
<1>1. CASE PinPresent
  BY <1>1, PinnedRoot DEF AuthorityOpens, LocalConfigBase
<1>2. CASE ~PinPresent
  <2>1. LocalConfigBase(root, FALSE) \in {Unset, BaseOf(root)}
    BY <1>2, Classified DEF LocalConfigBase
  <2> QED BY <2>1 DEF AuthorityOpens, DirsInv
<1> QED BY <1>1, <1>2

\* Nothing in the terminal places it in another tree than such a root's.
LEMMA NoConflict ==
  ASSUME ContextInv, DirsInv, NEW root \in Roots, Exists(root),
         ~PinInvalid, ~PinMismatch(root), ~StrayRoot(root)
  PROVE  ~ConflictingSource(root)
<1>1. CASE ~PinPresent
  BY <1>1 DEF PinMismatch
<1>2. CASE PinPresent
  <2>1. /\ LegacyPinAgrees /\ root = ExpectedRoot
        /\ shell.base \in Roots /\ shell.base # Unset /\ Exists(shell.base)
        /\ \/ PinSession = Base /\ root = shell.base
           \/ PinSession # Base /\ root # shell.base /\ shell.base = BaseOf(root)
    BY <1>2, PinnedRoot
  <2>2. shell.root \in {Unset, root} \/ BaseTreeRelation(shell.root, root) # "different"
    BY <1>2, <2>1 DEF LegacyPinAgrees, StrayRoot
  <2>3. CASE root = shell.base
    BY <2>2, <2>3 DEF ConflictingSource
  <2>4. CASE root # shell.base
    <3>1. shell.base = BaseOf(root)
      BY <2>1, <2>4
    <3>2. ClassifyRoot(shell.base) = Unset
      BY DEF ClassifyRoot
    <3>3. ClassifyRoot(root) = shell.base
      BY <2>1, <2>4, <3>1 DEF ClassifyRoot, IsSessionUnder
    <3>4. BaseRootOf(shell.base) = shell.base /\ BaseRootOf(root) = shell.base
      BY <2>1, <3>2, <3>3 DEF BaseRootOf
    <3>5. BaseTreeRelation(shell.base, root) = "same"
      BY <2>1, <3>4 DEF BaseTreeRelation, RelateTrees
    <3>6. "same" # "different" /\ "same" # "unknown"
      OBVIOUS
    <3> QED BY <2>2, <3>5, <3>6 DEF ConflictingSource
  <2> QED BY <2>3, <2>4
<1> QED BY <1>1, <1>2

\* A session left to the default resolves to the one printed.
LEMMA PeerPrinted ==
  ASSUME ContextInv, NEW root \in Roots, NEW project \in Trees, NEW session \in Sessions \union {Unset},
         PlanPeer(root, project, session, TRUE).ok,
         PlanPeer(root, project, session, TRUE).session \notin LegacyNames
  PROVE  LET plan == PlanPeer(root, project, session, TRUE)
             s    == IF plan.session = Base THEN Unset ELSE plan.session
         IN  PlanPeer(root, project, s, TRUE) = plan
<1> DEFINE plan == PlanPeer(root, project, session, TRUE)
           p == PeerSession(root, session, TRUE)
<1>1. /\ OwnsSource(FindAmqrc(root), root) /\ project \in FindAmqrc(root).peers
      /\ p # Base => SessionRootFound(RootAt(project, Base), p)
      /\ plan = [ok |-> TRUE, dest |-> RootAt(project, p), session |-> p,
                 project |-> FindAmqrc(root).project]
  <2> DEFINE good == /\ OwnsSource(FindAmqrc(root), root) /\ project \in FindAmqrc(root).peers
                     /\ session # Unset => ValidSessionName(session)
                     /\ p # Base => SessionRootFound(RootAt(project, Base), p)
             found == [ok |-> TRUE, dest |-> RootAt(project, p), session |-> p,
                       project |-> FindAmqrc(root).project]
  <2>1. plan = IF good THEN found ELSE Refused
    BY DEF PlanPeer
  <2>2. plan.ok /\ ~Refused.ok
    BY DEF Refused
  <2>3. good
    <3> HIDE DEF plan, good, found
    <3> QED BY <2>1, <2>2
  <2>4. plan = found
    <3> HIDE DEF plan, found
    <3> QED BY <2>1, <2>3
  <2> QED BY <2>3, <2>4
<1>2. p \in Sessions \union LegacyNames \union {Base} /\ (p = Base => session = Unset)
  BY RootParts, RoutingAssumption DEF PeerSession
<1>3. plan.session = p
  <2> HIDE DEF p, plan
  <2> QED BY <1>1
<1>4. CASE p = Base
  <2>1. session = Unset /\ plan.session = Base
    BY <1>2, <1>3, <1>4
  <2> QED BY <2>1
<1>5. CASE p # Base
  <2>1. p \in Sessions /\ p # Unset
    BY <1>2, <1>3, <1>5, RoutingAssumption
  <2>2. PeerSession(root, p, TRUE) = p
    BY <2>1 DEF PeerSession
  <2> HIDE DEF p
  <2>3. PlanPeer(root, project, p, TRUE)
          = [ok |-> TRUE, dest |-> RootAt(project, p), session |-> p,
             project |-> FindAmqrc(root).project]
    BY <1>1, <1>5, <2>1, <2>2 DEF PlanPeer, ValidSessionName
  <2> QED BY <1>1, <1>3, <1>5, <2>3
<1> QED BY <1>4, <1>5

LEMMA RoutePrinted ==
  ASSUME ContextInv, NEW root \in Roots, NEW project \in Trees \union {Unset},
         NEW session \in Sessions \union {Unset},
         PlanDeliveryRoute(root, project, session, TRUE).ok,
         PlanDeliveryRoute(root, project, session, TRUE).session \notin LegacyNames
  PROVE  LET plan == PlanDeliveryRoute(root, project, session, TRUE)
             s    == IF plan.session = Base THEN Unset ELSE plan.session
         IN  /\ PlanDeliveryRoute(root, project, s, TRUE) = plan
             /\ project = Unset /\ s = Unset => plan.dest = root
<1> DEFINE plan == PlanDeliveryRoute(root, project, session, TRUE)
           s    == IF plan.session = Base THEN Unset ELSE plan.session
<1>1. CASE project # Unset
  <2>1. plan = PlanPeer(root, project, session, TRUE)
    BY <1>1, RouteKinds
  <2>2. PlanPeer(root, project, s, TRUE) = plan
    BY <1>1, <2>1, PeerPrinted
  <2>3. PlanDeliveryRoute(root, project, s, TRUE) = PlanPeer(root, project, s, TRUE)
    BY <1>1, RouteKinds
  <2> QED BY <1>1, <2>2, <2>3
<1>2. CASE project = Unset /\ session # Unset
  <2>1. plan = PlanSession(root, session)
    BY <1>2, RouteKinds
  <2>2. plan.session = session
    <3>1. plan \in {[ok |-> TRUE, dest |-> SessionRoot(ClassifyRoot(root), session),
                     session |-> session, project |-> Unset], Refused}
      BY <2>1 DEF PlanSession
    <3>2. plan.ok /\ ~Refused.ok
      BY DEF Refused
    <3> HIDE DEF plan
    <3>3. plan = [ok |-> TRUE, dest |-> SessionRoot(ClassifyRoot(root), session),
                  session |-> session, project |-> Unset]
      BY <3>1, <3>2
    <3> QED BY <3>3
  <2>3. s = session
    BY <1>2, <2>2, RoutingAssumption
  <2> QED BY <1>2, <2>3
<1>3. CASE project = Unset /\ session = Unset
  <2>1. plan = [ok |-> TRUE, dest |-> root, session |-> Base, project |-> Unset]
    BY <1>3 DEF PlanDeliveryRoute
  <2>2. plan.session = Base /\ plan.dest = root
    <3> HIDE DEF plan
    <3> QED BY <2>1
  <2> QED BY <1>3, <2>2
<1> QED BY <1>1, <1>2, <1>3

\* What route explain has checked of an explained route.
LEMMA Explained ==
  ASSUME NEW a, ExplainRoute(a).ok
  PROVE  LET root == ResolveEnvRoot(a.root)
             plan == PlanDeliveryRoute(root, a.project, a.session, TRUE)
         IN  /\ root # Unset /\ GuardSource(root, a.project # Unset, FALSE, a.root # Unset)
             /\ plan.ok /\ Exists(plan.dest)
             /\ a.project # Unset => a.to \in boxes[plan.dest]
             /\ a.project = Unset => LocalMailboxAuthorized(plan.dest, a.to, FALSE, FALSE, TRUE)
             /\ ExplainRoute(a) = plan
<1>1. ~Refused.ok
  BY DEF Refused
<1> QED BY <1>1 DEF ExplainRoute

\* A command line without --strict whose source and route pass is accepted.
LEMMA SendAccepts ==
  ASSUME NEW b, NEW root, NEW plan, root # Unset, b.root = root, b.from = Unset, b.ignorePin = FALSE,
         b.strict = FALSE,
         plan = PlanDeliveryRoute(root, b.project, b.session, TRUE), plan.ok,
         Exists(root), Exists(plan.dest),
         ~PinInvalid, LegacyPinAgrees, PinIdentity => IsCurrent(shell.base, shell.baseId),
         GuardSource(root, b.project # Unset, FALSE, TRUE),
         ~Routed(b) => ~ConflictingSource(root),
         b.to = b.me => root # plan.dest /\ Routed(b),
         b.project # Unset => /\ b.to \in boxes[plan.dest]
                              /\ AuthorityOpens(root, LocalConfigBase(root, FALSE)),
         b.project = Unset => LocalMailboxAuthorized(plan.dest, b.to, FALSE, FALSE, TRUE)
  PROVE  PlanSend(b) # NoSend /\ PlanSend(b).dest = plan.dest
<1>1. ResolveEnvRoot(b.root) = root /\ SendSource(b, root) = root
  BY DEF ResolveEnvRoot, SendSource
<1>2. SendSourceGuarded(b, root) /\ SendSourceFound(b, root) /\ NotSelf(b, root, plan.dest)
  BY DEF SendSourceGuarded, SendSourceFound, NotSelf
<1>3. \A roster, h : KnownHandle(roster, FALSE, h)
  BY DEF KnownHandle
<1>4. SendMailboxAuthorized(b, root, root, plan.dest)
  <2>1. CASE b.project # Unset
    BY <1>3, <2>1 DEF SendMailboxAuthorized, PeerMailboxAuthorized, SenderKnown
  <2>2. CASE b.project = Unset
    BY <1>3, <2>2 DEF SendMailboxAuthorized, LocalMailboxAuthorized
  <2> QED BY <2>1, <2>2
<1> DEFINE auth == ConfigAuthority(plan.dest,
                     IF b.project # Unset THEN BaseOf(plan.dest)
                     ELSE IF b.from # Unset THEN root
                     ELSE LocalConfigBase(plan.dest, b.ignorePin))
           own == ConfigAuthority(root, LocalConfigBase(root, b.ignorePin))
           pin == IF b.ignorePin \/ b.from # Unset THEN Unset ELSE shell.rootId
<1>5. PlanSend(b) = [verb |-> "send", me |-> b.me, to |-> b.to, strict |-> b.strict,
                     source |-> root, dest |-> plan.dest, sourceId |-> dirs[root],
                     destId |-> dirs[plan.dest], project |-> b.project, routed |-> Routed(b),
                     re |-> 0, auth |-> auth, own |-> own, roster |-> config,
                     replyTo |-> SendReplyTo(b, root), replyProject |-> plan.project, pin |-> pin]
  BY <1>1, <1>2, <1>4 DEF PlanSend
<1> HIDE DEF auth, own, pin
<1>6. PlanSend(b).verb = "send" /\ PlanSend(b).dest = plan.dest
  BY <1>5, SMTT(20)
<1>7. NoSend.verb = "none"
  BY DEF NoSend
<1> QED BY <1>6, <1>7

LEMMA PrintedAccepted ==
  ASSUME ContextInv, DirsInv, NEW a \in ExplainArgs, ExplainRoute(a).ok,
         Exists(ResolveEnvRoot(a.root)),
         a.to # a.me \/ ExplainRoute(a).dest # ResolveEnvRoot(a.root),
         Routed(RouteArgv(a, ExplainRoute(a))) \/ ~StrayRoot(ResolveEnvRoot(a.root)),
         ExplainRoute(a).session \notin LegacyNames
  PROVE  LET plan == ExplainRoute(a)
             sent == PlanSend(RouteArgv(a, plan))
         IN  sent # NoSend /\ sent.dest = plan.dest
<1> DEFINE root == ResolveEnvRoot(a.root)
           plan == ExplainRoute(a)
           s == IF plan.session = Base THEN Unset ELSE plan.session
           b == RouteArgv(a, plan)
<1>1. /\ a.root \in Roots \union {Unset} /\ a.project \in Trees \union {Unset}
      /\ a.session \in Sessions \union {Unset}
  BY SMTT(20) DEF ExplainArgs
<1>2. /\ root # Unset /\ GuardSource(root, a.project # Unset, FALSE, a.root # Unset)
      /\ plan = PlanDeliveryRoute(root, a.project, a.session, TRUE)
      /\ Exists(plan.dest)
      /\ a.project # Unset => a.to \in boxes[plan.dest]
      /\ a.project = Unset => LocalMailboxAuthorized(plan.dest, a.to, FALSE, FALSE, TRUE)
  BY Explained
<1>3. root \in Roots
  BY <1>1, <1>2, EnvRootIs
<1>4. ~PinInvalid /\ ~PinMismatch(root) /\ GuardSource(root, a.project # Unset, FALSE, TRUE)
  BY <1>2, GuardPasses
<1>5. b = [root |-> root, project |-> a.project, session |-> s, from |-> Unset,
           ignorePin |-> FALSE, allowSelf |-> FALSE,
           me |-> a.me, to |-> a.to, strict |-> FALSE]
  BY DEF RouteArgv
<1>6. Exists(root) /\ plan.ok /\ plan.session \notin LegacyNames
      /\ (a.to # a.me \/ plan.dest # root)
  OBVIOUS
<1>6a. Routed(b) \/ ~StrayRoot(root)
  OBVIOUS
<1> HIDE DEF root, plan, b
<1>7. /\ b.root = root /\ b.project = a.project /\ b.session = s /\ b.from = Unset
      /\ b.ignorePin = FALSE /\ b.me = a.me /\ b.to = a.to /\ b.strict = FALSE
  <2> HIDE DEF s
  <2> QED BY <1>5
<1>8. /\ PlanDeliveryRoute(root, a.project, s, TRUE) = plan
      /\ a.project = Unset /\ s = Unset => plan.dest = root
  <2> DEFINE q == PlanDeliveryRoute(root, a.project, a.session, TRUE)
             t == IF q.session = Base THEN Unset ELSE q.session
  <2>1. q.ok /\ q.session \notin LegacyNames /\ plan = q
    BY <1>2, <1>6
  <2>2. /\ PlanDeliveryRoute(root, a.project, t, TRUE) = q
        /\ a.project = Unset /\ t = Unset => q.dest = root
    BY <1>1, <1>3, <2>1, RoutePrinted
  <2>3. t = s
    BY <2>1
  <2> HIDE DEF q, s, t
  <2> QED BY <2>1, <2>2, <2>3
<1> HIDE DEF s
<1>9. LegacyPinAgrees /\ (PinIdentity => IsCurrent(shell.base, shell.baseId))
  BY <1>4 DEF PinMismatch, VerifyRootUnderBase, LegacyPinAgrees, PinIdentity
<1>10. (~Routed(b) => ~ConflictingSource(root)) /\ AuthorityOpens(root, LocalConfigBase(root, FALSE))
  BY <1>3, <1>4, <1>6, <1>6a, NoConflict, SenderOpens
<1>11. Routed(b) <=> a.project # Unset \/ s # Unset
  BY <1>7 DEF Routed
<1>12. b.to = b.me => root # plan.dest /\ Routed(b)
  BY <1>6, <1>7, <1>8, <1>11
<1>13. plan = PlanDeliveryRoute(root, b.project, b.session, TRUE)
  BY <1>7, <1>8
<1>14. GuardSource(root, b.project # Unset, FALSE, TRUE)
  BY <1>4, <1>7
<1>15. /\ b.project # Unset => b.to \in boxes[plan.dest]
       /\ b.project = Unset => LocalMailboxAuthorized(plan.dest, b.to, FALSE, FALSE, TRUE)
  BY <1>2, <1>7
<1>16. PlanSend(b) # NoSend /\ PlanSend(b).dest = plan.dest
  BY <1>2, <1>4, <1>6, <1>7, <1>9, <1>10, <1>12, <1>13, <1>14, <1>15, SendAccepts
<1> QED BY <1>16 DEF plan, b

\* For any trees, sessions, configurations and terminals, send accepts the
\* command line route explain prints and delivers to the explained queue.
THEOREM ExplainedRouteSendsHolds == RoutingSpec => []ExplainedRouteSends
<1>1. ContextInv /\ DirsInv => ExplainedRouteSends
  BY PrintedAccepted DEF ExplainedRouteSends
<1>2. RoutingSpec => []DirsInv
  BY DirsStart, DirsStep, PTL DEF RoutingSpec
<1>3. RoutingInv => ContextInv
  BY DEF RoutingInv
<1> QED BY <1>1, <1>2, <1>3, RoutingSafe, PTL
=============================================================================
