----------------------------- MODULE LoopProofs -----------------------------
(***************************************************************************)
(* Proofs about the loop of an admitted wake: its reminders end, and a    *)
(* payload is never begun on top of a torn one.                             *)
(***************************************************************************)
EXTENDS WakeServe, TLAPS

\* A leaf that names no prover is Zenon's.
USE ZenonT(60)

-----------------------------------------------------------------------------
(* The records of the loop. *)

IsLoop(l) ==
  /\ DOMAIN l = {"pc", "cont", "why", "notify", "debounce", "term", "scan", "deadline",
                 "watching", "had", "enabled", "failed", "gap", "fence", "old", "faults"}
  /\ \A f \in {"notify", "debounce", "term", "scan", "deadline", "watching", "had", "enabled",
               "failed", "gap"} : l[f] \in BOOLEAN
IsConf(c) ==
  /\ DOMAIN c = {"mode", "want", "legacy", "recovery", "injected", "backlog", "switched"}
  /\ \A f \in {"legacy", "recovery", "injected", "backlog", "switched"} : c[f] \in BOOLEAN
IsBell(b) ==
  /\ DOMAIN b = {"phase", "cohort", "confirmed", "tried", "rings", "budget", "next", "floor",
                 "transient", "recovering", "undelivered"}
  /\ \A f \in {"confirmed", "tried", "recovering", "undelivered"} : b[f] \in BOOLEAN
IsInput(i) ==
  /\ DOMAIN i = {"phase", "text", "accepted", "uncertain"}
  /\ i.text \in BOOLEAN /\ i.uncertain \in BOOLEAN
  /\ i.phase \in InputPhases /\ i.accepted \in Nat
  /\ i.phase = "payload" => i.text
IsSeen(s) ==
  /\ DOMAIN s = {"cur", "submitOnly", "content", "retained"}
  /\ \A f \in {"submitOnly", "content", "retained"} : s[f] \in BOOLEAN

RawModes == {"raw", "codex", "paste"}
StartPcs == {"arm", "bound", "snapshot", "settle", "admit"}
RestPcs == {"select", "check", "after", "fallback"}

\* The budget of a doorbell bounds its attempts, and the lifetime cap its budget.
Climbs(b) ==
  /\ b.rings \in Nat /\ b.budget \in Nat /\ b.rings <= b.budget /\ b.budget <= LifetimeCap
  /\ b.phase \in {"idle", "retrying", "parked", "recovery", "announced"}
  /\ b.phase = "retrying" => b.rings < b.budget
  /\ b.phase \in {"idle", "announced", "recovery"} => b.budget = 0
  /\ b.phase = "idle" => b.cohort = {}
  /\ b.phase = "recovery" => b.recovering /\ b.next # "none"

Shapes ==
  /\ IsLoop(loop) /\ IsConf(conf) /\ IsBell(bell) /\ IsInput(input) /\ IsSeen(seen)
  /\ loop.pc \in StartPcs \cup RestPcs \cup {"scan", "deliver", "write", "attend", "exit"}
  /\ loop.cont \in RestPcs
  /\ loop.pc = "write" => loop.why \in {"drain", "drainFirst", "flush", "inject"}
  /\ loop.pc = "attend" => loop.why \in {"only", "deferred", "pgrp", "recovery", "retained"}
  /\ asked \in Nat /\ torn \in BOOLEAN
  /\ \A f \in inbox, g \in inbox : f.name = g.name => f = g
  /\ Climbs(bell)

\* A wake without an input mode holds no input and owes no recovery.
Modal ==
  /\ conf.mode = conf.want \/ (conf.mode = "none" /\ conf.want \in RawModes)
  /\ conf.injected => conf.want = "via"
  /\ input.phase # "idle" => conf.want \in RawModes
  /\ conf.mode = "none" => input = NoInput /\ ~conf.recovery /\ asked = 0 /\ ~torn
  /\ bell.phase = "recovery" <=> conf.recovery
  /\ bell.phase = "announced" => conf.injected
  /\ input.uncertain => conf.recovery

\* An attempt under way rings for the cohort it scanned.
Ringing ==
  /\ ~conf.recovery /\ bell.phase = "retrying" /\ bell.cohort = seen.cur
  /\ seen.cur # {} /\ seen.cur \cap baseline = {}

Stages ==
  /\ loop.pc \in StartPcs => bell = Quiet /\ input = NoInput /\ ~torn /\ asked = 0 /\ ~conf.recovery
  /\ loop.pc = "deliver" => Ringing
  /\ loop.pc = "write" => input.phase # "idle" /\ conf.mode \in RawModes /\ ~conf.recovery
  /\ loop.pc = "write" /\ loop.why # "drain" => Ringing
  /\ loop.pc = "write" /\ loop.why = "drain" => bell.phase = "idle" /\ seen.cur = {}
  /\ loop.pc = "write" /\ loop.why # "inject" => input.phase # "payload"
  /\ loop.pc = "attend" /\ loop.why \in {"deferred", "pgrp"} => Ringing /\ conf.mode # "none"
  /\ loop.pc = "attend" /\ loop.why = "only" => Ringing \/ (bell = Quiet /\ conf.mode = "none" /\ seen.cur # {})
  /\ loop.pc = "attend" /\ loop.why \in {"recovery", "retained"} => conf.recovery

\* Reminders completed, and a payload torn, since the agent last drained a message
\* are about messages that are still there.
Owed ==
  /\ torn \/ (asked > 0 /\ ~conf.injected) =>
        bell.cohort # {} /\ bell.cohort \subseteq inbox /\ bell.cohort \cap baseline = {}
  /\ asked > 0 /\ ~conf.injected =>
        /\ bell.phase \in {"retrying", "parked", "recovery"}
        /\ bell.phase # "recovery" => asked <= bell.rings
        /\ asked <= LifetimeCap
  /\ torn => conf.recovery \/ (input.phase = "payload" /\ input.accepted > 0)
  /\ ~stacked

LoopInv == Shapes /\ Modal /\ Stages /\ Owed

-----------------------------------------------------------------------------
(* The doorbell. *)

Good(b) == IsBell(b) /\ Climbs(b)

LEMMA QuietIsGood == Good(Quiet) /\ Quiet.phase = "idle" /\ Quiet.cohort = {} /\ Quiet.rings = 0
  BY BudgetAssumption, SMTT(20) DEF Good, IsBell, Climbs, Quiet

\* Arming keeps the attempts made and leaves at least one.
LEMMA Arms ==
  ASSUME NEW b, NEW cur, Good(b), b.phase # "parked"
  PROVE  /\ Good(ArmBell(b, cur)) /\ ArmBell(b, cur).phase = "retrying"
         /\ ArmBell(b, cur).cohort = cur /\ ArmBell(b, cur).rings = b.rings
  BY BudgetAssumption, SMTT(20) DEF Good, IsBell, Climbs, ArmBell

\* An attempt is counted, and the last one of the budget parks the cohort.
LEMMA Attempts ==
  ASSUME NEW b, Good(b), b.phase = "retrying"
  PROVE  /\ Good(RecordAttempt(b)) /\ RecordAttempt(b).phase \in {"retrying", "parked"}
         /\ RecordAttempt(b).cohort = b.cohort /\ RecordAttempt(b).rings = b.rings + 1
  BY SMTT(20) DEF Good, IsBell, Climbs, RecordAttempt, RecordWithBase, ParkCohort

LEMMA Announces ==
  ASSUME NEW cur
  PROVE  /\ Good(RecordInjected(cur)) /\ RecordInjected(cur).phase = "announced"
         /\ RecordInjected(cur).cohort = cur
  BY BudgetAssumption, SMTT(20) DEF Good, IsBell, Climbs, RecordInjected, Quiet

LEMMA Recovers ==
  ASSUME NEW b, NEW cur, Good(b)
  PROVE  /\ Good(RecordRecovery(b, cur)) /\ RecordRecovery(b, cur).phase = "recovery"
         /\ RecordRecovery(b, cur).cohort = cur
<1>1. PICK base : base = IF b.phase # "recovery" THEN Quiet ELSE b
  OBVIOUS
<1>2. Good(base) /\ base.budget = 0
  BY <1>1, QuietIsGood DEF Good, Climbs, Quiet
<1>3. RecordRecovery(b, cur) =
        [base EXCEPT !.phase = "recovery", !.cohort = cur, !.recovering = TRUE, !.undelivered = TRUE,
                     !.tried = TRUE, !.floor = "none", !.next = "later"]
  BY <1>1, <1>2 DEF RecordRecovery, RecordAttention, RecordWithBase, Good, IsBell
<1> QED BY <1>2, <1>3, SMTT(20) DEF Good, IsBell, Climbs

LEMMA Retains ==
  ASSUME NEW b
  PROVE  /\ Good(RetainRecovery(b)) /\ RetainRecovery(b).phase = "recovery"
         /\ RetainRecovery(b).cohort = b.cohort
<1>1. PICK quiet : quiet = Quiet
  OBVIOUS
<1>2. Good(quiet) /\ quiet.budget = 0
  BY <1>1, QuietIsGood DEF Quiet
<1>3. RetainRecovery(b) =
        [quiet EXCEPT !.phase = "recovery", !.cohort = b.cohort, !.recovering = TRUE, !.undelivered = TRUE,
                      !.tried = TRUE, !.floor = "none", !.next = "later"]
  BY <1>1, <1>2 DEF RetainRecovery, RecordAttention, RecordWithBase, Good, IsBell
<1> QED BY <1>2, <1>3, SMTT(20) DEF Good, IsBell, Climbs

\* Cadence, confirmation and delivery marks move neither the phase nor the ladder.
SameLadder(b, c) == c.phase = b.phase /\ c.cohort = b.cohort /\ c.rings = b.rings /\ c.budget = b.budget

LEMMA Paces ==
  ASSUME NEW b, Good(b)
  PROVE  /\ Good(RecordTransient(b)) /\ SameLadder(b, RecordTransient(b))
         /\ Good(RecordAttention(b)) /\ SameLadder(b, RecordAttention(b))
         /\ Good(RecordDeferred(b)) /\ SameLadder(b, RecordDeferred(b))
         /\ Good(ConfirmPresentation(b)) /\ SameLadder(b, ConfirmPresentation(b))
         /\ Good(RecoveryDelivered(b)) /\ SameLadder(b, RecoveryDelivered(b))
         /\ Good(MakeDue(b)) /\ SameLadder(b, MakeDue(b))
<1>1. Good(RecordTransient(b)) /\ SameLadder(b, RecordTransient(b))
  BY DEF Good, IsBell, Climbs, RecordTransient, SameLadder
<1>2. Good(RecordAttention(b)) /\ SameLadder(b, RecordAttention(b))
  BY DEF Good, IsBell, Climbs, RecordAttention, RecordWithBase, SameLadder
<1>3. Good(RecordDeferred(b)) /\ SameLadder(b, RecordDeferred(b))
  BY DEF Good, IsBell, Climbs, RecordDeferred, RecordWithBase, SameLadder
<1>4. Good(ConfirmPresentation(b)) /\ SameLadder(b, ConfirmPresentation(b))
  BY DEF Good, IsBell, Climbs, ConfirmPresentation, SameLadder
<1>5. Good(RecoveryDelivered(b)) /\ SameLadder(b, RecoveryDelivered(b))
  BY DEF Good, IsBell, Climbs, RecoveryDelivered, SameLadder
<1>6. Good(MakeDue(b)) /\ SameLadder(b, MakeDue(b))
  BY DEF Good, IsBell, Climbs, MakeDue, SameLadder
<1> QED BY <1>1, <1>2, <1>3, <1>4, <1>5, <1>6

\* An addition keeps the attempts made: only a new budget allows another one.
LEMMA Extends ==
  ASSUME NEW b, NEW cur, Good(b)
  PROVE  /\ Good(Extend(b, cur)) /\ Extend(b, cur).phase \in {"retrying", "parked"}
         /\ Extend(b, cur).cohort = cur /\ Extend(b, cur).rings = b.rings
<1>1. CASE b.phase = "parked" /\ b.budget < LifetimeCap
  <2> DEFINE c == [b EXCEPT !.cohort = cur, !.confirmed = FALSE, !.budget = @ + 1, !.phase = "retrying"]
  <2>0. ~(b.budget >= LifetimeCap)
    BY <1>1, BudgetAssumption, SMTT(20) DEF Good, Climbs
  <2>1. Extend(b, cur) = PullForward(c)
    BY <1>1, <2>0 DEF Extend
  <2>2. Good(c) /\ c.phase = "retrying" /\ c.cohort = cur /\ c.rings = b.rings
    BY <1>1, BudgetAssumption, SMTT(20) DEF Good, IsBell, Climbs
  <2> HIDE DEF c
  <2> QED BY <2>1, <2>2, SMTT(20) DEF PullForward, Good, IsBell, Climbs
<1>2. CASE b.phase = "parked" /\ ~(b.budget < LifetimeCap)
  <2>1. Extend(b, cur) = [b EXCEPT !.cohort = cur, !.confirmed = FALSE]
    BY <1>2, BudgetAssumption, SMTT(20) DEF Extend, Good, Climbs
  <2> QED BY <2>1, <1>2 DEF Good, IsBell, Climbs
<1>3. CASE b.phase # "parked"
  <2>1. Extend(b, cur) = PullForward(ArmBell(b, cur))
    BY <1>3 DEF Extend
  <2> QED BY <1>3, <2>1, Arms, SMTT(20) DEF PullForward, Good, IsBell, Climbs
<1> QED BY <1>1, <1>2, <1>3

\* A file of a cohort whose names another one holds has a namesake there.
LEMMA Named ==
  ASSUME NEW S, NEW T, NamesOf(S) \subseteq NamesOf(T), NEW d \in S
  PROVE  \E c \in T : c.name = d.name
<1>1. d.name \in NamesOf(S)
  BY DEF NamesOf
<1>2. d.name \in NamesOf(T)
  BY <1>1
<1> QED BY <1>2 DEF NamesOf

\* What a plan makes of a doorbell: the cohort becomes what was scanned, and a
\* cohort that made no progress keeps its count of attempts.
LEMMA Plans ==
  ASSUME NEW b, NEW cur, Good(b), b.phase # "recovery", cur # {},
         \A f \in cur, g \in cur : f.name = g.name => f = g
  PROVE  /\ Good(Plan(b, cur).bell)
         /\ Plan(b, cur).bell.phase \in {"retrying", "parked", "announced"}
         /\ Plan(b, cur).bell.cohort = cur
         /\ Plan(b, cur).attempt \in BOOLEAN /\ Plan(b, cur).progress \in BOOLEAN
         /\ Plan(b, cur).submitOnly \in BOOLEAN /\ Plan(b, cur).content \in BOOLEAN
         /\ Plan(b, cur).attempt => Plan(b, cur).bell.phase = "retrying"
         /\ Plan(b, cur).progress => ~(b.cohort \subseteq cur)
         /\ Plan(b, cur).bell.phase = "announced" => b.phase = "announced"
         /\ b.cohort \subseteq cur /\ b.cohort # {} /\ b.phase # "announced" =>
                Plan(b, cur).bell.rings = b.rings
<1> DEFINE progress == b.phase # "idle" /\ CohortProgressed(b.cohort, cur)
           content  == ~progress /\ b.phase # "idle" /\ CohortExpanded(b.cohort, cur)
           moved    == CASE progress -> Quiet [] content -> Extend(b, cur) [] OTHER -> b
           armed    == IF moved.phase = "idle" THEN ArmBell(moved, cur) ELSE moved
<1>1. CASE b.phase = "announced"
  <2>1. Plan(b, cur) = PlanAnnounced(b, cur)
    BY <1>1 DEF Plan
  <2>2. CASE CohortExpanded(b.cohort, cur) \/ CohortReplaced(b.cohort, cur)
    <3>1. PICK a : a = ArmBell(b, cur)
      OBVIOUS
    <3>2. Good(a) /\ a.phase = "retrying" /\ a.cohort = cur /\ a.rings = b.rings
      BY <1>1, <3>1, Arms, SMTT(20)
    <3>3. Plan(b, cur) = [NoPlan(a) EXCEPT !.attempt = TRUE]
      BY <2>1, <2>2, <3>1 DEF PlanAnnounced
    <3> QED BY <1>1, <3>2, <3>3 DEF NoPlan
  <2>3. CASE ~(CohortExpanded(b.cohort, cur) \/ CohortReplaced(b.cohort, cur))
    <3>1. PICK a : a = IF CohortProgressed(b.cohort, cur) THEN RecordInjected(cur) ELSE b
      OBVIOUS
    <3>2. ~CohortProgressed(b.cohort, cur) => b.cohort = cur
      <4> SUFFICES ASSUME ~CohortProgressed(b.cohort, cur), NEW d \in cur
                   PROVE  d \in b.cohort
        BY DEF CohortProgressed
      <4>1. PICK c \in b.cohort : c.name = d.name
        BY <2>3, Named, SMTT(20) DEF CohortExpanded
      <4> QED BY <4>1, <2>3 DEF CohortReplaced
    <3>3. Good(a) /\ a.phase = "announced" /\ a.cohort = cur
      BY <1>1, <3>1, <3>2, Announces
    <3>4. Plan(b, cur) = NoPlan(a)
      BY <2>1, <2>3, <3>1 DEF PlanAnnounced
    <3> QED BY <1>1, <3>3, <3>4, SMTT(20) DEF NoPlan
  <2> QED BY <2>2, <2>3
<1>2. CASE b.phase # "announced"
  <2>1. Good(moved) /\ moved.phase \in {"idle", "retrying", "parked"}
    BY <1>2, QuietIsGood, Extends DEF Good, Climbs
  <2>2. moved.phase # "idle" => moved.cohort = cur
    <3>1. CASE progress
      BY <3>1, QuietIsGood
    <3>2. CASE content
      BY <3>2, Extends, SMTT(20)
    <3>3. CASE ~progress /\ ~content /\ b.phase # "idle"
      <4>1. b.cohort \subseteq cur /\ NamesOf(cur) \subseteq NamesOf(b.cohort)
        BY <3>3 DEF CohortProgressed, CohortExpanded
      <4>2. cur \subseteq b.cohort
        <5> SUFFICES ASSUME NEW d \in cur PROVE d \in b.cohort
          OBVIOUS
        <5>1. NamesOf(cur) \subseteq NamesOf(b.cohort)
          BY <4>1
        <5>2. PICK c \in b.cohort : c.name = d.name
          BY <5>1, Named
        <5> QED BY <4>1, <5>2
      <4> QED BY <3>3, <4>1, <4>2
    <3>4. CASE b.phase = "idle"
      BY <3>4
    <3> QED BY <3>1, <3>2, <3>3, <3>4
  <2>3. ~progress /\ b.phase # "idle" => moved.rings = b.rings
    BY Extends
  <2>4. b.cohort \subseteq cur /\ b.cohort # {} => ~progress /\ b.phase # "idle"
    BY DEF CohortProgressed, Good, Climbs
  <2>5. Good(armed) /\ armed.phase \in {"retrying", "parked"} /\ armed.cohort = cur
        /\ armed.rings = moved.rings
    <3> HIDE DEF moved
    <3> QED BY <2>1, <2>2, Arms, SMTT(20)
  <2>6. progress => ~(b.cohort \subseteq cur)
    BY DEF CohortProgressed
  <2>7. \/ Plan(b, cur) = NoPlan(armed)
        \/ /\ armed.phase # "parked"
           /\ Plan(b, cur) = [bell |-> armed, attempt |-> TRUE, submitOnly |-> armed.confirmed,
                              content |-> content, progress |-> progress]
    BY <1>2 DEF Plan
  <2>8. content \in BOOLEAN /\ progress \in BOOLEAN /\ armed.confirmed \in BOOLEAN
    BY <2>5 DEF Good, IsBell
  <2> HIDE DEF armed, content, progress, moved
  <2>9. CASE Plan(b, cur) = NoPlan(armed)
    BY <1>2, <2>3, <2>4, <2>5, <2>9, SMTT(20) DEF NoPlan
  <2>10. CASE /\ armed.phase # "parked"
              /\ Plan(b, cur) = [bell |-> armed, attempt |-> TRUE, submitOnly |-> armed.confirmed,
                                 content |-> content, progress |-> progress]
    BY <1>2, <2>3, <2>4, <2>5, <2>6, <2>8, <2>10, SMTT(20)
  <2> QED BY <2>7, <2>9, <2>10
<1> QED BY <1>1, <1>2

-----------------------------------------------------------------------------
(* The loop's own record. *)

\* The fields that only the select loop and its checks set.
SameDuty(l, m) ==
  m.had = l.had /\ m.enabled = l.enabled /\ m.watching = l.watching /\ m.old = l.old
    /\ m.debounce = l.debounce

SameTimers(l, m) ==
  m.notify = l.notify /\ m.term = l.term /\ m.scan = l.scan /\ m.deadline = l.deadline

LEMMA Faults ==
  ASSUME NEW l, IsLoop(l)
  PROVE  /\ IsLoop(Fault(l)) /\ SameDuty(l, Fault(l)) /\ SameTimers(l, Fault(l))
         /\ Fault(l).pc = l.pc /\ Fault(l).cont = l.cont /\ Fault(l).why = l.why
  BY DEF IsLoop, Fault, SameDuty, SameTimers

LEMMA Ends ==
  ASSUME NEW l, NEW b, IsLoop(l)
  PROVE  /\ IsLoop(EndDone(l, b)) /\ SameDuty(l, EndDone(l, b))
         /\ EndDone(l, b).pc = l.cont /\ EndDone(l, b).cont = l.cont
         /\ ~EndDone(l, b).notify /\ ~EndDone(l, b).term /\ ~EndDone(l, b).scan
         /\ EndDone(l, b).deadline <=> HasDeadline(b)
<1>1. HasDeadline(b) \in BOOLEAN
  BY DEF HasDeadline
<1>2. EndDone(l, b) = [l EXCEPT !.pc = l.cont, !.notify = FALSE, !.term = FALSE, !.scan = FALSE,
                                !.deadline = HasDeadline(b)]
  BY <1>1 DEF IsLoop, EndDone, ScheduleDeadline
<1> QED BY <1>1, <1>2 DEF IsLoop, SameDuty

LEMMA Stops ==
  ASSUME NEW l, IsLoop(l)
  PROVE  /\ IsLoop(EndHeld(l)) /\ SameDuty(l, EndHeld(l))
         /\ EndHeld(l).pc = l.cont /\ EndHeld(l).cont = l.cont
         /\ EndHeld(l).notify /\ EndHeld(l).term /\ ~EndHeld(l).scan /\ ~EndHeld(l).deadline
         /\ IsLoop(EndScanFailed(l)) /\ SameDuty(l, EndScanFailed(l))
         /\ EndScanFailed(l).pc = l.cont /\ EndScanFailed(l).cont = l.cont
         /\ EndScanFailed(l).notify /\ ~EndScanFailed(l).term /\ EndScanFailed(l).scan
         /\ ~EndScanFailed(l).deadline
         /\ IsLoop(EndFatal(l)) /\ EndFatal(l).pc = "exit" /\ EndFatal(l).cont = l.cont
         /\ SameDuty(l, EndFatal(l)) /\ SameTimers(l, EndFatal(l))
<1>1. /\ IsLoop(EndHeld(l)) /\ SameDuty(l, EndHeld(l))
      /\ EndHeld(l).pc = l.cont /\ EndHeld(l).cont = l.cont
      /\ EndHeld(l).notify /\ EndHeld(l).term /\ ~EndHeld(l).scan /\ ~EndHeld(l).deadline
  BY DEF IsLoop, SameDuty, EndHeld
<1>2. /\ IsLoop(EndScanFailed(l)) /\ SameDuty(l, EndScanFailed(l))
      /\ EndScanFailed(l).pc = l.cont /\ EndScanFailed(l).cont = l.cont
      /\ EndScanFailed(l).notify /\ ~EndScanFailed(l).term /\ EndScanFailed(l).scan
      /\ ~EndScanFailed(l).deadline
  BY DEF IsLoop, SameDuty, EndScanFailed
<1>3. /\ IsLoop(EndFatal(l)) /\ EndFatal(l).pc = "exit" /\ EndFatal(l).cont = l.cont
      /\ SameDuty(l, EndFatal(l)) /\ SameTimers(l, EndFatal(l))
  BY DEF IsLoop, SameDuty, SameTimers, EndFatal
<1> QED BY <1>1, <1>2, <1>3

LEMMA Calls ==
  ASSUME NEW l, NEW c, IsLoop(l)
  PROVE  /\ IsLoop(CallAttempt(l, c)) /\ SameDuty(l, CallAttempt(l, c)) /\ SameTimers(l, CallAttempt(l, c))
         /\ l.term \/ l.scan => CallAttempt(l, c).pc = c /\ CallAttempt(l, c).cont = l.cont
         /\ ~l.term /\ ~l.scan => CallAttempt(l, c).pc = "scan" /\ CallAttempt(l, c).cont = c
  BY DEF IsLoop, SameDuty, SameTimers, CallAttempt

LEMMA CallsHere ==
  ASSUME NEW l, NEW c \in RestPcs, IsLoop(l), l.cont \in RestPcs
  PROVE  /\ IsLoop(CallAttempt(l, c)) /\ CallAttempt(l, c).cont \in RestPcs
         /\ CallAttempt(l, c).pc \in RestPcs \cup {"scan", "exit"}
  BY DEF IsLoop, CallAttempt

LEMMA Schedules ==
  ASSUME NEW l, NEW b, IsLoop(l)
  PROVE  /\ IsLoop(ScheduleDeadline(l, b)) /\ SameDuty(l, ScheduleDeadline(l, b))
         /\ ScheduleDeadline(l, b).pc = l.pc /\ ScheduleDeadline(l, b).cont = l.cont
         /\ ScheduleDeadline(l, b).notify = l.notify /\ ScheduleDeadline(l, b).term = l.term
         /\ ScheduleDeadline(l, b).scan = l.scan
         /\ ScheduleDeadline(l, b).deadline <=> ~l.term /\ ~l.scan /\ HasDeadline(b)
<1>1. HasDeadline(b) \in BOOLEAN
  BY DEF HasDeadline
<1> QED BY <1>1 DEF IsLoop, SameDuty, ScheduleDeadline

LEMMA Enters ==
  ASSUME NEW l, IsLoop(l)
  PROVE  /\ IsLoop(EnterRetained(l)) /\ SameDuty(l, EnterRetained(l))
         /\ EnterRetained(l).pc = "attend" /\ EnterRetained(l).cont = l.cont
         /\ EnterRetained(l).why = "retained" /\ ~EnterRetained(l).notify /\ ~EnterRetained(l).term
         /\ EnterRetained(l).scan = l.scan /\ EnterRetained(l).deadline = l.deadline
  BY DEF IsLoop, SameDuty, EnterRetained

-----------------------------------------------------------------------------
(* Steps of the loop that leave the doorbell and the terminal alone. *)

Others == <<inbox, conf, bell, input, seen, torn, stacked, asked>>

LEMMA Moves ==
  ASSUME LoopInv, UNCHANGED Others, IsLoop(loop'), loop'.cont \in RestPcs,
         baseline' \subseteq baseline \/ loop.pc \in StartPcs,
         \/ loop'.pc \in RestPcs \cup {"scan", "exit"}
         \/ loop.pc \in StartPcs /\ loop'.pc \in StartPcs
  PROVE  LoopInv'
<1> USE DEF LoopInv, Others
<1>1. Shapes'
  BY DEF Shapes, StartPcs, RestPcs
<1>2. Modal'
  BY DEF Modal
<1>3. Stages'
  BY DEF Stages, StartPcs, RestPcs, Ringing
<1>4. Owed'
  <2>1. CASE loop.pc \in StartPcs
    BY <2>1, SMTT(20) DEF Owed, Stages
  <2>2. CASE baseline' \subseteq baseline
    BY <2>2 DEF Owed
  <2> QED BY <2>1, <2>2
<1> QED BY <1>1, <1>2, <1>3, <1>4

\* Startup: the watcher, the backlog, the first attempt.
LEMMA StartKept ==
  ASSUME LoopInv,
         \/ ArmMainWatcher \/ OpenBaselineWatcher \/ SnapshotExisting \/ SettleBaseline
         \/ BaselineLost \/ RearmBeforeAdmission \/ Admit
  PROVE  LoopInv'
<1>1. IsLoop(loop) /\ loop.cont \in RestPcs
  BY DEF LoopInv, Shapes
<1>2. loop.pc \in StartPcs /\ UNCHANGED Others
  BY DEF ArmMainWatcher, OpenBaselineWatcher, SnapshotExisting, SettleBaseline, BaselineLost,
         RearmBeforeAdmission, Admit, LoopAt, StartPcs, Rest, Others
<1>3. IsLoop(loop') /\ loop'.cont \in RestPcs
      /\ (loop'.pc \in RestPcs \cup {"scan", "exit"} \/ loop'.pc \in StartPcs)
  <2>1. CASE ArmMainWatcher \/ OpenBaselineWatcher \/ SnapshotExisting \/ SettleBaseline
    BY <1>1, <2>1 DEF ArmMainWatcher, OpenBaselineWatcher, SnapshotExisting, SettleBaseline, IsLoop, StartPcs
  <2>2. CASE BaselineLost
    <3>1. PICK l : l = [loop EXCEPT !.pc = "bound", !.gap = TRUE, !.fence = {}]
      OBVIOUS
    <3>2. IsLoop(l) /\ l.pc = "bound" /\ l.cont = loop.cont
      BY <1>1, <3>1 DEF IsLoop
    <3> QED BY <1>1, <2>2, <3>1, <3>2, Faults DEF BaselineLost, StartPcs
  <2>3. CASE RearmBeforeAdmission
    BY <1>1, <1>2, <2>3, Faults DEF RearmBeforeAdmission
  <2>4. CASE Admit
    BY <1>1, <2>4, Calls, SMTT(20) DEF Admit, RestPcs
  <2> QED BY <2>1, <2>2, <2>3, <2>4
<1> QED BY <1>2, <1>3, Moves

\* Events and timers.
LEMMA SelectKept ==
  ASSUME LoopInv,
         \/ TakeEvents \/ WatcherFails \/ DebounceFires \/ TerminalRetryFires
         \/ ScanRetryFires \/ DeadlineFires \/ StopSignal
  PROVE  LoopInv'
<1>1. IsLoop(loop) /\ loop.cont \in RestPcs
  BY DEF LoopInv, Shapes
<1>2. loop.pc = "select" /\ UNCHANGED Others /\ baseline' \subseteq baseline
  BY DEF TakeEvents, WatcherFails, DebounceFires, TerminalRetryFires, ScanRetryFires, DeadlineFires,
         StopSignal, LoopAt, Quietly, Ghosts, Others, InvalidateBaseline
<1>3. IsLoop(loop') /\ loop'.cont \in RestPcs /\ loop'.pc \in RestPcs \cup {"scan", "exit"}
  <2>1. CASE TakeEvents
    BY <1>1, <1>2, <2>1 DEF TakeEvents, IsLoop, RestPcs
  <2>2. CASE WatcherFails
    <3>1. PICK l : l = [loop EXCEPT !.watching = FALSE, !.notify = TRUE, !.term = FALSE,
                                    !.scan = TRUE, !.deadline = FALSE]
      OBVIOUS
    <3>2. IsLoop(l) /\ l.pc = loop.pc /\ l.cont = loop.cont
      BY <1>1, <3>1 DEF IsLoop
    <3> QED BY <1>1, <1>2, <2>2, <3>1, <3>2, Faults DEF WatcherFails, RestPcs
  <2>3. CASE DebounceFires
    <3>1. PICK l : l = [loop EXCEPT !.debounce = FALSE]
      OBVIOUS
    <3>2. IsLoop(l) /\ l.pc = loop.pc /\ l.cont = loop.cont
      BY <1>1, <3>1 DEF IsLoop
    <3>3. loop' = CallAttempt(l, "select") \/ loop' = l
      BY <2>3, <3>1 DEF DebounceFires
    <3> QED BY <1>1, <1>2, <3>2, <3>3, CallsHere DEF RestPcs
  <2>4. CASE TerminalRetryFires
    <3>1. PICK l : l = [loop EXCEPT !.term = FALSE]
      OBVIOUS
    <3>2. IsLoop(l) /\ l.pc = loop.pc /\ l.cont = loop.cont
      BY <1>1, <3>1 DEF IsLoop
    <3>3. loop' = CallAttempt(l, "select") \/ loop' = l
      BY <2>4, <3>1 DEF TerminalRetryFires
    <3> QED BY <1>1, <1>2, <3>2, <3>3, CallsHere DEF RestPcs
  <2>5. CASE ScanRetryFires
    <3>1. PICK l : l = [loop EXCEPT !.scan = FALSE, !.watching = TRUE]
      OBVIOUS
    <3>2. PICK m : m = [loop EXCEPT !.notify = TRUE, !.deadline = FALSE]
      OBVIOUS
    <3>3. IsLoop(l) /\ l.pc = loop.pc /\ l.cont = loop.cont /\ IsLoop(m) /\ m.pc = loop.pc /\ m.cont = loop.cont
      BY <1>1, <3>1, <3>2 DEF IsLoop
    <3>4. loop' = CallAttempt(l, "select") \/ loop' = Fault(m)
      BY <2>5, <3>1, <3>2 DEF ScanRetryFires
    <3> QED BY <1>1, <1>2, <3>3, <3>4, CallsHere, Faults, SMTT(20) DEF RestPcs
  <2>6. CASE DeadlineFires
    <3>1. PICK l : l = [loop EXCEPT !.deadline = FALSE]
      OBVIOUS
    <3>2. IsLoop(l) /\ l.pc = loop.pc /\ l.cont = loop.cont
      BY <1>1, <3>1 DEF IsLoop
    <3>3. loop' = CallAttempt(l, "select")
      BY <2>6, <3>1 DEF DeadlineFires
    <3> QED BY <1>1, <1>2, <3>2, <3>3, CallsHere DEF RestPcs
  <2>7. CASE StopSignal
    BY <1>1, <1>2, <2>7, Stops DEF StopSignal
  <2> QED BY <2>1, <2>2, <2>3, <2>4, <2>5, <2>6, <2>7
<1> QED BY <1>2, <1>3, Moves

LEMMA Settles ==
  ASSUME NEW l, NEW b, IsLoop(l)
  PROVE  /\ IsLoop(Settled(l, b)) /\ Settled(l, b).pc = "select" /\ Settled(l, b).cont = l.cont
         /\ Settled(l, b).notify = l.notify /\ Settled(l, b).term = l.term /\ Settled(l, b).scan = l.scan
         /\ Settled(l, b).deadline <=> ~l.term /\ ~l.scan /\ HasDeadline(b)
         /\ Settled(l, b).watching = l.watching /\ Settled(l, b).old = l.old
         /\ Settled(l, b).debounce = l.debounce
<1>1. PICK m : m = [l EXCEPT !.pc = "select", !.had = FALSE, !.enabled = FALSE, !.failed = FALSE]
  OBVIOUS
<1>2. IsLoop(m) /\ m.pc = "select" /\ m.cont = l.cont /\ SameTimers(l, m) /\ m.watching = l.watching
      /\ m.old = l.old /\ m.debounce = l.debounce
  BY <1>1 DEF IsLoop, SameTimers
<1>3. Settled(l, b) = ScheduleDeadline(m, b)
  BY <1>1 DEF Settled
<1> QED BY <1>2, <1>3, Schedules, SMTT(20) DEF SameDuty, SameTimers

\* The maintenance tick, its checks that change nothing but the loop, and the
\* steps that end an attempt before the doorbell is planned.
LEMMA ChecksKept ==
  ASSUME LoopInv,
         \/ Maintain \/ CheckInRecovery \/ CheckOwnerGone
         \/ \E f \in BOOLEAN : CheckHolds(f) \/ ScanFallback(f)
         \/ ScanFails \/ \E out \in {"lost", "pgrp"} : InterruptKey(out)
  PROVE  LoopInv'
<1>1. IsLoop(loop) /\ loop.cont \in RestPcs
  BY DEF LoopInv, Shapes
<1>2. UNCHANGED Others /\ baseline' \subseteq baseline
  BY DEF Maintain, CheckInRecovery, CheckHolds, CheckOwnerGone, ScanFallback, ScanFails, InterruptKey,
         Quietly, Ghosts, World, Others, KeepTombstones
<1>3. IsLoop(loop') /\ loop'.cont \in RestPcs /\ loop'.pc \in RestPcs \cup {"scan", "exit"}
  <2>1. CASE Maintain
    <3>1. PICK l : l = [loop EXCEPT !.had = loop.notify \/ PendingWork,
                                    !.enabled = conf.mode # "none", !.failed = FALSE]
      OBVIOUS
    <3>2. IsLoop(l) /\ l.cont = loop.cont
      BY <1>1, <3>1 DEF IsLoop
    <3>3. IsLoop([l EXCEPT !.pc = "check"]) /\ [l EXCEPT !.pc = "check"].pc = "check"
          /\ [l EXCEPT !.pc = "check"].cont = l.cont
      BY <3>2 DEF IsLoop
    <3>4. loop' = CallAttempt(l, "check") \/ loop' = [l EXCEPT !.pc = "check"]
      BY <2>1, <3>1 DEF Maintain
    <3> QED BY <1>1, <3>2, <3>3, <3>4, CallsHere DEF RestPcs
  <2>2. CASE CheckInRecovery
    <3>1. PICK l : l = [loop EXCEPT !.pc = "select"]
      OBVIOUS
    <3>2. IsLoop(l) /\ l.pc = "select" /\ l.cont = loop.cont
      BY <1>1, <3>1 DEF IsLoop
    <3>3. loop' = ScheduleDeadline(l, bell)
      BY <2>2, <3>1 DEF CheckInRecovery
    <3>4. IsLoop(loop') /\ loop'.pc = l.pc /\ loop'.cont = l.cont
      BY <3>2, <3>3, Schedules
    <3> QED BY <1>1, <3>2, <3>4 DEF RestPcs
  <2>3. CASE CheckOwnerGone
    BY <1>1, <2>3, Stops DEF CheckOwnerGone
  <2>4. ASSUME NEW f \in BOOLEAN, CheckHolds(f)
        PROVE  IsLoop(loop') /\ loop'.cont \in RestPcs /\ loop'.pc \in RestPcs
    <3>1. PICK l : l = IF f THEN Fault(loop) ELSE loop
      OBVIOUS
    <3>2. IsLoop(l) /\ l.cont = loop.cont
      BY <1>1, <3>1, Faults
    <3>3. loop' = [l EXCEPT !.pc = "after", !.enabled = conf.mode # "none", !.failed = f]
      BY <2>4, <3>1 DEF CheckHolds
    <3> QED BY <1>1, <3>2, <3>3 DEF IsLoop, RestPcs
  <2>5. ASSUME NEW f \in BOOLEAN, ScanFallback(f)
        PROVE  IsLoop(loop') /\ loop'.cont \in RestPcs /\ loop'.pc \in RestPcs
    <3>1. PICK l : l = [loop EXCEPT !.notify = FALSE, !.scan = FALSE]
      OBVIOUS
    <3>2. IsLoop(l) /\ l.cont = loop.cont
      BY <1>1, <3>1 DEF IsLoop
    <3>3. PICK m : /\ m = l \/ m = loop \/ m = Fault(loop)
                   /\ loop' = Settled(m, bell)
      BY <2>5, <3>1 DEF ScanFallback
    <3>4. IsLoop(m) /\ m.cont = loop.cont
      BY <1>1, <3>2, <3>3, Faults
    <3> QED BY <1>1, <3>3, <3>4, Settles, SMTT(20) DEF RestPcs
  <2>6. CASE ScanFails
    BY <1>1, <2>6, Stops, Faults, SMTT(20) DEF ScanFails
  <2>7. ASSUME NEW out \in {"lost", "pgrp"}, InterruptKey(out)
        PROVE  IsLoop(loop') /\ loop'.cont \in RestPcs /\ loop'.pc \in RestPcs \cup {"exit"}
    <3>1. PICK l : l = [loop EXCEPT !.scan = FALSE]
      OBVIOUS
    <3>2. IsLoop(l) /\ l.cont = loop.cont
      BY <1>1, <3>1 DEF IsLoop
    <3>3. loop' = Fault(EndFatal(loop)) \/ loop' = Fault(EndHeld(l))
      BY <2>7, <3>1 DEF InterruptKey
    <3>4. PICK m : /\ m = EndFatal(loop) \/ m = EndHeld(l)
                   /\ loop' = Fault(m)
      BY <3>3
    <3>5. IsLoop(m) /\ m.cont = loop.cont /\ m.pc \in RestPcs \cup {"exit"}
      BY <1>1, <3>2, <3>4, Stops, SMTT(20)
    <3> QED BY <1>1, <3>4, <3>5, Faults
  <2> QED BY <2>1, <2>2, <2>3, <2>4, <2>5, <2>6, <2>7
<1> QED BY <1>2, <1>3, Moves

-----------------------------------------------------------------------------
(* The inbox and time. *)

LEMMA Signals ==
  ASSUME NEW n, IsLoop(loop), Signal(n)
  PROVE  /\ IsLoop(loop') /\ SameDuty(loop, loop') /\ SameTimers(loop, loop')
         /\ loop'.pc = loop.pc /\ loop'.cont = loop.cont /\ loop'.why = loop.why /\ loop'.gap = loop.gap
  BY DEF Signal, IsLoop, SameDuty, SameTimers

LEMMA ArriveKept ==
  ASSUME LoopInv, NEW n \in Names, Arrive(n)
  PROVE  LoopInv'
<1> USE DEF LoopInv
<1>1. UNCHANGED <<baseline, conf, bell, input, seen, torn, stacked, asked>> /\ inbox \subseteq inbox'
  BY DEF Arrive
<1>2. IsLoop(loop') /\ loop'.pc = loop.pc /\ loop'.cont = loop.cont /\ loop'.why = loop.why
  BY Signals DEF Arrive, Shapes
<1>3. \A f \in inbox', g \in inbox' : f.name = g.name => f = g
  <2>1. PICK m : m = [name |-> n, gen |-> made[n] + 1]
    OBVIOUS
  <2>2. inbox' = inbox \cup {m} /\ m.name = n
    BY <2>1 DEF Arrive
  <2>3. \A f \in inbox : f.name # n
    BY DEF Arrive, NamesOf
  <2> QED BY <2>2, <2>3 DEF Shapes
<1>4. Shapes'
  BY <1>1, <1>2, <1>3 DEF Shapes
<1>5. Modal'
  BY <1>1 DEF Modal
<1>6. Stages'
  BY <1>1, <1>2 DEF Stages, Ringing
<1>7. Owed'
  BY <1>1 DEF Owed
<1> QED BY <1>4, <1>5, <1>6, <1>7

\* Progress of the agent settles what was owed.
LEMMA DrainKept ==
  ASSUME LoopInv, NEW f, Drain(f)
  PROVE  LoopInv'
<1> USE DEF LoopInv
<1>1. UNCHANGED <<baseline, conf, bell, input, seen, stacked>> /\ inbox' \subseteq inbox
      /\ torn' = FALSE /\ asked' = 0
  BY DEF Drain
<1>2. IsLoop(loop') /\ loop'.pc = loop.pc /\ loop'.cont = loop.cont /\ loop'.why = loop.why
  BY Signals DEF Drain, Shapes
<1>4. Shapes'
  BY <1>1, <1>2 DEF Shapes
<1>5. Modal'
  BY <1>1 DEF Modal
<1>6. Stages'
  BY <1>1, <1>2 DEF Stages, Ringing
<1>7. Owed'
  BY <1>1, SMTT(20) DEF Owed
<1> QED BY <1>4, <1>5, <1>6, <1>7

LEMMA TimeKept ==
  ASSUME LoopInv, TimePasses
  PROVE  LoopInv'
<1> USE DEF LoopInv
<1>1. UNCHANGED <<inbox, baseline, loop, conf, input, seen, torn, stacked, asked>> /\ loop.pc = "select"
  BY DEF TimePasses, LoopAt
<1>2. Good(bell') /\ SameLadder(bell, bell')
  <2>1. Good(bell)
    BY DEF Shapes, Good
  <2>2. CASE bell' = [bell EXCEPT !.floor = "due"]
    BY <2>1, <2>2 DEF Good, IsBell, Climbs, SameLadder
  <2>3. CASE bell' = [bell EXCEPT !.floor = "due", !.next = "due"]
    BY <2>1, <2>3 DEF Good, IsBell, Climbs, SameLadder
  <2>4. CASE bell' = [bell EXCEPT !.next = "due"]
    BY <2>1, <2>4 DEF Good, IsBell, Climbs, SameLadder
  <2>5. CASE bell' = [bell EXCEPT !.transient = "due"]
    BY <2>1, <2>5 DEF Good, IsBell, Climbs, SameLadder
  <2> QED BY <2>2, <2>3, <2>4, <2>5 DEF TimePasses
<1>3. Shapes'
  BY <1>1, <1>2 DEF Shapes, Good
<1>4. Modal'
  BY <1>1, <1>2 DEF Modal, SameLadder
<1>5. Stages'
  BY <1>1 DEF Stages, StartPcs
<1>6. Owed'
  BY <1>1, <1>2 DEF Owed, SameLadder
<1> QED BY <1>3, <1>4, <1>5, <1>6

-----------------------------------------------------------------------------
(* The scan. *)

LEMMA NoInputIs == IsInput(NoInput) /\ NoInput.phase = "idle" /\ ~NoInput.uncertain /\ NoInput.accepted = 0
  BY DEF IsInput, NoInput, InputPhases

\* The recovery flag changes nothing else of the configuration.
LEMMA Recovering ==
  ASSUME NEW c, NEW r \in BOOLEAN, IsConf(c)
  PROVE  LET d == [c EXCEPT !.recovery = r]
         IN  /\ IsConf(d) /\ d.recovery = r /\ d.mode = c.mode /\ d.want = c.want
             /\ d.injected = c.injected /\ d.switched = c.switched /\ d.legacy = c.legacy
  BY DEF IsConf

LEMMA ScanEmptyKept ==
  ASSUME LoopInv, ScanEmpty
  PROVE  LoopInv'
<1> USE DEF LoopInv
<1>1. UNCHANGED <<inbox, torn, stacked, asked>> /\ loop.pc = "scan" /\ Visible = {}
  BY DEF ScanEmpty, World, Ghosts, LoopAt
<1>2. ~torn /\ (asked = 0 \/ conf.injected)
  BY <1>1, SMTT(20) DEF Owed, Visible, Shapes
<1>3. IsLoop(loop) /\ IsConf(conf) /\ IsSeen(seen) /\ loop.cont \in RestPcs /\ asked \in Nat
  BY DEF Shapes
<1>4. IsSeen(seen') /\ seen'.cur = {}
  BY <1>3 DEF ScanEmpty, IsSeen
<1>5. \A f \in inbox', g \in inbox' : f.name = g.name => f = g
  BY <1>1 DEF Shapes
<1>6. CASE conf.recovery
  <2>1. /\ conf' = [conf EXCEPT !.recovery = FALSE] /\ input' = NoInput /\ bell' = Quiet
        /\ loop' = EndDone(loop, Quiet)
    BY <1>6 DEF ScanEmpty
  <2>2. IsLoop(loop') /\ loop'.pc \in RestPcs /\ loop'.cont \in RestPcs
    BY <1>3, <2>1, Ends
  <2>3. Good(bell') /\ bell'.phase = "idle"
    BY <2>1, QuietIsGood
  <2>4. Shapes'
    BY <1>1, <1>3, <1>4, <1>5, <2>1, <2>2, <2>3, Recovering, NoInputIs DEF Shapes, Good, RestPcs
  <2>5. Modal'
    BY <1>1, <1>2, <1>3, <2>1, <2>3, Recovering, NoInputIs DEF Modal
  <2>6. Stages'
    BY <2>2 DEF Stages, RestPcs, StartPcs
  <2>7. Owed'
    BY <1>1, <1>2, <1>3, <2>1, Recovering, SMTT(20) DEF Owed
  <2> QED BY <2>4, <2>5, <2>6, <2>7
<1>7. CASE ~conf.recovery /\ input.uncertain
  BY <1>7 DEF Modal
<1>8. CASE ~conf.recovery /\ ~input.uncertain
  <2>1. bell' = Quiet /\ conf' = conf
    BY <1>8 DEF ScanEmpty
  <2>2. Good(bell') /\ bell'.phase = "idle"
    BY <2>1, QuietIsGood
  <2>3. Owed'
    BY <1>1, <1>2, <1>3, <2>1, SMTT(20) DEF Owed
  <2>4. CASE input.phase \in {"idle", "payload"}
    <3>1. input' = NoInput /\ loop' = EndDone(loop, Quiet)
      BY <1>8, <2>4 DEF ScanEmpty
    <3>2. IsLoop(loop') /\ loop'.pc \in RestPcs /\ loop'.cont \in RestPcs
      BY <1>3, <3>1, Ends
    <3>3. Shapes'
      BY <1>1, <1>3, <1>4, <1>5, <2>1, <2>2, <3>1, <3>2, NoInputIs DEF Shapes, Good, RestPcs
    <3>4. Modal'
      BY <1>1, <1>2, <1>8, <2>1, <2>2, <3>1, NoInputIs DEF Modal
    <3>5. Stages'
      BY <3>2 DEF Stages, RestPcs, StartPcs
    <3> QED BY <2>3, <3>3, <3>4, <3>5
  <2>5. CASE input.phase \notin {"idle", "payload"}
    <3>1. input' = input /\ loop' = [loop EXCEPT !.pc = "write", !.why = "drain"]
      BY <1>8, <2>5 DEF ScanEmpty
    <3>2. IsLoop(loop') /\ loop'.pc = "write" /\ loop'.why = "drain" /\ loop'.cont \in RestPcs
      BY <1>3, <3>1 DEF IsLoop
    <3>3. Shapes'
      BY <1>1, <1>3, <1>4, <1>5, <2>1, <2>2, <3>1, <3>2 DEF Shapes, Good, RestPcs
    <3>4. Modal'
      BY <1>1, <1>2, <1>8, <2>1, <2>2, <3>1 DEF Modal
    <3>5. conf.mode \in RawModes
      <4>1. conf.mode # "none"
        BY <2>5, NoInputIs DEF Modal
      <4>2. conf.want \in RawModes
        BY <2>5 DEF Modal
      <4> QED BY <4>1, <4>2 DEF Modal
    <3>6. Stages'
      BY <1>4, <1>8, <2>1, <2>2, <2>5, <3>1, <3>2, <3>5 DEF Stages, StartPcs
    <3> QED BY <2>3, <3>3, <3>4, <3>6
  <2> QED BY <2>4, <2>5
<1> QED BY <1>6, <1>7, <1>8

LEMMA ScanInRecoveryKept ==
  ASSUME LoopInv, ScanInRecovery
  PROVE  LoopInv'
<1> USE DEF LoopInv
<1>1. /\ UNCHANGED <<inbox, conf, input, torn, stacked, asked>> /\ loop.pc = "scan"
      /\ Visible # {} /\ conf.recovery /\ ~Discharges(Visible) /\ baseline' = KeepTombstones
  BY DEF ScanInRecovery, World, Ghosts, LoopAt
<1>2. IsLoop(loop) /\ IsSeen(seen) /\ loop.cont \in RestPcs /\ Good(bell) /\ bell.phase = "recovery"
  BY <1>1 DEF Shapes, Modal, Good
<1>3. IsSeen(seen')
  BY <1>2 DEF ScanInRecovery, IsSeen
<1>4. baseline' \subseteq baseline /\ Visible \subseteq inbox /\ Visible \cap baseline = {}
  BY <1>1 DEF KeepTombstones, Visible
<1>5. /\ Good(bell') /\ bell'.phase = "recovery" /\ bell'.cohort \in {bell.cohort, Visible}
      /\ IsLoop(loop') /\ loop'.cont \in RestPcs
      /\ loop'.pc \in RestPcs \/ (loop'.pc = "attend" /\ loop'.why = "recovery")
  <2>1. CASE PlanRecovery(bell)
    <3>1. bell' = RecordRecovery(bell, Visible) /\ loop' = Ask("recovery")
      BY <2>1 DEF ScanInRecovery
    <3>2. IsLoop(loop') /\ loop'.cont = loop.cont /\ loop'.pc = "attend" /\ loop'.why = "recovery"
      BY <1>2, <3>1 DEF Ask, IsLoop
    <3> QED BY <1>2, <3>1, <3>2, Recovers, SMTT(20)
  <2>2. CASE ~PlanRecovery(bell)
    <3>1. PICK b : b = [bell EXCEPT !.recovering = TRUE]
      OBVIOUS
    <3>2. bell' = b /\ loop' = EndDone(loop, b)
      BY <2>2, <3>1 DEF ScanInRecovery
    <3>3. Good(b) /\ b.phase = "recovery" /\ b.cohort = bell.cohort
      BY <1>2, <3>1 DEF Good, IsBell, Climbs
    <3> QED BY <1>2, <3>2, <3>3, Ends
  <2> QED BY <2>1, <2>2
<1>6. Shapes'
  BY <1>1, <1>3, <1>5 DEF Shapes, Good, RestPcs
<1>7. Modal'
  BY <1>1, <1>5 DEF Modal
<1>8. Stages'
  BY <1>1, <1>5 DEF Stages, StartPcs, RestPcs
<1>9. Owed'
  BY <1>1, <1>4, <1>5 DEF Owed
<1> QED BY <1>6, <1>7, <1>8, <1>9

\* A payload torn, or a reminder completed, since the last drain means no progress.
LEMMA StillOwed ==
  ASSUME LoopInv, torn \/ (asked > 0 /\ ~conf.injected)
  PROVE  bell.cohort # {} /\ bell.cohort \subseteq Visible /\ ~Discharges(Visible)
  BY DEF LoopInv, Owed, Visible, Discharges, CohortProgressed

LEMMA ScanUnreadKept ==
  ASSUME LoopInv, ScanUnread
  PROVE  LoopInv'
<1> USE DEF LoopInv
<1>1. /\ UNCHANGED <<inbox, torn, stacked, asked>> /\ loop.pc = "scan" /\ Visible # {}
      /\ (conf.recovery => Discharges(Visible)) /\ baseline' = KeepTombstones
  BY DEF ScanUnread, World, Ghosts, LoopAt
<1>2. IsLoop(loop) /\ IsConf(conf) /\ IsSeen(seen) /\ loop.cont \in RestPcs /\ Good(bell) /\ IsInput(input)
      /\ asked \in Nat
  BY DEF Shapes, Good
<1>3. baseline' \subseteq baseline /\ Visible \subseteq inbox /\ Visible \cap baseline = {}
  BY <1>1 DEF KeepTombstones, Visible
<1>4. PICK kept : kept = IF conf.recovery THEN NoInput ELSE input
  OBVIOUS
<1>5. PICK free : free = IF conf.mode = "none" THEN NoInput ELSE kept
  OBVIOUS
<1>6. PICK b : b = IF conf.recovery THEN Quiet ELSE bell
  OBVIOUS
<1>7. PICK plan : plan = Plan(b, Visible)
  OBVIOUS
<1>8. PICK left : left = IF plan.progress /\ free.phase = "payload" /\ ~(plan.attempt /\ plan.progress
                              /\ InputPending(free) /\ free.uncertain) THEN NoInput ELSE free
  OBVIOUS
<1>9. ~kept.uncertain /\ IsInput(kept) /\ (conf.mode = "none" => kept = NoInput)
  BY <1>2, <1>4, NoInputIs DEF Modal
<1>10. ~free.uncertain /\ IsInput(free) /\ free \in {input, NoInput}
  BY <1>4, <1>5, <1>9, NoInputIs
<1>11. /\ Good(b) /\ b.phase # "recovery" /\ (b.phase = "announced" => conf.injected)
       /\ (torn \/ (asked > 0 /\ ~conf.injected) => ~conf.recovery /\ b = bell /\ b.cohort # {} /\ b.cohort \subseteq Visible)
  BY <1>1, <1>2, <1>6, QuietIsGood, StillOwed DEF Modal
<1>12. /\ Good(plan.bell) /\ plan.bell.phase \in {"retrying", "parked", "announced"}
       /\ plan.bell.cohort = Visible
       /\ plan.attempt \in BOOLEAN /\ plan.progress \in BOOLEAN
       /\ plan.submitOnly \in BOOLEAN /\ plan.content \in BOOLEAN
       /\ plan.attempt => plan.bell.phase = "retrying"
       /\ plan.progress => ~(b.cohort \subseteq Visible)
       /\ plan.bell.phase = "announced" => b.phase = "announced"
       /\ b.cohort \subseteq Visible /\ b.cohort # {} /\ b.phase # "announced" => plan.bell.rings = b.rings
  <2>1. \A f \in Visible, g \in Visible : f.name = g.name => f = g
    BY <1>3 DEF Shapes
  <2> QED BY <1>1, <1>7, <1>11, <2>1, Plans, SMTT(20)
<1>13. ~(conf.mode = "none" /\ BlocksDemotion(kept))
  BY <1>9, NoInputIs, SMTT(20) DEF BlocksDemotion, ConfirmedInput
<1>14. /\ conf' = [conf EXCEPT !.recovery = FALSE]
       /\ bell' = plan.bell
       /\ input' = IF plan.attempt THEN left ELSE free
       /\ seen' = [cur |-> Visible, submitOnly |-> plan.submitOnly,
                   content |-> plan.content, retained |-> InputPending(left)]
       /\ loop' = CASE ~plan.attempt -> EndDone(loop, plan.bell)
                    [] plan.attempt /\ plan.progress /\ InputPending(left) ->
                           [loop EXCEPT !.pc = "write", !.why = "drainFirst"]
                    [] OTHER -> [loop EXCEPT !.pc = "deliver"]
  BY <1>4, <1>5, <1>6, <1>7, <1>8, <1>10, <1>13 DEF ScanUnread
<1>15. /\ IsConf(conf') /\ ~conf'.recovery /\ conf'.mode = conf.mode /\ conf'.want = conf.want
       /\ conf'.injected = conf.injected
  BY <1>2, <1>14, Recovering
<1>16. IsSeen(seen') /\ seen'.cur = Visible
  BY <1>12, <1>14, SMTT(20) DEF IsSeen, InputPending
<1>17. IsInput(left) /\ ~left.uncertain /\ left \in {input, NoInput} /\ (plan.progress => left.phase # "payload")
       /\ (left # input => conf.recovery \/ conf.mode = "none" \/ plan.progress)
       /\ (free # input => conf.recovery \/ conf.mode = "none")
  BY <1>4, <1>5, <1>8, <1>10, NoInputIs
<1>18. /\ IsInput(input') /\ ~input'.uncertain /\ input' \in {input, NoInput}
       /\ (conf.mode = "none" => input' = NoInput) /\ (torn => input' = input)
  BY <1>5, <1>8, <1>9, <1>11, <1>12, <1>14, <1>10, <1>17 DEF Modal
<1>19. /\ IsLoop(loop') /\ loop'.cont \in RestPcs
       /\ \/ ~plan.attempt /\ loop'.pc \in RestPcs
          \/ /\ plan.attempt /\ loop'.pc = "write" /\ loop'.why = "drainFirst" /\ input' = left
             /\ left.phase \notin {"idle", "payload"}
          \/ plan.attempt /\ loop'.pc = "deliver"
  <2>1. CASE ~plan.attempt
    BY <1>2, <1>14, <2>1, Ends
  <2>2. CASE plan.attempt /\ plan.progress /\ InputPending(left)
    <3>1. loop' = [loop EXCEPT !.pc = "write", !.why = "drainFirst"]
      BY <1>14, <2>2
    <3> QED BY <1>2, <1>14, <1>17, <2>2, <3>1 DEF IsLoop, InputPending
  <2>3. CASE plan.attempt /\ ~(plan.progress /\ InputPending(left))
    <3>1. loop' = [loop EXCEPT !.pc = "deliver"]
      BY <1>14, <2>3
    <3> QED BY <1>2, <2>3, <3>1 DEF IsLoop
  <2> QED BY <1>12, <2>1, <2>2, <2>3
<1>20. Shapes'
  BY <1>1, <1>12, <1>14, <1>15, <1>16, <1>18, <1>19 DEF Shapes, Good, RestPcs
<1>21. Modal'
  BY <1>1, <1>11, <1>12, <1>14, <1>15, <1>18, NoInputIs DEF Modal
<1>22. Stages'
  <2>1. plan.attempt => Ringing'
    BY <1>1, <1>3, <1>12, <1>14, <1>15, <1>16 DEF Ringing
  <2>2. input'.phase # "idle" => conf'.mode \in RawModes
    BY <1>15, <1>18, NoInputIs DEF Modal
  <2> QED BY <1>15, <1>19, <2>1, <2>2 DEF Stages, StartPcs, RestPcs
<1>23. Owed'
  BY <1>1, <1>2, <1>3, <1>11, <1>12, <1>14, <1>15, <1>18 DEF Owed
<1> QED BY <1>20, <1>21, <1>22, <1>23

-----------------------------------------------------------------------------
(* Delivery. *)

\* Terminal input that the mode allows and whose extent is known.
Settleable(i) ==
  /\ IsInput(i) /\ ~i.uncertain
  /\ i.phase # "idle" => conf.want \in RawModes
  /\ conf.mode = "none" => i = NoInput

\* Where an attempt that is not in recovery may stand after a step.
Stands(l, i) ==
  \/ l.pc \in RestPcs \cup {"exit"}
  \/ l.pc = "deliver" /\ Ringing
  \/ /\ l.pc = "attend" /\ l.why \in {"only", "deferred", "pgrp"} /\ Ringing
     /\ conf.mode # "none" \/ l.why = "only"
  \/ /\ l.pc = "write" /\ l.why \in {"drain", "drainFirst", "flush", "inject"}
     /\ i.phase # "idle" /\ conf.mode \in RawModes
     /\ l.why # "drain" => Ringing
     /\ l.why = "drain" => bell.phase = "idle" /\ seen.cur = {}
     /\ l.why # "inject" => i.phase # "payload"

LEMMA Lasts ==
  ASSUME LoopInv, ~conf.recovery, UNCHANGED <<inbox, baseline, conf, seen, asked>>,
         Good(bell'), SameLadder(bell, bell'), IsLoop(loop'), loop'.cont \in RestPcs,
         Settleable(input'), Stands(loop', input'), torn' \in BOOLEAN, ~stacked',
         torn' => Ringing /\ seen.cur \subseteq inbox /\ input'.phase = "payload" /\ input'.accepted > 0
  PROVE  LoopInv'
<1> USE DEF LoopInv
<1>1. Shapes'
  BY DEF Shapes, Good, Settleable, Stands, RestPcs
<1>2. Modal'
  <2>1. torn' => conf.mode # "none"
    BY NoInputIs DEF Settleable
  <2> QED BY <2>1 DEF Modal, Settleable, SameLadder
<1>3. Stages'
  <2>1. Ringing => Ringing'
    BY DEF Ringing, SameLadder
  <2> QED BY <2>1 DEF Stages, Stands, StartPcs, RestPcs, SameLadder
<1>4. Owed'
  BY DEF Owed, Ringing, SameLadder
<1> QED BY <1>1, <1>2, <1>3, <1>4

\* Recovery is owed from here on, for the cohort of the attempt.
LEMMA Owes ==
  ASSUME LoopInv, ~conf.recovery, conf.mode # "none", UNCHANGED <<inbox, baseline, seen, asked>>,
         conf' = [conf EXCEPT !.recovery = TRUE], Good(bell'), bell'.phase = "recovery",
         IsLoop(loop'), loop'.cont \in RestPcs, loop'.pc = "attend", loop'.why \in {"recovery", "retained"},
         IsInput(input'), input'.phase # "idle" => conf.want \in RawModes, torn' \in BOOLEAN, ~stacked',
         torn' \/ (asked > 0 /\ ~conf.injected) =>
            bell'.cohort # {} /\ bell'.cohort \subseteq inbox /\ bell'.cohort \cap baseline = {}
  PROVE  LoopInv'
<1> USE DEF LoopInv
<1>1. IsConf(conf') /\ conf'.recovery /\ conf'.mode = conf.mode /\ conf'.want = conf.want
      /\ conf'.injected = conf.injected
  BY Recovering DEF Shapes
<1>2. Shapes'
  BY <1>1 DEF Shapes, Good, RestPcs
<1>3. Modal'
  BY <1>1 DEF Modal
<1>4. Stages'
  BY <1>1 DEF Stages, StartPcs
<1>5. Owed'
  BY <1>1 DEF Owed
<1> QED BY <1>2, <1>3, <1>4, <1>5

LEMMA Records ==
  ASSUME LoopInv, Ringing, NEW b, Good(b), SameLadder(bell, b)
  PROVE  /\ Good(RecordInput(b)) /\ RecordInput(b).cohort = seen.cur
         /\ conf.injected => RecordInput(b).phase = "announced"
         /\ ~conf.injected => /\ RecordInput(b).phase \in {"retrying", "parked"}
                              /\ RecordInput(b).rings = bell.rings + 1
<1>1. b.phase = "retrying" /\ b.cohort = seen.cur /\ b.cohort # {} /\ b.rings = bell.rings
  BY DEF Ringing, SameLadder
<1>2. RecordInput(b) = IF conf.injected THEN RecordInjected(seen.cur) ELSE RecordAttempt(b)
  BY <1>1 DEF RecordInput
<1> QED BY <1>1, <1>2, Announces, Attempts, SMTT(20)

\* A delivery that was recorded: the bell after it and what it adds to the count.
LEMMA Accepts ==
  ASSUME LoopInv, Ringing, NEW i, InputAccepted(i)
  PROVE  /\ Good(bell') /\ bell'.cohort = seen.cur
         /\ conf.injected => bell'.phase = "announced"
         /\ ~conf.injected => bell'.phase \in {"retrying", "parked"} /\ bell'.rings = bell.rings + 1
         /\ IsLoop(loop') /\ loop'.pc \in RestPcs /\ loop'.cont \in RestPcs
         /\ asked' = asked \/ (asked' = asked + 1 /\ seen.cur \subseteq inbox)
<1>1. PICK b : b = IF Presented(i) THEN ConfirmPresentation(bell) ELSE bell
  OBVIOUS
<1>2. Good(bell) /\ IsLoop(loop) /\ loop.cont \in RestPcs
  BY DEF LoopInv, Shapes, Good
<1>3. Good(b) /\ SameLadder(bell, b)
  BY <1>1, <1>2, Paces DEF SameLadder
<1>4. bell' = RecordInput(b) /\ loop' = EndDone(loop, RecordInput(b))
      /\ (asked' = asked \/ (asked' = asked + 1 /\ seen.cur \subseteq inbox))
  BY <1>1 DEF InputAccepted
<1>5. IsLoop(loop') /\ loop'.pc \in RestPcs /\ loop'.cont \in RestPcs
  BY <1>2, <1>4, Ends
<1> QED BY <1>3, <1>4, <1>5, Records

LEMMA RecordedKept ==
  ASSUME LoopInv, Ringing, conf.mode # "none", UNCHANGED <<inbox, baseline, conf, seen>>, Settleable(input'),
         Good(bell'), bell'.cohort = seen.cur, conf.injected => bell'.phase = "announced",
         ~conf.injected => bell'.phase \in {"retrying", "parked"} /\ bell'.rings = bell.rings + 1,
         IsLoop(loop'), loop'.pc \in RestPcs, loop'.cont \in RestPcs,
         asked' = asked \/ (asked' = asked + 1 /\ seen.cur \subseteq inbox),
         torn' \in BOOLEAN, ~stacked',
         torn' => seen.cur \subseteq inbox /\ input'.phase = "payload" /\ input'.accepted > 0
  PROVE  LoopInv'
<1> USE DEF LoopInv
<1>1. Shapes'
  BY SMTT(20) DEF Shapes, Good, Settleable, RestPcs
<1>2. Modal'
  BY DEF Modal, Settleable, Ringing
<1>3. Stages'
  BY DEF Stages, StartPcs, RestPcs
<1>4. Owed'
  <2>1. /\ asked \in Nat /\ bell.rings \in Nat /\ LifetimeCap \in Nat
        /\ bell'.rings \in Nat /\ bell'.budget \in Nat /\ bell'.rings <= bell'.budget /\ bell'.budget <= LifetimeCap
    BY BudgetAssumption DEF Shapes, Good, Climbs
  <2>2. ~conf.injected => asked <= bell.rings
    BY <2>1, SMTT(20) DEF Owed, Ringing
  <2>3. torn' \/ (asked' > 0 /\ ~conf.injected) =>
           /\ bell'.cohort # {} /\ bell'.cohort \subseteq inbox /\ bell'.cohort \cap baseline = {}
    BY <2>1 DEF Owed, Ringing
  <2>4. asked' > 0 /\ ~conf.injected => asked' <= bell'.rings /\ asked' <= LifetimeCap
    BY <2>1, <2>2, SMTT(20)
  <2> QED BY <2>3, <2>4 DEF Owed
<1> QED BY <1>1, <1>2, <1>3, <1>4

\* What holds of the input of an attempt that is not in recovery.
LEMMA Underway ==
  ASSUME LoopInv, ~conf.recovery
  PROVE  /\ Settleable(input) /\ IsLoop(loop) /\ loop.cont \in RestPcs /\ Good(bell)
         /\ torn => input.phase = "payload" /\ input.accepted > 0
         /\ torn /\ Ringing => seen.cur \subseteq inbox
         /\ torn \in BOOLEAN /\ ~stacked /\ asked \in Nat
  BY DEF LoopInv, Shapes, Modal, Owed, Settleable, Good, Ringing

LEMMA DeliverAttentionKept ==
  ASSUME LoopInv, DeliverAttention
  PROVE  LoopInv'
<1>1. Ringing /\ ~conf.recovery
  BY DEF LoopInv, Stages, DeliverAttention, LoopAt, Ringing
<1>2. UNCHANGED <<inbox, baseline, conf, bell, input, seen, torn, stacked, asked>> /\ loop' = Ask("only")
  BY DEF DeliverAttention, World, Ghosts
<1>3. IsLoop(loop') /\ loop'.pc = "attend" /\ loop'.why = "only" /\ loop'.cont = loop.cont
  BY <1>1, <1>2, Underway DEF IsLoop, Ask
<1>4. Stands(loop', input')
  BY <1>1, <1>3 DEF Stands
<1>5. SameLadder(bell, bell')
  BY <1>2 DEF SameLadder
<1>6. Settleable(input') /\ Good(bell') /\ loop'.cont \in RestPcs
  BY <1>1, <1>2, <1>3, Underway
<1> QED BY <1>1, <1>2, <1>3, <1>4, <1>5, <1>6, Underway, Lasts

LEMMA DeferInputKept ==
  ASSUME LoopInv, DeferInput
  PROVE  LoopInv'
<1>1. Ringing /\ ~conf.recovery /\ conf.mode # "none"
  BY DEF LoopInv, Stages, DeferInput, LoopAt, Ringing
<1>2. UNCHANGED <<inbox, baseline, conf, input, seen, torn, stacked, asked>>
  BY DEF DeferInput, World, Ghosts
<1>3. Settleable(input')
  BY <1>1, <1>2, Underway
<1>4. CASE TransientDue(bell)
  <2>1. bell' = RecordTransient(bell) /\ loop' = Ask("deferred")
    BY <1>4 DEF DeferInput
  <2>2. IsLoop(loop') /\ loop'.pc = "attend" /\ loop'.why = "deferred" /\ loop'.cont \in RestPcs
    BY <1>1, <2>1, Underway DEF IsLoop, Ask
  <2>3. Stands(loop', input')
    BY <1>1, <2>2 DEF Stands
  <2>4. Good(bell') /\ SameLadder(bell, bell')
    BY <1>1, <2>1, Underway, Paces
  <2> QED BY <1>1, <1>2, <1>3, <2>2, <2>3, <2>4, Underway, Lasts
<1>5. CASE ~TransientDue(bell)
  <2>1. PICK b : b = IF Presented(input) THEN ConfirmPresentation(bell) ELSE bell
    OBVIOUS
  <2>2. Good(b) /\ SameLadder(bell, b)
    BY <1>1, <2>1, Underway, Paces DEF SameLadder
  <2>3. bell' = RecordInput(b) /\ loop' = EndDone(loop, RecordInput(b))
    BY <1>5, <2>1 DEF DeferInput
  <2>4. IsLoop(loop') /\ loop'.pc \in RestPcs /\ loop'.cont \in RestPcs
    BY <1>1, <2>3, Ends, Underway
  <2>5. /\ Good(bell') /\ bell'.cohort = seen.cur /\ (conf.injected => bell'.phase = "announced")
        /\ ~conf.injected => bell'.phase \in {"retrying", "parked"} /\ bell'.rings = bell.rings + 1
    BY <1>1, <2>2, <2>3, Records
  <2> QED BY <1>1, <1>2, <1>3, <2>4, <2>5, Underway, RecordedKept
<1> QED BY <1>4, <1>5

LEMMA DeliverInputKept ==
  ASSUME LoopInv, DeliverInput
  PROVE  LoopInv'
<1>1. Ringing /\ ~conf.recovery /\ conf.mode \in RawModes /\ conf.mode # "none"
  BY DEF LoopInv, Stages, DeliverInput, LoopAt, Ringing, RawModes
<1>2. UNCHANGED <<inbox, baseline, seen, torn, stacked, asked>>
  BY DEF DeliverInput, World, Ghosts
<1>3. ~input.uncertain /\ IsInput(input) /\ Good(bell) /\ IsLoop(loop) /\ loop.cont \in RestPcs
  BY <1>1, Underway DEF Settleable
<1>4. CASE seen.submitOnly /\ InputPending(input) /\ input.text
  <2>1. /\ conf' = [conf EXCEPT !.recovery = TRUE] /\ bell' = RecordRecovery(bell, seen.cur)
        /\ loop' = Ask("recovery") /\ input' = input
    BY <1>4 DEF DeliverInput
  <2>2. IsLoop(loop') /\ loop'.pc = "attend" /\ loop'.why = "recovery" /\ loop'.cont \in RestPcs
    BY <1>3, <2>1 DEF IsLoop, Ask
  <2>3. Good(bell') /\ bell'.phase = "recovery" /\ bell'.cohort = seen.cur
    BY <1>3, <2>1, Recovers
  <2>4. torn' \/ (asked > 0 /\ ~conf.injected) =>
            bell'.cohort # {} /\ bell'.cohort \subseteq inbox /\ bell'.cohort \cap baseline = {}
    BY <1>1, <1>2, <2>3 DEF LoopInv, Owed, Ringing
  <2>5. input'.phase # "idle" => conf.want \in RawModes
    BY <1>1, <2>1, Underway DEF Settleable
  <2> QED BY <1>1, <1>2, <1>3, <2>1, <2>2, <2>3, <2>4, <2>5, Underway, Owes
<1>5. CASE ~(seen.submitOnly /\ InputPending(input) /\ input.text)
  <2>1. /\ UNCHANGED <<conf, bell>>
        /\ loop' = [loop EXCEPT !.pc = "write",
                   !.why = IF ~seen.submitOnly /\ InputPending(input) /\ ~input.text
                           THEN "flush" ELSE "inject"]
        /\ input' = CASE InputPending(input) -> input
                      [] ~InputPending(input) /\ seen.submitOnly -> StartSubmit
                      [] OTHER -> StartPayload(input)
    BY <1>3, <1>5 DEF DeliverInput
  <2>2. /\ IsLoop(loop') /\ loop'.pc = "write" /\ loop'.cont \in RestPcs
        /\ loop'.why \in {"flush", "inject"} /\ (loop'.why = "flush" => InputPending(input) /\ ~input.text)
    BY <1>3, <2>1 DEF IsLoop
  <2>3. conf.want \in RawModes
    BY <1>1 DEF LoopInv, Modal
  <2>4. /\ IsInput(input') /\ ~input'.uncertain /\ input'.phase # "idle"
        /\ InputPending(input) => input' = input
    <3>1. CASE InputPending(input)
      BY <1>3, <2>1, <3>1 DEF InputPending
    <3>2. CASE ~InputPending(input) /\ seen.submitOnly
      <4>1. input' = StartSubmit
        BY <2>1, <3>2
      <4> QED BY <3>2, <4>1 DEF StartSubmit, NoInput, IsInput, InputPhases
    <3>3. CASE ~InputPending(input) /\ ~seen.submitOnly
      <4>1. input' = StartPayload(input)
        BY <2>1, <3>3
      <4>2. input' = [NoInput EXCEPT !.phase = "payload", !.text = TRUE]
        BY <3>3, <4>1 DEF StartPayload
      <4> QED BY <3>3, <4>2 DEF NoInput, IsInput, InputPhases
    <3> QED BY <3>1, <3>2, <3>3
  <2>5. Settleable(input')
    BY <1>1, <2>3, <2>4 DEF Settleable
  <2>6. Stands(loop', input')
    BY <1>1, <1>3, <2>2, <2>4 DEF Stands, IsInput
  <2>7. torn' => Ringing /\ seen.cur \subseteq inbox /\ input'.phase = "payload" /\ input'.accepted > 0
    BY <1>1, <1>2, <2>4, Underway DEF InputPending
  <2>8. Good(bell') /\ SameLadder(bell, bell')
    BY <1>3, <2>1 DEF SameLadder
  <2> QED BY <1>1, <1>2, <2>1, <2>2, <2>5, <2>6, <2>7, <2>8, Underway, Lasts
<1> QED BY <1>4, <1>5

LEMMA DeliverViaKept ==
  ASSUME LoopInv, NEW out \in {"wrote", "unknown", "failed", "stopped", "lost"}, DeliverVia(out)
  PROVE  LoopInv'
<1>1. Ringing /\ ~conf.recovery /\ conf.mode = "via" /\ conf.mode # "none"
  BY DEF LoopInv, Stages, DeliverVia, LoopAt, Ringing
<1>2. UNCHANGED <<inbox, baseline, seen>>
  BY DEF DeliverVia, World
<1>3. /\ Settleable(input) /\ IsInput(input) /\ ~input.uncertain /\ Good(bell) /\ IsLoop(loop)
      /\ loop.cont \in RestPcs /\ ~stacked
  BY <1>1, Underway DEF Settleable
<1>4. input.phase = "idle" /\ ~torn
  <2>1. conf.want = "via"
    BY <1>1 DEF LoopInv, Modal
  <2>2. input.phase = "idle"
    BY <2>1 DEF LoopInv, Modal, RawModes
  <2> QED BY <1>1, <2>2, Underway
<1>5. PICK l : l = IF out = "wrote" THEN loop ELSE Fault(loop)
  OBVIOUS
<1>6. IsLoop(l) /\ l.cont = loop.cont
  BY <1>3, <1>5, Faults
<1>7. CASE out = "unknown"
  <2>1. /\ conf' = [conf EXCEPT !.recovery = TRUE]
        /\ bell' = RecordRecovery(bell, seen.cur)
        /\ loop' = [l EXCEPT !.pc = "attend", !.why = "recovery"]
        /\ input' = [input EXCEPT !.uncertain = TRUE]
        /\ torn' = (torn \/ (~input.uncertain /\ seen.cur \subseteq inbox))
        /\ stacked' = (stacked \/ (torn /\ ~input.uncertain /\ ~seen.submitOnly))
        /\ asked' = asked
    BY <1>3, <1>5, <1>7 DEF DeliverVia
  <2>2. IsLoop(loop') /\ loop'.pc = "attend" /\ loop'.why = "recovery" /\ loop'.cont \in RestPcs
    BY <1>3, <1>6, <2>1 DEF IsLoop
  <2>3. Good(bell') /\ bell'.phase = "recovery" /\ bell'.cohort = seen.cur
    BY <1>3, <2>1, Recovers
  <2>4. torn' \/ (asked > 0 /\ ~conf.injected) =>
            bell'.cohort # {} /\ bell'.cohort \subseteq inbox /\ bell'.cohort \cap baseline = {}
    BY <1>1, <1>4, <2>1, <2>3 DEF LoopInv, Owed, Ringing
  <2>5. IsInput(input') /\ input'.phase = "idle"
    BY <1>3, <1>4, <2>1 DEF IsInput
  <2>6. torn' \in BOOLEAN /\ ~stacked'
    BY <1>3, <1>4, <2>1
  <2> QED BY <1>1, <1>2, <2>1, <2>2, <2>3, <2>4, <2>5, <2>6, Owes
<1>8. CASE out = "wrote"
  <2>1. /\ InputAccepted(input) /\ stacked' = (stacked \/ (torn /\ ~seen.submitOnly))
        /\ UNCHANGED <<conf, input, torn>>
    BY <1>3, <1>8 DEF DeliverVia
  <2>2. /\ Good(bell') /\ bell'.cohort = seen.cur
        /\ conf.injected => bell'.phase = "announced"
        /\ ~conf.injected => bell'.phase \in {"retrying", "parked"} /\ bell'.rings = bell.rings + 1
        /\ IsLoop(loop') /\ loop'.pc \in RestPcs /\ loop'.cont \in RestPcs
        /\ asked' = asked \/ (asked' = asked + 1 /\ seen.cur \subseteq inbox)
    BY <1>1, <2>1, Accepts
  <2>3. Settleable(input') /\ ~torn' /\ torn' \in BOOLEAN /\ ~stacked'
    BY <1>1, <1>3, <1>4, <2>1, Underway
  <2> QED BY <1>1, <1>2, <2>1, <2>2, <2>3, RecordedKept
<1>9. CASE out \in {"lost", "failed", "stopped"}
  <2>1. UNCHANGED <<conf, bell, input, torn, stacked, asked>>
        /\ (loop' = EndFatal(l) \/ loop' = [l EXCEPT !.pc = "attend", !.why = "only"])
    BY <1>3, <1>5, <1>9 DEF DeliverVia, Ghosts
  <2>2. IsLoop(loop') /\ loop'.cont \in RestPcs /\ (loop'.pc = "exit" \/ (loop'.pc = "attend" /\ loop'.why = "only"))
    <3>1. CASE loop' = EndFatal(l)
      BY <1>3, <1>6, <3>1, Stops
    <3>2. CASE loop' = [l EXCEPT !.pc = "attend", !.why = "only"]
      BY <1>3, <1>6, <3>2 DEF IsLoop
    <3> QED BY <2>1, <3>1, <3>2
  <2>3. Stands(loop', input')
    BY <1>1, <2>2 DEF Stands
  <2>4. SameLadder(bell, bell') /\ Good(bell') /\ Settleable(input') /\ ~torn' /\ torn' \in BOOLEAN /\ ~stacked'
    BY <1>1, <1>3, <1>4, <2>1, Underway DEF SameLadder
  <2> QED BY <1>1, <1>2, <2>1, <2>2, <2>3, <2>4, Lasts
<1> QED BY <1>7, <1>8, <1>9

-----------------------------------------------------------------------------
(* Terminal input. *)

LEMMA OutcomeIs ==
  ASSUME NEW i, NEW out \in Outcomes(i)
  PROVE  out.kind \in Chunks /\ out.bytes \in Nat /\ (out.bytes > 0 => out.kind = "short")
<1>1. CASE out \in {[kind |-> k, bytes |-> 0] : k \in Chunks}
  BY <1>1, SMTT(20)
<1>2. CASE out \in {[kind |-> "short", bytes |-> n] : n \in 1 .. (ChunkBytes(i) - i.accepted - 1)}
  BY <1>2, SMTT(20) DEF Chunks
<1> QED BY <1>1, <1>2 DEF Outcomes

\* A failed chunk: what is retained of the input, and how the failure is reported.
LEMMA ChunkFails ==
  ASSUME NEW i, IsInput(i), ~i.uncertain, i.phase # "idle", NEW out \in Outcomes(i), out.kind # "wrote"
  PROVE  /\ IsInput(ChunkFailed(i, out)) /\ ChunkFailed(i, out).phase = i.phase
         /\ ChunkFailed(i, out).accepted = i.accepted + out.bytes
         /\ ChunkFailed(i, out).uncertain <=> out.kind = "unknown"
         /\ ChunkError(i, out) \in {"blocked", "unsupported", "uncertain", "lost", "partial", "none", "pgrp", "refused"}
         /\ ChunkError(i, out) = "uncertain" <=> out.kind = "unknown"
         /\ ChunkError(i, out) = "unsupported" =>
               out.kind = "unsupported" /\ i.phase = "payload" /\ i.accepted = 0
<1>1. out.kind \in Chunks /\ out.bytes \in Nat
  BY OutcomeIs
<1>2. /\ IsInput(ChunkFailed(i, out)) /\ ChunkFailed(i, out).phase = i.phase
      /\ ChunkFailed(i, out).accepted = i.accepted + out.bytes
      /\ ChunkFailed(i, out).uncertain <=> out.kind = "unknown"
  <2>1. PICK n \in Nat, e \in BOOLEAN : n = i.accepted + out.bytes /\ (e <=> out.kind = "unknown")
                                     /\ ChunkFailed(i, out) = [i EXCEPT !.accepted = n, !.uncertain = e]
    <3>1. i.accepted + out.bytes \in Nat
      BY <1>1, SMTT(20) DEF IsInput
    <3>2. (i.uncertain \/ out.kind = "unknown") \in BOOLEAN
      OBVIOUS
    <3> QED BY <3>1, <3>2 DEF ChunkFailed
  <2> QED BY <2>1 DEF IsInput
<1>3. CASE out.kind = "unsupported"
  <2>1. ChunkError(i, out) = IF BlocksDemotion(i) THEN "blocked" ELSE "unsupported"
    BY <1>3 DEF ChunkError
  <2>2. ~BlocksDemotion(i) => i.phase = "payload" /\ i.accepted = 0
    BY SMTT(20) DEF BlocksDemotion, ConfirmedInput, IsInput
  <2> QED BY <1>2, <1>3, <2>1, <2>2
<1>4. CASE out.kind = "unknown"
  BY <1>2, <1>4 DEF ChunkError
<1>5. CASE out.kind = "lost"
  BY <1>2, <1>5 DEF ChunkError
<1>6. CASE out.kind \in {"stopped", "pgrp", "busy", "short"}
  <2>1. ChunkError(i, out) = IF ConfirmedInput(i) \/ out.bytes > 0 THEN "partial"
                             ELSE CASE out.kind = "stopped" -> "none"
                                    [] out.kind = "pgrp" -> "pgrp"
                                    [] OTHER -> "refused"
    BY <1>6 DEF ChunkError
  <2>2. ChunkError(i, out) \in {"partial", "none", "pgrp", "refused"}
    BY <2>1
  <2> QED BY <1>2, <1>6, <2>2
<1> QED BY <1>1, <1>3, <1>4, <1>5, <1>6 DEF Chunks

\* The wake is left with attention output only.
LEMMA DisablesKept ==
  ASSUME LoopInv, Ringing, DisableInput, UNCHANGED <<inbox, baseline, seen>>, ~torn', torn' \in BOOLEAN, ~stacked',
         IsLoop(loop'), loop'.pc = "attend", loop'.why = "only", loop'.cont \in RestPcs, conf.mode \in RawModes
  PROVE  LoopInv'
<1> USE DEF LoopInv
<1>1. bell' = Quiet /\ input' = NoInput /\ asked' = 0 /\ conf' = [conf EXCEPT !.mode = "none", !.legacy = FALSE]
  BY DEF DisableInput, RetireInput
<1>2. IsConf(conf') /\ conf'.mode = "none" /\ conf'.want = conf.want /\ conf'.injected = conf.injected
      /\ ~conf'.recovery
  BY <1>1 DEF Shapes, IsConf, Ringing
<1>3. conf.want \in RawModes
  BY DEF Modal, RawModes
<1>4. Shapes'
  BY <1>1, <1>2, QuietIsGood, NoInputIs DEF Shapes, Good, RestPcs
<1>5. Modal'
  BY <1>1, <1>2, <1>3, QuietIsGood, NoInputIs DEF Modal
<1>6. Stages'
  BY <1>1, <1>2 DEF Stages, StartPcs, Ringing
<1>7. Owed'
  BY <1>1, SMTT(20) DEF Owed
<1> QED BY <1>4, <1>5, <1>6, <1>7

LEMMA WriteStoppedKept ==
  ASSUME LoopInv, loop.pc = "write", NEW out \in Outcomes(input), out.kind # "wrote",
         NEW l, IsLoop(l), l.cont \in RestPcs, l.why = loop.why,
         UNCHANGED <<inbox, baseline, seen>>, ~stacked',
         torn' = (torn \/ (input.phase = "payload" /\ seen.cur \subseteq inbox
                                /\ (out.kind = "unknown" \/ out.bytes > 0))),
         WriteStopped(l, ChunkFailed(input, out), ChunkError(input, out))
  PROVE  LoopInv'
<1>1. /\ ~conf.recovery /\ conf.mode \in RawModes /\ conf.mode # "none" /\ input.phase # "idle"
      /\ l.why \in {"drain", "drainFirst", "flush", "inject"} /\ (l.why # "drain" => Ringing)
      /\ (l.why # "inject" => input.phase # "payload") /\ conf.want \in RawModes
  BY DEF LoopInv, Shapes, Stages, Modal, RawModes
<1>2. /\ Settleable(input) /\ IsInput(input) /\ ~input.uncertain /\ Good(bell) /\ ~stacked /\ torn \in BOOLEAN
      /\ (torn => input.phase = "payload" /\ input.accepted > 0)
  BY <1>1, Underway DEF Settleable
<1>3. PICK i : i = ChunkFailed(input, out)
  OBVIOUS
<1>4. PICK err : err = ChunkError(input, out)
  OBVIOUS
<1>5. WriteStopped(l, i, err)
  BY <1>3, <1>4
<1>6. /\ IsInput(i) /\ i.phase = input.phase /\ i.accepted = input.accepted + out.bytes
      /\ (i.uncertain <=> out.kind = "unknown")
      /\ err \in {"blocked", "unsupported", "uncertain", "lost", "partial", "none", "pgrp", "refused"}
      /\ (err = "uncertain" <=> out.kind = "unknown")
      /\ (err = "unsupported" => out.kind = "unsupported" /\ input.phase = "payload" /\ input.accepted = 0)
      /\ out.bytes \in Nat /\ (out.bytes > 0 => out.kind = "short") /\ input.accepted \in Nat
  BY <1>1, <1>2, <1>3, <1>4, ChunkFails, OutcomeIs DEF IsInput
<1>7. torn' \in BOOLEAN /\ (torn' => Ringing /\ seen.cur \subseteq inbox /\ i.phase = "payload")
      /\ (torn' /\ err # "uncertain" => i.accepted > 0)
  <2>1. torn => Ringing /\ seen.cur \subseteq inbox
    BY <1>1, <1>2, Underway
  <2>2. input.accepted > 0 => i.accepted > 0
    BY <1>6, SMTT(20)
  <2>3. out.bytes > 0 => i.accepted > 0
    BY <1>6, SMTT(20)
  <2> QED BY <1>1, <1>2, <1>6, <2>1, <2>2, <2>3
<1>8. err # "uncertain" => Settleable(i)
  BY <1>1, <1>6 DEF Settleable
<1>9. ASSUME err # "uncertain", UNCHANGED <<conf, bell, asked>>, input' = i,
             \/ loop' = EndHeld(l) \/ loop' = EndFatal(l) \/ loop' = EndDone(l, bell)
      PROVE  LoopInv'
  <2>1. IsLoop(loop') /\ loop'.cont \in RestPcs /\ loop'.pc \in RestPcs \cup {"exit"}
    BY <1>9, Stops, Ends, SMTT(20)
  <2>2. Stands(loop', input') /\ Settleable(input') /\ SameLadder(bell, bell') /\ Good(bell')
    BY <1>2, <1>8, <1>9, <2>1 DEF Stands, SameLadder, Settleable
  <2> QED BY <1>1, <1>7, <1>9, <2>1, <2>2, Lasts
<1>10. CASE l.why \in {"drain", "drainFirst"}
  <2>1. CASE err \in {"partial", "pgrp", "lost", "none", "refused"}
    <3>1. UNCHANGED <<conf, bell, asked>> /\ input' = i
          /\ (loop' = EndHeld(l) \/ loop' = EndFatal(l) \/ loop' = EndDone(l, bell))
      BY <1>5, <1>10, <2>1 DEF WriteStopped
    <3> QED BY <1>9, <2>1, <3>1
  <2>2. CASE err \in {"uncertain", "blocked", "unsupported"}
    <3>1. Degrade(l) /\ input' = i /\ asked' = asked
      BY <1>5, <1>10, <2>2 DEF WriteStopped
    <3>2. PICK m : m = [l EXCEPT !.scan = FALSE]
      OBVIOUS
    <3>3. IsLoop(m) /\ m.cont = l.cont
      BY <3>2 DEF IsLoop
    <3>4. loop' = EnterRetained(m) /\ conf' = [conf EXCEPT !.recovery = TRUE] /\ bell' = RetainRecovery(bell)
      BY <3>1, <3>2 DEF Degrade
    <3>5. IsLoop(loop') /\ loop'.pc = "attend" /\ loop'.why = "retained" /\ loop'.cont \in RestPcs
      BY <3>3, <3>4, Enters
    <3>6. Good(bell') /\ bell'.phase = "recovery" /\ bell'.cohort = bell.cohort
      BY <3>4, Retains
    <3>7. ~torn'
      BY <1>1, <1>6, <1>7, <1>10
    <3>8. torn' \/ (asked > 0 /\ ~conf.injected) =>
              bell'.cohort # {} /\ bell'.cohort \subseteq inbox /\ bell'.cohort \cap baseline = {}
      BY <3>6, <3>7 DEF LoopInv, Owed
    <3> QED BY <1>1, <1>6, <1>7, <3>1, <3>4, <3>5, <3>6, <3>8, Owes
  <2> QED BY <1>6, <2>1, <2>2
<1>11. CASE l.why \in {"flush", "inject"}
  <2>0. Ringing
    BY <1>1, <1>11
  <2>1. CASE err \in {"partial", "lost"}
    <3>1. UNCHANGED <<conf, bell, asked>> /\ input' = i /\ (loop' = EndHeld(l) \/ loop' = EndFatal(l))
      BY <1>5, <1>11, <2>1 DEF WriteStopped
    <3> QED BY <1>9, <2>1, <3>1
  <2>2. CASE err = "pgrp"
    <3>1. /\ IF TransientDue(bell)
             THEN bell' = RecordTransient(bell) /\ loop' = [l EXCEPT !.pc = "attend", !.why = "pgrp"]
             ELSE UNCHANGED bell /\ loop' = EndHeld(l)
          /\ input' = i /\ UNCHANGED <<conf, asked>>
      BY <1>5, <1>11, <2>2 DEF WriteStopped
    <3>2. CASE TransientDue(bell)
      <4>1. IsLoop(loop') /\ loop'.cont \in RestPcs /\ loop'.pc = "attend" /\ loop'.why = "pgrp"
        BY <3>1, <3>2 DEF IsLoop
      <4>2. Stands(loop', input')
        BY <1>1, <2>0, <4>1 DEF Stands
      <4>3. SameLadder(bell, bell') /\ Good(bell') /\ Settleable(input')
        BY <1>2, <1>8, <2>2, <3>1, <3>2, Paces
      <4> QED BY <1>1, <1>7, <2>2, <3>1, <4>1, <4>2, <4>3, Lasts
    <3>3. CASE ~TransientDue(bell)
      BY <1>9, <2>2, <3>1, <3>3
    <3> QED BY <3>2, <3>3
  <2>3. CASE err \in {"none", "refused"}
    <3>1. loop' = [l EXCEPT !.pc = "attend", !.why = "only"] /\ input' = i /\ UNCHANGED <<conf, bell, asked>>
      BY <1>5, <1>11, <2>3 DEF WriteStopped
    <3>2. IsLoop(loop') /\ loop'.cont \in RestPcs /\ loop'.pc = "attend" /\ loop'.why = "only"
      BY <3>1 DEF IsLoop
    <3>3. Stands(loop', input')
      BY <2>0, <3>2 DEF Stands
    <3>4. SameLadder(bell, bell') /\ Good(bell') /\ Settleable(input')
      BY <1>2, <1>8, <2>3, <3>1 DEF SameLadder
    <3> QED BY <1>1, <1>7, <2>3, <3>1, <3>2, <3>3, <3>4, Lasts
  <2>4. CASE err \in {"uncertain", "blocked"}
    <3>1. /\ conf' = [conf EXCEPT !.recovery = TRUE] /\ bell' = RecordRecovery(bell, seen.cur)
          /\ loop' = [l EXCEPT !.pc = "attend", !.why = "recovery"] /\ input' = i /\ asked' = asked
      BY <1>5, <1>11, <2>4 DEF WriteStopped
    <3>2. IsLoop(loop') /\ loop'.cont \in RestPcs /\ loop'.pc = "attend" /\ loop'.why = "recovery"
      BY <3>1 DEF IsLoop
    <3>3. Good(bell') /\ bell'.phase = "recovery" /\ bell'.cohort = seen.cur
      BY <1>2, <3>1, Recovers, SMTT(20)
    <3>4. torn' \/ (asked > 0 /\ ~conf.injected) =>
              bell'.cohort # {} /\ bell'.cohort \subseteq inbox /\ bell'.cohort \cap baseline = {}
      BY <1>7, <2>0, <3>3 DEF LoopInv, Owed, Ringing
    <3> QED BY <1>1, <1>6, <1>7, <3>1, <3>2, <3>3, <3>4, Owes
  <2>5. CASE err = "blocked"
    BY <2>4, <2>5
  <2>6. CASE err = "unsupported"
    <3>1. DisableInput /\ loop' = [l EXCEPT !.pc = "attend", !.why = "only"]
      BY <1>5, <1>11, <2>6 DEF WriteStopped
    <3>2. IsLoop(loop') /\ loop'.cont \in RestPcs /\ loop'.pc = "attend" /\ loop'.why = "only"
      BY <3>1 DEF IsLoop
    <3>3. ~torn'
      BY <1>2, <1>6, <2>6, SMTT(20)
    <3> QED BY <1>1, <1>7, <2>0, <3>1, <3>2, <3>3, DisablesKept
  <2> QED BY <1>6, <2>1, <2>2, <2>3, <2>4, <2>6
<1> QED BY <1>1, <1>10, <1>11

\* A chunk written whole leads to a later phase of the same input, or ends it.
LEMMA Writes ==
  ASSUME NEW i, IsInput(i), ~i.uncertain, i.phase # "idle", ~Queued(i), NEW mode, NEW d
  PROVE  /\ IsInput(ChunkWritten(i, mode, d)) /\ ~ChunkWritten(i, mode, d).uncertain
         /\ ChunkWritten(i, mode, d).phase # "payload"
<1>1. ASSUME NEW p \in InputPhases \ {"payload"}
      PROVE  IsInput(Step(i, p)) /\ ~Step(i, p).uncertain /\ Step(i, p).phase # "payload"
  BY <1>1 DEF IsInput, Step
<1>2. i.phase \in {"payload", "prelude", "submit", "rescue"}
  BY DEF IsInput, InputPhases, Queued
<1>3. CASE i.phase = "payload"
  <2>1. ChunkWritten(i, mode, d) = Step(i, IF mode = "codex" THEN "prelude" ELSE "submit")
    BY <1>3 DEF ChunkWritten, PayloadWritten
  <2> QED BY <1>1, <2>1 DEF InputPhases
<1>4. CASE i.phase = "prelude"
  <2>1. ChunkWritten(i, mode, d) = Step(i, "submit")
    BY <1>4 DEF ChunkWritten
  <2> QED BY <1>1, <2>1 DEF InputPhases
<1>5. CASE i.phase = "submit"
  <2>1. ChunkWritten(i, mode, d) =
          IF mode = "paste" THEN NoInput ELSE Step(i, IF d = "no" THEN "firstQueued" ELSE "rescue")
    BY <1>5 DEF ChunkWritten, SubmitWritten
  <2> QED BY <1>1, <2>1, NoInputIs DEF InputPhases
<1>6. CASE i.phase = "rescue"
  <2>1. ChunkWritten(i, mode, d) = IF d = "no" THEN Step(i, "rescueQueued") ELSE NoInput
    BY <1>6 DEF ChunkWritten, RescueWritten
  <2> QED BY <1>1, <2>1, NoInputIs DEF InputPhases
<1> QED BY <1>2, <1>3, <1>4, <1>5, <1>6

LEMMA QueueDrains ==
  ASSUME NEW i, IsInput(i), ~i.uncertain, Queued(i), NEW d
  PROVE  /\ IsInput(QueueDrained(i, d)) /\ ~QueueDrained(i, d).uncertain
         /\ QueueDrained(i, d).phase # "payload"
  BY NoInputIs DEF QueueDrained, IsInput, Queued, InputPhases

\* What holds while terminal input is written.
LEMMA Writing ==
  ASSUME LoopInv, loop.pc = "write"
  PROVE  /\ ~conf.recovery /\ conf.mode \in RawModes /\ conf.mode # "none" /\ input.phase # "idle"
         /\ loop.why \in {"drain", "drainFirst", "flush", "inject"} /\ (loop.why # "drain" => Ringing)
         /\ (loop.why # "inject" => input.phase # "payload") /\ conf.want \in RawModes
         /\ (loop.why = "drain" => bell.phase = "idle" /\ seen.cur = {})
  BY DEF LoopInv, Shapes, Stages, Modal, RawModes

\* Terminal input moves on to another chunk, or its delivery settles.
LEMMA WriteSettledKept ==
  ASSUME LoopInv, loop.pc = "write", NEW l, IsLoop(l), l.cont \in RestPcs, l.why = loop.why, l.pc = "write",
         NEW i, IsInput(i), ~i.uncertain, i.phase # "payload",
         UNCHANGED <<inbox, baseline, conf, seen>>, ~torn', torn' \in BOOLEAN, ~stacked',
         IF ~InputPending(i) \/ Queued(i) THEN WriteSettled(l, i)
         ELSE loop' = l /\ input' = i /\ UNCHANGED <<bell, rung, asked>>
  PROVE  LoopInv'
<1>1. /\ ~conf.recovery /\ conf.mode \in RawModes /\ conf.mode # "none" /\ input.phase # "idle"
      /\ loop.why \in {"drain", "drainFirst", "flush", "inject"} /\ (loop.why # "drain" => Ringing)
      /\ (loop.why # "inject" => input.phase # "payload") /\ conf.want \in RawModes
      /\ (loop.why = "drain" => bell.phase = "idle" /\ seen.cur = {})
  BY Writing
<1>2. Settleable(i) /\ Good(bell) /\ SameLadder(bell, bell)
  BY <1>1, Underway DEF Settleable, SameLadder
<1>3. CASE ~(~InputPending(i) \/ Queued(i))
  <2>1. loop' = l /\ input' = i /\ UNCHANGED <<bell, rung, asked>>
    BY <1>3
  <2>2. Stands(loop', input')
    BY <1>1, <1>3, <2>1 DEF Stands, InputPending
  <2> QED BY <1>1, <1>2, <2>1, <2>2, Lasts
<1>4. CASE (~InputPending(i) \/ Queued(i)) /\ (l.why = "drain" \/ (l.why = "drainFirst" /\ InputPending(i)))
  <2>1. loop' = EndDone(l, bell) /\ input' = i /\ UNCHANGED <<bell, asked>>
    BY <1>4 DEF WriteSettled
  <2>2. IsLoop(loop') /\ loop'.pc \in RestPcs /\ loop'.cont \in RestPcs
    BY <2>1, Ends
  <2>3. Stands(loop', input')
    BY <2>2 DEF Stands
  <2> QED BY <1>1, <1>2, <2>1, <2>2, <2>3, Lasts
<1>5. CASE (~InputPending(i) \/ Queued(i)) /\ l.why = "drainFirst" /\ ~InputPending(i)
  <2>1. loop' = [l EXCEPT !.pc = "deliver"] /\ input' = i /\ UNCHANGED <<bell, asked>>
    BY <1>5 DEF WriteSettled
  <2>2. IsLoop(loop') /\ loop'.pc = "deliver" /\ loop'.cont \in RestPcs
    BY <2>1 DEF IsLoop
  <2>3. Stands(loop', input')
    BY <1>1, <1>5, <2>2 DEF Stands
  <2> QED BY <1>1, <1>2, <2>1, <2>2, <2>3, Lasts
<1>6. CASE (~InputPending(i) \/ Queued(i)) /\ l.why = "flush" /\ ~InputPending(i)
  <2>1. loop' = [l EXCEPT !.why = "inject"] /\ input' = StartPayload(NoInput) /\ UNCHANGED <<bell, asked>>
    BY <1>6 DEF WriteSettled
  <2>2. IsLoop(loop') /\ loop'.pc = "write" /\ loop'.cont \in RestPcs /\ loop'.why = "inject"
    BY <2>1 DEF IsLoop
  <2>3. IsInput(input') /\ ~input'.uncertain /\ input'.phase = "payload"
    BY <2>1 DEF StartPayload, NoInput, InputPending, IsInput, InputPhases
  <2>4. Stands(loop', input') /\ Settleable(input')
    BY <1>1, <1>6, <2>2, <2>3 DEF Stands, Settleable
  <2> QED BY <1>1, <1>2, <2>1, <2>2, <2>4, Lasts
<1>7. CASE (~InputPending(i) \/ Queued(i)) /\ (l.why = "inject" \/ (l.why = "flush" /\ InputPending(i)))
  <2>1. InputAccepted(i) /\ input' = i
    BY <1>7 DEF WriteSettled
  <2>2. Ringing
    BY <1>1, <1>7
  <2>3. /\ Good(bell') /\ bell'.cohort = seen.cur
        /\ conf.injected => bell'.phase = "announced"
        /\ ~conf.injected => bell'.phase \in {"retrying", "parked"} /\ bell'.rings = bell.rings + 1
        /\ IsLoop(loop') /\ loop'.pc \in RestPcs /\ loop'.cont \in RestPcs
        /\ asked' = asked \/ (asked' = asked + 1 /\ seen.cur \subseteq inbox)
    BY <2>1, <2>2, Accepts
  <2> QED BY <1>1, <1>2, <2>1, <2>2, <2>3, RecordedKept
<1> QED BY <1>1, <1>3, <1>4, <1>5, <1>6, <1>7

LEMMA WriteChunkKept ==
  ASSUME LoopInv, NEW out, NEW d, WriteChunk(out, d)
  PROVE  LoopInv'
<1>1. loop.pc = "write" /\ ~Queued(input) /\ out \in Outcomes(input) /\ UNCHANGED <<inbox, baseline, seen>>
  BY DEF WriteChunk, LoopAt, World
<1>2. ~conf.recovery /\ input.phase # "idle"
  BY <1>1, Writing
<1>3. /\ IsInput(input) /\ ~input.uncertain /\ ~stacked /\ torn \in BOOLEAN /\ IsLoop(loop) /\ loop.cont \in RestPcs
      /\ (torn => input.phase = "payload" /\ input.accepted > 0) /\ input.accepted \in Nat
  BY <1>2, Underway DEF Settleable, IsInput
<1>4. PICK l : l = IF out.kind = "wrote" /\ d = "yes" THEN loop ELSE Fault(loop)
  OBVIOUS
<1>5. IsLoop(l) /\ l.pc = "write" /\ l.why = loop.why /\ l.cont \in RestPcs
  BY <1>1, <1>3, <1>4, Faults
<1>6. ~stacked'
  <2>1. ~(input.phase = "payload" /\ torn /\ input.accepted = 0)
    BY <1>3, SMTT(20)
  <2> QED BY <1>3, <2>1 DEF WriteChunk
<1>7. CASE out.kind = "wrote"
  <2>1. PICK next : next = ChunkWritten(input, conf.want, d)
    OBVIOUS
  <2>2. /\ torn' = (torn /\ ~(input.phase = "payload")) /\ conf' = conf
        /\ IF ~InputPending(next) \/ Queued(next) THEN WriteSettled(l, next)
           ELSE loop' = l /\ input' = next /\ UNCHANGED <<bell, rung, asked>>
    BY <1>4, <1>7, <2>1 DEF WriteChunk
  <2>3. ~torn' /\ torn' \in BOOLEAN
    BY <1>3, <2>2
  <2>4. IsInput(next) /\ ~next.uncertain /\ next.phase # "payload"
    BY <1>1, <1>2, <1>3, <2>1, Writes
  <2> QED BY <1>1, <1>5, <1>6, <2>2, <2>3, <2>4, WriteSettledKept
<1>8. CASE out.kind # "wrote"
  <2>1. /\ torn' = (torn \/ (input.phase = "payload" /\ seen.cur \subseteq inbox
                                  /\ (out.kind = "unknown" \/ out.bytes > 0)))
        /\ WriteStopped(l, ChunkFailed(input, out), ChunkError(input, out))
    BY <1>4, <1>8 DEF WriteChunk
  <2> QED BY <1>1, <1>5, <1>6, <1>8, <2>1, WriteStoppedKept
<1> QED BY <1>7, <1>8

LEMMA WaitQueueKept ==
  ASSUME LoopInv, NEW d, WaitQueue(d)
  PROVE  LoopInv'
<1>1. loop.pc = "write" /\ Queued(input) /\ UNCHANGED <<inbox, baseline, conf, seen, torn, stacked>>
  BY DEF WaitQueue, LoopAt, World
<1>2. ~conf.recovery
  BY <1>1, Writing
<1>3. /\ IsInput(input) /\ ~input.uncertain /\ ~stacked /\ torn \in BOOLEAN /\ IsLoop(loop) /\ loop.cont \in RestPcs
      /\ ~torn
  BY <1>1, <1>2, Underway DEF Settleable, Queued
<1>4. PICK l : l = IF d = "yes" THEN loop ELSE Fault(loop)
  OBVIOUS
<1>5. IsLoop(l) /\ l.pc = "write" /\ l.why = loop.why /\ l.cont \in RestPcs
  BY <1>1, <1>3, <1>4, Faults
<1>6. PICK next : next = QueueDrained(input, d)
  OBVIOUS
<1>7. IF ~InputPending(next) \/ Queued(next) THEN WriteSettled(l, next)
      ELSE loop' = l /\ input' = next /\ UNCHANGED <<bell, rung, asked>>
  BY <1>4, <1>6 DEF WaitQueue
<1>8. IsInput(next) /\ ~next.uncertain /\ next.phase # "payload"
  BY <1>1, <1>3, <1>6, QueueDrains
<1> QED BY <1>1, <1>3, <1>5, <1>7, <1>8, WriteSettledKept

LEMMA AttendKept ==
  ASSUME LoopInv, NEW out \in {"ok", "err", "lost"}, Attend(out)
  PROVE  LoopInv'
<1> USE DEF LoopInv
<1>1. loop.pc = "attend" /\ UNCHANGED <<inbox, baseline, conf, input, seen, torn, stacked, asked>>
  BY DEF Attend, LoopAt, World, Ghosts
<1>2. /\ IsLoop(loop) /\ loop.cont \in RestPcs /\ Good(bell)
      /\ loop.why \in {"only", "deferred", "pgrp", "recovery", "retained"}
  BY <1>1 DEF Shapes, Good
<1>3. PICK l : l = IF out = "ok" THEN loop ELSE Fault(loop)
  OBVIOUS
<1>4. IsLoop(l) /\ l.cont \in RestPcs
  BY <1>2, <1>3, Faults
<1>5. CASE out = "lost"
  <2>1. loop' = EndFatal(l) /\ bell' = bell
    BY <1>3, <1>5 DEF Attend
  <2>2. IsLoop(loop') /\ loop'.pc = "exit" /\ loop'.cont \in RestPcs
    BY <1>4, <2>1, Stops
  <2> QED BY <1>1, <2>1, <2>2, Moves DEF Others
<1>6. CASE out # "lost"
  <2>1. PICK armed : armed = IF bell.cohort = {} THEN ArmBell(bell, seen.cur) ELSE bell
    OBVIOUS
  <2>2. PICK b : b = CASE loop.why = "only" -> RecordAttention(armed)
                       [] loop.why = "deferred" -> RecordDeferred(armed)
                       [] loop.why \in {"recovery", "retained"} /\ out = "ok" -> RecoveryDelivered(bell)
                       [] OTHER -> bell
    OBVIOUS
  <2>3. /\ bell' = b
        /\ loop' = CASE loop.why = "pgrp" -> EndHeld(l)
                     [] loop.why = "retained" -> ScheduleDeadline([l EXCEPT !.pc = l.cont], b)
                     [] OTHER -> EndDone(l, b)
    BY <1>3, <1>6, <2>1, <2>2 DEF Attend
  <2>4. IsLoop(loop') /\ loop'.pc \in RestPcs /\ loop'.cont \in RestPcs
    <3>1. CASE loop.why = "pgrp"
      BY <1>4, <2>3, <3>1, Stops
    <3>2. CASE loop.why = "retained"
      <4>1. PICK m : m = [l EXCEPT !.pc = l.cont]
        OBVIOUS
      <4>2. IsLoop(m) /\ m.pc = l.cont /\ m.cont = l.cont
        BY <1>4, <4>1 DEF IsLoop
      <4>3. loop' = ScheduleDeadline(m, b)
        BY <2>3, <3>2, <4>1
      <4> QED BY <1>4, <4>2, <4>3, Schedules
    <3>3. CASE loop.why \notin {"pgrp", "retained"}
      <4>1. loop' = EndDone(l, b)
        BY <2>3, <3>3
      <4> QED BY <1>4, <4>1, Ends
    <3> QED BY <3>1, <3>2, <3>3
  <2>5. /\ Good(b)
        /\ \/ SameLadder(bell, b)
           \/ b.phase = "retrying" /\ bell = Quiet /\ conf.mode = "none"
    <3>1. CASE loop.why = "only"
      <4>1. b = RecordAttention(armed)
        BY <2>2, <3>1
      <4>2. CASE Ringing
        <5>1. armed = bell
          BY <2>1, <4>2 DEF Ringing
        <5> QED BY <1>2, <4>1, <5>1, Paces
      <4>3. CASE bell = Quiet /\ conf.mode = "none"
        <5>1. Good(armed) /\ armed.phase = "retrying"
          BY <1>2, <2>1, <4>3, QuietIsGood, Arms, SMTT(20)
        <5> QED BY <4>1, <4>3, <5>1, Paces DEF SameLadder
      <4> QED BY <1>1, <3>1, <4>2, <4>3 DEF Stages
    <3>2. CASE loop.why = "deferred"
      <4>1. b = RecordDeferred(armed)
        BY <2>2, <3>2
      <4>2. armed = bell
        BY <1>1, <2>1, <3>2 DEF Stages, Ringing
      <4> QED BY <1>2, <4>1, <4>2, Paces
    <3>3. CASE loop.why \in {"recovery", "retained", "pgrp"}
      <4>1. b = RecoveryDelivered(bell) \/ b = bell
        BY <2>2, <3>3
      <4> QED BY <1>2, <4>1, Paces DEF SameLadder
    <3> QED BY <1>2, <3>1, <3>2, <3>3
  <2>6. Shapes'
    BY <1>1, <2>3, <2>4, <2>5 DEF Shapes, Good, RestPcs
  <2>7. Modal'
    BY <1>1, <2>3, <2>5, QuietIsGood DEF Modal, SameLadder
  <2>8. Stages'
    BY <2>4 DEF Stages, RestPcs, StartPcs
  <2>9. Owed'
    <3>1. CASE SameLadder(bell, b)
      BY <1>1, <2>3, <3>1 DEF Owed, SameLadder
    <3>2. CASE conf.mode = "none"
      BY <1>1, <3>2, SMTT(20) DEF Owed, Modal
    <3> QED BY <2>5, <3>1, <3>2
  <2> QED BY <2>6, <2>7, <2>8, <2>9
<1> QED BY <1>5, <1>6

\* TIOCSTI is gone: a payload on the terminal is owed a recovery notice first.
LEMMA CheckDisabledKept ==
  ASSUME LoopInv, NEW f \in BOOLEAN, CheckDisabled(f)
  PROVE  LoopInv'
<1> USE DEF LoopInv
<1>1. /\ loop.pc = "check" /\ ~conf.recovery /\ conf.mode \in RawModes /\ conf.mode # "none"
      /\ UNCHANGED <<inbox, baseline, seen, torn, stacked>>
  BY DEF CheckDisabled, LoopAt, RawModes
<1>2. IsLoop(loop) /\ loop.cont \in RestPcs /\ IsConf(conf)
  BY DEF Shapes
<1>3. CASE BlocksDemotion(input)
  <2>1. /\ loop' = [EnterRetained(loop) EXCEPT !.cont = "select"]
        /\ conf' = [conf EXCEPT !.recovery = TRUE, !.switched = TRUE]
        /\ bell' = RetainRecovery(bell) /\ UNCHANGED <<input, asked>>
    BY <1>3 DEF CheckDisabled
  <2>2. IsLoop(loop') /\ loop'.pc = "attend" /\ loop'.why = "retained" /\ loop'.cont \in RestPcs
    <3>1. PICK m : m = EnterRetained(loop)
      OBVIOUS
    <3>2. IsLoop(m) /\ m.pc = "attend" /\ m.why = "retained"
      BY <1>2, <3>1, Enters
    <3> QED BY <2>1, <3>1, <3>2 DEF IsLoop, RestPcs
  <2>3. Good(bell') /\ bell'.phase = "recovery" /\ bell'.cohort = bell.cohort
    BY <2>1, Retains
  <2>4. IsConf(conf') /\ conf'.recovery /\ conf'.mode = conf.mode /\ conf'.want = conf.want
        /\ conf'.injected = conf.injected
    BY <1>2, <2>1 DEF IsConf
  <2>5. Shapes'
    BY <1>1, <2>1, <2>2, <2>3, <2>4 DEF Shapes, Good, RestPcs
  <2>6. Modal'
    BY <1>1, <2>1, <2>3, <2>4 DEF Modal
  <2>7. Stages'
    BY <2>2, <2>4 DEF Stages, StartPcs
  <2>8. Owed'
    BY <1>1, <2>1, <2>3, <2>4 DEF Owed
  <2> QED BY <2>5, <2>6, <2>7, <2>8
<1>4. CASE ~BlocksDemotion(input)
  <2>1. /\ loop' = [loop EXCEPT !.pc = "after", !.enabled = TRUE, !.failed = ~f]
        /\ conf' = [conf EXCEPT !.mode = "none", !.legacy = TRUE, !.switched = TRUE]
        /\ bell' = Quiet /\ input' = NoInput /\ asked' = 0
    BY <1>4 DEF CheckDisabled, RetireInput
  <2>2. IsLoop(loop') /\ loop'.pc = "after" /\ loop'.cont \in RestPcs
    BY <1>2, <2>1 DEF IsLoop
  <2>3. IsConf(conf') /\ ~conf'.recovery /\ conf'.mode = "none" /\ conf'.want = conf.want
        /\ conf'.injected = conf.injected /\ conf.want \in RawModes
    BY <1>1, <1>2, <2>1 DEF IsConf, Modal
  <2>4. ~torn'
    BY <1>1, <1>4 DEF Owed, BlocksDemotion, ConfirmedInput
  <2>5. Shapes'
    BY <1>1, <2>1, <2>2, <2>3, QuietIsGood, NoInputIs DEF Shapes, Good, RestPcs
  <2>6. Modal'
    BY <1>1, <2>1, <2>3, <2>4, QuietIsGood, NoInputIs DEF Modal
  <2>7. Stages'
    BY <2>2 DEF Stages, StartPcs
  <2>8. Owed'
    BY <1>1, <2>1, <2>4, SMTT(20) DEF Owed
  <2> QED BY <2>5, <2>6, <2>7, <2>8
<1> QED BY <1>3, <1>4

LEMMA CheckRestoredKept ==
  ASSUME LoopInv, NEW f \in BOOLEAN, CheckRestored(f)
  PROVE  LoopInv'
<1> USE DEF LoopInv
<1>1. /\ loop.pc = "check" /\ ~conf.recovery /\ conf.mode = "none"
      /\ UNCHANGED <<inbox, baseline, input, seen, torn, stacked, asked>>
      /\ conf' = [conf EXCEPT !.mode = conf.want, !.legacy = FALSE]
      /\ bell' = MakeDue(bell)
      /\ loop' = CallAttempt([loop EXCEPT !.enabled = FALSE, !.failed = ~f, !.notify = TRUE], "after")
  BY DEF CheckRestored, LoopAt, Ghosts
<1>2. IsLoop(loop) /\ loop.cont \in RestPcs /\ IsConf(conf) /\ Good(bell)
  BY DEF Shapes, Good
<1>3. PICK l : l = [loop EXCEPT !.enabled = FALSE, !.failed = ~f, !.notify = TRUE]
  OBVIOUS
<1>4. IsLoop(l) /\ l.cont = loop.cont
  BY <1>2, <1>3 DEF IsLoop
<1>5. IsLoop(loop') /\ loop'.cont \in RestPcs /\ loop'.pc \in RestPcs \cup {"scan", "exit"}
  BY <1>1, <1>2, <1>3, <1>4, CallsHere DEF RestPcs
<1>6. Good(bell') /\ SameLadder(bell, bell')
  BY <1>1, <1>2, Paces
<1>7. IsConf(conf') /\ conf'.mode = conf.want /\ conf'.want = conf.want /\ conf'.recovery = conf.recovery
      /\ conf'.injected = conf.injected
  BY <1>1, <1>2 DEF IsConf
<1>8. input = NoInput /\ asked = 0 /\ ~torn
  BY <1>1 DEF Modal
<1>9. Shapes'
  BY <1>1, <1>5, <1>6, <1>7 DEF Shapes, Good, RestPcs
<1>10. Modal'
  BY <1>1, <1>6, <1>7, <1>8, NoInputIs DEF Modal, SameLadder
<1>11. Stages'
  BY <1>5 DEF Stages, StartPcs, RestPcs
<1>12. Owed'
  BY <1>1, <1>8, SMTT(20) DEF Owed
<1> QED BY <1>9, <1>10, <1>11, <1>12

LEMMA AfterCheckKept ==
  ASSUME LoopInv, AfterCheck
  PROVE  LoopInv'
<1> USE DEF LoopInv
<1>1. loop.pc = "after" /\ UNCHANGED <<inbox, baseline, conf, seen, torn, stacked, asked>>
  BY DEF AfterCheck, LoopAt, Ghosts
<1>2. IsLoop(loop) /\ loop.cont \in RestPcs /\ Good(bell)
  BY DEF Shapes, Good
<1>3. PICK b : b = IF conf.mode = "none" /\ loop.enabled THEN Quiet ELSE bell
  OBVIOUS
<1>4. PICK l : l = IF conf.mode = "none" THEN [loop EXCEPT !.term = FALSE] ELSE loop
  OBVIOUS
<1>5. IsLoop(l) /\ l.cont = loop.cont
  BY <1>2, <1>4 DEF IsLoop
<1>6. bell' = b /\ input' = IF conf.mode = "none" THEN NoInput ELSE input
  BY <1>3 DEF AfterCheck
<1>7. input' = input
  BY <1>6 DEF Modal
<1>8. Good(b) /\ (b = bell \/ (conf.mode = "none" /\ b = Quiet))
  BY <1>2, <1>3, QuietIsGood
<1>9. IsLoop(loop') /\ loop'.cont \in RestPcs /\ loop'.pc \in RestPcs \cup {"scan", "exit"}
  <2>1. PICK m1 : m1 = [l EXCEPT !.notify = TRUE]
    OBVIOUS
  <2>2. PICK m2 : m2 = [l EXCEPT !.notify = FALSE]
    OBVIOUS
  <2>3. PICK m3 : m3 = [l EXCEPT !.notify = TRUE, !.pc = "fallback"]
    OBVIOUS
  <2>4. /\ IsLoop(m1) /\ IsLoop(m2) /\ IsLoop(m3) /\ m1.cont = l.cont /\ m2.cont = l.cont /\ m3.cont = l.cont
        /\ m3.pc = "fallback"
    BY <1>5, <2>1, <2>2, <2>3 DEF IsLoop
  <2>5. loop' = m3 \/ loop' = CallAttempt(m1, "fallback") \/ loop' = Settled(m2, b) \/ loop' = Settled(l, b)
    BY <1>3, <1>4, <2>1, <2>2, <2>3 DEF AfterCheck
  <2>6. CASE loop' = m3
    BY <1>2, <1>5, <2>4, <2>6 DEF RestPcs
  <2>7. CASE loop' = CallAttempt(m1, "fallback")
    BY <1>2, <1>5, <2>4, <2>7, CallsHere DEF RestPcs
  <2>8. CASE loop' = Settled(m2, b) \/ loop' = Settled(l, b)
    BY <1>2, <1>5, <2>4, <2>8, Settles, SMTT(20) DEF RestPcs
  <2> QED BY <2>5, <2>6, <2>7, <2>8
<1>10. Shapes'
  BY <1>1, <1>6, <1>7, <1>8, <1>9 DEF Shapes, Good, RestPcs
<1>11. Modal'
  BY <1>1, <1>6, <1>7, <1>8, QuietIsGood DEF Modal
<1>12. Stages'
  BY <1>9 DEF Stages, StartPcs, RestPcs
<1>13. Owed'
  BY <1>1, <1>6, <1>7, <1>8, SMTT(20) DEF Owed, Modal
<1> QED BY <1>10, <1>11, <1>12, <1>13

-----------------------------------------------------------------------------
(* The loop. *)

LEMMA LoopStarts == LoopInit => LoopInv
<1> SUFFICES ASSUME LoopInit PROVE LoopInv
  OBVIOUS
<1>1. PICK m \in Modes, i \in BOOLEAN, b \in BOOLEAN, w \in BOOLEAN :
        conf = [mode |-> m, want |-> m, legacy |-> FALSE, recovery |-> FALSE,
                injected |-> i, backlog |-> b, switched |-> w]
  BY SMTT(20) DEF LoopInit
<1>2. PICK f : loop = [pc |-> "arm", cont |-> "select", why |-> "none", notify |-> FALSE,
                       debounce |-> FALSE, term |-> FALSE, scan |-> FALSE, deadline |-> FALSE,
                       watching |-> FALSE, had |-> FALSE, enabled |-> FALSE, failed |-> FALSE,
                       gap |-> FALSE, fence |-> {}, old |-> {}, faults |-> f]
  BY SMTT(20) DEF LoopInit
<1>3. /\ bell = Quiet /\ input = NoInput /\ torn = FALSE /\ stacked = FALSE /\ asked = 0
      /\ seen = [cur |-> {}, submitOnly |-> FALSE, content |-> FALSE, retained |-> FALSE]
      /\ (conf.injected => conf.mode = "via")
  BY SMTT(20) DEF LoopInit
<1>4. IsLoop(loop) /\ loop.pc = "arm" /\ loop.cont = "select"
  BY <1>2, SMTT(20) DEF IsLoop
<1>5. IsConf(conf) /\ conf.mode = conf.want /\ ~conf.recovery
  BY <1>1, SMTT(20) DEF IsConf
<1>6. IsSeen(seen)
  BY <1>3, SMTT(20) DEF IsSeen
<1>7. \A g \in inbox, h \in inbox : g.name = h.name => g = h
  <2>1. \A g \in inbox : \E n : g = [name |-> n, gen |-> 1]
    BY SMTT(20) DEF LoopInit
  <2> QED BY <2>1, SMTT(20)
<1>8. Shapes
  BY <1>3, <1>4, <1>5, <1>6, <1>7, QuietIsGood, NoInputIs DEF Shapes, Good, StartPcs, RestPcs
<1>9. Modal
  BY <1>3, <1>5, QuietIsGood, NoInputIs DEF Modal
<1>10. Stages
  BY <1>3, <1>4, <1>5 DEF Stages
<1>11. Owed
  BY <1>3, SMTT(20) DEF Owed
<1> QED BY <1>8, <1>9, <1>10, <1>11 DEF LoopInv

LEMMA AttemptKept == LoopInv /\ AttemptNext => LoopInv'
<1> SUFFICES ASSUME LoopInv, AttemptNext PROVE LoopInv'
  OBVIOUS
<1>1. CASE ScanFails \/ \E out \in {"lost", "pgrp"} : InterruptKey(out)
  BY <1>1, ChecksKept
<1>2. CASE ScanEmpty
  BY <1>2, ScanEmptyKept
<1>3. CASE ScanInRecovery
  BY <1>3, ScanInRecoveryKept
<1>4. CASE ScanUnread
  BY <1>4, ScanUnreadKept
<1>5. CASE DeliverAttention
  BY <1>5, DeliverAttentionKept
<1>6. CASE DeferInput
  BY <1>6, DeferInputKept
<1>7. CASE DeliverInput
  BY <1>7, DeliverInputKept
<1>8. CASE \E out \in {"wrote", "unknown", "failed", "stopped", "lost"} : DeliverVia(out)
  BY <1>8, DeliverViaKept
<1>9. CASE \E out \in Outcomes(input), d \in Drained : WriteChunk(out, d)
  BY <1>9, WriteChunkKept
<1>10. CASE \E d \in Drained : WaitQueue(d)
  BY <1>10, WaitQueueKept
<1>11. CASE \E out \in {"ok", "err", "lost"} : Attend(out)
  BY <1>11, AttendKept
<1> QED BY <1>1, <1>2, <1>3, <1>4, <1>5, <1>6, <1>7, <1>8, <1>9, <1>10, <1>11 DEF AttemptNext

LEMMA LoopKept == LoopInv /\ [LoopNext]_wakeLoopVars => LoopInv'
<1> SUFFICES ASSUME LoopInv, [LoopNext]_wakeLoopVars PROVE LoopInv'
  OBVIOUS
<1>1. CASE \E n \in Names : Arrive(n)
  BY <1>1, ArriveKept
<1>2. CASE \E f \in inbox : Drain(f)
  BY <1>2, DrainKept
<1>3. CASE TimePasses
  BY <1>3, TimeKept
<1>4. CASE \/ ArmMainWatcher \/ OpenBaselineWatcher \/ SnapshotExisting \/ SettleBaseline
           \/ BaselineLost \/ RearmBeforeAdmission \/ Admit
  BY <1>4, StartKept
<1>5. CASE \/ TakeEvents \/ WatcherFails \/ DebounceFires \/ TerminalRetryFires
           \/ ScanRetryFires \/ DeadlineFires \/ StopSignal
  BY <1>5, SelectKept
<1>6. CASE AttemptNext
  BY <1>6, AttemptKept
<1>7. CASE MaintainNext
  <2>1. CASE \/ Maintain \/ CheckInRecovery \/ CheckOwnerGone
             \/ \E f \in BOOLEAN : CheckHolds(f) \/ ScanFallback(f)
    BY <2>1, ChecksKept
  <2>2. CASE AfterCheck
    BY <2>2, AfterCheckKept
  <2>3. CASE \E f \in BOOLEAN : CheckDisabled(f)
    BY <2>3, CheckDisabledKept
  <2>4. CASE \E f \in BOOLEAN : CheckRestored(f)
    BY <2>4, CheckRestoredKept
  <2> QED BY <1>7, <2>1, <2>2, <2>3, <2>4 DEF MaintainNext
<1>8. CASE UNCHANGED wakeLoopVars
  <2>1. UNCHANGED <<inbox, baseline, loop, conf, bell, input, seen, torn, stacked, asked>>
    BY <1>8 DEF wakeLoopVars
  <2>2. Shapes' /\ Modal' /\ Stages' /\ Owed'
    BY <2>1, SMTT(20) DEF LoopInv, Shapes, Modal, Stages, Owed, Ringing
  <2> QED BY <2>2 DEF LoopInv
<1> QED BY <1>1, <1>2, <1>3, <1>4, <1>5, <1>6, <1>7, <1>8 DEF LoopNext

\* The ladder of the doorbell, the stage of the attempt and what is owed to the
\* agent agree at every step of the loop.
THEOREM LoopSafe == LoopSpec => []LoopInv
<1>1. LoopInit => LoopInv
  BY LoopStarts
<1>2. LoopInv /\ [LoopNext]_wakeLoopVars => LoopInv'
  BY LoopKept
<1> QED BY <1>1, <1>2, PTL DEF LoopSpec

-----------------------------------------------------------------------------
(* What was sent before input was given up. *)

\* Each time input was given up, at most the lifetime cap had been sent.
Past ==
  /\ earlier.sent \in Nat /\ earlier.givenUp \in Nat
  /\ earlier.sent <= LifetimeCap * earlier.givenUp

Tallied == UNCHANGED earlier \/ earlier' = NoneAsked \/ (RetireInput /\ conf.mode \in RawModes)

LEMMA WriteTallied ==
  ASSUME LoopInv, NEW out, NEW d, WriteChunk(out, d) \/ WaitQueue(d)
  PROVE  Tallied
<1>1. loop.pc = "write" /\ IsLoop(loop) /\ (WriteChunk(out, d) => out \in Outcomes(input))
  BY DEF WriteChunk, WaitQueue, LoopAt, LoopInv, Shapes
<1>2. /\ conf.mode \in RawModes /\ loop.why \in {"drain", "drainFirst", "flush", "inject"}
      /\ IsInput(input) /\ ~input.uncertain /\ input.phase # "idle"
  BY <1>1, Writing, Underway DEF Settleable
<1>3. Fault(loop).why = loop.why
  BY <1>1, Faults
<1>4. ASSUME NEW l, l.why = loop.why, NEW i, WriteSettled(l, i) PROVE UNCHANGED earlier
  BY <1>2, <1>4 DEF WriteSettled, InputAccepted
<1>5. ASSUME NEW l, l.why = loop.why, NEW i, NEW err, WriteStopped(l, i, err),
             err \in {"blocked", "unsupported", "uncertain", "lost", "partial", "none", "pgrp", "refused"}
      PROVE  Tallied
  BY <1>2, <1>5 DEF WriteStopped, DisableInput, RetireInput, Tallied
<1>6. CASE WriteChunk(out, d)
  <2>1. PICK l : l = IF out.kind = "wrote" /\ d = "yes" THEN loop ELSE Fault(loop)
    OBVIOUS
  <2>2. l.why = loop.why
    BY <1>3, <2>1
  <2>3. CASE out.kind = "wrote"
    <3>1. PICK next : next = ChunkWritten(input, conf.want, d)
      OBVIOUS
    <3>2. IF ~InputPending(next) \/ Queued(next) THEN WriteSettled(l, next) ELSE UNCHANGED earlier
      BY <1>6, <2>1, <2>3, <3>1 DEF WriteChunk
    <3> QED BY <1>4, <2>2, <3>2 DEF Tallied
  <2>4. CASE out.kind # "wrote"
    <3>1. WriteStopped(l, ChunkFailed(input, out), ChunkError(input, out))
      BY <1>6, <2>1, <2>4 DEF WriteChunk
    <3>2. ChunkError(input, out) \in {"blocked", "unsupported", "uncertain", "lost", "partial", "none",
                                      "pgrp", "refused"}
      BY <1>1, <1>2, <1>6, <2>4, ChunkFails
    <3> QED BY <1>5, <2>2, <3>1, <3>2
  <2> QED BY <2>3, <2>4
<1>7. CASE WaitQueue(d)
  <2>1. PICK l : l = IF d = "yes" THEN loop ELSE Fault(loop)
    OBVIOUS
  <2>2. PICK next : next = QueueDrained(input, d)
    OBVIOUS
  <2>3. IF ~InputPending(next) \/ Queued(next) THEN WriteSettled(l, next) ELSE UNCHANGED earlier
    BY <1>7, <2>1, <2>2 DEF WaitQueue
  <2>4. l.why = loop.why
    BY <1>3, <2>1
  <2> QED BY <1>4, <2>3, <2>4 DEF Tallied
<1> QED BY <1>6, <1>7

LEMMA StepTallied == LoopInv /\ LoopNext => Tallied
<1> SUFFICES ASSUME LoopInv, LoopNext PROVE Tallied
  OBVIOUS
<1>1. CASE (\E n \in Names : Arrive(n)) \/ (\E f \in inbox : Drain(f)) \/ TimePasses
  BY <1>1 DEF Arrive, Drain, TimePasses, Tallied
<1>2. CASE \/ ArmMainWatcher \/ OpenBaselineWatcher \/ SnapshotExisting \/ SettleBaseline
           \/ BaselineLost \/ RearmBeforeAdmission \/ Admit
  BY <1>2 DEF ArmMainWatcher, OpenBaselineWatcher, SnapshotExisting, SettleBaseline, BaselineLost,
              RearmBeforeAdmission, Admit, Rest, Tallied
<1>3. CASE \/ TakeEvents \/ WatcherFails \/ DebounceFires \/ TerminalRetryFires
           \/ ScanRetryFires \/ DeadlineFires \/ StopSignal
  BY <1>3 DEF TakeEvents, WatcherFails, DebounceFires, TerminalRetryFires, ScanRetryFires,
              DeadlineFires, StopSignal, Quietly, Ghosts, Tallied
<1>4. CASE AttemptNext
  <2>1. CASE \/ ScanFails \/ ScanEmpty \/ ScanInRecovery \/ ScanUnread
             \/ \E out \in {"lost", "pgrp"} : InterruptKey(out)
    BY <2>1 DEF ScanFails, ScanEmpty, ScanInRecovery, ScanUnread, InterruptKey, Ghosts, Tallied
  <2>2. CASE DeliverAttention \/ DeferInput \/ DeliverInput
    BY <2>2 DEF DeliverAttention, DeferInput, DeliverInput, Ghosts, Tallied
  <2>3. ASSUME NEW out \in {"wrote", "unknown", "failed", "stopped", "lost"}, DeliverVia(out) PROVE Tallied
    BY <2>3 DEF DeliverVia, InputAccepted, Ghosts, Tallied
  <2>4. CASE \E out \in Outcomes(input), d \in Drained : WriteChunk(out, d)
    BY <2>4, WriteTallied
  <2>5. CASE \E d \in Drained : WaitQueue(d)
    BY <2>5, WriteTallied
  <2>6. CASE \E out \in {"ok", "err", "lost"} : Attend(out)
    BY <2>6 DEF Attend, Ghosts, Tallied
  <2> QED BY <1>4, <2>1, <2>2, <2>3, <2>4, <2>5, <2>6 DEF AttemptNext
<1>5. CASE MaintainNext
  <2>1. CASE Maintain \/ CheckInRecovery \/ CheckOwnerGone \/ AfterCheck
    BY <2>1 DEF Maintain, CheckInRecovery, CheckOwnerGone, AfterCheck, Quietly, Ghosts, Tallied
  <2>2. ASSUME NEW f \in BOOLEAN, CheckHolds(f) \/ CheckRestored(f) \/ ScanFallback(f) PROVE Tallied
    BY <2>2 DEF CheckHolds, CheckRestored, ScanFallback, Quietly, Ghosts, Tallied
  <2>3. ASSUME NEW f \in BOOLEAN, CheckDisabled(f) PROVE Tallied
    BY <2>3 DEF CheckDisabled, Tallied, RawModes
  <2> QED BY <1>5, <2>1, <2>2, <2>3 DEF MaintainNext
<1> QED BY <1>1, <1>2, <1>3, <1>4, <1>5 DEF LoopNext

LEMMA PastKept == LoopInv /\ Past /\ [LoopNext]_wakeLoopVars => Past'
<1> SUFFICES ASSUME LoopInv, Past, [LoopNext]_wakeLoopVars PROVE Past'
  OBVIOUS
<1>1. LifetimeCap \in Nat /\ asked \in Nat
  BY BudgetAssumption DEF LoopInv, Shapes
<1>2. Tallied
  BY StepTallied DEF wakeLoopVars, Tallied
<1>3. CASE UNCHANGED earlier
  BY <1>3 DEF Past
<1>4. CASE earlier' = NoneAsked
  BY <1>1, <1>4, SMTT(20) DEF NoneAsked, Past
<1>5. CASE RetireInput /\ conf.mode \in RawModes
  <2>1. ~conf.injected
    BY <1>5 DEF LoopInv, Modal, RawModes
  <2>2. asked <= LifetimeCap
    BY <1>1, <2>1, SMTT(20) DEF LoopInv, Owed
  <2>3. earlier'.sent = earlier.sent + asked /\ earlier'.givenUp = earlier.givenUp + 1
    BY <1>5 DEF RetireInput
  <2>4. LifetimeCap * (earlier.givenUp + 1) = LifetimeCap * earlier.givenUp + LifetimeCap
    BY <1>1, SMTT(20) DEF Past
  <2>5. LifetimeCap * earlier.givenUp \in Nat
    BY <1>1, SMTT(20) DEF Past
  <2> QED BY <1>1, <2>2, <2>3, <2>4, <2>5, SMTT(20) DEF Past
<1> QED BY <1>2, <1>3, <1>4, <1>5 DEF Tallied

\* Between two messages the agent drains, it is sent at most the lifetime cap of
\* reminders as terminal input for each time input was on: the count starts over
\* only where the wake gave terminal input up and took it up again.
THEOREM FiniteRemindersHolds == LoopSpec => []FiniteReminders
<1>1. LoopInit => Past
  BY BudgetAssumption, SMTT(20) DEF LoopInit, NoneAsked, Past
<1>2. LoopInv /\ Past => FiniteReminders
  <2> SUFFICES ASSUME LoopInv, Past, ~conf.injected
               PROVE  asked + earlier.sent <= LifetimeCap * (1 + earlier.givenUp)
    BY DEF FiniteReminders
  <2>1. asked \in Nat /\ LifetimeCap \in Nat
    BY BudgetAssumption DEF LoopInv, Shapes
  <2>2. asked <= LifetimeCap
    BY <2>1, SMTT(20) DEF LoopInv, Owed
  <2>3. LifetimeCap * (1 + earlier.givenUp) = LifetimeCap * earlier.givenUp + LifetimeCap
    BY <2>1, SMTT(20) DEF Past
  <2>4. LifetimeCap * earlier.givenUp \in Nat
    BY <2>1, SMTT(20) DEF Past
  <2> QED BY <2>1, <2>2, <2>3, <2>4, SMTT(20) DEF Past
<1>3. LoopInv /\ Past /\ [LoopNext]_wakeLoopVars => Past'
  BY PastKept
<1> QED BY <1>1, <1>2, <1>3, LoopSafe, PTL DEF LoopSpec

\* No payload is begun while the agent has drained nothing since an earlier one was
\* written in part, or was reported as of unknown effect by who wrote it.
THEOREM NoStackedPayloadHolds == LoopSpec => []NoStackedPayload
<1>1. LoopInv => NoStackedPayload
  BY DEF LoopInv, Owed, NoStackedPayload
<1> QED BY <1>1, LoopSafe, PTL

=============================================================================
