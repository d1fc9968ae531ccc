---------------------------- MODULE ArrivalProofs ----------------------------
(***************************************************************************)
(* Proof that a waiting wake has missed no message that arrived in its      *)
(* inbox: whatever it neither had nor rang for is announced by an event, a  *)
(* timer or the scan it is about to make.                                   *)
(***************************************************************************)
EXTENDS LoopProofs

\* A leaf that names no prover is Zenon's.
USE ZenonT(60)

-----------------------------------------------------------------------------
(* Arrivals. *)

AttemptPcs == {"scan", "deliver", "write", "attend"}

Missed == inbox \ (loop.old \cup rung \cup bell.cohort)
Unheard == {f \in Missed : f.name \notin events}

\* Something besides an event will make the loop scan.
Held ==
  \/ loop.notify /\ (loop.debounce \/ loop.term)
  \/ loop.scan \/ conf.recovery \/ bell.phase = "retrying"

\* The demotion under way moves pending work to attention output.
Demoting == conf.mode = "none" /\ loop.enabled

Boundary ==
  /\ loop.pc \in {"arm", "bound", "snapshot"} => baseline = {}
  /\ loop.pc \in {"snapshot", "settle"} /\ ~loop.gap =>
        \A f \in inbox \cup baseline : f \in loop.old \/ f.name \in loop.fence
  /\ loop.pc \in RestPcs \cup AttemptPcs \cup {"admit"} =>
        baseline \subseteq loop.old

Timers ==
  /\ ~(loop.term /\ loop.scan)
  /\ loop.deadline => ~loop.term /\ ~loop.scan
  /\ loop.pc \in StartPcs \cup {"scan", "deliver", "write"} => ~loop.term /\ ~loop.scan
  /\ loop.pc = "attend" /\ loop.why # "retained" => ~loop.term /\ ~loop.scan
  /\ conf.recovery => ~loop.term
  /\ loop.pc = "select" /\ conf.recovery => loop.scan \/ loop.deadline
  /\ conf.mode = "none" /\ loop.term => loop.pc \in {"after", "exit"} /\ loop.enabled
  /\ bell.phase = "parked" => bell.cohort \subseteq rung

Duties ==
  /\ loop.pc = "check" /\ ~loop.had => ~loop.notify /\ bell.phase # "retrying"
  /\ loop.pc \in AttemptPcs =>
        /\ loop.cont = "check" => loop.had
        /\ loop.cont = "after" => ~loop.enabled
  /\ loop.pc = "after" /\ Demoting => bell = Quiet /\ (loop.had \/ ~loop.notify)

Covered ==
  loop.watching =>
    /\ loop.pc \in {"select", "check", "fallback"} /\ ~Held => Unheard = {}
    /\ loop.pc = "after" /\ ~Held /\ ~(Demoting /\ loop.had) => Unheard = {}
    /\ loop.pc \in {"deliver", "write"} => Unheard \subseteq seen.cur
    /\ loop.pc = "attend" /\ loop.why \in {"only", "deferred", "pgrp"} => Unheard \subseteq seen.cur

ArrivalInv == Boundary /\ Timers /\ Duties /\ Covered

-----------------------------------------------------------------------------
(* How a step bears on the arrivals it leaves to be heard of. *)

LEMMA LessUnheard ==
  ASSUME UNCHANGED <<inbox, events>>, loop'.old = loop.old, rung \subseteq rung', bell.cohort \subseteq bell'.cohort
  PROVE  Unheard' \subseteq Unheard
  BY DEF Unheard, Missed

\* An attempt that has ended: a timer is set, or everything scanned was heard of.
LEMMA Done ==
  ASSUME LoopInv, ArrivalInv, LoopInv', loop.pc \in AttemptPcs, loop'.pc = loop.cont, SameDuty(loop, loop'),
         ~loop'.term, loop'.deadline => ~loop'.scan, conf'.recovery => loop'.scan \/ loop'.deadline,
         baseline' \subseteq baseline, bell'.phase = "parked" => bell'.cohort \subseteq rung',
         loop.watching /\ ~loop'.scan /\ ~conf'.recovery /\ bell'.phase # "retrying" => Unheard' = {}
  PROVE  ArrivalInv'
<1> USE DEF ArrivalInv
<1>1. loop'.pc \in RestPcs
  BY DEF LoopInv, Shapes
<1>2. Boundary'
  BY <1>1 DEF Boundary, RestPcs, SameDuty
<1>3. Timers'
  BY <1>1 DEF Timers, RestPcs, StartPcs
<1>4. Duties'
  BY <1>1 DEF Duties, RestPcs, AttemptPcs, SameDuty, Demoting
<1>5. Covered'
  BY <1>1 DEF Covered, RestPcs, Held, SameDuty
<1> QED BY <1>2, <1>3, <1>4, <1>5

\* An attempt that is held: the terminal retry is armed.
LEMMA HeldOn ==
  ASSUME LoopInv, ArrivalInv, LoopInv', loop.pc \in AttemptPcs, loop'.pc = loop.cont, SameDuty(loop, loop'),
         loop'.notify, loop'.term, ~loop'.scan, ~loop'.deadline, ~conf'.recovery, conf'.mode # "none",
         baseline' \subseteq baseline, bell'.phase = "parked" => bell'.cohort \subseteq rung'
  PROVE  ArrivalInv'
<1> USE DEF ArrivalInv
<1>1. loop'.pc \in RestPcs
  BY DEF LoopInv, Shapes
<1>2. Boundary'
  BY <1>1 DEF Boundary, RestPcs, SameDuty
<1>3. Timers'
  BY <1>1 DEF Timers, RestPcs, StartPcs
<1>4. Duties'
  BY <1>1 DEF Duties, RestPcs, AttemptPcs, SameDuty, Demoting
<1>5. Covered'
  BY <1>1 DEF Covered, RestPcs, Held, SameDuty
<1> QED BY <1>2, <1>3, <1>4, <1>5

\* The loop has ended.
LEMMA Gone ==
  ASSUME ArrivalInv, loop'.pc = "exit", SameTimers(loop, loop'), UNCHANGED <<conf, bell, rung>>,
         loop.pc \notin {"after", "exit"}
  PROVE  ArrivalInv'
<1> USE DEF ArrivalInv
<1>1. Boundary' /\ Duties' /\ Covered'
  BY DEF Boundary, Duties, Covered, RestPcs, AttemptPcs
<1>2. Timers'
  BY DEF Timers, SameTimers, StartPcs
<1> QED BY <1>1, <1>2

\* An attempt goes on.
LEMMA GoesOn ==
  ASSUME LoopInv, ArrivalInv, LoopInv', loop.pc \in AttemptPcs, loop'.pc \in {"deliver", "write", "attend"},
         SameDuty(loop, loop'), loop'.cont = loop.cont,
         ~loop'.term, loop'.scan => loop'.pc = "attend" /\ loop'.why = "retained", loop'.deadline => ~loop'.scan,
         baseline' \subseteq baseline, bell'.phase = "parked" => bell'.cohort \subseteq rung',
         loop.watching /\ (loop'.pc = "attend" => loop'.why \in {"only", "deferred", "pgrp"}) =>
            Unheard' \subseteq seen'.cur
  PROVE  ArrivalInv'
<1> USE DEF ArrivalInv
<1>1. Boundary'
  BY DEF Boundary, RestPcs, AttemptPcs, SameDuty
<1>2. Timers'
  BY DEF Timers, RestPcs, StartPcs
<1>3. Duties'
  BY DEF Duties, RestPcs, AttemptPcs, SameDuty
<1>4. Covered'
  BY DEF Covered, RestPcs, SameDuty
<1> QED BY <1>1, <1>2, <1>3, <1>4

-----------------------------------------------------------------------------
(* Arrivals, startup and the select loop. *)

LEMMA ArriveHeard ==
  ASSUME LoopInv, ArrivalInv, LoopInv', NEW n \in Names, Arrive(n)
  PROVE  ArrivalInv'
<1> USE DEF ArrivalInv
<1>1. /\ IsLoop(loop') /\ SameDuty(loop, loop') /\ SameTimers(loop, loop')
      /\ loop'.pc = loop.pc /\ loop'.cont = loop.cont /\ loop'.why = loop.why /\ loop'.gap = loop.gap
  BY Signals DEF Arrive, LoopInv, Shapes
<1>2. PICK m : m = [name |-> n, gen |-> made[n] + 1]
  OBVIOUS
<1>3. /\ inbox' = inbox \cup {m} /\ m.name = n /\ UNCHANGED <<baseline, conf, bell, input, seen, rung>>
      /\ events' = IF loop.watching THEN events \cup {n} ELSE events
  BY <1>2 DEF Arrive, Signal
<1>4. loop'.fence = IF loop.pc \in {"snapshot", "settle"} THEN loop.fence \cup {n} ELSE loop.fence
  BY DEF Arrive, Signal, LoopInv, Shapes, IsLoop
<1>5. Boundary'
  BY <1>1, <1>3, <1>4 DEF Boundary, SameDuty
<1>6. Timers'
  BY <1>1, <1>3 DEF Timers, SameDuty, SameTimers
<1>7. Duties'
  BY <1>1, <1>3 DEF Duties, Demoting, SameDuty, SameTimers
<1>8. loop.watching => Unheard' \subseteq Unheard
  BY <1>1, <1>3 DEF Unheard, Missed, SameDuty
<1>9. Covered'
  BY <1>1, <1>3, <1>8 DEF Covered, Held, Demoting, SameDuty, SameTimers
<1> QED BY <1>5, <1>6, <1>7, <1>9

LEMMA DrainHeard ==
  ASSUME LoopInv, ArrivalInv, LoopInv', NEW f, Drain(f)
  PROVE  ArrivalInv'
<1> USE DEF ArrivalInv
<1>1. /\ IsLoop(loop') /\ SameDuty(loop, loop') /\ SameTimers(loop, loop')
      /\ loop'.pc = loop.pc /\ loop'.cont = loop.cont /\ loop'.why = loop.why /\ loop'.gap = loop.gap
  BY Signals DEF Drain, LoopInv, Shapes
<1>3. /\ inbox' \subseteq inbox /\ UNCHANGED <<baseline, conf, bell, input, seen, rung>>
      /\ events \subseteq events'
  BY DEF Drain, Signal
<1>4. loop.fence \subseteq loop'.fence
  BY DEF Drain, Signal, LoopInv, Shapes, IsLoop
<1>5. Boundary'
  BY <1>1, <1>3, <1>4 DEF Boundary, SameDuty
<1>6. Timers'
  BY <1>1, <1>3 DEF Timers, SameDuty, SameTimers
<1>7. Duties'
  BY <1>1, <1>3 DEF Duties, Demoting, SameDuty, SameTimers
<1>8. Unheard' \subseteq Unheard
  BY <1>1, <1>3 DEF Unheard, Missed, SameDuty
<1>9. Covered'
  BY <1>1, <1>3, <1>8 DEF Covered, Held, Demoting, SameDuty, SameTimers
<1> QED BY <1>5, <1>6, <1>7, <1>9

LEMMA TimeHeard ==
  ASSUME LoopInv, ArrivalInv, LoopInv', TimePasses
  PROVE  ArrivalInv'
<1> USE DEF ArrivalInv
<1>1. UNCHANGED <<inbox, events, baseline, loop, conf, input, seen, rung>> /\ loop.pc = "select"
  BY DEF TimePasses, LoopAt
<1>2. bell'.phase = bell.phase /\ bell'.cohort = bell.cohort
  BY DEF TimePasses, LoopInv, Shapes, IsBell
<1>3. Boundary' /\ Timers'
  BY <1>1, <1>2 DEF Boundary, Timers
<1>4. Duties'
  BY <1>1 DEF Duties, AttemptPcs
<1>5. Unheard' = Unheard
  BY <1>1, <1>2 DEF Unheard, Missed
<1>6. Covered'
  BY <1>1, <1>2, <1>5 DEF Covered, Held
<1> QED BY <1>3, <1>4, <1>6

LEMMA StartHeard ==
  ASSUME LoopInv, ArrivalInv, LoopInv',
         \/ ArmMainWatcher \/ OpenBaselineWatcher \/ SnapshotExisting \/ SettleBaseline
         \/ BaselineLost \/ RearmBeforeAdmission
  PROVE  ArrivalInv'
<1> USE DEF ArrivalInv
<1>1. IsLoop(loop) /\ loop.pc \in StartPcs /\ UNCHANGED <<inbox, conf, bell, rung>> /\ bell.phase = "idle"
  BY QuietIsGood DEF LoopInv, Shapes, Stages, ArmMainWatcher, OpenBaselineWatcher, SnapshotExisting,
     SettleBaseline, BaselineLost, RearmBeforeAdmission, LoopAt, StartPcs, Rest
<1>2. SameTimers(loop, loop') /\ loop'.pc \in StartPcs /\ Boundary'
  <2>1. CASE ArmMainWatcher
    <3>1. /\ IsLoop(loop') /\ SameTimers(loop, loop') /\ loop'.pc \in {"bound", "admit"} /\ loop.pc = "arm"
          /\ baseline' = baseline
      BY <1>1, <2>1 DEF ArmMainWatcher, IsLoop, SameTimers, LoopAt
    <3> QED BY <3>1 DEF Boundary, StartPcs, RestPcs, AttemptPcs
  <2>2. CASE OpenBaselineWatcher
    <3>1. /\ SameTimers(loop, loop') /\ loop'.pc = "snapshot" /\ loop.pc = "bound"
          /\ baseline' = baseline /\ loop'.gap = loop.gap /\ loop'.old = IF loop.gap THEN loop.old ELSE inbox
      BY <1>1, <2>2 DEF OpenBaselineWatcher, IsLoop, SameTimers, LoopAt
    <3> QED BY <1>1, <3>1 DEF Boundary, StartPcs, RestPcs, AttemptPcs
  <2>3. CASE SnapshotExisting
    <3>1. /\ SameTimers(loop, loop') /\ loop'.pc = "settle" /\ loop.pc = "snapshot"
          /\ baseline' = inbox /\ loop'.gap = loop.gap /\ loop'.old = loop.old /\ loop'.fence = loop.fence
      BY <1>1, <2>3 DEF SnapshotExisting, IsLoop, SameTimers, LoopAt
    <3> QED BY <1>1, <3>1 DEF Boundary, StartPcs, RestPcs, AttemptPcs
  <2>4. CASE SettleBaseline
    <3>1. /\ SameTimers(loop, loop') /\ loop'.pc = "admit" /\ loop.pc = "settle" /\ loop'.old = loop.old
          /\ baseline' = IF loop.gap THEN {} ELSE {f \in baseline : f.name \notin loop.fence}
      BY <1>1, <2>4 DEF SettleBaseline, InvalidateBaseline, IsLoop, SameTimers, LoopAt
    <3> QED BY <1>1, <3>1 DEF Boundary, StartPcs, RestPcs, AttemptPcs
  <2>5. CASE BaselineLost
    <3>1. PICK l : l = [loop EXCEPT !.pc = "bound", !.gap = TRUE, !.fence = {}]
      OBVIOUS
    <3>2. IsLoop(l) /\ SameTimers(loop, l) /\ l.pc = "bound"
      BY <1>1, <3>1 DEF IsLoop, SameTimers
    <3>3. loop' = Fault(l) /\ baseline' = {}
      BY <2>5, <3>1 DEF BaselineLost
    <3>4. SameTimers(loop, loop') /\ loop'.pc = "bound"
      BY <3>2, <3>3, Faults DEF SameTimers
    <3> QED BY <3>3, <3>4 DEF Boundary, StartPcs, RestPcs, AttemptPcs
  <2>6. CASE RearmBeforeAdmission
    <3>1. SameTimers(loop, loop') /\ loop'.pc = "admit" /\ baseline' = {}
      BY <1>1, <2>6, Faults DEF RearmBeforeAdmission, LoopAt
    <3> QED BY <3>1 DEF Boundary, StartPcs, RestPcs, AttemptPcs
  <2> QED BY <2>1, <2>2, <2>3, <2>4, <2>5, <2>6
<1>3. Timers'
  BY <1>1, <1>2 DEF Timers, SameTimers, StartPcs
<1>4. Duties' /\ Covered'
  BY <1>2 DEF Duties, Covered, StartPcs, AttemptPcs
<1> QED BY <1>2, <1>3, <1>4

\* An attempt begins.
LEMMA Begins ==
  ASSUME ArrivalInv, loop.pc \in RestPcs \cup {"admit"}, loop'.pc = "scan", loop'.old = loop.old,
         ~loop'.term, ~loop'.scan, loop'.cont = "check" => loop'.had, loop'.cont = "after" => ~loop'.enabled,
         baseline' = baseline, bell'.phase = "parked" => bell'.cohort \subseteq rung'
  PROVE  ArrivalInv'
<1> USE DEF ArrivalInv
<1>1. Boundary'
  BY DEF Boundary, RestPcs, AttemptPcs
<1>2. Timers'
  BY DEF Timers, RestPcs, StartPcs
<1>3. Duties' /\ Covered'
  BY DEF Duties, Covered, AttemptPcs
<1> QED BY <1>1, <1>2, <1>3

\* The loop waits again.
LEMMA Waits ==
  ASSUME ArrivalInv, loop.pc \in RestPcs, loop'.pc = "select", loop'.old = loop.old,
         ~(loop'.term /\ loop'.scan), loop'.deadline => ~loop'.term /\ ~loop'.scan,
         conf'.recovery => ~loop'.term /\ (loop'.scan \/ loop'.deadline),
         conf'.mode = "none" => ~loop'.term,
         baseline' \subseteq baseline, bell'.phase = "parked" => bell'.cohort \subseteq rung',
         loop'.watching /\ ~Held' => Unheard' = {}
  PROVE  ArrivalInv'
<1> USE DEF ArrivalInv
<1>1. Boundary'
  BY DEF Boundary, RestPcs
<1>2. Timers'
  BY DEF Timers, RestPcs, StartPcs
<1>3. Duties' /\ Covered'
  BY DEF Duties, Covered, AttemptPcs
<1> QED BY <1>1, <1>2, <1>3

LEMMA AdmitHeard ==
  ASSUME LoopInv, ArrivalInv, Admit
  PROVE  ArrivalInv'
<1>1. IsLoop(loop) /\ loop.pc = "admit" /\ ~loop.term /\ ~loop.scan
  BY DEF LoopInv, Shapes, Admit, LoopAt, ArrivalInv, Timers, StartPcs
<1>2. loop' = CallAttempt(loop, "select") /\ UNCHANGED <<baseline, bell, rung>>
  BY DEF Admit, Rest
<1>3. loop'.pc = "scan" /\ loop'.cont = "select" /\ loop'.old = loop.old /\ ~loop'.term /\ ~loop'.scan
  BY <1>1, <1>2, Calls, SMTT(20) DEF SameDuty, SameTimers
<1> QED BY <1>1, <1>2, <1>3, Begins DEF ArrivalInv, Timers

-----------------------------------------------------------------------------
(* Events and timers. *)

LEMMA TakeEventsHeard ==
  ASSUME LoopInv, ArrivalInv, TakeEvents
  PROVE  ArrivalInv'
<1>1. IsLoop(loop) /\ loop.pc = "select" /\ UNCHANGED <<conf, bell, rung>> /\ baseline' \subseteq baseline
  BY DEF LoopInv, Shapes, TakeEvents, LoopAt, Quietly, InvalidateBaseline
<1>2. /\ loop'.pc = "select" /\ loop'.old = loop.old /\ loop'.term = loop.term /\ loop'.scan = loop.scan
      /\ loop'.deadline = loop.deadline /\ loop'.notify /\ loop'.debounce
  BY <1>1 DEF TakeEvents, IsLoop
<1>3. Held'
  BY <1>2 DEF Held
<1> QED BY <1>1, <1>2, <1>3, Waits DEF ArrivalInv, Timers, RestPcs

LEMMA WatcherFailsHeard ==
  ASSUME LoopInv, ArrivalInv, WatcherFails
  PROVE  ArrivalInv'
<1>1. IsLoop(loop) /\ loop.pc = "select" /\ UNCHANGED <<conf, bell, rung>> /\ baseline' = {}
  BY DEF LoopInv, Shapes, WatcherFails, LoopAt, Quietly
<1>2. PICK l : l = [loop EXCEPT !.watching = FALSE, !.notify = TRUE, !.term = FALSE,
                                !.scan = TRUE, !.deadline = FALSE]
  OBVIOUS
<1>3. /\ IsLoop(l) /\ l.pc = "select" /\ l.old = loop.old /\ ~l.term /\ l.scan /\ ~l.deadline
  BY <1>1, <1>2 DEF IsLoop
<1>4. loop' = Fault(l)
  BY <1>2 DEF WatcherFails
<1>5. loop'.pc = "select" /\ loop'.old = loop.old /\ ~loop'.term /\ loop'.scan /\ ~loop'.deadline
  BY <1>3, <1>4, Faults DEF SameDuty, SameTimers
<1>6. Held'
  BY <1>5 DEF Held
<1> QED BY <1>1, <1>5, <1>6, Waits DEF ArrivalInv, Timers, RestPcs

\* The select loop calls an attempt: it begins, or a retry holds it.
LEMMA Called ==
  ASSUME LoopInv, ArrivalInv, loop.pc = "select", NEW l, IsLoop(l), loop' = CallAttempt(l, "select"),
         l.old = loop.old, l.notify = loop.notify, l.term => loop.term, l.scan => loop.scan,
         l.deadline => loop.deadline, l.scan \/ (l.notify /\ l.term) \/ (~l.term /\ ~l.scan),
         conf.recovery => l.scan \/ ~l.term,
         UNCHANGED <<baseline, conf, bell, rung>>
  PROVE  ArrivalInv'
<1>1. CASE ~l.term /\ ~l.scan
  <2>1. loop'.pc = "scan" /\ loop'.cont = "select" /\ loop'.old = loop.old /\ ~loop'.term /\ ~loop'.scan
    BY <1>1, Calls, SMTT(20) DEF SameDuty, SameTimers
  <2> QED BY <2>1, Begins DEF ArrivalInv, Timers, RestPcs
<1>2. CASE l.term \/ l.scan
  <2>1. loop'.pc = "select" /\ SameTimers(l, loop') /\ loop'.old = loop.old
    BY <1>2, Calls, SMTT(20) DEF SameDuty
  <2>2. Held'
    BY <1>2, <2>1 DEF Held, SameTimers
  <2> QED BY <1>2, <2>1, <2>2, Waits DEF ArrivalInv, Timers, RestPcs, SameTimers
<1> QED BY <1>1, <1>2

LEMMA TimersHeard ==
  ASSUME LoopInv, ArrivalInv,
         DebounceFires \/ TerminalRetryFires \/ ScanRetryFires \/ DeadlineFires \/ StopSignal
  PROVE  ArrivalInv'
<1>1. /\ IsLoop(loop) /\ loop.pc = "select" /\ LoopAt("select")
      /\ UNCHANGED <<inbox, events, baseline, conf, bell, rung>>
  BY DEF LoopInv, Shapes, DebounceFires, TerminalRetryFires, ScanRetryFires, DeadlineFires, StopSignal,
     LoopAt, Quietly
<1>2. /\ ~(loop.term /\ loop.scan)
      /\ loop.deadline => ~loop.term /\ ~loop.scan
      /\ conf.recovery => ~loop.term /\ (loop.scan \/ loop.deadline)
      /\ conf.mode = "none" => ~loop.term
      /\ bell.phase = "parked" => bell.cohort \subseteq rung
      /\ loop.watching /\ ~Held => Unheard = {}
  BY <1>1 DEF ArrivalInv, Timers, Covered
<1>3. CASE DebounceFires
  <2>1. PICK l : l = [loop EXCEPT !.debounce = FALSE]
    OBVIOUS
  <2>2. IsLoop(l) /\ SameTimers(loop, l) /\ l.pc = "select" /\ l.old = loop.old /\ l.watching = loop.watching
    BY <1>1, <2>1 DEF IsLoop, SameTimers
  <2>3. loop' = IF loop.notify THEN CallAttempt(l, "select") ELSE l
    BY <1>3, <2>1 DEF DebounceFires
  <2>4. CASE loop.notify
    BY <1>1, <1>2, <2>2, <2>3, <2>4, Called DEF SameTimers
  <2>5. CASE ~loop.notify
    <3>1. loop' = l
      BY <2>3, <2>5
    <3>2. Held' <=> Held
      BY <1>1, <2>2, <2>5, <3>1 DEF Held, SameTimers
    <3>3. Unheard' = Unheard
      BY <1>1, <2>2, <3>1 DEF Unheard, Missed
    <3> QED BY <1>1, <1>2, <2>2, <3>1, <3>2, <3>3, Waits DEF SameTimers, RestPcs
  <2> QED BY <2>4, <2>5
<1>4. CASE TerminalRetryFires
  <2>1. PICK l : l = [loop EXCEPT !.term = FALSE]
    OBVIOUS
  <2>2. /\ IsLoop(l) /\ l.pc = "select" /\ l.old = loop.old /\ l.watching = loop.watching
        /\ l.notify = loop.notify /\ ~l.term /\ l.scan = loop.scan /\ l.deadline = loop.deadline /\ loop.term
    BY <1>1, <1>4, <2>1 DEF IsLoop, TerminalRetryFires
  <2>3. loop' = IF loop.notify THEN CallAttempt(l, "select") ELSE l
    BY <1>4, <2>1 DEF TerminalRetryFires
  <2>4. CASE loop.notify
    BY <1>1, <1>2, <2>2, <2>3, <2>4, Called
  <2>5. CASE ~loop.notify
    <3>1. loop' = l
      BY <2>3, <2>5
    <3>2. Held' <=> Held
      BY <1>1, <2>2, <2>5, <3>1 DEF Held
    <3>3. Unheard' = Unheard
      BY <1>1, <2>2, <3>1 DEF Unheard, Missed
    <3> QED BY <1>1, <1>2, <2>2, <3>1, <3>2, <3>3, Waits DEF RestPcs
  <2> QED BY <2>4, <2>5
<1>5. CASE ScanRetryFires
  <2>1. PICK l : l = [loop EXCEPT !.scan = FALSE, !.watching = TRUE]
    OBVIOUS
  <2>2. PICK m : m = [loop EXCEPT !.notify = TRUE, !.deadline = FALSE]
    OBVIOUS
  <2>3. /\ loop.scan /\ IsLoop(l) /\ IsLoop(m) /\ l.pc = "select" /\ m.pc = "select"
        /\ l.old = loop.old /\ m.old = loop.old
        /\ l.notify = loop.notify /\ l.term = loop.term /\ ~l.scan /\ l.deadline = loop.deadline
        /\ m.term = loop.term /\ m.scan = loop.scan /\ ~m.deadline
    BY <1>1, <1>5, <2>1, <2>2 DEF IsLoop, ScanRetryFires
  <2>4. loop' = CallAttempt(l, "select") \/ loop' = Fault(m)
    BY <1>5, <2>1, <2>2 DEF ScanRetryFires
  <2>5. CASE loop' = CallAttempt(l, "select")
    BY <1>1, <1>2, <2>3, <2>5, Called
  <2>6. CASE loop' = Fault(m)
    <3>1. loop'.pc = "select" /\ loop'.old = loop.old /\ SameTimers(m, loop')
      BY <2>3, <2>6, Faults DEF SameDuty
    <3>2. Held'
      BY <2>3, <3>1 DEF Held, SameTimers
    <3> QED BY <1>1, <1>2, <2>3, <3>1, <3>2, Waits DEF RestPcs, SameTimers
  <2> QED BY <2>4, <2>5, <2>6
<1>6. CASE DeadlineFires
  <2>1. PICK l : l = [loop EXCEPT !.deadline = FALSE]
    OBVIOUS
  <2>2. /\ IsLoop(l) /\ l.old = loop.old /\ loop.deadline
        /\ l.notify = loop.notify /\ l.term = loop.term /\ l.scan = loop.scan /\ ~l.deadline
    BY <1>1, <1>6, <2>1 DEF IsLoop, DeadlineFires
  <2>3. loop' = CallAttempt(l, "select")
    BY <1>6, <2>1 DEF DeadlineFires
  <2> QED BY <1>1, <1>2, <2>2, <2>3, Called
<1>7. CASE StopSignal
  BY <1>1, <1>7, Stops, Gone DEF StopSignal
<1> QED BY <1>3, <1>4, <1>5, <1>6, <1>7

-----------------------------------------------------------------------------
(* The maintenance tick. *)

LEMMA RecoveryIsTimed ==
  ASSUME LoopInv, conf.recovery
  PROVE  HasDeadline(bell)
  BY DEF LoopInv, Shapes, Modal, Climbs, HasDeadline

LEMMA MaintainHeard ==
  ASSUME LoopInv, ArrivalInv, Maintain
  PROVE  ArrivalInv'
<1>1. IsLoop(loop) /\ loop.pc = "select" /\ UNCHANGED <<inbox, events, baseline, conf, bell, rung>>
  BY DEF LoopInv, Shapes, Maintain, LoopAt, Quietly
<1>2. PICK l : l = [loop EXCEPT !.had = loop.notify \/ PendingWork,
                                !.enabled = conf.mode # "none", !.failed = FALSE]
  OBVIOUS
<1>3. /\ IsLoop(l) /\ SameTimers(loop, l) /\ l.old = loop.old /\ l.watching = loop.watching
      /\ l.debounce = loop.debounce
      /\ l.had <=> loop.notify \/ PendingWork
  BY <1>1, <1>2 DEF IsLoop, SameTimers
<1>4. PICK m : m = [l EXCEPT !.pc = "check"]
  OBVIOUS
<1>5. IsLoop(m) /\ SameTimers(l, m) /\ SameDuty(l, m) /\ m.pc = "check"
  BY <1>3, <1>4 DEF IsLoop, SameTimers, SameDuty
<1>6. loop' = IF PendingWork THEN CallAttempt(l, "check") ELSE m
  BY <1>2, <1>4 DEF Maintain
<1>7. CASE PendingWork /\ ~loop.term /\ ~loop.scan
  <2>1. loop' = CallAttempt(l, "check") /\ ~l.term /\ ~l.scan /\ l.had
    BY <1>3, <1>6, <1>7 DEF SameTimers
  <2>2. /\ loop'.pc = "scan" /\ loop'.cont = "check" /\ loop'.old = loop.old /\ loop'.had
        /\ ~loop'.term /\ ~loop'.scan
    BY <1>3, <2>1, Calls, SMTT(20) DEF SameDuty, SameTimers
  <2> QED BY <1>1, <2>2, Begins DEF ArrivalInv, Timers, RestPcs
<1>8. CASE ~(PendingWork /\ ~loop.term /\ ~loop.scan)
  <2>1. loop'.pc = "check" /\ SameTimers(l, loop') /\ SameDuty(l, loop')
    BY <1>3, <1>5, <1>6, <1>8, Calls, SMTT(20) DEF SameTimers
  <2>2. /\ SameTimers(loop, loop') /\ loop'.old = loop.old /\ loop'.watching = loop.watching
        /\ loop'.debounce = loop.debounce
    BY <1>3, <2>1 DEF SameTimers, SameDuty
  <2>3. ~loop'.had => ~loop.notify /\ ~PendingWork
    BY <1>3, <2>1 DEF SameDuty
  <2>4. Boundary' /\ Timers'
    BY <1>1, <2>1, <2>2 DEF ArrivalInv, Boundary, Timers, SameTimers, RestPcs, StartPcs
  <2>5. Duties'
    BY <1>1, <2>1, <2>2, <2>3 DEF Duties, SameTimers, PendingWork, PendingInput, LoopInv, Modal, AttemptPcs
  <2>6. Covered'
    BY <1>1, <2>1, <2>2 DEF ArrivalInv, Covered, Held, Unheard, Missed, SameTimers
  <2> QED BY <2>4, <2>5, <2>6 DEF ArrivalInv
<1> QED BY <1>7, <1>8

LEMMA CheckHeard ==
  ASSUME LoopInv, ArrivalInv,
         CheckInRecovery \/ CheckOwnerGone \/ \E f \in BOOLEAN : CheckHolds(f)
  PROVE  ArrivalInv'
<1>1. IsLoop(loop) /\ loop.pc = "check" /\ UNCHANGED <<inbox, events, baseline, conf, bell, rung>>
  BY DEF LoopInv, Shapes, CheckInRecovery, CheckOwnerGone, CheckHolds, LoopAt, Quietly
<1>2. CASE CheckInRecovery
  <2>1. PICK l : l = [loop EXCEPT !.pc = "select"]
    OBVIOUS
  <2>2. IsLoop(l) /\ l.pc = "select" /\ SameTimers(loop, l) /\ l.old = loop.old
    BY <1>1, <2>1 DEF IsLoop, SameTimers
  <2>3. loop' = ScheduleDeadline(l, bell) /\ conf.recovery
    BY <1>2, <2>1 DEF CheckInRecovery
  <2>4. /\ loop'.pc = "select" /\ loop'.old = loop.old /\ loop'.term = loop.term /\ loop'.scan = loop.scan
        /\ loop'.deadline <=> ~loop.term /\ ~loop.scan /\ HasDeadline(bell)
    BY <2>2, <2>3, Schedules DEF SameDuty, SameTimers
  <2>5. Held'
    BY <1>1, <2>3 DEF Held
  <2> QED BY <1>1, <2>3, <2>4, <2>5, RecoveryIsTimed, Waits DEF ArrivalInv, Timers, RestPcs
<1>3. CASE CheckOwnerGone
  BY <1>1, <1>3, Stops, Gone DEF CheckOwnerGone
<1>4. ASSUME NEW f \in BOOLEAN, CheckHolds(f) PROVE ArrivalInv'
  <2>1. PICK l : l = IF f THEN Fault(loop) ELSE loop
    OBVIOUS
  <2>2. IsLoop(l) /\ SameTimers(loop, l) /\ SameDuty(loop, l)
    BY <1>1, <2>1, Faults DEF SameTimers, SameDuty
  <2>3. loop' = [l EXCEPT !.pc = "after", !.enabled = conf.mode # "none", !.failed = f]
    BY <1>4, <2>1 DEF CheckHolds
  <2>4. /\ loop'.pc = "after" /\ SameTimers(l, loop') /\ loop'.old = l.old /\ loop'.watching = l.watching
        /\ loop'.debounce = l.debounce
        /\ loop'.enabled <=> conf.mode # "none"
    BY <2>2, <2>3 DEF IsLoop, SameTimers
  <2>5. /\ SameTimers(loop, loop') /\ loop'.old = loop.old /\ loop'.watching = loop.watching
        /\ loop'.debounce = loop.debounce /\ ~conf.recovery
    BY <1>4, <2>2, <2>4 DEF SameTimers, SameDuty, CheckHolds
  <2>6. Boundary' /\ Timers'
    BY <1>1, <2>4, <2>5 DEF ArrivalInv, Boundary, Timers, SameTimers, RestPcs, StartPcs
  <2>7. Duties'
    BY <1>1, <2>4 DEF Duties, Demoting, AttemptPcs
  <2>8. Covered'
    BY <1>1, <2>4, <2>5 DEF ArrivalInv, Covered, Held, Unheard, Missed, SameTimers
  <2> QED BY <2>6, <2>7, <2>8 DEF ArrivalInv
<1> QED BY <1>2, <1>3, <1>4

LEMMA ScanFallbackHeard ==
  ASSUME LoopInv, ArrivalInv, NEW ok \in BOOLEAN, ScanFallback(ok)
  PROVE  ArrivalInv'
<1>1. IsLoop(loop) /\ loop.pc = "fallback" /\ UNCHANGED <<inbox, events, baseline, conf, bell>>
  BY DEF LoopInv, Shapes, ScanFallback, LoopAt, Ghosts
<1>2. PICK due : due <=> loop.failed /\ loop.notify /\ loop.scan
  OBVIOUS
<1>3. PICK l : l = [loop EXCEPT !.notify = FALSE, !.scan = FALSE]
  OBVIOUS
<1>4. /\ IsLoop(l) /\ ~l.notify /\ ~l.scan /\ l.term = loop.term /\ l.old = loop.old
      /\ l.watching = loop.watching /\ l.debounce = loop.debounce
  BY <1>1, <1>3 DEF IsLoop
<1>5. /\ ~(loop.term /\ loop.scan)
      /\ conf.mode = "none" => ~loop.term
      /\ conf.recovery => ~loop.term
      /\ bell.phase = "parked" => bell.cohort \subseteq rung
      /\ loop.watching /\ ~Held => Unheard = {}
  BY <1>1 DEF ArrivalInv, Timers, Covered
<1>6. CASE due /\ ok
  <2>1. loop' = Settled(l, bell) /\ rung' = rung \cup inbox
    BY <1>2, <1>3, <1>6 DEF ScanFallback
  <2>2. /\ loop'.pc = "select" /\ loop'.old = loop.old /\ ~loop'.scan /\ loop'.term = loop.term
        /\ loop'.deadline <=> ~loop.term /\ HasDeadline(bell)
    BY <1>4, <2>1, Settles, SMTT(20)
  <2>3. Unheard' = {}
    BY <1>1, <2>1 DEF Unheard, Missed
  <2> QED BY <1>1, <1>2, <1>5, <1>6, <2>1, <2>2, <2>3, RecoveryIsTimed, Waits DEF RestPcs
<1>7. CASE ~(due /\ ok)
  <2>1. PICK m : m \in {loop, Fault(loop)} /\ loop' = Settled(m, bell)
    BY <1>2, <1>7 DEF ScanFallback
  <2>2. rung' = rung
    BY <1>2, <1>7 DEF ScanFallback
  <2>3. IsLoop(m) /\ SameTimers(loop, m) /\ SameDuty(loop, m)
    BY <1>1, <2>1, Faults DEF SameTimers, SameDuty
  <2>4. /\ loop'.pc = "select" /\ loop'.old = loop.old /\ loop'.watching = loop.watching
        /\ loop'.debounce = loop.debounce /\ loop'.notify = loop.notify
        /\ loop'.scan = loop.scan /\ loop'.term = loop.term
        /\ loop'.deadline <=> ~loop.term /\ ~loop.scan /\ HasDeadline(bell)
    BY <2>1, <2>3, Settles, SMTT(20) DEF SameTimers, SameDuty
  <2>5. Held' <=> Held
    BY <1>1, <2>4 DEF Held
  <2>6. Unheard' = Unheard
    BY <1>1, <2>2, <2>4 DEF Unheard, Missed
  <2> QED BY <1>1, <1>5, <2>2, <2>4, <2>5, <2>6, RecoveryIsTimed, Waits DEF RestPcs
<1> QED BY <1>6, <1>7

LEMMA CheckDisabledHeard ==
  ASSUME LoopInv, ArrivalInv, NEW saved \in BOOLEAN, CheckDisabled(saved)
  PROVE  ArrivalInv'
<1> USE DEF ArrivalInv
<1>1. /\ IsLoop(loop) /\ loop.pc = "check" /\ ~conf.recovery /\ conf.mode \in RawModes
      /\ UNCHANGED <<inbox, events, baseline, rung>>
  BY DEF LoopInv, Shapes, CheckDisabled, LoopAt, RawModes
<1>2. CASE BlocksDemotion(input)
  <2>1. PICK l : l = EnterRetained(loop)
    OBVIOUS
  <2>2. loop' = [l EXCEPT !.cont = "select"] /\ bell' = RetainRecovery(bell) /\ conf'.mode = conf.mode
    BY <1>2, <2>1 DEF CheckDisabled, LoopInv, Shapes, IsConf
  <2>3. /\ loop'.pc = "attend" /\ loop'.cont = "select" /\ loop'.why = "retained" /\ ~loop'.term
        /\ loop'.scan = loop.scan /\ loop'.deadline = loop.deadline /\ loop'.old = loop.old
    BY <1>1, <2>1, <2>2, Enters DEF IsLoop, SameDuty
  <2>4. bell'.phase = "recovery"
    BY <2>2, Retains
  <2>5. Boundary' /\ Timers'
    BY <1>1, <2>3, <2>4 DEF Boundary, Timers, RestPcs, StartPcs, AttemptPcs
  <2>6. Duties' /\ Covered'
    BY <2>3 DEF Duties, Covered
  <2> QED BY <2>5, <2>6
<1>3. CASE ~BlocksDemotion(input)
  <2>1. /\ loop' = [loop EXCEPT !.pc = "after", !.enabled = TRUE, !.failed = ~saved]
        /\ bell' = Quiet /\ conf'.mode = "none" /\ conf'.recovery = conf.recovery
    BY <1>3 DEF CheckDisabled, RetireInput, LoopInv, Shapes, IsConf
  <2>2. /\ loop'.pc = "after" /\ loop'.enabled /\ SameTimers(loop, loop') /\ loop'.old = loop.old
        /\ loop'.had = loop.had /\ loop'.watching = loop.watching /\ loop'.debounce = loop.debounce
    BY <1>1, <2>1 DEF IsLoop, SameTimers
  <2>3. bell.phase # "retrying" => bell.cohort \subseteq rung
    BY <1>1 DEF LoopInv, Shapes, Modal, Climbs, Timers, RawModes
  <2>4. bell'.phase = "idle"
    BY <2>1, QuietIsGood
  <2>5. Boundary' /\ Timers'
    BY <1>1, <2>1, <2>2, <2>4 DEF Boundary, Timers, RestPcs, StartPcs, AttemptPcs, SameTimers
  <2>6. Duties'
    BY <1>1, <2>1, <2>2 DEF Duties, AttemptPcs, SameTimers
  <2>7. ASSUME loop.watching, ~Held', ~loop.had PROVE Unheard' = {}
    <3>1. bell.phase # "retrying" /\ ~loop.notify
      BY <1>1, <2>7 DEF Duties
    <3>2. ~Held
      BY <1>1, <2>2, <2>7, <3>1 DEF Held, SameTimers
    <3>3. Unheard = {}
      BY <1>1, <2>7, <3>2 DEF Covered
    <3> QED BY <1>1, <2>2, <2>3, <3>1, <3>3 DEF Unheard, Missed
  <2>8. Covered'
    BY <2>1, <2>2, <2>7 DEF Covered, Demoting
  <2> QED BY <2>5, <2>6, <2>8
<1> QED BY <1>2, <1>3

LEMMA CheckRestoredHeard ==
  ASSUME LoopInv, ArrivalInv, NEW saved \in BOOLEAN, CheckRestored(saved)
  PROVE  ArrivalInv'
<1> USE DEF ArrivalInv
<1>1. /\ IsLoop(loop) /\ loop.pc = "check" /\ ~conf.recovery /\ conf.mode = "none"
      /\ UNCHANGED <<baseline, rung>> /\ conf'.recovery = conf.recovery /\ bell' = MakeDue(bell)
  BY DEF LoopInv, Shapes, IsConf, CheckRestored, LoopAt
<1>2. bell'.phase = bell.phase /\ bell'.cohort = bell.cohort
  BY <1>1, Paces DEF LoopInv, Shapes, Good, SameLadder
<1>3. bell'.phase = "parked" => bell'.cohort \subseteq rung'
  BY <1>1, <1>2 DEF Timers
<1>4. PICK l : l = [loop EXCEPT !.enabled = FALSE, !.failed = ~saved, !.notify = TRUE]
  OBVIOUS
<1>5. IsLoop(l) /\ ~l.enabled /\ ~l.term /\ l.scan = loop.scan /\ l.deadline = loop.deadline /\ l.old = loop.old
  BY <1>1, <1>4 DEF IsLoop, Timers
<1>6. loop' = CallAttempt(l, "after")
  BY <1>4 DEF CheckRestored
<1>7. CASE ~loop.scan
  <2>1. /\ loop'.pc = "scan" /\ loop'.cont = "after" /\ loop'.old = loop.old /\ ~loop'.enabled
        /\ ~loop'.term /\ ~loop'.scan
    BY <1>5, <1>6, <1>7, Calls, SMTT(20) DEF SameDuty, SameTimers
  <2> QED BY <1>1, <1>3, <2>1, Begins DEF RestPcs
<1>8. CASE loop.scan
  <2>1. /\ loop'.pc = "after" /\ loop'.old = loop.old /\ ~loop'.enabled
        /\ ~loop'.term /\ loop'.scan /\ loop'.deadline = loop.deadline
    BY <1>5, <1>6, <1>8, Calls DEF SameDuty, SameTimers
  <2>2. Boundary' /\ Timers'
    BY <1>1, <1>3, <1>8, <2>1 DEF Boundary, Timers, RestPcs, StartPcs, AttemptPcs
  <2>3. Duties' /\ Covered'
    BY <2>1 DEF Duties, Covered, Demoting, AttemptPcs, Held
  <2> QED BY <2>2, <2>3
<1> QED BY <1>7, <1>8

LEMMA AfterCheckHeard ==
  ASSUME LoopInv, ArrivalInv, AfterCheck
  PROVE  ArrivalInv'
<1> USE DEF ArrivalInv
<1>1. IsLoop(loop) /\ loop.pc = "after" /\ UNCHANGED <<inbox, events, baseline, conf, rung>>
  BY DEF LoopInv, Shapes, AfterCheck, LoopAt, Ghosts
<1>2. bell' = bell
  BY <1>1 DEF AfterCheck, Duties, Demoting
<1>3. PICK l : l = IF conf.mode = "none" THEN [loop EXCEPT !.term = FALSE] ELSE loop
  OBVIOUS
<1>4. /\ IsLoop(l) /\ SameDuty(loop, l) /\ l.notify = loop.notify /\ l.scan = loop.scan
      /\ l.term <=> loop.term /\ conf.mode # "none"
  BY <1>1, <1>3 DEF IsLoop, SameDuty
<1>5. /\ ~(loop.term /\ loop.scan)
      /\ conf.recovery => ~loop.term
      /\ bell.phase = "parked" => bell.cohort \subseteq rung
  BY DEF Timers
<1>6. CASE Demoting /\ loop.had
  <2>1. PICK m : m = [l EXCEPT !.notify = TRUE]
    OBVIOUS
  <2>2. IsLoop(m) /\ ~m.term /\ m.scan = loop.scan /\ m.old = loop.old /\ m.notify
    BY <1>4, <1>6, <2>1 DEF IsLoop, SameDuty, Demoting
  <2>3. ~conf.recovery
    BY <1>6 DEF LoopInv, Modal, Demoting
  <2>4. \/ loop.scan /\ loop' = [l EXCEPT !.notify = TRUE, !.pc = "fallback"]
        \/ loop' = CallAttempt(m, "fallback")
    BY <1>3, <1>6, <2>1 DEF AfterCheck, Demoting
  <2>5. CASE ~loop.scan
    <3>1. loop'.pc = "scan" /\ loop'.cont = "fallback" /\ loop'.old = loop.old /\ ~loop'.term /\ ~loop'.scan
      BY <2>2, <2>4, <2>5, Calls, SMTT(20) DEF SameDuty, SameTimers
    <3> QED BY <1>1, <1>2, <1>5, <3>1, Begins DEF RestPcs
  <2>6. CASE loop.scan
    <3>1. loop'.pc = "fallback" /\ loop'.old = loop.old /\ ~loop'.term /\ loop'.scan /\ loop'.deadline = l.deadline
      <4>1. CASE loop' = [l EXCEPT !.notify = TRUE, !.pc = "fallback"]
        BY <1>4, <1>6, <2>6, <4>1 DEF IsLoop, SameDuty, Demoting
      <4>2. CASE loop' = CallAttempt(m, "fallback")
        <5>1. m.deadline = l.deadline
          BY <1>4, <2>1 DEF IsLoop
        <5> QED BY <2>2, <2>6, <4>2, <5>1, Calls DEF SameDuty, SameTimers
      <4> QED BY <2>4, <4>1, <4>2
    <3>2. l.deadline = loop.deadline
      BY <1>1, <1>3 DEF IsLoop
    <3>3. Boundary' /\ Timers'
      BY <1>1, <1>2, <2>3, <2>6, <3>1, <3>2 DEF Boundary, Timers, RestPcs, StartPcs, AttemptPcs
    <3>4. Duties' /\ Covered'
      BY <3>1 DEF Duties, Covered, AttemptPcs, Held
    <3> QED BY <3>3, <3>4
  <2> QED BY <2>5, <2>6
<1>7. CASE ~(Demoting /\ loop.had)
  <2>1. l.term = loop.term \/ ~loop.notify
    BY <1>1, <1>4, <1>7 DEF Timers, Duties, Demoting, IsLoop
  <2>2. PICK m : m = [l EXCEPT !.notify = FALSE]
    OBVIOUS
  <2>3. /\ IsLoop(m) /\ ~m.notify /\ SameDuty(loop, m) /\ m.scan = loop.scan
        /\ m.term <=> loop.term /\ conf.mode # "none"
    BY <1>4, <2>2 DEF IsLoop, SameDuty
  <2>4. \/ loop' = Settled(m, bell) /\ Demoting
        \/ loop' = Settled(l, bell) /\ ~Demoting
    BY <1>2, <1>3, <1>7, <2>2 DEF AfterCheck, Demoting
  <2>5. /\ loop'.pc = "select" /\ loop'.old = loop.old /\ loop'.watching = loop.watching
        /\ loop'.debounce = loop.debounce /\ loop'.scan = loop.scan
    BY <1>4, <2>3, <2>4, Settles, SMTT(20) DEF SameDuty
  <2>6. loop'.term <=> loop.term /\ conf.mode # "none"
    BY <1>4, <2>3, <2>4, Settles, SMTT(20)
  <2>7. loop'.deadline <=> ~loop'.term /\ ~loop'.scan /\ HasDeadline(bell)
    BY <1>4, <2>3, <2>4, Settles, SMTT(20)
  <2>8. ~Held' => ~Held
    <3>1. CASE loop' = Settled(m, bell) /\ Demoting
      <4>1. ~loop.notify
        BY <1>1, <1>7, <3>1 DEF Duties
      <4> QED BY <1>1, <1>2, <2>5, <4>1 DEF Held
    <3>2. CASE loop' = Settled(l, bell) /\ ~Demoting
      <4>1. loop'.notify = loop.notify
        BY <1>4, <3>2, Settles
      <4>2. loop'.term <=> loop.term
        BY <1>1, <2>6, <3>2 DEF Timers, Demoting
      <4> QED BY <1>1, <1>2, <2>5, <4>1, <4>2 DEF Held
    <3> QED BY <2>4, <3>1, <3>2
  <2>9. Unheard' = Unheard
    BY <1>1, <1>2, <2>5 DEF Unheard, Missed
  <2>10. loop.watching /\ ~Held => Unheard = {}
    BY <1>1, <1>7 DEF Covered
  <2> QED BY <1>1, <1>2, <1>5, <2>5, <2>6, <2>7, <2>8, <2>9, <2>10, RecoveryIsTimed, Waits DEF RestPcs
<1> QED BY <1>6, <1>7

-----------------------------------------------------------------------------
(* An attempt. *)

\* A copy of the loop's record that an attempt has not ended yet.
Like(l) ==
  /\ IsLoop(l) /\ SameDuty(loop, l) /\ SameTimers(loop, l) /\ l.cont = loop.cont /\ l.why = loop.why
  /\ l.pc = loop.pc

LEMMA IsLike ==
  ASSUME LoopInv
  PROVE  Like(loop) /\ Like(Fault(loop))
  BY Faults DEF LoopInv, Shapes, Like, SameDuty, SameTimers

LEMMA EndsDone ==
  ASSUME LoopInv, ArrivalInv, LoopInv', loop.pc \in AttemptPcs, NEW l, Like(l), loop' = EndDone(l, bell'),
         baseline' \subseteq baseline, bell'.phase = "parked" => bell'.cohort \subseteq rung',
         loop.watching /\ ~conf'.recovery /\ bell'.phase # "retrying" => Unheard' = {}
  PROVE  ArrivalInv'
<1>1. /\ loop'.pc = loop.cont /\ SameDuty(loop, loop') /\ ~loop'.term /\ ~loop'.scan
      /\ loop'.deadline <=> HasDeadline(bell')
  BY Ends DEF Like, SameDuty
<1>2. conf'.recovery => HasDeadline(bell')
  BY DEF LoopInv, Shapes, Modal, Climbs, HasDeadline
<1> QED BY <1>1, <1>2, Done

LEMMA EndsHeld ==
  ASSUME LoopInv, ArrivalInv, LoopInv', loop.pc \in AttemptPcs, NEW l, Like(l),
         loop' = EndHeld(l) \/ loop' = Fault(EndHeld(l)), ~conf'.recovery, conf'.mode # "none",
         baseline' \subseteq baseline, bell'.phase = "parked" => bell'.cohort \subseteq rung'
  PROVE  ArrivalInv'
<1>1. PICK m : m = EndHeld(l)
  OBVIOUS
<1>2. /\ IsLoop(m) /\ m.pc = loop.cont /\ SameDuty(loop, m) /\ m.notify /\ m.term /\ ~m.scan /\ ~m.deadline
  BY <1>1, Stops DEF Like, SameDuty
<1>3. /\ loop'.pc = loop.cont /\ SameDuty(loop, loop') /\ loop'.notify /\ loop'.term /\ ~loop'.scan
      /\ ~loop'.deadline
  BY <1>1, <1>2, Faults, SMTT(20) DEF SameDuty, SameTimers
<1> QED BY <1>3, HeldOn

LEMMA EndsFatal ==
  ASSUME ArrivalInv, loop.pc \in AttemptPcs, NEW l, Like(l),
         loop' = EndFatal(l) \/ loop' = Fault(EndFatal(l)), UNCHANGED <<conf, bell, rung>>
  PROVE  ArrivalInv'
<1>1. PICK m : m = EndFatal(l)
  OBVIOUS
<1>2. IsLoop(m) /\ m.pc = "exit" /\ SameTimers(loop, m)
  BY <1>1, Stops, SMTT(20) DEF Like, SameTimers
<1>3. loop'.pc = "exit" /\ SameTimers(loop, loop')
  BY <1>1, <1>2, Faults DEF SameTimers
<1> QED BY <1>3, Gone DEF AttemptPcs

\* An attempt that has set no timer goes on to its next stage.
LEMMA Continues ==
  ASSUME LoopInv, ArrivalInv, LoopInv', loop.pc \in AttemptPcs, ~(loop.pc = "attend" /\ loop.why = "retained"),
         NEW l, Like(l), NEW p \in {"deliver", "write", "attend"}, NEW w, loop' = [l EXCEPT !.pc = p, !.why = w],
         baseline' \subseteq baseline, bell'.phase = "parked" => bell'.cohort \subseteq rung',
         loop.watching /\ (p = "attend" => w \in {"only", "deferred", "pgrp"}) =>
            Unheard' \subseteq seen'.cur
  PROVE  ArrivalInv'
<1>1. /\ loop'.pc = p /\ loop'.why = w /\ loop'.cont = loop.cont /\ SameDuty(loop, loop') /\ SameTimers(loop, loop')
  BY DEF Like, IsLoop, SameDuty, SameTimers
<1>2. ~loop'.term /\ ~loop'.scan
  BY <1>1 DEF ArrivalInv, Timers, AttemptPcs, SameTimers
<1> QED BY <1>1, <1>2, GoesOn

\* Input that is owed puts the attempt into recovery.
LEMMA Retaining ==
  ASSUME LoopInv, ArrivalInv, LoopInv', loop.pc \in AttemptPcs, NEW l, Like(l),
         loop' = EnterRetained([l EXCEPT !.scan = FALSE]), baseline' \subseteq baseline, bell'.phase = "recovery"
  PROVE  ArrivalInv'
<1>1. PICK m : m = [l EXCEPT !.scan = FALSE]
  OBVIOUS
<1>2. IsLoop(m) /\ m.cont = loop.cont /\ SameDuty(loop, m) /\ ~m.scan
  BY <1>1 DEF Like, IsLoop, SameDuty
<1>3. loop' = EnterRetained(m)
  BY <1>1
<1>4. /\ loop'.pc = "attend" /\ loop'.why = "retained" /\ loop'.cont = loop.cont /\ SameDuty(loop, loop')
      /\ ~loop'.term /\ ~loop'.scan
  BY <1>2, <1>3, Enters, SMTT(20) DEF SameDuty
<1> QED BY <1>4, GoesOn

LEMMA ScanStopsHeard ==
  ASSUME LoopInv, ArrivalInv, LoopInv', ScanFails \/ \E out \in {"lost", "pgrp"} : InterruptKey(out)
  PROVE  ArrivalInv'
<1>1. loop.pc \in AttemptPcs /\ UNCHANGED <<conf, bell, rung>> /\ baseline' \subseteq baseline
  BY DEF ScanFails, InterruptKey, LoopAt, AttemptPcs, KeepTombstones
<1>2. bell'.phase = "parked" => bell'.cohort \subseteq rung'
  BY <1>1 DEF ArrivalInv, Timers
<1>3. CASE ScanFails
  <2>1. PICK m : m = EndScanFailed(loop)
    OBVIOUS
  <2>2. IsLoop(m) /\ m.pc = loop.cont /\ SameDuty(loop, m) /\ ~m.term /\ m.scan /\ ~m.deadline
    BY <2>1, Stops DEF LoopInv, Shapes
  <2>3. loop' = Fault(m)
    BY <1>3, <2>1 DEF ScanFails
  <2>4. loop'.pc = loop.cont /\ SameDuty(loop, loop') /\ ~loop'.term /\ loop'.scan /\ ~loop'.deadline
    BY <2>2, <2>3, Faults DEF SameDuty, SameTimers
  <2> QED BY <1>1, <1>2, <2>4, Done
<1>4. ASSUME NEW out \in {"lost", "pgrp"}, InterruptKey(out) PROVE ArrivalInv'
  <2>1. CASE out = "lost"
    <3>1. loop' = Fault(EndFatal(loop))
      BY <1>4, <2>1 DEF InterruptKey
    <3> QED BY <1>1, <3>1, IsLike, EndsFatal
  <2>2. CASE out = "pgrp"
    <3>1. PICK l : l = [loop EXCEPT !.scan = FALSE]
      OBVIOUS
    <3>2. Like(l)
      <4>1. ~loop.scan /\ IsLoop(loop)
        BY <1>4 DEF LoopInv, Shapes, ArrivalInv, Timers, InterruptKey, LoopAt
      <4> QED BY <3>1, <4>1 DEF Like, IsLoop, SameDuty, SameTimers
    <3>3. loop' = Fault(EndHeld(l)) /\ ~conf.recovery /\ conf.mode # "none"
      BY <1>4, <2>2, <3>1 DEF InterruptKey
    <3> QED BY <1>1, <1>2, <3>2, <3>3, EndsHeld
  <2> QED BY <2>1, <2>2
<1> QED BY <1>3, <1>4

\* What an attempt does not see is older than the wake.
LEMMA SeenOrOld ==
  ASSUME ArrivalInv, loop.pc \in AttemptPcs
  PROVE  inbox \ loop.old \subseteq Visible
  BY DEF ArrivalInv, Boundary, Visible

LEMMA ScanEmptyHeard ==
  ASSUME LoopInv, ArrivalInv, LoopInv', ScanEmpty
  PROVE  ArrivalInv'
<1>1. /\ loop.pc = "scan" /\ loop.pc \in AttemptPcs /\ UNCHANGED <<inbox, events, rung>> /\ Visible = {}
      /\ baseline' \subseteq baseline
  BY DEF ScanEmpty, LoopAt, AttemptPcs, KeepTombstones, World
<1>2. Like(loop) /\ IsLoop(loop)
  BY IsLike DEF LoopInv, Shapes
<1>3. inbox \subseteq loop.old
  BY <1>1, SeenOrOld
<1>4. \/ bell' = Quiet /\ loop' = EndDone(loop, Quiet)
      \/ bell' = Quiet /\ loop' = [loop EXCEPT !.pc = "write", !.why = "drain"]
  BY DEF ScanEmpty, LoopInv, Modal
<1>5. bell'.phase = "idle"
  BY <1>4, QuietIsGood
<1>6. CASE loop' = EndDone(loop, Quiet)
  <2>1. loop'.old = loop.old
    BY <1>2, <1>6, Ends DEF SameDuty
  <2>2. Unheard' = {}
    BY <1>1, <1>3, <2>1 DEF Unheard, Missed
  <2> QED BY <1>1, <1>2, <1>4, <1>5, <1>6, <2>2, EndsDone
<1>7. CASE loop' = [loop EXCEPT !.pc = "write", !.why = "drain"]
  <2>1. loop'.old = loop.old
    BY <1>2, <1>7 DEF IsLoop
  <2>2. Unheard' = {}
    BY <1>1, <1>3, <2>1 DEF Unheard, Missed
  <2> QED BY <1>1, <1>2, <1>5, <1>7, <2>2, Continues
<1> QED BY <1>4, <1>6, <1>7

LEMMA ScanInRecoveryHeard ==
  ASSUME LoopInv, ArrivalInv, LoopInv', ScanInRecovery
  PROVE  ArrivalInv'
<1>1. /\ loop.pc = "scan" /\ loop.pc \in AttemptPcs /\ UNCHANGED <<conf, rung>> /\ conf.recovery
      /\ baseline' \subseteq baseline
  BY DEF ScanInRecovery, LoopAt, AttemptPcs, KeepTombstones
<1>2. Like(loop)
  BY IsLike
<1>3. bell'.phase = "recovery"
  BY <1>1 DEF LoopInv, Modal
<1>4. loop' = Ask("recovery") \/ loop' = EndDone(loop, bell')
  BY DEF ScanInRecovery
<1>5. CASE loop' = Ask("recovery")
  BY <1>1, <1>2, <1>3, <1>5, Continues DEF Ask
<1>6. CASE loop' = EndDone(loop, bell')
  BY <1>1, <1>2, <1>3, <1>6, EndsDone
<1> QED BY <1>4, <1>5, <1>6

LEMMA ScanUnreadHeard ==
  ASSUME LoopInv, ArrivalInv, LoopInv', ScanUnread
  PROVE  ArrivalInv'
<1>1. /\ loop.pc = "scan" /\ loop.pc \in AttemptPcs /\ UNCHANGED <<inbox, events>> /\ Visible # {}
      /\ baseline' \subseteq baseline /\ rung' = IF bell'.phase = "parked" THEN rung \cup Visible ELSE rung
  BY DEF ScanUnread, LoopAt, AttemptPcs, KeepTombstones, World
<1>2. Like(loop) /\ IsLoop(loop)
  BY IsLike DEF LoopInv, Shapes
<1>3. PICK b : b = IF conf.recovery THEN Quiet ELSE bell
  OBVIOUS
<1>4. PICK plan : plan = Plan(b, Visible)
  OBVIOUS
<1>5. plan.bell.cohort = Visible
  <2>1. Good(b) /\ b.phase # "recovery"
    BY <1>3, QuietIsGood DEF LoopInv, Shapes, Modal, Good
  <2>2. \A f \in Visible, g \in Visible : f.name = g.name => f = g
    BY DEF LoopInv, Shapes, Visible
  <2> QED BY <1>1, <1>4, <2>1, <2>2, Plans, SMTT(20)
<1>6. \/ /\ loop' = EnterRetained([loop EXCEPT !.scan = FALSE])
         /\ \E c : bell' = RetainRecovery(c)
      \/ /\ bell' = plan.bell /\ seen'.cur = Visible
         /\ \/ loop' = EndDone(loop, plan.bell)
            \/ loop' = [loop EXCEPT !.pc = "write", !.why = "drainFirst"]
            \/ loop' = [loop EXCEPT !.pc = "deliver"]
  BY <1>3, <1>4, SMTT(20) DEF ScanUnread
<1>7. CASE loop' = EnterRetained([loop EXCEPT !.scan = FALSE]) /\ \E c : bell' = RetainRecovery(c)
  <2>1. bell'.phase = "recovery"
    BY <1>7, Retains
  <2> QED BY <1>1, <1>2, <1>7, <2>1, Retaining
<1>8. CASE /\ bell' = plan.bell /\ seen'.cur = Visible
           /\ \/ loop' = EndDone(loop, plan.bell)
              \/ loop' = [loop EXCEPT !.pc = "write", !.why = "drainFirst"]
              \/ loop' = [loop EXCEPT !.pc = "deliver"]
  <2>1. bell'.cohort = Visible /\ (bell'.phase = "parked" => bell'.cohort \subseteq rung')
    BY <1>1, <1>5, <1>8
  <2>2. CASE loop' = EndDone(loop, plan.bell)
    <3>1. loop'.old = loop.old
      BY <1>2, <2>2, Ends DEF SameDuty
    <3>2. Unheard' = {}
      BY <1>1, <2>1, <3>1, SeenOrOld DEF Unheard, Missed
    <3> QED BY <1>1, <1>2, <1>8, <2>1, <2>2, <3>2, EndsDone
  <2>3. CASE loop' = [loop EXCEPT !.pc = "write", !.why = "drainFirst"]
    <3>1. loop'.old = loop.old
      BY <1>2, <2>3 DEF IsLoop
    <3>2. Unheard' = {}
      BY <1>1, <2>1, <3>1, SeenOrOld DEF Unheard, Missed
    <3> QED BY <1>1, <1>2, <2>1, <2>3, <3>2, Continues
  <2>4. CASE loop' = [loop EXCEPT !.pc = "deliver"]
    <3>1. loop' = [loop EXCEPT !.pc = "deliver", !.why = loop.why] /\ loop'.old = loop.old
      BY <1>2, <2>4 DEF IsLoop
    <3>2. Unheard' = {}
      BY <1>1, <2>1, <3>1, SeenOrOld DEF Unheard, Missed
    <3> QED BY <1>1, <1>2, <2>1, <3>1, <3>2, Continues
  <2> QED BY <1>8, <2>2, <2>3, <2>4
<1> QED BY <1>6, <1>7, <1>8

\* A delivery that was recorded, or shown as attention, is heard of.
LEMMA Recorded ==
  ASSUME LoopInv, ArrivalInv, LoopInv', NEW l, Like(l), loop' = EndDone(l, bell'),
         \/ loop.pc \in {"deliver", "write"}
         \/ loop.pc = "attend" /\ loop.why \in {"only", "deferred", "pgrp"},
         UNCHANGED <<inbox, events, baseline>>, rung' = rung \cup seen.cur,
         bell.cohort \subseteq seen.cur, bell'.cohort = seen.cur
  PROVE  ArrivalInv'
<1>1. loop.watching => Unheard \subseteq seen.cur
  BY DEF ArrivalInv, Covered
<1>2. loop'.old = loop.old
  BY Ends DEF Like, SameDuty
<1>3. loop.watching => Unheard' = {}
  BY <1>1, <1>2 DEF Unheard, Missed
<1> QED BY <1>3, EndsDone DEF AttemptPcs

\* A stage that follows another one in the same attempt.
LEMMA Follows ==
  ASSUME LoopInv, ArrivalInv, LoopInv', NEW l, Like(l), loop.pc \in {"deliver", "write"},
         NEW p \in {"deliver", "write", "attend"}, NEW w, loop' = [l EXCEPT !.pc = p, !.why = w],
         UNCHANGED <<inbox, events, baseline, seen, rung>>,
         bell.cohort \subseteq seen.cur, bell'.phase # "parked"
  PROVE  ArrivalInv'
<1>1. loop.watching => Unheard \subseteq seen.cur
  BY DEF ArrivalInv, Covered
<1>2. loop'.old = loop.old
  BY DEF Like, IsLoop, SameDuty
<1>3. loop.watching => Unheard' \subseteq seen'.cur
  BY <1>1, <1>2 DEF Unheard, Missed
<1> QED BY <1>3, Continues DEF AttemptPcs

LEMMA DeliverAttentionHeard ==
  ASSUME LoopInv, ArrivalInv, LoopInv', DeliverAttention
  PROVE  ArrivalInv'
<1>1. /\ loop.pc = "deliver" /\ UNCHANGED <<inbox, events, baseline, bell, seen, rung>>
      /\ loop' = [loop EXCEPT !.pc = "attend", !.why = "only"]
  BY DEF DeliverAttention, LoopAt, World, Ask
<1>2. bell.cohort \subseteq seen.cur /\ bell.phase = "retrying"
  BY <1>1 DEF LoopInv, Stages, Ringing
<1> QED BY <1>1, <1>2, IsLike, Follows

LEMMA DeferInputHeard ==
  ASSUME LoopInv, ArrivalInv, LoopInv', DeferInput
  PROVE  ArrivalInv'
<1>1. loop.pc = "deliver" /\ UNCHANGED <<inbox, events, baseline, seen>>
  BY DEF DeferInput, LoopAt, World
<1>2. Ringing /\ bell.cohort = seen.cur /\ bell.phase = "retrying" /\ Good(bell)
  BY <1>1 DEF LoopInv, Shapes, Stages, Ringing, Good
<1>3. CASE TransientDue(bell)
  <2>1. /\ bell' = RecordTransient(bell) /\ rung' = rung
        /\ loop' = [loop EXCEPT !.pc = "attend", !.why = "deferred"]
    BY <1>3 DEF DeferInput, Ask
  <2>2. bell'.phase = "retrying"
    BY <1>2, <2>1, Paces DEF SameLadder
  <2> QED BY <1>1, <1>2, <2>1, <2>2, IsLike, Follows
<1>4. CASE ~TransientDue(bell)
  <2>1. PICK b : b = IF Presented(input) THEN ConfirmPresentation(bell) ELSE bell
    OBVIOUS
  <2>2. Good(b) /\ SameLadder(bell, b)
    BY <1>2, <2>1, Paces DEF SameLadder
  <2>3. bell' = RecordInput(b) /\ loop' = EndDone(loop, bell') /\ rung' = rung \cup seen.cur
    BY <1>4, <2>1 DEF DeferInput
  <2>4. bell'.cohort = seen.cur
    BY <1>2, <2>2, <2>3, Records
  <2> QED BY <1>1, <1>2, <2>3, <2>4, IsLike, Recorded
<1> QED BY <1>3, <1>4

LEMMA DeliverInputHeard ==
  ASSUME LoopInv, ArrivalInv, LoopInv', DeliverInput
  PROVE  ArrivalInv'
<1>1. loop.pc = "deliver" /\ UNCHANGED <<inbox, events, baseline, seen, rung>>
  BY DEF DeliverInput, LoopAt, World
<1>2. bell.cohort \subseteq seen.cur /\ bell.phase = "retrying" /\ Good(bell)
  BY <1>1 DEF LoopInv, Shapes, Stages, Ringing, Good
<1>3. bell'.phase # "parked"
  <2>1. bell' = RecordRecovery(bell, seen.cur) \/ bell' = bell
    BY DEF DeliverInput
  <2> QED BY <1>2, <2>1, Recovers
<1>4. \/ loop' = [loop EXCEPT !.pc = "attend", !.why = "recovery"]
      \/ loop' = [loop EXCEPT !.pc = "write",
                   !.why = IF ~seen.submitOnly /\ InputPending(input) /\ ~input.text
                           THEN "flush" ELSE "inject"]
  BY DEF DeliverInput, Ask
<1>5. CASE loop' = [loop EXCEPT !.pc = "attend", !.why = "recovery"]
  BY <1>1, <1>2, <1>3, <1>5, IsLike, Follows
<1>6. CASE loop' = [loop EXCEPT !.pc = "write",
                     !.why = IF ~seen.submitOnly /\ InputPending(input) /\ ~input.text
                             THEN "flush" ELSE "inject"]
  <2>1. PICK w : loop' = [loop EXCEPT !.pc = "write", !.why = w]
    BY <1>6
  <2> QED BY <1>1, <1>2, <1>3, <2>1, IsLike, Follows
<1> QED BY <1>4, <1>5, <1>6

LEMMA DeliverViaHeard ==
  ASSUME LoopInv, ArrivalInv, LoopInv',
         NEW out \in {"wrote", "unknown", "failed", "stopped", "lost"}, DeliverVia(out)
  PROVE  ArrivalInv'
<1>1. loop.pc = "deliver" /\ UNCHANGED <<inbox, events, baseline, seen>>
  BY DEF DeliverVia, LoopAt, World
<1>2. /\ Ringing /\ bell.cohort \subseteq seen.cur /\ bell.phase = "retrying" /\ Good(bell) /\ ~input.uncertain
  BY <1>1 DEF LoopInv, Shapes, Stages, Modal, Ringing, Good
<1>3. PICK l : l = IF out = "wrote" THEN loop ELSE Fault(loop)
  OBVIOUS
<1>4. Like(l)
  BY <1>3, IsLike
<1>5. CASE out = "unknown"
  <2>1. /\ bell' = RecordRecovery(bell, seen.cur) /\ rung' = rung
        /\ loop' = [l EXCEPT !.pc = "attend", !.why = "recovery"]
    BY <1>2, <1>3, <1>5 DEF DeliverVia
  <2>2. bell'.phase = "recovery"
    BY <1>2, <2>1, Recovers
  <2> QED BY <1>1, <1>2, <1>4, <2>1, <2>2, Follows
<1>6. CASE out = "wrote"
  <2>1. InputAccepted(input)
    BY <1>2, <1>6 DEF DeliverVia
  <2>2. bell'.cohort = seen.cur
    BY <1>2, <2>1, Accepts
  <2>3. loop' = EndDone(loop, bell') /\ rung' = rung \cup seen.cur
    BY <2>1 DEF InputAccepted
  <2> QED BY <1>1, <1>2, <2>2, <2>3, IsLike, Recorded
<1>7. CASE out = "lost"
  <2>1. loop' = EndFatal(l) /\ UNCHANGED <<conf, bell, rung>>
    BY <1>2, <1>3, <1>7 DEF DeliverVia
  <2> QED BY <1>1, <1>4, <2>1, EndsFatal DEF AttemptPcs
<1>8. CASE out \in {"failed", "stopped"}
  <2>1. loop' = [l EXCEPT !.pc = "attend", !.why = "only"] /\ UNCHANGED <<bell, rung>>
    BY <1>2, <1>3, <1>8 DEF DeliverVia
  <2> QED BY <1>1, <1>2, <1>4, <2>1, Follows
<1> QED BY <1>5, <1>6, <1>7, <1>8

-----------------------------------------------------------------------------
(* Arrivals while terminal input is written and attention is shown. *)

LEMMA WritingHeard ==
  ASSUME LoopInv, ArrivalInv, loop.pc = "write"
  PROVE  /\ bell.cohort \subseteq seen.cur /\ bell.phase \in {"retrying", "idle"} /\ Good(bell)
         /\ loop.watching => Unheard \subseteq seen.cur
         /\ bell.phase # "retrying" => seen.cur = {}
<1>1. (loop.why # "drain" => Ringing) /\ (loop.why = "drain" => bell.phase = "idle" /\ seen.cur = {})
  BY Writing
<1>2. loop.watching => Unheard \subseteq seen.cur
  BY DEF ArrivalInv, Covered
<1> QED BY <1>1, <1>2 DEF LoopInv, Shapes, Climbs, Ringing, Good

\* The write ends and the doorbell is left as it is.
LEMMA LeavesBell ==
  ASSUME LoopInv, ArrivalInv, LoopInv', loop.pc = "write", NEW l, Like(l), loop' = EndDone(l, bell),
         UNCHANGED <<inbox, events, baseline, bell, rung>>
  PROVE  ArrivalInv'
<1>1. loop'.old = loop.old
  BY Ends DEF Like, SameDuty
<1>2. Unheard' \subseteq Unheard
  BY <1>1, LessUnheard
<1>3. loop.watching /\ bell'.phase # "retrying" => Unheard' = {}
  BY <1>2, WritingHeard
<1>4. bell'.phase # "parked"
  BY WritingHeard
<1> QED BY <1>3, <1>4, EndsDone DEF AttemptPcs

LEMMA WriteStoppedHeard ==
  ASSUME LoopInv, ArrivalInv, LoopInv', loop.pc = "write", NEW l, Like(l), NEW i,
         NEW err \in {"blocked", "unsupported", "uncertain", "lost", "partial", "none", "pgrp", "refused"},
         UNCHANGED <<inbox, events, baseline, seen, rung>>, WriteStopped(l, i, err)
  PROVE  ArrivalInv'
<1>1. /\ ~conf.recovery /\ conf.mode # "none" /\ l.why \in {"drain", "drainFirst", "flush", "inject"}
  BY Writing DEF Like
<1>2. bell.cohort \subseteq seen.cur /\ bell.phase # "parked" /\ Good(bell)
  BY WritingHeard
<1>3. ASSUME UNCHANGED <<conf, bell>>, loop' = EndHeld(l) \/ loop' = EndFatal(l) \/ loop' = EndDone(l, bell)
      PROVE  ArrivalInv'
  <2>1. CASE loop' = EndHeld(l)
    BY <1>1, <1>2, <1>3, <2>1, EndsHeld DEF AttemptPcs
  <2>2. CASE loop' = EndFatal(l)
    BY <1>3, <2>2, EndsFatal DEF AttemptPcs
  <2>3. CASE loop' = EndDone(l, bell)
    BY <1>3, <2>3, LeavesBell
  <2> QED BY <1>3, <2>1, <2>2, <2>3
<1>4. ASSUME bell'.phase # "parked", NEW w, loop' = [l EXCEPT !.pc = "attend", !.why = w]
      PROVE  ArrivalInv'
  BY <1>2, <1>4, Follows
<1>5. CASE l.why \in {"drain", "drainFirst"}
  <2>1. CASE err \in {"partial", "pgrp", "lost", "none", "refused"}
    <3>1. UNCHANGED <<conf, bell>>
          /\ (loop' = EndHeld(l) \/ loop' = EndFatal(l) \/ loop' = EndDone(l, bell))
      BY <1>5, <2>1 DEF WriteStopped
    <3> QED BY <1>3, <3>1
  <2>2. CASE err \in {"uncertain", "blocked", "unsupported"}
    <3>1. loop' = EnterRetained([l EXCEPT !.scan = FALSE]) /\ bell' = RetainRecovery(bell)
      BY <1>5, <2>2 DEF WriteStopped, Degrade
    <3>2. bell'.phase = "recovery"
      BY <3>1, Retains
    <3> QED BY <3>1, <3>2, Retaining DEF AttemptPcs
  <2> QED BY <2>1, <2>2
<1>6. CASE l.why \in {"flush", "inject"}
  <2>1. CASE err \in {"partial", "lost"}
    <3>1. UNCHANGED <<conf, bell>> /\ (loop' = EndHeld(l) \/ loop' = EndFatal(l))
      BY <1>6, <2>1 DEF WriteStopped
    <3> QED BY <1>3, <3>1
  <2>2. CASE err = "pgrp"
    <3>1. /\ IF TransientDue(bell)
             THEN bell' = RecordTransient(bell) /\ loop' = [l EXCEPT !.pc = "attend", !.why = "pgrp"]
             ELSE UNCHANGED bell /\ loop' = EndHeld(l)
          /\ UNCHANGED conf
      BY <1>6, <2>2 DEF WriteStopped
    <3>2. CASE TransientDue(bell)
      <4>1. bell'.phase # "parked"
        BY <1>2, <3>1, <3>2, Paces, SMTT(20) DEF SameLadder
      <4> QED BY <1>4, <3>1, <3>2, <4>1
    <3>3. CASE ~TransientDue(bell)
      BY <1>3, <3>1, <3>3
    <3> QED BY <3>2, <3>3
  <2>3. CASE err \in {"none", "refused"}
    <3>1. loop' = [l EXCEPT !.pc = "attend", !.why = "only"] /\ UNCHANGED bell
      BY <1>6, <2>3 DEF WriteStopped
    <3> QED BY <1>2, <1>4, <3>1
  <2>4. CASE err \in {"uncertain", "blocked"}
    <3>1. bell' = RecordRecovery(bell, seen.cur) /\ loop' = [l EXCEPT !.pc = "attend", !.why = "recovery"]
      BY <1>6, <2>4 DEF WriteStopped
    <3>2. bell'.phase = "recovery"
      BY <1>2, <3>1, Recovers
    <3> QED BY <1>4, <3>1, <3>2
  <2>5. CASE err = "unsupported"
    <3>1. bell' = Quiet /\ loop' = [l EXCEPT !.pc = "attend", !.why = "only"]
      BY <1>6, <2>5 DEF WriteStopped, DisableInput, RetireInput
    <3>2. bell'.phase = "idle"
      BY <3>1, QuietIsGood
    <3> QED BY <1>4, <3>1, <3>2
  <2> QED BY <2>1, <2>2, <2>3, <2>4, <2>5
<1> QED BY <1>1, <1>5, <1>6

LEMMA WriteSettledHeard ==
  ASSUME LoopInv, ArrivalInv, LoopInv', loop.pc = "write", NEW l, Like(l), NEW i,
         UNCHANGED <<inbox, events, baseline, seen>>,
         IF ~InputPending(i) \/ Queued(i) THEN WriteSettled(l, i)
         ELSE loop' = l /\ input' = i /\ UNCHANGED <<bell, rung, asked>>
  PROVE  ArrivalInv'
<1>1. l.why \in {"drain", "drainFirst", "flush", "inject"} /\ (l.why # "drain" => Ringing)
  BY Writing DEF Like
<1>2. bell.cohort \subseteq seen.cur /\ bell.phase # "parked"
  BY WritingHeard
<1>3. ASSUME NEW p \in {"deliver", "write", "attend"}, NEW w, loop' = [l EXCEPT !.pc = p, !.why = w],
             UNCHANGED <<bell, rung>>
      PROVE  ArrivalInv'
  BY <1>2, <1>3, Follows
<1>4. /\ [l EXCEPT !.pc = "deliver"] = [l EXCEPT !.pc = "deliver", !.why = l.why]
      /\ [l EXCEPT !.why = "inject"] = [l EXCEPT !.pc = "write", !.why = "inject"]
  BY DEF Like, IsLoop
<1>5. CASE ~(~InputPending(i) \/ Queued(i))
  <2>1. loop' = l /\ UNCHANGED <<bell, rung>>
    BY <1>5
  <2>2. /\ loop'.pc = "write" /\ SameDuty(loop, loop') /\ loop'.cont = loop.cont /\ loop'.old = loop.old
        /\ ~loop'.term /\ ~loop'.scan
    BY <2>1 DEF Like, SameDuty, SameTimers, ArrivalInv, Timers
  <2>3. loop.watching => Unheard' \subseteq seen'.cur
    BY <2>1, <2>2, LessUnheard, WritingHeard
  <2> QED BY <1>2, <2>1, <2>2, <2>3, GoesOn DEF AttemptPcs
<1>6. CASE (~InputPending(i) \/ Queued(i)) /\ (l.why = "drain" \/ (l.why = "drainFirst" /\ InputPending(i)))
  <2>1. loop' = EndDone(l, bell) /\ UNCHANGED <<bell, rung>>
    BY <1>6 DEF WriteSettled
  <2> QED BY <2>1, LeavesBell
<1>7. CASE (~InputPending(i) \/ Queued(i)) /\ l.why = "drainFirst" /\ ~InputPending(i)
  <2>1. loop' = [l EXCEPT !.pc = "deliver"] /\ UNCHANGED <<bell, rung>>
    BY <1>7 DEF WriteSettled
  <2> QED BY <1>3, <1>4, <2>1
<1>8. CASE (~InputPending(i) \/ Queued(i)) /\ l.why = "flush" /\ ~InputPending(i)
  <2>1. loop' = [l EXCEPT !.why = "inject"] /\ UNCHANGED <<bell, rung>>
    BY <1>8 DEF WriteSettled
  <2> QED BY <1>3, <1>4, <2>1
<1>9. CASE (~InputPending(i) \/ Queued(i)) /\ (l.why = "inject" \/ (l.why = "flush" /\ InputPending(i)))
  <2>1. InputAccepted(i)
    BY <1>9 DEF WriteSettled
  <2>2. bell'.cohort = seen.cur
    BY <1>1, <1>9, <2>1, Accepts
  <2>3. loop' = EndDone(loop, bell') /\ rung' = rung \cup seen.cur
    BY <2>1 DEF InputAccepted
  <2> QED BY <1>2, <2>2, <2>3, IsLike, Recorded
<1> QED BY <1>1, <1>5, <1>6, <1>7, <1>8, <1>9

LEMMA WriteHeard ==
  ASSUME LoopInv, ArrivalInv, LoopInv',
         \/ \E out \in Outcomes(input), d \in Drained : WriteChunk(out, d)
         \/ \E d \in Drained : WaitQueue(d)
  PROVE  ArrivalInv'
<1>1. loop.pc = "write" /\ UNCHANGED <<inbox, events, baseline, seen>>
  BY DEF WriteChunk, WaitQueue, LoopAt, World
<1>2. ASSUME NEW out \in Outcomes(input), NEW d, WriteChunk(out, d) PROVE ArrivalInv'
  <2>1. PICK l : l = IF out.kind = "wrote" /\ d = "yes" THEN loop ELSE Fault(loop)
    OBVIOUS
  <2>2. Like(l)
    BY <2>1, IsLike
  <2>3. CASE out.kind = "wrote"
    <3>1. PICK next : next = ChunkWritten(input, conf.want, d)
      OBVIOUS
    <3>2. IF ~InputPending(next) \/ Queued(next) THEN WriteSettled(l, next)
          ELSE loop' = l /\ input' = next /\ UNCHANGED <<bell, rung, asked>>
      BY <1>2, <2>1, <2>3, <3>1 DEF WriteChunk
    <3> QED BY <1>1, <2>2, <3>2, WriteSettledHeard
  <2>4. CASE out.kind # "wrote"
    <3>1. PICK i : i = ChunkFailed(input, out)
      OBVIOUS
    <3>2. PICK err : err = ChunkError(input, out)
      OBVIOUS
    <3>3. WriteStopped(l, i, err) /\ rung' = rung
      BY <1>2, <2>1, <2>4, <3>1, <3>2 DEF WriteChunk
    <3>4. err \in {"blocked", "unsupported", "uncertain", "lost", "partial", "none", "pgrp", "refused"}
      <4>1. ~conf.recovery /\ input.phase # "idle"
        BY <1>1, Writing
      <4>2. IsInput(input) /\ ~input.uncertain
        BY <4>1, Underway DEF Settleable
      <4> QED BY <2>4, <3>2, <4>1, <4>2, ChunkFails
    <3> QED BY <1>1, <2>2, <3>3, <3>4, WriteStoppedHeard
  <2> QED BY <2>3, <2>4
<1>3. ASSUME NEW d, WaitQueue(d) PROVE ArrivalInv'
  <2>1. PICK l : l = IF d = "yes" THEN loop ELSE Fault(loop)
    OBVIOUS
  <2>2. Like(l)
    BY <2>1, IsLike
  <2>3. PICK next : next = QueueDrained(input, d)
    OBVIOUS
  <2>4. IF ~InputPending(next) \/ Queued(next) THEN WriteSettled(l, next)
        ELSE loop' = l /\ input' = next /\ UNCHANGED <<bell, rung, asked>>
    BY <1>3, <2>1, <2>3 DEF WaitQueue
  <2> QED BY <1>1, <2>2, <2>4, WriteSettledHeard
<1> QED BY <1>2, <1>3

LEMMA AttendHeard ==
  ASSUME LoopInv, ArrivalInv, LoopInv', NEW out \in {"ok", "err", "lost"}, Attend(out)
  PROVE  ArrivalInv'
<1>1. loop.pc = "attend" /\ loop.pc \in AttemptPcs /\ UNCHANGED <<inbox, events, baseline, conf, seen>>
  BY DEF Attend, LoopAt, World, AttemptPcs
<1>2. loop.why \in {"only", "deferred", "pgrp", "recovery", "retained"} /\ Good(bell)
  BY <1>1 DEF LoopInv, Shapes, Good
<1>3. PICK l : l = IF out = "ok" THEN loop ELSE Fault(loop)
  OBVIOUS
<1>4. Like(l)
  BY <1>3, IsLike
<1>5. CASE out = "lost"
  <2>1. loop' = EndFatal(l) /\ UNCHANGED <<bell, rung>>
    BY <1>3, <1>5 DEF Attend
  <2> QED BY <1>1, <1>4, <2>1, EndsFatal
<1>6. CASE out # "lost"
  <2>1. PICK armed : armed = IF bell.cohort = {} THEN ArmBell(bell, seen.cur) ELSE bell
    OBVIOUS
  <2>2. /\ bell' = CASE loop.why = "only" -> RecordAttention(armed)
                     [] loop.why = "deferred" -> RecordDeferred(armed)
                     [] loop.why \in {"recovery", "retained"} /\ out = "ok" -> RecoveryDelivered(bell)
                     [] OTHER -> bell
        /\ rung' = IF loop.why = "pgrp" THEN rung ELSE rung \cup seen.cur
        /\ loop' = CASE loop.why = "pgrp" -> EndHeld(l)
                     [] loop.why = "retained" -> ScheduleDeadline([l EXCEPT !.pc = l.cont], bell')
                     [] OTHER -> EndDone(l, bell')
    BY <1>3, <1>6, <2>1 DEF Attend
  <2>3. CASE loop.why \in {"only", "deferred"}
    <3>1. /\ loop' = EndDone(l, bell') /\ rung' = rung \cup seen.cur
          /\ bell' = RecordAttention(armed) \/ bell' = RecordDeferred(armed)
      BY <2>2, <2>3
    <3>2. (bell.cohort = seen.cur /\ seen.cur # {}) \/ bell = Quiet
      BY <1>1, <2>3 DEF LoopInv, Stages, Ringing
    <3>3. Good(armed) /\ armed.cohort = seen.cur /\ bell.cohort \subseteq seen.cur
      BY <1>2, <2>1, <3>2, QuietIsGood, Arms, SMTT(20)
    <3>4. bell'.cohort = seen.cur
      BY <3>1, <3>3, Paces DEF SameLadder
    <3> QED BY <1>1, <1>4, <2>3, <3>1, <3>3, <3>4, Recorded
  <2>4. CASE loop.why = "pgrp"
    <3>1. loop' = EndHeld(l) /\ bell' = bell /\ rung' = rung
      BY <2>2, <2>4
    <3>2. ~conf.recovery /\ conf.mode # "none" /\ bell.phase = "retrying"
      BY <1>1, <2>4 DEF LoopInv, Stages, Ringing
    <3> QED BY <1>1, <1>4, <3>1, <3>2, EndsHeld
  <2>5. CASE loop.why \in {"recovery", "retained"}
    <3>1. conf.recovery
      BY <1>1, <2>5 DEF LoopInv, Stages
    <3>2. bell'.phase = "recovery"
      BY <1>1, <3>1 DEF LoopInv, Modal
    <3>3. CASE loop.why = "recovery"
      <4>1. loop' = EndDone(l, bell')
        BY <2>2, <3>3
      <4> QED BY <1>1, <1>4, <3>1, <3>2, <4>1, EndsDone
    <3>4. CASE loop.why = "retained"
      <4>1. PICK m : m = [l EXCEPT !.pc = l.cont]
        OBVIOUS
      <4>2. IsLoop(m) /\ m.pc = loop.cont /\ SameDuty(loop, m) /\ ~m.term
        BY <1>4, <3>1, <4>1 DEF Like, IsLoop, SameDuty, SameTimers, ArrivalInv, Timers
      <4>3. loop' = ScheduleDeadline(m, bell')
        BY <2>2, <3>4, <4>1
      <4>4. /\ loop'.pc = loop.cont /\ SameDuty(loop, loop') /\ ~loop'.term
            /\ loop'.deadline <=> ~loop'.scan /\ HasDeadline(bell')
        BY <4>2, <4>3, Schedules, SMTT(20) DEF SameDuty
      <4>5. HasDeadline(bell')
        BY <1>1, <3>1 DEF LoopInv, Shapes, Modal, Climbs, HasDeadline
      <4> QED BY <1>1, <3>1, <3>2, <4>4, <4>5, Done
    <3> QED BY <2>5, <3>3, <3>4
  <2> QED BY <1>2, <2>3, <2>4, <2>5
<1> QED BY <1>5, <1>6

-----------------------------------------------------------------------------
(* Arrivals: the theorem. *)

LEMMA ArrivalStarts == LoopInit => ArrivalInv
<1> SUFFICES ASSUME LoopInit PROVE ArrivalInv
  OBVIOUS
<1>1. bell.phase = "idle" /\ baseline = {}
  BY QuietIsGood DEF LoopInit
<1>2. loop.pc = "arm" /\ ~loop.term /\ ~loop.scan /\ ~loop.deadline
  BY SMTT(20) DEF LoopInit
<1> QED BY <1>1, <1>2 DEF ArrivalInv, Boundary, Timers, Duties, Covered, RestPcs, AttemptPcs, StartPcs

LEMMA ArrivalKept == LoopInv /\ LoopInv' /\ ArrivalInv /\ [LoopNext]_wakeLoopVars => ArrivalInv'
<1> SUFFICES ASSUME LoopInv, LoopInv', ArrivalInv, [LoopNext]_wakeLoopVars
             PROVE  ArrivalInv'
  OBVIOUS
<1>1. CASE UNCHANGED wakeLoopVars
  BY <1>1, SMTT(20) DEF wakeLoopVars, ArrivalInv, Boundary, Timers, Duties, Covered, Held, Demoting, Unheard, Missed
<1>2. ASSUME NEW n \in Names, Arrive(n) PROVE ArrivalInv'
  BY <1>2, ArriveHeard
<1>3. ASSUME NEW f \in inbox, Drain(f) PROVE ArrivalInv'
  BY <1>3, DrainHeard
<1>4. CASE TimePasses
  BY <1>4, TimeHeard
<1>5. CASE \/ ArmMainWatcher \/ OpenBaselineWatcher \/ SnapshotExisting \/ SettleBaseline
           \/ BaselineLost \/ RearmBeforeAdmission
  BY <1>5, StartHeard
<1>6. CASE Admit
  BY <1>6, AdmitHeard
<1>7. CASE TakeEvents
  BY <1>7, TakeEventsHeard
<1>8. CASE WatcherFails
  BY <1>8, WatcherFailsHeard
<1>9. CASE DebounceFires \/ TerminalRetryFires \/ ScanRetryFires \/ DeadlineFires \/ StopSignal
  BY <1>9, TimersHeard
<1>10. CASE AttemptNext
  <2>1. CASE ScanFails \/ \E out \in {"lost", "pgrp"} : InterruptKey(out)
    BY <2>1, ScanStopsHeard
  <2>2. CASE ScanEmpty
    BY <2>2, ScanEmptyHeard
  <2>3. CASE ScanInRecovery
    BY <2>3, ScanInRecoveryHeard
  <2>4. CASE ScanUnread
    BY <2>4, ScanUnreadHeard
  <2>5. CASE DeliverAttention
    BY <2>5, DeliverAttentionHeard
  <2>6. CASE DeferInput
    BY <2>6, DeferInputHeard
  <2>7. CASE DeliverInput
    BY <2>7, DeliverInputHeard
  <2>8. CASE \E out \in {"wrote", "unknown", "failed", "stopped", "lost"} : DeliverVia(out)
    BY <2>8, DeliverViaHeard
  <2>9. CASE \/ \E out \in Outcomes(input), d \in Drained : WriteChunk(out, d)
             \/ \E d \in Drained : WaitQueue(d)
    BY <2>9, WriteHeard
  <2>10. CASE \E out \in {"ok", "err", "lost"} : Attend(out)
    BY <2>10, AttendHeard
  <2> QED BY <1>10, <2>1, <2>2, <2>3, <2>4, <2>5, <2>6, <2>7, <2>8, <2>9, <2>10 DEF AttemptNext
<1>11. CASE MaintainNext
  <2>1. CASE Maintain
    BY <2>1, MaintainHeard
  <2>2. CASE CheckInRecovery \/ CheckOwnerGone \/ \E f \in BOOLEAN : CheckHolds(f)
    BY <2>2, CheckHeard
  <2>3. CASE AfterCheck
    BY <2>3, AfterCheckHeard
  <2>4. ASSUME NEW f \in BOOLEAN, CheckDisabled(f) PROVE ArrivalInv'
    BY <2>4, CheckDisabledHeard
  <2>5. ASSUME NEW f \in BOOLEAN, CheckRestored(f) PROVE ArrivalInv'
    BY <2>5, CheckRestoredHeard
  <2>6. ASSUME NEW f \in BOOLEAN, ScanFallback(f) PROVE ArrivalInv'
    BY <2>6, ScanFallbackHeard
  <2> QED BY <1>11, <2>1, <2>2, <2>3, <2>4, <2>5, <2>6 DEF MaintainNext
<1> QED BY <1>1, <1>2, <1>3, <1>4, <1>5, <1>6, <1>7, <1>8, <1>9, <1>10, <1>11 DEF LoopNext

\* A wake that waits has rung for every message that arrived after its startup
\* boundary, or holds it in the cohort of its doorbell, or has an event or a timer
\* pending that will make it scan: whatever the modes, the faults and the arrivals.
THEOREM NoMissedArrivalHolds == LoopSpec => []NoMissedArrival
<1>1. LoopInv /\ ArrivalInv => NoMissedArrival
  <2> SUFFICES ASSUME LoopInv, ArrivalInv, LoopAt("select"), loop.watching \/ loop.scan, ~Armed
               PROVE  inbox \ loop.old \subseteq rung \cup bell.cohort
    BY DEF NoMissedArrival
  <2>1. loop.pc = "select"
    BY DEF LoopAt
  <2>2. ~Held
    <3>1. ~conf.recovery
      BY <2>1 DEF Armed, ArrivalInv, Timers
    <3> QED BY <3>1 DEF Armed, Held, PendingWork, PendingInput
  <2>3. Unheard = {} /\ events = {}
    BY <2>1, <2>2 DEF Armed, ArrivalInv, Covered
  <2> QED BY <2>3 DEF Unheard, Missed
<1>2. LoopInv /\ ArrivalInv /\ [LoopNext]_wakeLoopVars => (LoopInv /\ ArrivalInv)'
  BY LoopKept, ArrivalKept
<1>3. LoopInit => LoopInv /\ ArrivalInv
  BY LoopStarts, ArrivalStarts
<1> QED BY <1>1, <1>2, <1>3, PTL DEF LoopSpec
=============================================================================
