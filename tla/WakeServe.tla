----------------------------- MODULE WakeServe -----------------------------
(***************************************************************************)
(* The select loop of an admitted wake: watcher events and failures, the    *)
(* debounce, terminal-retry, scan-retry and doorbell timers, and the        *)
(* maintenance tick that rechecks the injection preconditions, demotes the  *)
(* wake to attention output and promotes it back.                           *)
(***************************************************************************)
EXTENDS WakeNotify

Quietly == <<inbox, made, conf, bell, input, seen, rung, Ghosts>>

\* A batch of events: creations and removals alike reset the debounce timer.
TakeEvents ==
    /\ LoopAt("select") /\ loop.watching /\ events # {}
    /\ baseline' = InvalidateBaseline(baseline, events)
    /\ events' = {}
    /\ loop' = [loop EXCEPT !.notify = TRUE, !.debounce = TRUE]
    /\ UNCHANGED Quietly

\* retryWatcher: the history of events is uncertain, so nothing is ignored any
\* more and a scan follows the rebind.
WatcherFails ==
    /\ LoopAt("select") /\ loop.watching /\ Faulty
    /\ baseline' = {} /\ events' = {}
    /\ loop' = Fault([loop EXCEPT !.watching = FALSE, !.notify = TRUE, !.term = FALSE,
                                  !.scan = TRUE, !.deadline = FALSE])
    /\ UNCHANGED Quietly

DebounceFires ==
    /\ LoopAt("select") /\ loop.debounce
    /\ LET l == [loop EXCEPT !.debounce = FALSE]
       IN  loop' = IF loop.notify THEN CallAttempt(l, "select") ELSE l
    /\ UNCHANGED <<events, baseline, Quietly>>

TerminalRetryFires ==
    /\ LoopAt("select") /\ loop.term
    /\ LET l == [loop EXCEPT !.term = FALSE]
       IN  loop' = IF loop.notify THEN CallAttempt(l, "select") ELSE l
    /\ UNCHANGED <<events, baseline, Quietly>>

\* rebindWatcher, then the attempt; a failed rebind asks for another retry.
ScanRetryFires ==
    /\ LoopAt("select") /\ loop.scan
    /\ \/ loop' = CallAttempt([loop EXCEPT !.scan = FALSE, !.watching = TRUE], "select")
       \/ /\ ~loop.watching /\ Faulty
          /\ loop' = Fault([loop EXCEPT !.notify = TRUE, !.deadline = FALSE])
    /\ UNCHANGED <<events, baseline, Quietly>>

DeadlineFires ==
    /\ LoopAt("select") /\ loop.deadline /\ bell.next = "due"
    /\ loop' = CallAttempt([loop EXCEPT !.deadline = FALSE], "select")
    /\ UNCHANGED <<events, baseline, Quietly>>

StopSignal ==
    /\ LoopAt("select") /\ Faulty
    /\ loop' = EndFatal(loop)
    /\ UNCHANGED <<events, baseline, Quietly>>

-----------------------------------------------------------------------------
(* Maintenance. *)

PendingWork == ~conf.recovery /\ (PendingInput(bell) \/ InputPending(input))

Maintain ==
    /\ LoopAt("select")
    /\ LET l == [loop EXCEPT !.had = loop.notify \/ PendingWork,
                             !.enabled = conf.mode # "none", !.failed = FALSE]
       IN  loop' = IF PendingWork THEN CallAttempt(l, "check") ELSE [l EXCEPT !.pc = "check"]
    /\ UNCHANGED <<events, baseline, Quietly>>

\* Recovery owes the agent a notice and leaves the injection mode alone.
CheckInRecovery ==
    /\ LoopAt("check") /\ conf.recovery
    /\ loop' = ScheduleDeadline([loop EXCEPT !.pc = "select"], bell)
    /\ UNCHANGED <<events, baseline, Quietly>>

\* Nothing to change, or a check that failed and will be made again.
CheckHolds(failed) ==
    /\ LoopAt("check") /\ ~conf.recovery
    /\ failed => Faulty /\ (conf.mode # "none" \/ conf.legacy)
    /\ loop' = [(IF failed THEN Fault(loop) ELSE loop) EXCEPT !.pc = "after",
                       !.enabled = conf.mode # "none", !.failed = failed]
    /\ UNCHANGED <<events, baseline, Quietly>>

\* The owner of an external injector has gone.
CheckOwnerGone ==
    /\ LoopAt("check") /\ ~conf.recovery /\ conf.mode = "via" /\ Faulty
    /\ loop' = EndFatal(loop)
    /\ UNCHANGED <<events, baseline, Quietly>>

\* TIOCSTI was switched off: demote to attention, unless terminal input is owed.
\* The status record may fail to be written (saved).
CheckDisabled(saved) ==
    /\ LoopAt("check") /\ ~conf.recovery /\ conf.mode \in {"raw", "codex", "paste"} /\ ~conf.switched
    /\ IF BlocksDemotion(input)
       THEN /\ loop' = [EnterRetained(loop) EXCEPT !.cont = "select"]
            /\ conf' = [conf EXCEPT !.recovery = TRUE, !.switched = TRUE]
            /\ bell' = RetainRecovery(bell) /\ UNCHANGED <<input, asked, earlier>>
       ELSE /\ loop' = [loop EXCEPT !.pc = "after", !.enabled = TRUE, !.failed = ~saved]
            /\ conf' = [conf EXCEPT !.mode = "none", !.legacy = TRUE, !.switched = TRUE]
            /\ RetireInput
    /\ UNCHANGED <<inbox, made, events, baseline, seen, rung, torn, stacked>>

\* TIOCSTI works again: restore the requested mode and ring at once.
CheckRestored(saved) ==
    /\ LoopAt("check") /\ ~conf.recovery /\ conf.mode = "none" /\ conf.legacy
    /\ conf' = [conf EXCEPT !.mode = conf.want, !.legacy = FALSE]
    /\ bell' = MakeDue(bell)
    /\ loop' = CallAttempt([loop EXCEPT !.enabled = FALSE, !.failed = ~saved, !.notify = TRUE], "after")
    /\ UNCHANGED <<inbox, made, events, baseline, input, seen, rung, Ghosts>>

Settled(l, b) == ScheduleDeadline([l EXCEPT !.pc = "select", !.had = FALSE, !.enabled = FALSE,
                                            !.failed = FALSE], b)

\* After the checks: pending work moves to attention output.
AfterCheck ==
    /\ LoopAt("after")
    /\ LET none == conf.mode = "none"
           b == IF none /\ loop.enabled THEN Quiet ELSE bell
           l == IF none THEN [loop EXCEPT !.term = FALSE] ELSE loop
       IN  /\ bell' = b
           /\ input' = IF none THEN NoInput ELSE input
           /\ loop' = CASE none /\ loop.enabled /\ loop.had /\ loop.failed /\ loop.scan ->
                               [l EXCEPT !.notify = TRUE, !.pc = "fallback"]
                        [] none /\ loop.enabled /\ loop.had /\ ~(loop.failed /\ loop.scan) ->
                               CallAttempt([l EXCEPT !.notify = TRUE], "fallback")
                        [] none /\ loop.enabled /\ ~loop.had -> Settled([l EXCEPT !.notify = FALSE], b)
                        [] OTHER -> Settled(l, b)
    /\ UNCHANGED <<inbox, made, events, baseline, conf, seen, rung, Ghosts>>

\* emitScanFallback: a generic notice stands in for a scan that cannot be made.
ScanFallback(ok) ==
    /\ LoopAt("fallback")
    /\ ~ok => Faulty
    /\ LET due == loop.failed /\ loop.notify /\ loop.scan
       IN  /\ ~ok => due
           /\ loop' = Settled(IF due /\ ok THEN [loop EXCEPT !.notify = FALSE, !.scan = FALSE]
                              ELSE IF ok THEN loop ELSE Fault(loop), bell)
           /\ rung' = IF due /\ ok THEN rung \cup inbox ELSE rung
    /\ UNCHANGED <<inbox, made, events, baseline, conf, bell, input, seen, Ghosts>>

-----------------------------------------------------------------------------
Drained == {"yes", "no", "unavailable"}

AttemptNext ==
    \/ \E out \in {"lost", "pgrp"} : InterruptKey(out)
    \/ ScanFails \/ ScanEmpty \/ ScanInRecovery \/ ScanUnread
    \/ DeliverAttention \/ DeferInput \/ DeliverInput
    \/ \E out \in {"wrote", "unknown", "failed", "stopped", "lost"} : DeliverVia(out)
    \/ \E out \in Outcomes(input), d \in Drained : WriteChunk(out, d)
    \/ \E d \in Drained : WaitQueue(d)
    \/ \E out \in {"ok", "err", "lost"} : Attend(out)

MaintainNext ==
    \/ Maintain \/ CheckInRecovery \/ CheckOwnerGone \/ AfterCheck
    \/ \E f \in BOOLEAN : CheckHolds(f) \/ CheckDisabled(f) \/ CheckRestored(f) \/ ScanFallback(f)

LoopNext ==
    \/ \E n \in Names : Arrive(n)
    \/ \E f \in inbox : Drain(f)
    \/ TimePasses
    \/ ArmMainWatcher \/ OpenBaselineWatcher \/ SnapshotExisting \/ SettleBaseline \/ BaselineLost
    \/ RearmBeforeAdmission \/ Admit
    \/ TakeEvents \/ WatcherFails \/ DebounceFires \/ TerminalRetryFires
    \/ ScanRetryFires \/ DeadlineFires \/ StopSignal
    \/ AttemptNext
    \/ MaintainNext

LoopSpec == LoopInit /\ [][LoopNext]_wakeLoopVars

-----------------------------------------------------------------------------
\* No payload is begun while the agent has drained nothing since an earlier one was
\* written in part, or to an extent its writer reported as unknown
\* (writePendingWakeInputChunk, dischargeWakeInputRecoveryAfterProgress).  An
\* injector that fails or times out without that report is run again: "a retry can
\* repeat injector-side effects" (docs/wake-doorbell-acknowledgement.md).
NoStackedPayload == ~stacked

Armed ==
    \/ events # {}
    \/ loop.notify /\ (loop.debounce \/ loop.term)
    \/ loop.scan
    \/ loop.deadline
    \/ PendingWork

\* A wake that waits has rung for every message that arrived after its startup
\* boundary, or has it in the cohort of its doorbell, or has an event or a timer
\* pending that will make it scan (attemptNotification, prepareWakeBaselineEvents).
NoMissedArrival ==
    LoopAt("select") /\ (loop.watching \/ loop.scan) =>
        \/ inbox \ loop.old \subseteq rung \cup bell.cohort
        \/ Armed

\* Between two messages the agent drains, the reminders that are completed as
\* terminal input end although nothing answers them: there are at most the lifetime
\* cap of them for each time that input is switched on, and only giving input up and
\* restoring it starts the ladder over (recordAttempt, plan, retireWakeInputState).
FiniteReminders ==
    ~conf.injected => asked + earlier.sent <= LifetimeCap * (1 + earlier.givenUp)
=============================================================================
