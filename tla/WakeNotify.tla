----------------------------- MODULE WakeNotify -----------------------------
(***************************************************************************)
(* One notification attempt of the wake loop: scan the inbox                *)
(* (notifyNewMessages), plan the doorbell and deliver it                    *)
(* (deliverNewMessageNotification, deliverWakeNotification), chunk by chunk *)
(* or as attention output, and settle what the loop does next               *)
(* (attemptNotification).                                                   *)
(***************************************************************************)
EXTENDS WakeLoop

Ghosts == <<torn, stacked, asked, earlier>>
World == <<inbox, made, events>>

-----------------------------------------------------------------------------
(* How an attempt ends. *)

ScheduleDeadline(l, b) == [l EXCEPT !.deadline = ~l.term /\ ~l.scan /\ HasDeadline(b)]

EndScanFailed(l) ==
    [l EXCEPT !.pc = l.cont, !.notify = TRUE, !.term = FALSE, !.scan = TRUE, !.deadline = FALSE]

EndDone(l, b) ==
    ScheduleDeadline([l EXCEPT !.pc = l.cont, !.notify = FALSE, !.term = FALSE, !.scan = FALSE], b)

\* Another process group is in the foreground, or the payload is half written.
EndHeld(l) ==
    [l EXCEPT !.pc = l.cont, !.notify = TRUE, !.term = TRUE, !.scan = FALSE, !.deadline = FALSE]

EndFatal(l) == [l EXCEPT !.pc = "exit"]

\* enterRetainedInputRecovery, up to its attention notice.
EnterRetained(l) ==
    [l EXCEPT !.pc = "attend", !.why = "retained", !.notify = FALSE, !.term = FALSE]

Degrade(l) ==
    /\ loop' = EnterRetained([l EXCEPT !.scan = FALSE])
    /\ conf' = [conf EXCEPT !.recovery = TRUE]
    /\ bell' = RetainRecovery(bell)

Ask(why) == [loop EXCEPT !.pc = "attend", !.why = why]

-----------------------------------------------------------------------------
(* The scan. *)

Visible == {f \in inbox : f \notin baseline}

\* A tombstone whose name now holds another file is dropped.
KeepTombstones == {b \in baseline : \A f \in inbox : f.name = b.name => f = b}

Discharges(cur) ==
    /\ conf.recovery
    /\ cur = {} \/ (bell.phase = "recovery" /\ CohortProgressed(bell.cohort, cur))

ScanFails ==
    /\ LoopAt("scan") /\ Faulty
    /\ loop' = Fault(EndScanFailed(loop))
    /\ UNCHANGED <<World, baseline, conf, bell, input, seen, rung, Ghosts>>

\* An interrupt message first sends the interrupt key: a key that is written, or
\* refused for now, changes nothing here, and a terminal that is not ours ends the
\* attempt before anything is planned.
InterruptKey(out) ==
    /\ LoopAt("scan") /\ Visible # {} /\ ~conf.recovery /\ conf.mode # "none" /\ Faulty
    /\ out = "pgrp" => conf.mode # "via"
    /\ baseline' = KeepTombstones
    /\ loop' = Fault(IF out = "lost" THEN EndFatal(loop) ELSE EndHeld([loop EXCEPT !.scan = FALSE]))
    /\ UNCHANGED <<World, conf, bell, input, seen, rung, Ghosts>>

\* Nothing unread: the doorbell falls silent, and input that is already
\* submitted may finish, but payload text is not written for an empty inbox.
ScanEmpty ==
    /\ LoopAt("scan") /\ Visible = {}
    /\ baseline' = KeepTombstones
    /\ seen' = [seen EXCEPT !.cur = {}, !.submitOnly = FALSE]
    /\ IF conf.recovery
       THEN /\ conf' = [conf EXCEPT !.recovery = FALSE]
            /\ input' = NoInput /\ bell' = Quiet /\ loop' = EndDone(loop, Quiet)
       ELSE IF input.uncertain
       THEN /\ loop' = EnterRetained([loop EXCEPT !.scan = FALSE])
            /\ conf' = [conf EXCEPT !.recovery = TRUE]
            /\ bell' = RetainRecovery(Quiet) /\ UNCHANGED input
       ELSE /\ UNCHANGED conf /\ bell' = Quiet
            /\ IF input.phase \in {"idle", "payload"}
               THEN input' = NoInput /\ loop' = EndDone(loop, Quiet)
               ELSE UNCHANGED input /\ loop' = [loop EXCEPT !.pc = "write", !.why = "drain"]
    /\ UNCHANGED <<World, rung, Ghosts>>

\* Recovery is still owed: repeat the manual notice on the attention cadence.
ScanInRecovery ==
    /\ LoopAt("scan") /\ Visible # {} /\ conf.recovery /\ ~Discharges(Visible)
    /\ baseline' = KeepTombstones
    /\ seen' = [seen EXCEPT !.cur = Visible, !.submitOnly = FALSE]
    /\ IF PlanRecovery(bell)
       THEN bell' = RecordRecovery(bell, Visible) /\ loop' = Ask("recovery")
       ELSE LET b == [bell EXCEPT !.recovering = TRUE]
            IN  bell' = b /\ loop' = EndDone(loop, b)
    /\ UNCHANGED <<World, conf, input, rung, Ghosts>>

\* Plan the doorbell for the unread cohort.  Progress of the consumer discards
\* recovery debt; progress while input is retained settles that input first.
ScanUnread ==
    /\ LoopAt("scan") /\ Visible # {} /\ (conf.recovery => Discharges(Visible))
    /\ baseline' = KeepTombstones
    /\ LET kept == IF conf.recovery THEN NoInput ELSE input
           free == IF conf.mode = "none" THEN NoInput ELSE kept
           plan == Plan(IF conf.recovery THEN Quiet ELSE bell, Visible)
           stop == plan.attempt /\ plan.progress /\ InputPending(free) /\ free.uncertain
           left == IF plan.progress /\ free.phase = "payload" /\ ~stop THEN NoInput ELSE free
       IN  IF (conf.mode = "none" /\ BlocksDemotion(kept)) \/ stop
           THEN /\ loop' = EnterRetained([loop EXCEPT !.scan = FALSE])
                /\ conf' = [conf EXCEPT !.recovery = TRUE]
                /\ bell' = RetainRecovery(IF stop THEN plan.bell ELSE bell)
                /\ input' = kept
                /\ seen' = [seen EXCEPT !.cur = Visible, !.submitOnly = FALSE]
           ELSE /\ conf' = [conf EXCEPT !.recovery = FALSE]
                /\ bell' = plan.bell
                /\ input' = IF plan.attempt THEN left ELSE free
                /\ seen' = [cur |-> Visible, submitOnly |-> plan.submitOnly,
                            content |-> plan.content, retained |-> InputPending(left)]
                /\ loop' = CASE ~plan.attempt -> EndDone(loop, plan.bell)
                             [] plan.attempt /\ plan.progress /\ InputPending(left) ->
                                    [loop EXCEPT !.pc = "write", !.why = "drainFirst"]
                             [] OTHER -> [loop EXCEPT !.pc = "deliver"]
    /\ rung' = IF bell'.phase = "parked" THEN rung \cup Visible ELSE rung
    /\ UNCHANGED <<World, Ghosts>>

-----------------------------------------------------------------------------
(* Delivery. *)

\* recordWakeAttempt after input: an injected doorbell is announced for good
\* when the wake retries until injected, any other attempt climbs the ladder.
RecordInput(b) ==
    LET armed == IF b.cohort = {} THEN ArmBell(b, seen.cur) ELSE b
    IN  IF conf.injected THEN RecordInjected(seen.cur) ELSE RecordAttempt(armed)

\* The attempt made input and the terminal holds nothing back.
Presented(i) == ~seen.submitOnly /\ (~seen.content \/ ~seen.retained) /\ ~InputPending(i)

\* deliverWakeNotification returned no error and no attention was shown.
InputAccepted(i) ==
    LET b == RecordInput(IF Presented(i) THEN ConfirmPresentation(bell) ELSE bell)
    IN  /\ bell' = b /\ loop' = EndDone(loop, b) /\ rung' = rung \cup seen.cur
        /\ asked' = IF seen.cur \subseteq inbox THEN asked + 1 ELSE asked
        /\ UNCHANGED earlier

DeliverAttention ==
    /\ LoopAt("deliver") /\ conf.mode = "none"
    /\ loop' = Ask("only")
    /\ UNCHANGED <<World, baseline, conf, bell, input, seen, rung, Ghosts>>

\* The user is typing: input is deferred, and attention is shown at its own pace.
DeferInput ==
    /\ LoopAt("deliver") /\ conf.mode \in {"raw", "codex", "paste"}
    /\ IF TransientDue(bell)
       THEN /\ bell' = RecordTransient(bell)
            /\ loop' = Ask("deferred") /\ UNCHANGED rung
       ELSE LET b == RecordInput(IF Presented(input) THEN ConfirmPresentation(bell) ELSE bell)
            IN  bell' = b /\ loop' = EndDone(loop, b) /\ rung' = rung \cup seen.cur
    /\ UNCHANGED <<World, baseline, conf, input, seen, Ghosts>>

\* Begin to write: a submit-only reminder is a bare key, a doorbell is text, and
\* a retained bare key is finished before text is begun.
DeliverInput ==
    /\ LoopAt("deliver") /\ conf.mode \in {"raw", "codex", "paste"}
    /\ IF input.uncertain \/ (seen.submitOnly /\ InputPending(input) /\ input.text)
       THEN /\ conf' = [conf EXCEPT !.recovery = TRUE]
            /\ bell' = RecordRecovery(bell, seen.cur)
            /\ loop' = Ask("recovery") /\ UNCHANGED input
       ELSE /\ UNCHANGED <<conf, bell>>
            /\ loop' = [loop EXCEPT !.pc = "write",
                   !.why = IF ~seen.submitOnly /\ InputPending(input) /\ ~input.text
                           THEN "flush" ELSE "inject"]
            /\ input' = CASE InputPending(input) -> input
                          [] ~InputPending(input) /\ seen.submitOnly -> StartSubmit
                          [] OTHER -> StartPayload(input)
    /\ UNCHANGED <<World, baseline, seen, rung, Ghosts>>

\* An external injector: accepted; of unknown effect, by its own word; not
\* authorised; or failed or timed out, and then it is run again later with the
\* whole text, whatever it did.
DeliverVia(out) ==
    /\ LoopAt("deliver") /\ conf.mode = "via"
    /\ out # "wrote" => Faulty
    /\ LET l == IF out = "wrote" THEN loop ELSE Fault(loop)
       IN  CASE input.uncertain \/ out = "unknown" ->
                    /\ conf' = [conf EXCEPT !.recovery = TRUE]
                    /\ bell' = RecordRecovery(bell, seen.cur)
                    /\ loop' = [l EXCEPT !.pc = "attend", !.why = "recovery"]
                    /\ input' = [input EXCEPT !.uncertain = TRUE]
                    /\ torn' = (torn \/ (~input.uncertain /\ seen.cur \subseteq inbox))
                    /\ stacked' = (stacked \/ (torn /\ ~input.uncertain /\ ~seen.submitOnly))
                    /\ UNCHANGED <<rung, asked, earlier>>
             [] ~input.uncertain /\ out = "wrote" ->
                    /\ InputAccepted(input)
                    /\ stacked' = (stacked \/ (torn /\ ~seen.submitOnly))
                    /\ UNCHANGED <<conf, input, torn>>
             [] ~input.uncertain /\ out = "lost" ->
                    loop' = EndFatal(l) /\ UNCHANGED <<conf, bell, input, rung, Ghosts>>
             [] ~input.uncertain /\ out \in {"failed", "stopped"} ->
                    /\ loop' = [l EXCEPT !.pc = "attend", !.why = "only"]
                    /\ UNCHANGED <<conf, bell, input, rung, Ghosts>>
    /\ UNCHANGED <<World, baseline, seen>>

\* retireWakeInputState: the ladder starts over, whatever was sent.
RetireInput ==
    /\ bell' = Quiet /\ input' = NoInput /\ asked' = 0
    /\ earlier' = [sent |-> earlier.sent + asked, givenUp |-> earlier.givenUp + 1]

\* disableWakeInput: the terminal cannot take input; only attention is left.
DisableInput ==
    /\ conf' = [conf EXCEPT !.mode = "none", !.legacy = FALSE]
    /\ RetireInput

\* How a write that stopped is reported, by what it was for.
WriteStopped(l, i, err) ==
    CASE err \in {"partial", "pgrp"} /\ (err = "partial" \/ l.why \notin {"inject", "flush"}) ->
             loop' = EndHeld(l) /\ input' = i /\ UNCHANGED <<conf, bell, asked, earlier>>
      [] err = "lost" -> loop' = EndFatal(l) /\ input' = i /\ UNCHANGED <<conf, bell, asked, earlier>>
      [] err \in {"none", "refused"} /\ l.why \notin {"inject", "flush"} ->
             loop' = EndDone(l, bell) /\ input' = i /\ UNCHANGED <<conf, bell, asked, earlier>>
      [] err \in {"uncertain", "blocked", "unsupported"} /\ l.why \notin {"inject", "flush"} ->
             Degrade(l) /\ input' = i /\ UNCHANGED <<asked, earlier>>
      [] err = "pgrp" /\ l.why \in {"inject", "flush"} ->
             /\ IF TransientDue(bell)
                THEN bell' = RecordTransient(bell) /\ loop' = [l EXCEPT !.pc = "attend", !.why = "pgrp"]
                ELSE UNCHANGED bell /\ loop' = EndHeld(l)
             /\ input' = i /\ UNCHANGED <<conf, asked, earlier>>
      [] err \in {"none", "refused"} /\ l.why \in {"inject", "flush"} ->
             /\ loop' = [l EXCEPT !.pc = "attend", !.why = "only"]
             /\ input' = i /\ UNCHANGED <<conf, bell, asked, earlier>>
      [] err \in {"uncertain", "blocked"} /\ l.why \in {"inject", "flush"} ->
             /\ conf' = [conf EXCEPT !.recovery = TRUE]
             /\ bell' = RecordRecovery(bell, seen.cur)
             /\ loop' = [l EXCEPT !.pc = "attend", !.why = "recovery"] /\ input' = i
             /\ UNCHANGED <<asked, earlier>>
      [] err = "unsupported" /\ l.why \in {"inject", "flush"} ->
             DisableInput /\ loop' = [l EXCEPT !.pc = "attend", !.why = "only"]

\* The delivery under way is complete, or waits for the terminal's reader.
WriteSettled(l, i) ==
    CASE l.why = "drain" \/ (l.why = "drainFirst" /\ InputPending(i)) ->
             /\ loop' = EndDone(l, bell) /\ input' = i /\ UNCHANGED <<bell, rung, asked, earlier>>
      [] l.why = "drainFirst" /\ ~InputPending(i) ->
             /\ loop' = [l EXCEPT !.pc = "deliver"] /\ input' = i /\ UNCHANGED <<bell, rung, asked, earlier>>
      [] l.why = "flush" /\ ~InputPending(i) ->
             /\ loop' = [l EXCEPT !.why = "inject"]
             /\ input' = StartPayload(NoInput) /\ UNCHANGED <<bell, rung, asked, earlier>>
      [] l.why = "inject" \/ (l.why = "flush" /\ InputPending(i)) ->
             /\ InputAccepted(i) /\ input' = i

\* One chunk of the terminal input (writePendingWakeInputChunk).
WriteChunk(out, drained) ==
    /\ LoopAt("write") /\ ~Queued(input)
    /\ out \in Outcomes(input)
    /\ (out.kind # "wrote" \/ drained # "yes") => Faulty
    /\ out.kind # "wrote" => drained = "yes"
    /\ LET l    == IF out.kind = "wrote" /\ drained = "yes" THEN loop ELSE Fault(loop)
           text == input.phase = "payload"
           next == ChunkWritten(input, conf.want, drained)
       IN  /\ stacked' = (stacked \/ (text /\ torn /\ input.accepted = 0
                                          /\ (out.kind \in {"wrote", "unknown"} \/ out.bytes > 0)))
           /\ IF out.kind = "wrote"
              THEN /\ torn' = (torn /\ ~text)
                   /\ UNCHANGED conf
                   /\ IF ~InputPending(next) \/ Queued(next) THEN WriteSettled(l, next)
                      ELSE loop' = l /\ input' = next /\ UNCHANGED <<bell, rung, asked, earlier>>
              ELSE /\ torn' = (torn \/ (text /\ seen.cur \subseteq inbox
                                             /\ (out.kind = "unknown" \/ out.bytes > 0)))
                   /\ WriteStopped(l, ChunkFailed(input, out), ChunkError(input, out))
                   /\ UNCHANGED rung
    /\ UNCHANGED <<World, baseline, seen>>

\* A submit key is queued: wait for the terminal's reader to take it.
WaitQueue(drained) ==
    /\ LoopAt("write") /\ Queued(input)
    /\ drained # "yes" => Faulty
    /\ LET l    == IF drained = "yes" THEN loop ELSE Fault(loop)
           next == QueueDrained(input, drained)
       IN  IF ~InputPending(next) \/ Queued(next) THEN WriteSettled(l, next)
           ELSE loop' = l /\ input' = next /\ UNCHANGED <<bell, rung, asked, earlier>>
    /\ UNCHANGED <<World, baseline, conf, seen, torn, stacked>>

\* Attention output (emitWakeAttention), after the fence on the generation.
Attend(out) ==
    /\ LoopAt("attend")
    /\ out # "ok" => Faulty
    /\ out = "lost" => loop.why \in {"only", "deferred", "pgrp"}
    /\ LET l == IF out = "ok" THEN loop ELSE Fault(loop)
           armed == IF bell.cohort = {} THEN ArmBell(bell, seen.cur) ELSE bell
           b == CASE loop.why = "only" -> RecordAttention(armed)
                  [] loop.why = "deferred" -> RecordDeferred(armed)
                  [] loop.why \in {"recovery", "retained"} /\ out = "ok" -> RecoveryDelivered(bell)
                  [] OTHER -> bell
       IN  IF out = "lost" THEN loop' = EndFatal(l) /\ UNCHANGED <<bell, rung>>
           ELSE /\ bell' = b
                /\ rung' = IF loop.why = "pgrp" THEN rung ELSE rung \cup seen.cur
                /\ loop' = CASE loop.why = "pgrp" -> EndHeld(l)
                             [] loop.why = "retained" -> ScheduleDeadline([l EXCEPT !.pc = l.cont], b)
                             [] OTHER -> EndDone(l, b)
    /\ UNCHANGED <<World, baseline, conf, input, seen, Ghosts>>
=============================================================================
