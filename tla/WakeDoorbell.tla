---------------------------- MODULE WakeDoorbell ----------------------------
(***************************************************************************)
(* The doorbell ladder of one wake process (internal/cli/wake_doorbell.go). *)
(* A doorbell reminds an agent of the unread messages of its inbox, its     *)
(* cohort, until the inbox makes progress or a finite budget of synthetic   *)
(* input is spent.  The module holds operators only: each Go method on      *)
(* wakeDoorbellState is an operator from a doorbell record to a doorbell    *)
(* record.                                                                  *)
(*                                                                          *)
(* A message is a physical file: a record of its name and its identity.  A  *)
(* deadline is "none" (the zero time), "later" or "due"; WakeLoop lets time *)
(* turn "later" into "due".                                                 *)
(***************************************************************************)
EXTENDS Naturals, FiniteSets

CONSTANTS InitialBudget, LifetimeCap

ASSUME BudgetAssumption ==
    InitialBudget \in Nat \ {0} /\ LifetimeCap \in Nat /\ InitialBudget <= LifetimeCap

\* The zero wakeDoorbellState.
Quiet == [phase |-> "idle", cohort |-> {}, confirmed |-> FALSE, tried |-> FALSE,
          rings |-> 0, budget |-> 0, next |-> "none", floor |-> "none",
          transient |-> "none", recovering |-> FALSE, undelivered |-> FALSE]

NamesOf(files) == {f.name : f \in files}

CohortProgressed(cohort, cur) == ~(cohort \subseteq cur)
CohortExpanded(cohort, cur) == ~(NamesOf(cur) \subseteq NamesOf(cohort))
CohortReplaced(cohort, cur) == \E c \in cohort, d \in cur : c.name = d.name /\ c # d

ArmBell(b, cur) ==
    [b EXCEPT !.phase = "retrying", !.cohort = cur, !.confirmed = FALSE,
              !.budget = IF @ = 0 THEN InitialBudget ELSE @]

ConfirmPresentation(b) == [b EXCEPT !.confirmed = TRUE]

RecordWithBase(b) == [b EXCEPT !.tried = TRUE, !.floor = "later", !.next = "later"]

ParkCohort(b) == [b EXCEPT !.phase = "parked", !.next = "none"]

\* Mutant: the budget is compared before the attempt is counted.
RecordAttemptLate(b) ==
    LET full == [RecordWithBase(b) EXCEPT !.budget = IF @ = 0 THEN InitialBudget ELSE @]
    IN  IF b.rings >= full.budget THEN ParkCohort(full)
        ELSE [full EXCEPT !.rings = b.rings + 1]

RecordAttempt(b) ==
    LET full == [RecordWithBase(b) EXCEPT !.budget = IF @ = 0 THEN InitialBudget ELSE @,
                                          !.rings = b.rings + 1]
    IN  IF full.rings >= full.budget THEN ParkCohort(full) ELSE full

RecordDeferred(b) == RecordWithBase(b)

RecordInjected(cur) == [Quiet EXCEPT !.phase = "announced", !.cohort = cur]

RecordAttention(b) == [RecordWithBase(b) EXCEPT !.floor = "none"]

TransientDue(b) == b.transient # "later"

RecordTransient(b) == [b EXCEPT !.transient = "later"]

PullForward(b) ==
    IF b.floor = "none" \/ b.next = "due" THEN b ELSE [b EXCEPT !.next = b.floor]

PlanRecovery(b) == b.phase # "recovery" \/ b.next # "later"

RecordRecovery(b, cur) ==
    LET base == IF b.phase # "recovery" THEN Quiet ELSE b
    IN  RecordAttention([base EXCEPT !.phase = "recovery", !.cohort = cur,
                                     !.recovering = TRUE, !.undelivered = TRUE])

RetainRecovery(b) ==
    RecordAttention([Quiet EXCEPT !.phase = "recovery", !.cohort = b.cohort,
                                  !.recovering = TRUE, !.undelivered = TRUE])

RecoveryDelivered(b) == [b EXCEPT !.undelivered = FALSE]

MakeDue(b) == IF b.phase = "retrying" /\ b.cohort # {} THEN [b EXCEPT !.next = "due"] ELSE b

PendingInput(b) == b.phase = "retrying"

HasDeadline(b) ==
    /\ b.next # "none"
    /\ b.phase = "retrying" \/ (b.phase = "recovery" /\ b.recovering)

-----------------------------------------------------------------------------
NoPlan(b) == [bell |-> b, attempt |-> FALSE, submitOnly |-> FALSE,
              content |-> FALSE, progress |-> FALSE]

\* plan() in the announced phase: only a new physical file rings again.
PlanAnnounced(b, cur) ==
    IF CohortExpanded(b.cohort, cur) \/ CohortReplaced(b.cohort, cur)
    THEN [NoPlan(ArmBell(b, cur)) EXCEPT !.attempt = TRUE]
    ELSE NoPlan(IF CohortProgressed(b.cohort, cur) THEN RecordInjected(cur) ELSE b)

\* An addition to a cohort under way: a parked one gets one more attempt until
\* the lifetime cap, any other one is armed again with the deadline pulled forward.
Extend(b, cur) ==
    CASE b.phase = "parked" /\ b.budget < LifetimeCap ->
             PullForward([b EXCEPT !.cohort = cur, !.confirmed = FALSE,
                                   !.budget = @ + 1, !.phase = "retrying"])
      [] b.phase = "parked" /\ b.budget >= LifetimeCap ->
             [b EXCEPT !.cohort = cur, !.confirmed = FALSE]
      [] OTHER -> PullForward(ArmBell(b, cur))

Plan(b, cur) ==
    LET progress == b.phase # "idle" /\ CohortProgressed(b.cohort, cur)
        content  == ~progress /\ b.phase # "idle" /\ CohortExpanded(b.cohort, cur)
        moved    == CASE progress -> Quiet [] content -> Extend(b, cur) [] OTHER -> b
        armed    == IF moved.phase = "idle" THEN ArmBell(moved, cur) ELSE moved
    IN  IF b.phase = "announced" THEN PlanAnnounced(b, cur)
        ELSE IF armed.phase = "parked" \/ (armed.tried /\ armed.next = "later") THEN NoPlan(armed)
        ELSE [bell |-> armed, attempt |-> TRUE, submitOnly |-> armed.confirmed,
              content |-> content, progress |-> progress]

-----------------------------------------------------------------------------
(***************************************************************************)
(* The terminal input of one doorbell (internal/cli/wake.go, the            *)
(* wakeInputDeliveryState machine): the payload, an optional prelude, the   *)
(* submit key and the rescue submit key, each written as a chunk that the   *)
(* terminal may accept, accept in part, refuse, or accept to an unknown     *)
(* extent.  The module holds operators only.                                *)
(*                                                                          *)
(* The payload has PayloadBytes bytes and every key has one.                *)
(***************************************************************************)

CONSTANT PayloadBytes

ASSUME PayloadAssumption == PayloadBytes \in Nat \ {0}

InputPhases == {"idle", "payload", "prelude", "submit", "firstQueued", "rescue", "rescueQueued"}

\* The zero wakeInputDeliveryState; text tells the doorbell from a bare submit.
NoInput == [phase |-> "idle", text |-> FALSE, accepted |-> 0, uncertain |-> FALSE]

InputPending(i) == i.phase # "idle"
ConfirmedInput(i) == i.accepted > 0 \/ i.phase \notin {"idle", "payload"}

BlocksDemotion(i) == ConfirmedInput(i) \/ i.uncertain

-----------------------------------------------------------------------------
(***************************************************************************)
(* What the terminal does with one chunk (wakeTerminalAuthority.Inject):    *)
(* "wrote" all of it; "stopped", not authorised now; "pgrp", another        *)
(* process group is in the foreground; "lost", another wake holds the       *)
(* generation or the terminal changed; "busy", a transient failure before   *)
(* the write; "unsupported", refused with no progress; "short", an error    *)
(* with the number of bytes accepted; "unknown", an error without it.       *)
(***************************************************************************)
Chunks == {"wrote", "stopped", "pgrp", "lost", "busy", "unsupported", "short", "unknown"}

ChunkBytes(i) == IF i.phase = "payload" THEN PayloadBytes ELSE 1

\* Outcomes that can follow from a state: a short write needs a byte to stop at.
Outcomes(i) ==
    {[kind |-> k, bytes |-> 0] : k \in Chunks}
        \cup {[kind |-> "short", bytes |-> n] : n \in 1 .. (ChunkBytes(i) - i.accepted - 1)}

\* The error a failed chunk is reported as.  Confirmed input turns a refusal
\* into partial progress, so that the exact suffix is written later.
ChunkError(i, out) ==
    CASE out.kind = "unsupported" -> IF BlocksDemotion(i) THEN "blocked" ELSE "unsupported"
      [] out.kind = "unknown" -> "uncertain"
      [] out.kind = "lost" -> "lost"
      [] out.kind \in {"stopped", "pgrp", "busy", "short"} ->
             IF ConfirmedInput(i) \/ out.bytes > 0 THEN "partial"
             ELSE CASE out.kind = "stopped" -> "none"
                    [] out.kind = "pgrp" -> "pgrp"
                    [] OTHER -> "refused"

\* Mutant: the accepted prefix of a short write is forgotten.
ChunkFailedWhole(i, out) == [i EXCEPT !.uncertain = @ \/ out.kind = "unknown"]

\* writePendingWakeInputChunk on an error.
ChunkFailed(i, out) ==
    [i EXCEPT !.accepted = @ + out.bytes, !.uncertain = @ \/ out.kind = "unknown"]

Step(i, phase) == [i EXCEPT !.phase = phase, !.accepted = 0]

\* The phase after a chunk was written whole.  drained says whether the
\* terminal's reader has emptied the queue, "unavailable" that it cannot be told.
PayloadWritten(i, mode) == Step(i, IF mode = "codex" THEN "prelude" ELSE "submit")

SubmitWritten(i, mode, drained) ==
    IF mode = "paste" THEN NoInput ELSE Step(i, IF drained = "no" THEN "firstQueued" ELSE "rescue")

RescueWritten(i, drained) == IF drained = "no" THEN Step(i, "rescueQueued") ELSE NoInput

ChunkWritten(i, mode, drained) ==
    CASE i.phase = "payload" -> PayloadWritten(i, mode)
      [] i.phase = "prelude" -> Step(i, "submit")
      [] i.phase = "submit" -> SubmitWritten(i, mode, drained)
      [] i.phase = "rescue" -> RescueWritten(i, drained)

\* The queue phases write nothing; they wait for the reader.
QueueDrained(i, drained) ==
    IF drained # "yes" THEN i
    ELSE IF i.phase = "firstQueued" THEN [i EXCEPT !.phase = "rescue"] ELSE NoInput

Queued(i) == i.phase \in {"firstQueued", "rescueQueued"}

\* injectTerminalNotification: a retained payload that made no progress is
\* replaced, any other one is finished first; a bare submit does not join text.
StartPayload(i) ==
    IF InputPending(i) /\ i.phase = "payload" /\ i.text THEN i
    ELSE [NoInput EXCEPT !.phase = "payload", !.text = TRUE]

StartSubmit == [NoInput EXCEPT !.phase = "submit"]
=============================================================================
