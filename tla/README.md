# Verification of the agent message queue

TLA+ models of agent-message-queue (AMQ), the TLC instances that check them and
TLAPS proofs about them. Paths below are relative to `src/`. `PROJECT.json`
lists for every definition the source lines it stands for.

## The system

AMQ is a set of command-line processes, most of them short-lived, that share a
directory tree. There is no server: every guarantee comes from the order of
file-system calls, from a few file locks and from what is read again after a
wait.

| Part | Code | Modules |
|---|---|---|
| Message delivery: stage in `inbox/tmp`, publish into `inbox/new` without replacing, report | `internal/fsq/maildir.go`, `delivery_root.go`, `internal/cli/send.go` | `Delivery` |
| Consumption: list, claim `new -> cur`, ingest, receipt or dead-letter, print | `internal/cli/inbox_collect.go`, `drain.go`, `read.go`, `internal/fsq/find.go` | `Delivery` |
| What delivery and consumption promise together | (abstract) | `Mailbox` |
| Dead-letter queue: retry, recovery, inspection, purge | `internal/fsq/dlq.go`, `internal/cli/dlq.go` | `DeadLetter` |
| Bridge: enqueue, courier push and poll, apply, acknowledgement | `internal/bridge`, `cmd/amq-bridge` | `Bridge` |
| Wake claims, owners, retirement, repair | `internal/cli/wake_unix.go`, `wake_owner_*.go`, `wake_repair_*.go` | `Wake`, `WakeClaim`, `WakeOwner`, `WakeRepair`, `WakeSystem` |
| Restart requests and self-upgrade of a wake | `internal/cli/wake_restart_*.go`, `wake_resume_*.go`, `wake_self_upgrade_unix.go` | `WakeRestart`, `WakeUpgrade` |
| The private handoff of a repair, and what it promises | `internal/cli/wake_repair_handoff_unix.go`, `wake_repair_dirs_unix.go` | `RepairHandoff`, `RepairAdmission` |
| Wake loop, doorbell, terminal input | `internal/cli/wake.go`, `wake_doorbell.go`, `wake_unix.go` | `WakeDoorbell`, `WakeLoop`, `WakeNotify`, `WakeServe` |
| Managed launch: lease, journal, reconcile, backends, wrapper | `internal/launch`, `internal/cli/launch_exec_unix.go` | `LaunchStore`, `LaunchBackend`, `LaunchReconcile`, `LaunchCreate`, `LaunchExec`, `LaunchSystem` |
| Prepare and Apply | `internal/launch/prepare.go`, `apply.go` | `LaunchPlan`, `LaunchApply` |
| Keepalive: registry, supervisor, reattach | `internal/keepalive` | `KeepTerminal`, `Keepalive`, `KeepCommands` |
| Swarm: task list and event bridge | `internal/swarm`, `internal/cli/swarm.go` | `Swarm` |
| Session context and routing of sends and replies | `internal/cli/session_context.go`, `common.go`, `send.go`, `reply.go`, `route.go` | `SessionContext`, `Routing` |

How they meet: a send publishes into the inbox of another agent, which `Routing`
chose; that agent's consumers claim from it and either keep the message in
`inbox/cur` or turn it into a dead-letter envelope; a retry publishes the
envelope's original into the inbox again; the bridge publishes envelopes of
other hosts into the same inboxes. A wake watches the inbox and reminds the
agent to drain; there is one per agent, which launch, keepalive, repair and
restart start, replace and retire. Launch puts agents into terminal panes, and
keepalive records which terminal an agent's wake types into. Swarm turns changes
of a task list into messages.

## The modules

**`Delivery`.** State: the directories as sets of messages `<<send, recipient>>`
(`part` and `tmp` are incomplete and complete attempt files), the receipts, each
send's program counter and bookkeeping, each consumer's program counter, batch
and claimed message. One action per file-system step or decision of
`DeliverToInboxes`, `DeliverToExistingInbox`, `MoveNewToCur`,
`moveInboxMessageToDLQ`, the drain loop and `amq read`. Every call may fail, a
rename may commit while its directory sync fails (`CommittedDurabilityError`),
and every process may die between two steps. File names are numbers, in the
order `collectInboxFilenames` sorts them; bytes are `Payloads`, of which
`Corrupt` ones do not parse.

**`Mailbox`.** The promise: a message is queued at most once, claimed at most
once, buried only after a claim, printed as received at most once and only after a
claim, and never goes back. `amq read` also prints without claiming: a message that
is in `inbox/cur` already, once more, and the failure record of one that does not
parse, also when its claim was lost; the mailbox has these as echoes, which need a
claimed or a delivered message. `Delivery` implements it under the mappings `Place`
and `Echo`.

**`DeadLetter`.** One original file name, its envelopes in `dlq/new` and
`dlq/cur`, the flock of each envelope, its attempt files in `inbox/tmp`, and
processes that retry, inspect and purge while a consumer claims and buries the
original again. Envelopes of different originals share no file.

**`Bridge`.** The spool and its `.dest` sidecars, the archive, both kinds of
receipts, the rendezvous as the set of envelopes it holds, one courier that
pushes, and receivers that poll or run `apply-file`. Requests and responses get
lost, and files written in place can be read, or left behind, truncated.
Signatures, host ids and allowlists are checks that succeed or abort; an abort
is always possible, so they add nothing to the model. The rendezvous is not part
of the repository: it keeps an envelope until it is acknowledged and returns any
envelopes for the alias that polls.

**`Wake`, `WakeClaim`, `WakeOwner`, `WakeRepair`, `WakeSystem`.** `Wake` has the
files of one agent directory (claim, target, preparation marker, state document,
repair floor, readiness files) and how a process reads them; the next three have
the commands: generic wakes, owner-bound wakes with `recover-owner`, and repair
with its child; `WakeSystem` composes them, with retirement, and states the
properties. Each file write is a step. The lifecycle guard is an flock: a
process keeps it over several steps and loses it when it dies.

**`WakeRestart`, `WakeUpgrade`.** The restart record beside the lock, the callers
that publish, adopt or supersede a request and wait, and the wake's side: staging
an image, re-execution, rotation of the lock, consumption of the record, the
maintenance tick that asks for an upgrade. Removing a stale lock and the
acquisition that follows are one step (`StartWake`). The platform modelled is
the one that stages images (Darwin).

**`RepairHandoff`, `RepairAdmission`.** Parent and child of a repair as two
processes with a pipe each way, a deadline on every read, directories that are
moved underneath, and rival claims. `RepairAdmission` is the promise without
frames: a child serves only after the parent committed, in the dead wake's
directories, and a repair reported as failed never serves.

**`WakeDoorbell`, `WakeLoop`, `WakeNotify`, `WakeServe`.** `WakeDoorbell` has the
reminder ladder and the record of pending terminal input, a method of the code
per operator; `WakeLoop` the state of the loop; `WakeNotify` one attempt: scan,
plan, inject chunk by chunk, settle; `WakeServe` the select loop, its timers, the
watcher's failures, demotion and promotion.

**`LaunchStore`, `LaunchBackend`, `LaunchReconcile`, `LaunchCreate`,
`LaunchExec`, `LaunchSystem`.** The durable files of a session root, what each
terminal backend shows and leaves, the two halves of `Reconcile` with a crash
between any two steps, the wrapper that acknowledges its ticket before it becomes
the agent, the notifier, and the commands that inspect, focus, close and clean.

**`LaunchPlan`, `LaunchApply`.** The subject `Prepare` computes (operators), and
callers that prepare, wait for approval and apply, while others create or move
the session directory and edit its roster.

**`KeepTerminal`, `Keepalive`, `KeepCommands`.** The registry's transformations
(operators), the world of terminals, wakes and children, and the commands: attach,
reattach, reconcile, gc, forget, retire-session.

**`Swarm`.** The task list under its lock, the members with the ids they were
given, the commands in two steps (read inside the lock, then write), and per
agent a bridge: initial scan, watch, poll, delivery. The bridge lists tasks without
the lock and skips files it cannot read, a poll may fail after it has used up its
trigger, the watcher may report an error instead of events, and a delivery may fail.
The lead writes the list
without the lock; here it adds tasks and reopens failed or blocked ones, only while no
command is inside the lock, which is assumed of it.

**`SessionContext`, `Routing`.** Which root a command works on, how the pin in
the environment is loaded and authenticated, the guard table; then the
destination of sends and replies, the header that leads a reply back, and `route
explain`. A command has two steps, resolution and delivery, between which
directories are replaced and rosters edited.

**`MCDelivery`, `MCDeadLetter`, `MCBridge`, `MCWake`, `MCLaunch`, `MCWatch`,
`MCKeep`** give the constants their values. The last four hold several parts
that share no state: a behaviour belongs to one part, chosen in the initial
state, and the other parts stand still in it.

**`DeliveryProofs`, `DeadLetterProofs`, `BridgeProofs`, `WatchProofs` (swarm and
repair handoff), `LoopProofs` and `ArrivalProofs` (the wake loop), `LaunchProofs`
(managed launch, Prepare and Apply) and `KeepProofs` (keepalive and routing)** hold
the proofs.

Definitions whose comment starts with "Mutant" are deliberately wrong variants
of the definition after them. They show that a property depends on that
definition: with the variant in its place TLC finds the property violated.

## The runs

| Run | Instance | Properties |
|---|---|---|
| `compete` | one agent, two sends, two consumers, one send waits | `BatchComplete`, `ReceiptTruth`, `ImplementsMailbox` |
| `collide` | two agents, a fan-out and a peer send that share a file name, good and corrupt bytes, one consumer | `NoLoss`, `ReportTruth`, `BothCopiesSurvive` |
| `live` | one agent, two sends, one consumer, `--limit 1`, fairness | `EventuallyClaimed` |
| `retry` | two envelopes of one original, two operator processes, two attempt names | `OriginalKept`, `RedeliveredOnce`, `DeliveredTrue`, `AuditMonotone` |
| `courier` | one message, a poller and an apply-file process on one inbox, a dropped envelope with other bytes; or one id enqueued twice with other bytes and destination, one courier | `CommittedBeforeAck`, `ArchivedAccepted`, `EnqueuedKept` |
| `wake` | three commands out of ten combinations on processes that can or cannot be identified; a wake with two restart callers, two image versions | `BoundClaimReadable`, `OneWake`, `RepairInherits`, `LiveOwnerKept`, `ReadyMeansPrepared`; `NoStrandedRequest`, `StagesAccounted` |
| `launch` | up to four commands on two handles and three panes, per backend, policy and decision; two Apply calls over two directories and two agents | `OneLeaseHolder`, `NoDuplicateLayout`, `EveryPaneAccounted`, `OneAgentPerTicket`; `OneFounder`, `ActsOnApproved`, `RosterKept` |
| `watch` | a wake loop with three messages and one fault; a repair handoff with two directory moves; two agents and two dependent tasks; a bridge and one task | `FiniteReminders`, `NoStackedPayload`, `NoMissedArrival`; `ImplementsAdmission`; `ClaimsHold`; `NoMissedWork` |
| `keep` | two agents, two terminals, two keepalive commands; two projects with two sessions, three configurations | `OneRowEach`, `StartsRegistered`; `RepliesReturn`, `PinnedSource`, `ExplainedRouteSends` |
| `race` | as `retry` | violated: `NeverBothBoxes` |
| `replay` | one message, one poller | violated: `NoSecondMessage` |
| `window` | two launches into a new tmux window | violated: `OneLayoutPerGeneration` |

Each property's comment in the module says what it means and which sentence or
behaviour of the code it is about. In short: nothing published is lost and no
report is untrue, whatever fails; a dead letter's original survives its retries
and a transfer its courier; an identifiable wake keeps its claim while it runs, and
a live owner its claim and target; a launch neither duplicates nor forgets a pane
as long as its journal is not overwritten or dropped; a wake takes up every arrival,
and its reminders end; a reply comes back to where its original was sent from.

Some properties say less than their names suggest:

- `NoMissedArrival`: a message counts as taken up also when the attempt for it was
  deferred without a word to the agent, or when it joined a cohort whose budget is
  spent. The run makes each file name once; a message that replaces another one of
  the same name is left to the theorem.
- `FiniteReminders` is about wakes that retry until the agent drains, and about
  reminders completed as terminal input. Giving terminal input up and restoring it
  starts the ladder over, so the bound counts how often that happened. A run of an
  external injector that fails or times out is not a completed reminder.
- `NoStackedPayload` does not cover an injector that fails or times out without
  reporting an unknown effect: it is run again with the whole text, as
  `docs/wake-doorbell-acknowledgement.md:55-57` says.
- `NoMissedWork` is about a bridge that has read the whole list since the last
  change. After a failed poll, a watcher error or a skipped file a watching bridge
  stays unaware until something changes again, however long that takes; and a
  message whose delivery failed is not sent again.
- `OneRowEach` tells terminals apart by the adapter's target, as the registry does;
  two targets that are one physical terminal are two.
- `RepliesReturn` takes the names of peers as agreed between the projects, and
  excepts senders in a directory whose name is no session name, whose cross-project
  replies go to the base of their tree.
- `PinnedSource` compares the directories when the message is put into them. The
  last identity check and the rename are one step, so a directory replaced between
  these two calls is outside the model.

### Disagreements

- `race`: `retryFromDLQLocked` stats `inbox/new` and `inbox/cur` before it
  persists and publishes, under the lock of its own envelope only. With two
  envelopes of one original, the other retry and a consumer can move the
  original in between, and the file name ends up in both boxes, which
  `internal/fsq/claim_rename.go:6-9` says normal flows never do. With a single
  envelope it cannot happen, which `RetriedOnce` proves.
- `replay`: `ApplyEnvelope` compares with `inbox/new` only. After a lost
  acknowledgement and a claim by a consumer the replay creates a second message,
  which `docs/adr-bridge-protocol.md:89-91` excludes. Until the claim a replay is
  harmless, which `ReplaysHarmless` proves.
- `window`: a launch into a new tmux window that dies between opening and
  marking it is invisible to the recovery, which opens another;
  `docs/launch-recovery.md:3-5` says a crash cannot lead to a duplicate layout.

Five more were met while modelling. They have no run of their own: properties of the
passing runs except them, and the third is what a property states.

- An overwritten journal. `Reconcile` reads the journal before it has the lease
  (`internal/launch/reconcile.go:158`) and reads it again under the lease only if
  there was one (280-285). A launch that found none, and got the lease after another
  launch had journaled, created and died, writes its own journal over that one
  (424-433) and creates again. The first layout is then a duplicate that nothing
  names, against `docs/launch-recovery.md:3-5`. The generation is put into `lost`,
  which `NoDuplicateLayout` and `EveryPaneAccounted` except.
- A refused join. A join whose session no longer agrees with the journaled delta
  returns the definite pre-create error (`internal/launch/tmux.go:446-449`, and
  471-473 after a window was opened), and the journal is cleared although a pane of
  its generation is there. `docs/launch-recovery.md:35-36` says that this error
  proves no resource was made, and lines 14-21 that a join's crash duplicates
  nothing. Its generation is put into `lost` too (`Disown`).
- A parked doorbell. `docs/wake-doorbell-acknowledgement.md:45-47` says "There is no
  give-up while the cohort remains unread"; the code stops ringing at the lifetime
  cap, and that it does is what `FiniteReminders` bounds.
- Route explanation. `internal/cli/route.go:141` says the source is validated
  "exactly as the emitted send will"; `send` also refuses an explicit root in
  another tree than an `AM_ROOT` exported by hand (`conflictingSourceRoot`,
  `internal/cli/send.go:187-194`), which `route explain` does not look at. It is
  the third exception of `ExplainedRouteSends`.
- Replies to a directory whose name is no session name. The cross-project `reply_to`
  of such a sender names the base of its tree, while
  `skills/amq-cli/references/cross-project.md:70` says a reply is delivered to the
  correct session. It is the exception of `RepliesReturn`.

### Bounds

Two of everything that competes is enough to have a race: two consumers for one
inbox, two sends under one name, two processes on one envelope, two envelopes of
one original, two appliers of one transfer, two restart callers, two launches of
one session and a third after them, two Apply calls, two claimants of a task, two
keepalive commands. Two recipients give a fan-out a first, a failed and a pending
one. `CountBound` stops forced retries one above `MaxRetries`, so that refusal
and `--force` both occur. `Files` bounds enqueues, and repeats one id to make
spool names collide; nothing is received in behaviours with a second enqueue,
since nothing a receiver does reaches the source host's files. A send is
performed once; a consumer starts batches without bound.

In `wake` each command runs once, and the combinations are the ones that touch
the same files; `Seconds` lets two generations start within one clock second.
`MaxRequest`, `MaxLease`, `MaxInstall` and `MaxStart` bound requests, rotations of
the lock, installs and starts at the smallest numbers at which a request can
outlive its generation. The eight candidates a wake remembers as rejected are not
reached. In `launch`, `MaxPanes` is one more than the handles, so that a duplicate
fits; a fourth command is what a refused join takes: a launch, and three joins to it of
which two die on the way. Commands that do the same start in the
order of their numbers (`InTurn`), which leaves out renamings only. `MaxBind` and
`Turmoil` bound rebinding and the acts of others. The worlds
pair backends, policies and commands up: every backend meets the race of two
launches, every policy and way to an identity some backend, and a launch of two
handles the tmux session, where its panes are made one by one. In `watch`,
`MaxGen`, `FaultLimit` and `MaxDirMoves` bound the files made under one name, the
faults of a terminal and the directory moves; `LoopStart` in `MCWatch` pairs
start conditions up (backlog, input mode, switch, fault) instead of multiplying
them, and three messages meet only where nothing was read before; the task list is
one file per task (`Single` is FALSE), of which a bridge may read a part; the initial
budget is one and the lifetime cap two, so that both limits are reached. In `keep`,
`MaxMoves`, `MaxBorn` and `MaxJobs` bound terminal moves, wakes and commands, and
`Scopes` bounds directory moves, roster edits and chains of replies: one move of the
terminal with one edit, one move with one reply, a reply to a reply, or two moves and
no message, which is where an `AM_ROOT` set by hand meets an identity pin. Edits and
second moves are made where both projects have their `.amqrc`; the two other
configurations differ in where a root is found.

Symmetry is used on identical consumers, callers, messages, agents and terminals,
and on ids, processes and attempts in `DeadLetter`, in runs without liveness
properties. Deadlock is not checked where the system may come to rest: a bridge
with nothing to do, commands that have all ended, a wake that waits for events.

### Fairness

`live` assumes that a started send or batch runs on (weak fairness of its
steps), that agents drain again and again (strong fairness of `Drain`: a wake,
a hook or the agent's own loop prompts them, and a crash ends a batch but not
the agent), and that a claim which can be made again and again is eventually
made without an I/O error or a crash (strong fairness of `ClaimWins`). Nothing
is assumed of crashes, of cleanup or of failures. No other run assumes fairness:
`NoMissedArrival` and `NoMissedWork` say as invariants that the timer, event or
message is there.

## The proofs

TLAPS checks the following for every value of the constants that satisfies the
named assumption of the module.

| Theorem | States | Module |
|---|---|---|
| `TypeCorrect`, `NothingLost`, `ReportsTrue` | `Spec => []TypeOK`, `[]NoLoss`, `[]ReportTruth` | `DeliveryProofs` |
| `BothCopiesKept` | `Spec => BothCopiesSurvive`, an action property | `DeliveryProofs` |
| `PrintedOnce`, `BatchesComplete`, `ReceiptsTrue`, `NoClaimCollision` | `Spec => []AtMostOnce`, `[]BatchComplete`, `[]ReceiptTruth`, `[]NeverBothBoxes`, if `OwnNames` | `DeliveryProofs` |
| `MailboxImplemented` | `Spec => ImplementsMailbox`, if `OwnNames` | `DeliveryProofs` |
| `OriginalNeverLost`, `RetriedOnce`, `AuditsTrue` | `Spec => []OriginalKept`, `[]RedeliveredOnce`, `[]DeliveredTrue` | `DeadLetterProofs` |
| `AuditsNeverGoBack` | `Spec => AuditMonotone`, an action property | `DeadLetterProofs` |
| `ArchiveIsAccepted`, `NothingEnqueuedLost`, `AckedIsCommitted`, `ReplaysHarmless` | `Spec => []ArchivedAccepted`, `[]EnqueuedKept`, `[]CommittedBeforeAck`, `[]ReplayHarmless` | `BridgeProofs` |
| `ClaimsAreKept`, `NothingMissed` | `SwarmSpec => []ClaimsHold`, `[]NoMissedWork` | `WatchProofs` |
| `AdmissionImplemented` | `HandoffSpec => ImplementsAdmission` | `WatchProofs` |
| `LoopSafe`, `FiniteRemindersHolds`, `NoStackedPayloadHolds` | `LoopSpec => []LoopInv`, `[]FiniteReminders`, `[]NoStackedPayload` | `LoopProofs` |
| `NoMissedArrivalHolds` | `LoopSpec => []NoMissedArrival` | `ArrivalProofs` |
| `LeaseKept`, `OneLeaseHolderHolds` | `Spec => []LaunchInv`, `[]OneLeaseHolder` | `LaunchProofs` |
| `ApplyKept`, `OneFounderHolds`, `ActsOnApprovedHolds`, `RosterKeptHolds` | `ApplySpec => []ApplyInv`, `[]OneFounder`, `[]ActsOnApproved`, `[]RosterKept` | `LaunchProofs` |
| `KeepSafe`, `OneRowEachHolds`, `StartsRegisteredHolds` | `KeepaliveSpec => []KeepInv`, `[]OneRowEach`, `[]StartsRegistered` | `KeepProofs` |
| `RoutingSafe`, `RepliesReturnHolds`, `PinnedSourceHolds`, `ExplainedRouteSendsHolds` | `RoutingSpec => []RoutingInv`, `[]RepliesReturn`, `[]PinnedSource`, `[]ExplainedRouteSends` | `KeepProofs` |

`AtMostOnce`, `NeverBothBoxes` of `Delivery`, `TypeOK` and `ReplayHarmless` have
no run of their own: the theorems state them, and the runs check properties of
which they are part (the abstract mailbox) or neighbours.

The arguments have one form. The property is not inductive, so an invariant
that is gets stated, checked by TLC on the run's instance and proved; the actions
are sorted into a few kinds of effect, so that each conjunct is shown once per
kind and not once per action; the last step combines them.

**Delivery.** `DeliveryAssumption`: every send has a recipient, names are
naturals, `None` is not a value. Two sends may share a name. `IInv` adds to the
types what the code relies on without saying so:

- `SenderInv`: until it reports, a send's bookkeeping is consistent with its
  program counter, and it has no report and no audit copy;
- `StagedInv`: as long as a send runs, only recipients it has staged can have
  its file in `tmp` or published;
- `CommittedInv`: a recipient counted as committed has had these bytes under
  this name, and a published file is counted until the send ends; this is what
  makes the reports true, because a report is computed from `committed`;
- `ConsumerInv`: a consumer that handles a message holds one, and removes the
  claimed source only when its envelope is written; this is what keeps a message
  from being lost between `inbox/cur` and the dead-letter queue;
- `BoxInv`: only published files are in `inbox/new` and `inbox/cur`.

`BothCopiesKept` adds `CollisionInv`: the cleanup that follows a reported
collision leaves the refused attempt out.

**Ownership.** Under `OwnNames` each send has a file name of its own, which is
what the random part of a message id is for. Without it the statements are false:
`PeekedClaim`, the claim of `amq read`, moves a file by the name it parsed before.
`OwnInv` says that a message in `cur` was claimed by one batch only
(`OwnersInv`, `Exclusive`), that a name is in one box (`Apart`), what a batch has
printed or still has in hand (`ToldInv`), and that each receipt is backed by a
file nobody is about to move (`ReceiptInv`). The refinement follows: `Place` maps
the directories to the abstract place of each message, and each kind of step is a
step of `Mailbox` or leaves all places alone.

**Dead letters.** `IInv` has five conjuncts beside the types. `Held`: a working
retry holds its envelope's lock and knows what it read. `Behind`: the record on
disk is behind the one in hand and not terminal, because the lock keeps others
away; this carries `AuditMonotone` over the rewrite, in which two copies exist.
`Recorded`: envelopes come from the consumer, whose source goes after its envelope
is written, and only a purge takes one away. `Truthful`: until somebody
publishes, nothing says "delivered", and "pending" was written by somebody who
had found the original in neither box. `Single`: with a single envelope at most
one retry delivers, and while it does the original is in neither box. The last
one is false with two envelopes, which is the disagreement `race`. `AuditMonotone`
covers purges as well: the audit that goes is one the purge had listed, unchanged,
and no retry is at work on it.

**Bridge.** `Spooled`: a spool or archive entry carries its own id. `Pushing`:
what the courier established at each step stays true until it writes, since there
is one courier. `Kept`: the file of an enqueue that has its id to itself is in
the spool or the archive from its creation on, even when it is taken before it is
complete. `Applied`: an envelope past its application is in the inbox. `Counted`:
until a claim, a transfer was published as often as it is in `inbox/new`; the
claim ends this, which is the disagreement `replay`.

**Swarm.** `Locked`: what a command read inside the lock is still the list; with
it a write is made to the list that was checked. `Told`: what a watching bridge
remembers is the list unless a change is signalled or its last look failed or was
partial (`blind`), and every claimable task it remembers has been announced, is
queued, or had its message fail (`lost`).
The second argument needs the first only for the types.

**Repair handoff.** `Beginning`, `Written` and `Authorized` trace the authority to
serve: a release is written only by the parent's last step, a child past its
hold got it, and it works for the source the parent captured, so that the
directories it rechecks are the dead wake's. The mapping (`PhaseOf`, `VerdictOf`,
`InPlaceOf`) commits the abstract admission when the parent releases; every step
is one of `RepairAdmission` or stutters.

**The wake loop.** `BudgetAssumption`: the first budget of a doorbell is positive
and at most the lifetime cap; `PayloadAssumption`: a payload has bytes. `LoopInv`
ties four things together. `Shapes` has the types and the ladder: a budget never
exceeds the cap, and a bell that still retries has rung less often than its
budget. `Modal`: a wake without an input mode holds no input, and one that owes a
recovery is in the recovery phase. `Stages`: an attempt under way rings for the
cohort it scanned, and what it writes agrees with why it writes. `Owed`: reminders
completed, or a payload torn, since the agent last drained are about messages that
are still in the inbox, which is why draining resets both counts. `Past`: each time
terminal input was given up, at most the lifetime cap had been sent.
`ArrivalInv` adds who will make the loop look: `Boundary` for the messages that
were there before the watch began, `Timers` and `Duties` for which timers can be
armed at which step, and `Covered`: when none of them is, every message the wake
neither had nor rang for has an event in the queue.

**Managed launch.** `PanesAssumption`: at least one pane. `LaunchInv` says that a
pane's identity is given out once and that whoever is at a step that writes is
whom the lease names, command, wrapper or notifier. It is needed in this width
because a stale lease is taken over from a holder that is found dead, and what is
found depends on the panes.

**Prepare and Apply.** `WantsAssumption`, `DirsAssumption`, `NilAssumption`: calls
ask for agents, there is a directory, `Nil` is not a value. `ApplyInv`: `DiskInv`
for the files, `PlaceInv` for the directory a call works on and the lease it holds
there, `PinInv` for what it approved or pinned, which still describes that
directory because the lease keeps others out; `PinCovers`: a roster a call pinned
holds the participants of the calls that succeeded before, so that writing it back
removes nobody.

**Keepalive.** `KeeperAssumption`: `NoKeeper` is not a keeper. `KeepInv`: every
command in progress holds the lease (`LeaseInv`); what it remembers of the
registry is still so, in particular no other agent took the terminals of the rows
a reservation displaced (`RegistryInv`), which is why a rollback may put them back;
and a child that can still come up has its row, or one among the displaced rows
(`ChildInv`).

**Routing.** `RoutingAssumption`: a configuration file names the base of a tree or
none, a session's base exists, `Unset` and `Base` are not names. `RoutingInv`: a
terminal's base is a base, or a root no configuration makes a session
(`ContextInv`), and every pending command and every message carries headers that
lead from its destination back to its source (`Leads`) and a pin that names its
source (`PendingInv`, `MailInv`); the directories it was authorized for carry their
identities when it is delivered (`Stood`, from send's last checks). A reply is routed by the replier's own
configuration; that the two ends agree follows from `Leads` and from how a root is
classified under any pin. `ExplainedRouteSends` compares two commands in one
state; it needs `ContextInv` and `DirsInv`, that a session's base exists as long as
the session. The argument goes through send's checks one by one: a root that
agrees with the pin is the pinned base or the pinned session below it
(`PinnedRoot`), so that nothing in the terminal contradicts it, and the printed
session resolves to the explained route (`RoutePrinted`). Each of the four
exceptions is used, and each is a difference of the two commands in the code:
`route explain` does not ask whether the source directory exists, accepts the
sender as recipient, does not see that an `AM_ROOT` of another tree, exported by
hand over an identity pin, stops an unrouted send, and mirrors into a peer a session whose directory name `send --session`
rejects.

### Only model-checked

`EventuallyClaimed` is liveness under fairness, which is out of the prover's
reach. Safety properties that no theorem states:

- of `wake`: `BoundClaimReadable`, `OneWake`, `RepairInherits`, `LiveOwnerKept`,
  `ReadyMeansPrepared`, `NoStrandedRequest` and `StagesAccounted`, whose inductive
  invariants have to place every command at every step between two file writes;
- of `launch`: `NoDuplicateLayout`, `EveryPaneAccounted` and `OneAgentPerTicket`,
  which relate the journal, the binding and what a backend shows after any crash.

What a recursive definition computes for every input cannot
be proved here either, because the induction theorems of the library cannot be
instantiated; the models avoid such definitions where proofs are about them. The
least element of a set of numbers, which the courier's order and the ids of a
team need, is taken from well-founded induction.

## What is not modelled

Loss of unsynced data in a power failure (a crash here is the death of a
process: what a rename has done stays done; a failed sync only changes what the
caller is told); the Windows claim primitive; signatures and key files; message
parsing beyond whether it succeeds; listings, traces and other read-only
reports; integrations; self-update of the executable. `PROJECT.json` gives the
reason part by part. Within the parts that are modelled:

- wake: `amq doctor --fix` of restart residue without a lock is not an action;
  wording of notices is left out;
- keepalive: lengths of time and backoff (a check may or may not be due), more
  than one queue root, and the Ghostty, file and launchd adapters; the trusted
  target a claimant is resolved with is left out because the cmux adapter, the one
  modelled, ignores it (`Inventory` in `internal/keepalive`);
- launch: command lines and escaping; a backend is what `Create`, `Inspect` and
  `Reclaim` see and leave; the window and the pane of a tmux launch are marked in
  one step (a crash between the two marks of a one-agent plan leaves a window the
  code adopts by its mark), and pinning a roster is one step under the lease;
- swarm: the members' list is in the order the ids were made; the lead does what
  is said above;
- routing: the names of peers agree with those of their projects, directories
  nested below a session and broken `.amqrc` files do not occur, one command is in
  flight at a time, and thread ids are left out; a command has one recipient (the
  fan-out is in `Delivery`), and `--from-cwd` is the same question asked from
  another directory.
