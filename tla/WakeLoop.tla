------------------------------ MODULE WakeLoop ------------------------------
(***************************************************************************)
(* The loop of one admitted wake process (runWakeLoop in                    *)
(* internal/cli/wake_unix.go and the notification path of                   *)
(* internal/cli/wake.go): watch an inbox, ring the doorbell of WakeDoorbell *)
(* through its terminal input, fall back to attention output, and keep      *)
(* enough timers armed that no arrival is missed.                           *)
(*                                                                          *)
(* The wake is sequential; its steps interleave with messages arriving,     *)
(* with the agent draining its inbox, and with time.  An attempt is several *)
(* steps, so the cohort it scanned may be stale when it is recorded.        *)
(***************************************************************************)
EXTENDS WakeDoorbell

CONSTANTS Names, MaxGen, FaultLimit, Modes

VARIABLES
    inbox,     \* files in inbox/new: a set of [name, gen]
    made,      \* generations used per name
    events,    \* names with an unread watcher event
    baseline,  \* startup backlog the wake ignores
    loop,      \* program counter, timers and locals of runWakeLoop
    conf,      \* injection mode and recovery flag (wakeConfig); switched bounds the
               \* number of times the kernel switches TIOCSTI off to one
    bell,      \* cfg.doorbell
    input,     \* cfg.inputDelivery
    seen,      \* what the attempt under way scanned and planned
    rung,      \* files a recorded attempt covered, or that joined a parked cohort
    torn,      \* an incomplete payload is on the terminal, no progress since
    stacked,   \* a payload was begun on top of an incomplete one
    asked,     \* reminders completed since the agent last drained a message, or since
               \* terminal input was last given up
    earlier    \* those completed before that, since the last drain, and how often
               \* terminal input was given up since then

wakeLoopVars == <<inbox, made, events, baseline, loop, conf, bell, input, seen,
                  rung, torn, stacked, asked, earlier>>

NoneAsked == [sent |-> 0, givenUp |-> 0]

InboxFiles == [name : Names, gen : 1 .. MaxGen]

LoopInit ==
    /\ made \in [Names -> 0 .. 1]
    /\ inbox \in SUBSET {[name |-> n, gen |-> 1] : n \in {x \in Names : made[x] = 1}}
    /\ events = {}
    /\ baseline = {}
    /\ conf \in {[mode |-> m, want |-> m, legacy |-> FALSE, recovery |-> FALSE,
                  injected |-> i, backlog |-> b, switched |-> w] :
                    m \in Modes, i \in BOOLEAN, b \in BOOLEAN, w \in BOOLEAN}
    /\ conf.injected => conf.mode = "via"
    /\ loop \in {[pc |-> "arm", cont |-> "select", why |-> "none", notify |-> FALSE,
                   debounce |-> FALSE, term |-> FALSE, scan |-> FALSE, deadline |-> FALSE,
                   watching |-> FALSE, had |-> FALSE, enabled |-> FALSE, failed |-> FALSE,
                   gap |-> FALSE, fence |-> {}, old |-> {}, faults |-> f] : f \in 0 .. FaultLimit}
    /\ bell = Quiet
    /\ input = NoInput
    /\ seen = [cur |-> {}, submitOnly |-> FALSE, content |-> FALSE, retained |-> FALSE]
    /\ rung = {} /\ torn = FALSE /\ stacked = FALSE /\ asked = 0 /\ earlier = NoneAsked

LoopAt(l) == loop.pc = l
Faulty == loop.faults > 0
Fault(l) == [l EXCEPT !.faults = @ - 1]

-----------------------------------------------------------------------------
(* The inbox and time. *)

Signal(name) ==
    /\ events' = IF loop.watching THEN events \cup {name} ELSE events
    /\ loop' = [loop EXCEPT !.fence = IF loop.pc \in {"snapshot", "settle"} THEN @ \cup {name} ELSE @]

\* A message is delivered; a name is used again only after its file has gone.
Arrive(n) ==
    /\ made[n] < MaxGen /\ n \notin NamesOf(inbox)
    /\ made' = [made EXCEPT ![n] = @ + 1]
    /\ inbox' = inbox \cup {[name |-> n, gen |-> made[n] + 1]}
    /\ Signal(n)
    /\ UNCHANGED <<baseline, conf, bell, input, seen, rung, torn, stacked, asked, earlier>>

\* The agent drains a message: durable progress of the consumer.
Drain(f) ==
    /\ inbox' = inbox \ {f}
    /\ torn' = FALSE /\ asked' = 0 /\ earlier' = NoneAsked
    /\ Signal(f.name)
    /\ UNCHANGED <<made, baseline, conf, bell, input, seen, rung, stacked>>

\* Time passes while the loop waits: an attempt reads the clock only to compare
\* it with deadlines, so a deadline that falls due during the attempt may as well
\* have fallen due before it.  The addition floor never lies after the next attempt.
TimePasses ==
    /\ LoopAt("select")
    /\ bell' \in {[bell EXCEPT !.floor = "due"], [bell EXCEPT !.floor = "due", !.next = "due"],
                  [bell EXCEPT !.next = "due"], [bell EXCEPT !.transient = "due"]}
    /\ \A d \in {"floor", "next", "transient"} : bell'[d] # bell[d] => bell[d] = "later"
    /\ bell'.next = "due" => bell'.floor # "later"
    /\ bell' # bell
    /\ UNCHANGED <<inbox, made, events, baseline, loop, conf, input, seen, rung, torn, stacked, asked, earlier>>

-----------------------------------------------------------------------------
(* Startup: the watcher first, then the backlog, then the first attempt. *)

Rest == <<inbox, made, conf, bell, input, seen, rung, torn, stacked, asked, earlier>>

ArmMainWatcher ==
    /\ LoopAt("arm")
    /\ loop' = [loop EXCEPT !.watching = TRUE, !.pc = IF conf.backlog THEN "bound" ELSE "admit"]
    /\ UNCHANGED <<events, baseline, Rest>>

\* The startup boundary: a second watcher is installed before the backlog is
\* read, so that what arrives in between is in the backlog and in its events.
OpenBaselineWatcher ==
    /\ LoopAt("bound")
    /\ loop' = [loop EXCEPT !.pc = "snapshot", !.fence = {},
                            !.old = IF loop.gap THEN @ ELSE inbox]
    /\ UNCHANGED <<events, baseline, Rest>>

SnapshotExisting ==
    /\ LoopAt("snapshot")
    /\ baseline' = inbox
    /\ loop' = [loop EXCEPT !.pc = "settle"]
    /\ UNCHANGED <<events, Rest>>

\* Mutant: an event leaves the backlog as it is.
InvalidateNothing(base, names) == base

InvalidateBaseline(base, names) == {b \in base : b.name \notin names}

\* The barrier was seen and the inbox stayed quiet.  A gap in the history of
\* events leaves no backlog to ignore.
SettleBaseline ==
    /\ LoopAt("settle")
    /\ baseline' = IF loop.gap THEN {} ELSE InvalidateBaseline(baseline, loop.fence)
    /\ loop' = [loop EXCEPT !.pc = "admit", !.fence = {}]
    /\ UNCHANGED <<events, Rest>>

BaselineLost ==
    /\ LoopAt("settle") /\ Faulty
    /\ baseline' = {}
    /\ loop' = Fault([loop EXCEPT !.pc = "bound", !.gap = TRUE, !.fence = {}])
    /\ UNCHANGED <<events, Rest>>

\* The main watcher died before admission: rearm, and ignore nothing.
RearmBeforeAdmission ==
    /\ LoopAt("admit") /\ Faulty
    /\ baseline' = {} /\ events' = {}
    /\ loop' = Fault(loop)
    /\ UNCHANGED Rest

\* attemptNotification returns at once while a retry is pending.
CallAttempt(l, cont) ==
    IF l.term \/ l.scan THEN [l EXCEPT !.pc = cont]
    ELSE [l EXCEPT !.pc = "scan", !.cont = cont]

Admit ==
    /\ LoopAt("admit")
    /\ loop' = CallAttempt(loop, "select")
    /\ UNCHANGED <<events, baseline, Rest>>
=============================================================================
