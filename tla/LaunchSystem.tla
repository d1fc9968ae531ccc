---------------------------- MODULE LaunchSystem ----------------------------
(***************************************************************************)
(* The commands that act on a launched layout: inspect, focus and close    *)
(* (lifecycle.go), and cleanup --launch-journal (cli/cleanup.go).          *)
(***************************************************************************)
EXTENDS LaunchExec

\* InspectLifecycle takes no lease; the binding it looked at must be the one
\* on disk when it answers (back), otherwise it says binding_changed.
InspectBegin(p) ==
  /\ pc[p] = "idle" /\ Verb(p) = "inspect" /\ binding # None
  /\ Became(p, "viewing", [loc[p] EXCEPT !.cand = binding])
  /\ UNCHANGED <<lease, store, term, fixed>>
InspectLifecycle(p) ==
  /\ pc[p] = "viewing"
  /\ Became(p, "done", [loc[p] EXCEPT !.back = (binding = loc[p].cand)])
  /\ UNCHANGED <<lease, store, term, fixed>>

\* mutateLifecycle: a lease of its own, the layout inspected, the binding
\* read again, then the backend's operation.  The binding stays.
LifecycleAcquire(p) ==
  /\ pc[p] = "idle" /\ Verb(p) \in {"focus", "close"} /\ binding # None
  /\ IF LeaseFree THEN AcquireLease(Me(p), p) /\ Goto(p, "inspect")
     ELSE Goto(p, "done") /\ UNCHANGED lease
  /\ UNCHANGED <<store, term, loc, fixed>>
Permits(p, status) == status = "present" \/ (Verb(p) = "close" /\ status = "absent")
mutateLifecycle(p) ==
  /\ pc[p] = "inspect"
  /\ IF binding # None /\ Permits(p, Inspect(binding))
     THEN Became(p, "mutate", [loc[p] EXCEPT !.cand = binding])
     ELSE Became(p, "release", Empty(p))
  /\ UNCHANGED <<lease, store, term, fixed>>
FocusLifecycle(p) ==
  /\ pc[p] = "mutate" /\ Verb(p) = "focus"
  /\ Stop(p)
CloseLifecycle(p) ==
  /\ pc[p] = "mutate" /\ Verb(p) = "close"
  /\ IF binding # loc[p].cand \/ Closed(loc[p].cand)
     THEN Became(p, "release", Empty(p)) /\ UNCHANGED layout
     ELSE CloseOne(loc[p].cand) /\ UNCHANGED proc
  /\ UNCHANGED <<lease, store, made, fixed>>

\* cleanupLaunchJournal: the journal is read before the lease, and removed
\* only while its bytes are the same.
CleanupLoad(p) ==
  /\ pc[p] = "idle" /\ Verb(p) = "cleanup" /\ journal # None
  /\ Became(p, "cwant", [loc[p] EXCEPT !.saw = journal, !.nonce = journal.nonce])
  /\ UNCHANGED <<lease, store, term, fixed>>
CleanupAcquire(p) ==
  /\ pc[p] = "cwant"
  /\ IF LeaseFree THEN AcquireLease(Me(p), loc[p].nonce) /\ Goto(p, "cleanup")
     ELSE Goto(p, "done") /\ UNCHANGED lease
  /\ UNCHANGED <<store, term, loc, fixed>>
CleanupClear(p) ==
  /\ pc[p] = "cleanup" /\ InLease(p)
  /\ IF journal = loc[p].saw THEN ClearJournal(journal) /\ Forget(journal, binding)
     ELSE UNCHANGED <<journal, lost>>
  /\ Became(p, "release", Empty(p))
  /\ UNCHANGED <<lease, binding, ticket, conv, evid, term, world>>

LifecycleStep(p) ==
  \/ InspectBegin(p) \/ InspectLifecycle(p)
  \/ LifecycleAcquire(p) \/ mutateLifecycle(p)
  \/ FocusLifecycle(p) \/ CloseLifecycle(p)
  \/ CleanupLoad(p) \/ CleanupAcquire(p) \/ CleanupClear(p)

-----------------------------------------------------------------------------
(***************************************************************************)
(* Launch, apply, lifecycle and cleanup commands on one session, together  *)
(* with the wrappers, agents and notifiers in its panes, under crashes.    *)
(***************************************************************************)

CONSTANT Worlds   \* the worlds a behaviour may start in

vars == <<lease, store, term, proc, fixed>>

\* Every behaviour starts with no launch state, or (world.begun) when command
\* 1 has launched handle 1 and its wrapper has become the agent.
Started ==
  [k |-> 1, kind |-> Via(1), box |-> 1, h |-> 1, nonce |-> 1, gen |-> 1, note |-> "none",
   mark |-> IF Backend(Via(1)) = "tmux" THEN 1 ELSE None, id |-> 1, proc |-> "agent"]
Begun(x) == [h \in Handles |-> IF world.begun /\ h = 1 THEN x ELSE None]
Init ==
  /\ world \in Worlds
  /\ lease = NoLease /\ journal = None /\ evid = {} /\ lost = {}
  /\ binding = IF ~world.begun THEN None
               ELSE Binding(1, Via(1), 1, Ids({Started}), Backend(Via(1)) = "tmux")
  /\ ticket = Begun([nonce |-> 1, state |-> "acknowledged", id |-> 1, mode |-> "mint"])
  /\ conv = Begun(Ready(1, 1))
  /\ made = IF world.begun THEN 1 ELSE 0
  /\ layout = IF world.begun THEN {Started}
              ELSE IF \E p \in Cmds : Via(p) = "current" THEN {Launcher} ELSE {}
  /\ pc = [p \in Cmds |-> IF world.begun /\ p = 1 THEN "done" ELSE "idle"]
  /\ loc = [p \in Cmds |-> Empty(p)]

\* The commands given that are not over.
Running == {p \in Cmds : Verb(p) # "none" /\ pc[p] \notin {"done", "dead"}}

Next ==
  \/ \E p \in Running : ReconcileStep(p) \/ CreateStep(p) \/ LifecycleStep(p) \/ Crash(p)
  \/ \E x \in layout : ExecStep(x)
  \/ \E h \in Handles : RunEmitted(h)

Spec == Init /\ [][Next]_vars

(***************************************************************************)
(* Properties.                                                             *)
(***************************************************************************)
PaneIds == Handles \X (1..MaxPanes)
Bindings == [nonce : Cmds, kind : Kinds, box : 1..LauncherPane, panes : SUBSET PaneIds,
             epoch : BOOLEAN]
PaneStates == {"new", "shell", "wrapper", "exec", "agent", "revert", "user"} \cup Held

\* Type invariant: every file is absent or passes its Validate, every pane is
\* the launcher's or one a backend opened.
LaunchTypeOK ==
  /\ lease # NoLease => /\ lease.nonce \in Cmds
                        /\ lease.by \in {"cmd", "pane", "notify"} \X (Cmds \cup 1..MaxPanes)
  /\ journal # None =>
       /\ ValidJournal(journal) /\ journal.deltas \subseteq PaneIds
       /\ {journal.bind, journal.cand, journal.join} \subseteq Bindings \cup {None}
  /\ binding \in Bindings \cup {None}
  /\ \A h \in Handles : /\ conv[h] # None => ValidConversation(conv[h])
                        /\ ticket[h] # None => ValidTicket(ticket[h])
  /\ evid \subseteq Handles \X Cmds
  /\ lost \subseteq Cmds /\ made \in 0..MaxPanes
  /\ \A x \in layout : x = Launcher \/ (x.k \in 1..made /\ x.kind \in Kinds /\ x.proc \in PaneStates)

LeaseSteps == {"aload", "locked", "commit", "committed", "rebind", "journal", "tickets",
               "create", "markwin", "mark", "delta", "created", "finalized", "jcreated",
               "convs", "bound", "release", "inspect", "mutate", "cleanup"}
Writers ==
  {Me(p) : p \in {q \in Cmds : pc[q] \in LeaseSteps}}
  \cup {PaneMe(x) : x \in {y \in layout : y.proc \in Held}}
  \cup {NotifyMe(x) : x \in {y \in layout : y.note # "none"}}
\* Whoever is between AcquireLease and Release, command, wrapper or notifier,
\* is the holder the lease record names, so there is never a second one:
\* taking over a stale lease never evicts a live holder.
OneLeaseHolder == \A w \in Writers : Holds(w)

\* A recovery can see a pane when the pane or its box carries the generation.
Tagged(x) == x.gen = x.nonce \/ x.mark # None
Managed == {x \in layout : x.kind \notin {"launcher", "commands"} /\ Tagged(x)}
\* Two panes never run the same handle (launch-recovery.md: a crash is no permission
\* to spawn a duplicate), whatever crashes, races and is recovered.  The exceptions
\* are the generations in lost: their journal was overwritten by a launch that read
\* no journal before it had the lease, was removed by cleanup, or was dropped by a
\* refused join whose pane is there; or a rebind decision left them running.  It is
\* about the panes a recovery can see.
NoDuplicateLayout ==
  \A x, y \in Managed :
    (x.h = y.h /\ x # y) => {x.nonce, y.nonce} \cap lost # {}

\* Every pane is named by the binding or belongs to the journaled generation,
\* with the same exceptions: no launch leaves a layout behind that no later
\* command can find.
EveryPaneAccounted ==
  \A x \in Managed :
    \/ x.nonce \in lost
    \/ journal # None /\ journal.nonce = x.nonce
    \/ binding # None /\ <<x.h, x.k>> \in binding.panes

Emitted == {x \in layout : x.kind = "commands"}
\* One ticket starts one agent: running the same command again, in the shell
\* or from the emitted text, is refused, whatever was reverted in between.
\* (The pre-spawn wrapper accepts an acknowledged ticket and is excluded.)
OneAgentPerTicket ==
  \A x, y \in layout :
    (x.proc = "agent" /\ y.proc = "agent" /\ x.h = y.h /\ x.nonce = y.nonce
       /\ world.mode[x.h] # "prespawn" /\ {x, y} \subseteq Managed \cup Emitted)
      => x = y \/ x.nonce \in lost

\* A launch generation opens at most one pane for a handle, whatever crashes
\* between Create and the binding (docs/launch-recovery.md:3-5: AMQ records the
\* journal before Create "so a crash cannot turn that gap into permission to
\* spawn a duplicate layout").
OneLayoutPerGeneration ==
  \A x, y \in layout : (x.h = y.h /\ x.nonce = y.nonce) => x = y
=============================================================================
