-------------------------- MODULE LaunchReconcile --------------------------
(***************************************************************************)
(* Reconcile: how a launch command turns the session's durable state into  *)
(* a layout.  It plans from the journal or from the conversations, takes   *)
(* the lease, classifies what an earlier launch left, and journals what it *)
(* is about to create.                                                     *)
(*                                                                         *)
(* world.cast[p] gives command p its verb, its roster, the handles with    *)
(* on_live keep, the launcher it asks for (a layout kind or "auto"), its   *)
(* conversation policy and its rebind decision.  A command may crash       *)
(* between any two steps; its files stay and its lease becomes stale.      *)
(***************************************************************************)
EXTENDS LaunchBackend

Goto(p, l) == pc' = [pc EXCEPT ![p] = l]
Became(p, l, r) == loc' = [loc EXCEPT ![p] = r] /\ Goto(p, l)
Me(p) == <<"cmd", p>>
InLease(p) == Holds(Me(p))
Verb(p) == world.cast[p].verb
Roster(p) == world.cast[p].roster
Via(p) == world.cast[p].via
Policy(p) == world.cast[p].policy

(***************************************************************************)
(* buildReconcilePlan: which handles start, and which of them need a new   *)
(* conversation record.  The policies are auto, fallback (a stale          *)
(* conversation may start afresh), fresh and resume (resume only).         *)
(***************************************************************************)
Resumes(p, h) == conv[h] # None /\ conv[h].state = "ready" /\ Policy(p) # "fresh"
StartsFresh(p, h) ==
  CASE Policy(p) = "fresh"  -> TRUE
    [] Policy(p) = "resume" -> FALSE
    [] OTHER -> \/ conv[h] = None
                \/ conv[h].state = "pending" /\ world.mode[h] = "mint"
                \/ conv[h].state # "ready" /\ Policy(p) = "fallback"
Plan(p) == {h \in Roster(p) : Resumes(p, h) \/ StartsFresh(p, h)}
\* The record of a planned agent: its own when it resumes, pending otherwise.
PlannedRecords(p, n) ==
  [h \in Handles |-> CASE h \notin Plan(p) -> None
                       [] h \in Plan(p) /\ Resumes(p, h) -> conv[h]
                       [] OTHER -> Pending(n)]

\* What a command carries from step to step.
Empty(p) ==
  [nonce |-> p, saw |-> None, active |-> FALSE, kind |-> None, plan |-> {}, fresh |-> {},
   write |-> {}, recs |-> [h \in Handles |-> None], join |-> None, cand |-> None,
   todo |-> {}, opened |-> {}, unsent |-> {}, box |-> 0, back |-> FALSE]
Draft(p, n) ==
  LET fresh == {h \in Plan(p) : ~Resumes(p, h)} IN
  [Empty(p) EXCEPT !.nonce = n, !.plan = Plan(p), !.fresh = fresh, !.write = fresh,
                   !.recs = PlannedRecords(p, n)]
Stop(p) == Became(p, "release", Empty(p)) /\ UNCHANGED <<lease, store, term, fixed>>
\* plannedFromJournal: a journal fixes the generation and the plan, and every
\* agent it does not call resumed is written again.
plannedFromJournal(p, j) ==
  [Draft(p, j.nonce) EXCEPT !.saw = j, !.active = TRUE, !.kind = j.kind, !.plan = j.plan,
                            !.fresh = j.fresh, !.write = j.fresh, !.recs = j.recs]
Drafted(p, n) == IF journal = None THEN Draft(p, n) ELSE plannedFromJournal(p, journal)
\* Nothing to do: no plan, or the journal is of another roster or placement.
Refused(p, n) ==
  \/ journal # None /\ ~ValidateRequest(journal, Roster(p), Via(p))
  \/ Drafted(p, n).plan = {}

(***************************************************************************)
(* Before the lease: the journal and the plan are read without it.         *)
(***************************************************************************)
ReconcileLoad(p) ==
  /\ pc[p] = "idle" /\ Verb(p) = "launch"
  /\ IF Refused(p, p) THEN Became(p, "done", Empty(p)) ELSE Became(p, "want", Drafted(p, p))
  /\ UNCHANGED <<lease, store, term, fixed>>

\* acquireExistingApplyLease: Apply on an existing session holds the lease
\* first, under the generation of the journal or else of the binding.
ApplyNonce(p) ==
  /\ pc[p] = "idle" /\ Verb(p) = "apply"
  /\ loc' = [loc EXCEPT ![p].nonce = IF journal # None THEN journal.nonce
                                     ELSE IF binding # None /\ world.cast[p].rebind = "no"
                                          THEN binding.nonce ELSE p]
  /\ Goto(p, "awant")
  /\ UNCHANGED <<lease, store, term, fixed>>
ApplyAcquire(p) ==
  /\ pc[p] = "awant" /\ AcquireLease(Me(p), loc[p].nonce)
  /\ Goto(p, "aload")
  /\ UNCHANGED <<store, term, loc, fixed>>
ApplyLoad(p) ==
  /\ pc[p] = "aload"
  /\ LET d == Drafted(p, loc[p].nonce) IN
     IF Refused(p, loc[p].nonce) \/ d.nonce # loc[p].nonce
     THEN Became(p, "release", Empty(p)) ELSE Became(p, "locked", d)
  /\ UNCHANGED <<lease, store, term, fixed>>

Acquire(p) ==
  /\ pc[p] = "want" /\ AcquireLease(Me(p), loc[p].nonce)
  /\ Goto(p, "locked")
  /\ UNCHANGED <<store, term, loc, fixed>>
\* Trust refused, or the lease is held.
GiveUp(p) ==
  /\ pc[p] \in {"want", "awant"} /\ Became(p, "done", Empty(p))
  /\ UNCHANGED <<lease, store, term, fixed>>

(***************************************************************************)
(* Under the lease, with a journal.                                        *)
(***************************************************************************)

\* launch_journal_changed.
JournalChanged(p) ==
  /\ pc[p] = "locked" /\ loc[p].saw # None /\ journal # loc[p].saw
  /\ Stop(p)
Unchanged(p) == pc[p] = "locked" /\ loc[p].saw # None /\ journal = loc[p].saw

\* An interrupted join goes on when the binding it extends is still there.
ResumeJoin(p) ==
  /\ Unchanged(p) /\ journal.join # None
  /\ \/ binding # journal.join /\ Stop(p)
     \/ /\ binding = journal.join
        /\ Became(p, "tickets", [loc[p] EXCEPT !.join = binding, !.box = binding.box])
        /\ UNCHANGED <<lease, store, term, fixed>>

\* launch_journal_backend_conflict.
LauncherConflict(p) ==
  /\ Unchanged(p) /\ journal.join = None
  /\ Via(p) # "auto" /\ Backend(Via(p)) # Backend(journal.kind)
  /\ Stop(p)
Recovers(p) ==
  /\ Unchanged(p) /\ journal.join = None
  /\ Via(p) # "auto" => Backend(Via(p)) = Backend(journal.kind)

\* recoverJournal with a binding: it is authoritative when it matches.
BindingDecides(p) ==
  /\ Recovers(p) /\ binding # None
  /\ \/ /\ ~journalMatchesBinding(journal, binding) \/ journal.phase # "created"
        /\ Stop(p)
     \/ /\ journalMatchesBinding(journal, binding) /\ journal.phase = "created"
        /\ Became(p, "commit", loc[p])
        /\ UNCHANGED <<lease, store, term, fixed>>
\* commitRecoveredJournal.
CommitConversations(p) ==
  /\ pc[p] = "commit" /\ InLease(p)
  /\ WriteConversations(journal.plan, journal.recs)
  /\ Goto(p, "committed")
  /\ UNCHANGED <<lease, journal, binding, ticket, evid, term, loc, fixed>>
CommitClear(p) ==
  /\ pc[p] = "committed" /\ InLease(p) /\ ClearJournal(loc[p].saw)
  /\ Became(p, "release", Empty(p))
  /\ UNCHANGED <<lease, binding, ticket, conv, evid, term, fixed>>

\* recoverJournal without a binding: Reclaim decides.
AdoptionHolds(j, r) ==
  /\ r.status = "adoptable"
  /\ j.cand = None \/ j.cand = r.bind
  /\ j.phase = "created" => j.bind = r.bind
ReclaimDecides(p) ==
  LET r == Reclaim(journal) IN
  /\ Recovers(p) /\ binding = None
  /\ \/ r.status # "absent" /\ ~AdoptionHolds(journal, r) /\ Stop(p)
     \/ /\ AdoptionHolds(journal, r)
        /\ Became(p, IF journal.phase = "created" THEN "finalized" ELSE "created",
                  [loc[p] EXCEPT !.cand = r.bind, !.back = TRUE])
        /\ UNCHANGED <<lease, store, term, fixed>>
     \/ /\ r.status = "absent" /\ ClearJournal(loc[p].saw)
        /\ Became(p, "journal", [loc[p] EXCEPT !.active = FALSE])
        /\ UNCHANGED <<lease, binding, ticket, conv, evid, term, fixed>>

(***************************************************************************)
(* Under the lease, without a journal: the seats that are already there.   *)
(***************************************************************************)
Blank(p) == pc[p] = "locked" /\ loc[p].saw = None
Keep(p) == world.cast[p].keep \cap Roster(p)

\* seatFactsFromBinding and classifyOneLiveSeat.
Seat(p, h) ==
  CASE h \notin BoundHandles(binding) -> "created"
    [] h \in BoundHandles(binding) /\ Inspect(binding) = "present" /\ h \in Keep(p) -> "kept"
    [] OTHER -> "refused"
Seats(p, decision) == {h \in Roster(p) : Seat(p, h) = decision}
\* ClassifyLiveSeats and reconcileLiveSeats: one refused seat refuses the
\* whole cohort; kept and missing seats together are joined, in the default
\* tmux session only.
CohortRefused(p) == Keep(p) # {} /\ Seats(p, "refused") # {}
Joins(p) ==
  Keep(p) # {} /\ ~CohortRefused(p) /\ Seats(p, "kept") # {} /\ Seats(p, "created") # {}
JoinSupported(p) == Backend(binding.kind) = "tmux" /\ Placement(Via(p)) = "default"
ReconcileLiveSeats(p) ==
  /\ Blank(p) /\ binding # None
  /\ \/ CohortRefused(p) /\ Stop(p)
     \/ Joins(p) /\ ~JoinSupported(p) /\ Stop(p)
     \/ /\ Joins(p) /\ JoinSupported(p)
        /\ Became(p, "journal",
                  [loc[p] EXCEPT !.join = binding, !.box = binding.box, !.kind = binding.kind,
                                 !.write = @ \ Seats(p, "kept")])
        /\ UNCHANGED <<lease, store, term, fixed>>

(***************************************************************************)
(* chooseReconcileBackend: an unknown layout is refused, a present one is  *)
(* focused, refused or rebound to another launcher, an absent one is       *)
(* replaced.                                                               *)
(***************************************************************************)
NoJoin(p) == Blank(p) /\ (binding # None => ~CohortRefused(p) /\ ~Joins(p))
Preferred(p) == IF Via(p) = "auto" THEN world.prefer ELSE Via(p)
OtherBackend(p) == Via(p) # "auto" /\ Backend(Via(p)) # Backend(binding.kind)
Rebind(p) == world.cast[p].rebind
Choose(p) == Became(p, "journal", [loc[p] EXCEPT !.kind = Preferred(p)])

ChooseNew(p) ==
  /\ NoJoin(p) /\ binding = None
  /\ Choose(p)
  /\ UNCHANGED <<lease, store, term, fixed>>
ChooseRefused(p) ==
  /\ NoJoin(p) /\ binding # None
  /\ CASE Inspect(binding) = "unknown" -> TRUE
       [] Inspect(binding) = "present" -> ~OtherBackend(p) \/ Rebind(p) = "no"
       [] Inspect(binding) = "absent"  -> OtherBackend(p) /\ Rebind(p) = "no"
  /\ Stop(p)
ChooseAbsent(p) ==
  /\ NoJoin(p) /\ binding # None /\ Inspect(binding) = "absent"
  /\ OtherBackend(p) => Rebind(p) # "no"
  /\ Choose(p)
  /\ UNCHANGED <<lease, store, term, fixed>>
\* The old layout is left running, by decision, or closed first.
RebindLeaves(p) ==
  /\ NoJoin(p) /\ binding # None /\ Inspect(binding) = "present"
  /\ OtherBackend(p) /\ Rebind(p) = "leave_old"
  /\ lost' = lost \cup {x.nonce : x \in {y \in layout : <<y.h, y.k>> \in binding.panes}}
  /\ Choose(p)
  /\ UNCHANGED <<lease, store, term, world>>
RebindCloses(p) ==
  /\ NoJoin(p) /\ binding # None /\ Inspect(binding) = "present"
  /\ OtherBackend(p) /\ Rebind(p) = "close_old"
  /\ Became(p, "rebind", [loc[p] EXCEPT !.cand = binding])
  /\ UNCHANGED <<lease, store, term, fixed>>
RebindClosing(p) ==
  /\ pc[p] = "rebind"
  /\ IF Closed(loc[p].cand)
     THEN Became(p, "journal", [loc[p] EXCEPT !.kind = Preferred(p), !.cand = None]) /\ UNCHANGED layout
     ELSE CloseOne(loc[p].cand) /\ UNCHANGED <<pc, loc>>
  /\ UNCHANGED <<lease, store, made, fixed>>

(***************************************************************************)
(* Journal and tickets come before Create.                                 *)
(***************************************************************************)
\* The commands backend has no CapCreate and journals nothing.
WriteIntent(p) ==
  /\ pc[p] = "journal" /\ InLease(p)
  /\ LET j == NewLaunchJournal(loc[p].nonce, loc[p].kind, Roster(p), loc[p].plan,
                               loc[p].fresh, loc[p].recs, loc[p].join)
         managed == loc[p].kind # "commands"
     IN /\ IF managed THEN WriteJournal(j) /\ Forget(journal, None)
           ELSE UNCHANGED <<journal, lost>>
        /\ Became(p, "tickets", [loc[p] EXCEPT !.active = managed])
  /\ UNCHANGED <<lease, binding, ticket, conv, evid, term, world>>

\* ticketAgentsForCreate, and the plan handed to Create.
ToStart(p) == IF loc[p].join = None THEN loc[p].plan ELSE loc[p].write
TicketId(h, r) == IF r.state = "ready" THEN r.id
                  ELSE IF world.mode[h] = "mint" THEN r.nonce ELSE None
WriteTickets(p) ==
  /\ pc[p] = "tickets" /\ InLease(p)
  /\ ticket' = [h \in Handles |->
       IF h \in ToStart(p)
       THEN NewExecutionTicket(h, loc[p].nonce, TicketId(h, loc[p].recs[h]), h \in loc[p].write)
       ELSE ticket[h]]
  /\ Became(p, "create", [loc[p] EXCEPT !.todo = ToStart(p)])
  /\ UNCHANGED <<lease, journal, binding, conv, evid, term, fixed>>
\* A provider that cannot be resolved: the tickets written so far are removed,
\* the journal stays.
TicketsRefused(p) ==
  /\ pc[p] = "tickets" /\ InLease(p)
  /\ RemoveTickets(ToStart(p), loc[p].nonce)
  /\ Became(p, "release", Empty(p))
  /\ UNCHANGED <<lease, journal, binding, conv, evid, term, fixed>>

ReconcileStep(p) ==
  \/ ReconcileLoad(p) \/ ApplyNonce(p) \/ ApplyAcquire(p) \/ ApplyLoad(p)
  \/ Acquire(p) \/ GiveUp(p)
  \/ JournalChanged(p) \/ ResumeJoin(p) \/ LauncherConflict(p) \/ BindingDecides(p)
  \/ CommitConversations(p) \/ CommitClear(p) \/ ReclaimDecides(p)
  \/ ReconcileLiveSeats(p)
  \/ ChooseNew(p) \/ ChooseRefused(p) \/ ChooseAbsent(p)
  \/ RebindLeaves(p) \/ RebindCloses(p) \/ RebindClosing(p)
  \/ WriteIntent(p) \/ WriteTickets(p) \/ TicketsRefused(p)
=============================================================================
