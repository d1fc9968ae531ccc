---------------------------- MODULE LaunchCreate ----------------------------
(***************************************************************************)
(* The second half of Reconcile: the backend's Create, one terminal        *)
(* command at a time, and the commit of journal, conversations and         *)
(* binding.  The launch holds the lease throughout.                        *)
(***************************************************************************)
EXTENDS LaunchReconcile

Opened(p) == {x \in layout : <<x.h, x.k>> \in loc[p].opened}
Kind(p) == loc[p].kind
Creating(p) == pc[p] = "create" /\ loc[p].join = None /\ loc[p].todo # {}
First(p) == loc[p].opened = {}
\* A split is made from the pane opened last.
LastThere(p) == \E x \in Opened(p) : \A s \in loc[p].opened : s[2] <= x.k

\* The next agent of the plan gets a pane in box (0: a new one) of generation
\* gen.
OpenNext(p, gen, box, next) ==
  LET h == Min(loc[p].todo) IN
  /\ Open(Kind(p), h, loc[p].nonce, gen, box)
  /\ Became(p, next, [loc[p] EXCEPT !.todo = @ \ {h}, !.opened = @ \cup {<<h, made + 1>>},
                                    !.box = IF box = 0 THEN made + 1 ELSE box,
                                    !.unsent = IF Backend(Kind(p)) = "tmux" THEN {}
                                               ELSE @ \cup {made + 1}])
  /\ UNCHANGED <<lease, store, fixed>>

(***************************************************************************)
(* Create is refused before it starts anything.                            *)
(***************************************************************************)
\* A DefinitePreCreateError: nothing was started, tickets and journal go.
DefiniteFailure(p) ==
  /\ RemoveTickets(ToStart(p), loc[p].nonce)
  /\ IF loc[p].active THEN journal' = None ELSE UNCHANGED journal
  /\ Became(p, "release", Empty(p))
  /\ UNCHANGED <<lease, binding, conv, evid, term, world>>
CreateRefused(p) ==
  /\ Creating(p) /\ First(p)
  /\ \/ NameTaken(Kind(p), loc[p].nonce) /\ Stop(p)
     \/ ~NameTaken(Kind(p), loc[p].nonce) /\ DefiniteFailure(p) /\ UNCHANGED lost

(***************************************************************************)
(* tmux: a session of its own, default or with a placement, a new window,  *)
(* the launcher's window.                                                  *)
(***************************************************************************)
OpenSessionPane(p) ==
  /\ Creating(p) /\ Kind(p) = "session"
  /\ IF First(p) THEN ~NameTaken("session", loc[p].nonce) ELSE Box(loc[p].box) # {}
  /\ OpenNext(p, loc[p].nonce, loc[p].box, "mark")
createSessionLayout(p) ==
  /\ Creating(p) /\ Kind(p) = "placed"
  /\ IF First(p) THEN ~NameTaken("placed", loc[p].nonce) ELSE LastThere(p)
  /\ OpenNext(p, loc[p].nonce, loc[p].box, "mark")
\* A new window carries no generation until it is marked.
createNewWindowLayout(p) ==
  /\ Creating(p) /\ Kind(p) = "window"
  /\ First(p) \/ LastThere(p)
  /\ OpenNext(p, IF First(p) THEN None ELSE loc[p].nonce, loc[p].box,
              IF First(p) THEN "markwin" ELSE "mark")
createCurrentWindowLayout(p) ==
  /\ Creating(p) /\ Kind(p) = "current"
  /\ IF First(p) THEN LauncherThere ELSE LastThere(p)
  /\ OpenNext(p, None, LauncherPane, "mark")

Unmarked(p) == {x \in Opened(p) : x.mark = None}
MarkWindow(p) ==
  /\ pc[p] = "markwin"
  /\ \E x \in Unmarked(p) : markOwnedWindow(x, loc[p].nonce)
  /\ Goto(p, "mark")
  /\ UNCHANGED <<lease, store, made, loc, fixed>>
\* The options of the window and of the pane, set one after the other in the
\* code, are one step.
MarkOpened(p) ==
  /\ pc[p] = "mark" /\ loc[p].join = None
  /\ \E x \in Unmarked(p) : markPane(x, loc[p].nonce)
  /\ Goto(p, "create")
  /\ UNCHANGED <<lease, store, made, loc, fixed>>

(***************************************************************************)
(* joinExistingSession: missing seats are added to the session of the      *)
(* binding, each journaled as a delta once it is marked.                   *)
(***************************************************************************)
validateJoinSession(p) ==
  LET b == loc[p].join IN
  /\ b.kind \in SessionKinds /\ Session # {} /\ sessionNonce = b.nonce
  /\ \A x \in Session : x.box = b.box
Joining(p) == pc[p] \in {"create", "mark", "delta"} /\ loc[p].join # None
\* A join is refused with the same error, also when its panes are there: the
\* journal goes and they stay.
Disown(p) ==
  /\ DefiniteFailure(p)
  /\ lost' = IF \E x \in layout : x.nonce = loc[p].nonce THEN lost \cup {loc[p].nonce} ELSE lost
JoinRefused(p) ==
  /\ Joining(p) /\ pc[p] # "delta"
  /\ ~validateJoinSession(p) \/ (pc[p] = "create" /\ ToStart(p) = {})
  /\ Disown(p)
SeatOf(h) == {x \in liveResources : x.h = h}
OpenJoinPane(p) ==
  /\ Joining(p) /\ pc[p] = "create" /\ loc[p].todo # {} /\ validateJoinSession(p)
  /\ SeatOf(Min(loc[p].todo)) = {}
  /\ OpenNext(p, loc[p].join.nonce, loc[p].join.box, "mark")
MarkJoined(p) ==
  /\ Joining(p) /\ pc[p] = "mark" /\ validateJoinSession(p)
  /\ \E x \in Unmarked(p) : markPane(x, loc[p].join.nonce)
  /\ Goto(p, "delta")
  /\ UNCHANGED <<lease, store, made, loc, fixed>>
\* Validate refuses a second delta for a handle, so the journal is not written.
joinDelta(d) == WriteJournal([journal EXCEPT !.deltas = @ \cup {d}])
Consistent(d) == {e \in journal.deltas : e[1] = d[1]} \subseteq {d}
JoinProgress(p) ==
  /\ Joining(p) /\ pc[p] = "delta"
  /\ \E d \in loc[p].opened :
       /\ \A e \in loc[p].opened : e[2] <= d[2]
       /\ \/ ~Consistent(d) /\ Stop(p)
          \/ /\ Consistent(d) /\ joinDelta(d) /\ Goto(p, "create")
             /\ UNCHANGED <<lease, binding, ticket, conv, evid, term, loc, fixed>>
\* The seat is there already, from a join that was interrupted.
JoinFound(p) ==
  /\ Joining(p) /\ pc[p] = "create" /\ loc[p].todo # {} /\ validateJoinSession(p)
  /\ \E x \in SeatOf(Min(loc[p].todo)) :
       IF Consistent(<<x.h, x.k>>)
       THEN /\ joinDelta(<<x.h, x.k>>)
            /\ loc' = [loc EXCEPT ![p].todo = @ \ {x.h}]
            /\ UNCHANGED <<lease, binding, ticket, conv, evid, term, pc, fixed>>
       ELSE Disown(p)

(***************************************************************************)
(* cmux and Ghostty: all surfaces are opened, waited for, and then the     *)
(* wrapper's command is typed into each.                                   *)
(***************************************************************************)
OpenSurface(p) ==
  /\ Creating(p) /\ Kind(p) = "cmux"
  /\ IF First(p) THEN ~NameTaken("cmux", loc[p].nonce) ELSE LastThere(p)
  /\ OpenNext(p, loc[p].nonce, loc[p].box, "create")
OpenTerminal(p) ==
  /\ Creating(p) /\ Kind(p) = "ghostty"
  /\ First(p) \/ LastThere(p)
  /\ OpenNext(p, loc[p].nonce, loc[p].box, "create")
NothingSent(p) == Cardinality(loc[p].unsent) = Cardinality(loc[p].opened)
waitHealthy(p) == Ids(Opened(p)) = loc[p].opened
SendCommand(p) ==
  /\ pc[p] = "create" /\ loc[p].todo = {} /\ loc[p].unsent # {}
  /\ NothingSent(p) => waitHealthy(p)
  /\ \E x \in Opened(p) :
       /\ x.k = Min(loc[p].unsent)
       /\ SetPane(x, [x EXCEPT !.proc = "wrapper"])
       /\ loc' = [loc EXCEPT ![p].unsent = @ \ {x.k}]
  /\ UNCHANGED <<lease, store, made, pc, fixed>>

(***************************************************************************)
(* Any other error leaves the journal.                                     *)
(***************************************************************************)
\* Mutant: a failed Create also clears the journal.
CreateFailsForgets(p) ==
  /\ pc[p] \in {"create", "markwin", "mark", "delta"} /\ loc[p].opened # {}
  /\ journal' = None
  /\ Became(p, "release", Empty(p))
  /\ UNCHANGED <<lease, binding, ticket, conv, evid, term, fixed>>
CreateFails(p) ==
  /\ pc[p] \in {"create", "markwin", "mark", "delta"} /\ loc[p].opened # {}
  /\ Stop(p)
\* reconcileCreateFailure: unless input was sent, the known workspace or
\* window is closed.
OrphanClosed(p) ==
  /\ pc[p] = "create" /\ loc[p].opened # {} /\ NothingSent(p) /\ Box(loc[p].box) # {}
  /\ layout' = layout \ Box(loc[p].box)
  /\ Became(p, "release", Empty(p))
  /\ UNCHANGED <<lease, store, made, fixed>>
CmuxCreateFailure(p) == Kind(p) = "cmux" /\ OrphanClosed(p)
GhosttyCreateFailure(p) == Kind(p) = "ghostty" /\ OrphanClosed(p)

(***************************************************************************)
(* Create returns a binding; the default session and a join take theirs    *)
(* from a new inventory, the others from what they opened.                 *)
(***************************************************************************)
createdBinding(p) ==
  IF loc[p].join # None
  THEN Binding(loc[p].join.nonce, Kind(p), loc[p].box, Ids(liveResources), TRUE)
  ELSE Binding(loc[p].nonce, Kind(p), loc[p].box,
               IF Kind(p) = "session" THEN Ids(liveResources) ELSE loc[p].opened,
               Backend(Kind(p)) = "tmux")
InventoryHolds(p) ==
  CASE loc[p].join # None   -> /\ \A h \in ToStart(p) : Cardinality(SeatOf(h)) = 1
                               /\ \A x \in Session : x.box = loc[p].box
    [] loc[p].join = None /\ Kind(p) = "session" ->
         Complete(liveResources, loc[p].plan) /\ \A x \in Session : x.box = loc[p].box
    [] loc[p].join = None /\ Kind(p) = "current" -> LauncherThere
    [] OTHER -> TRUE
AllOpened(p) ==
  /\ pc[p] = "create" /\ loc[p].todo = {} /\ loc[p].unsent = {} /\ ToStart(p) # {}
  /\ Kind(p) # "commands"
CreateReturns(p) ==
  /\ AllOpened(p) /\ Kind(p) # "ghostty"
  /\ IF ~InventoryHolds(p) THEN Became(p, "release", Empty(p))
     ELSE IF journal.phase = "created"
     THEN Became(p, "finalized", [loc[p] EXCEPT !.cand = journal.bind])
     ELSE Became(p, "created", [loc[p] EXCEPT !.cand = createdBinding(p)])
  /\ UNCHANGED <<lease, store, term, fixed>>
\* Ghostty has its binding journaled before it returns.
PersistCandidate(p) ==
  /\ AllOpened(p) /\ Kind(p) = "ghostty"
  /\ WriteJournal([journal EXCEPT !.cand = createdBinding(p)])
  /\ Became(p, "created", [loc[p] EXCEPT !.cand = createdBinding(p)])
  /\ UNCHANGED <<lease, binding, ticket, conv, evid, term, fixed>>
\* The commands backend only prints; the conversations are written all the
\* same.
EmitCommands(p) ==
  /\ pc[p] = "create" /\ Kind(p) = "commands"
  /\ Goto(p, "jcreated")
  /\ UNCHANGED <<lease, store, term, loc, fixed>>

(***************************************************************************)
(* finalizeCreatedState: which conversation records the launch will        *)
(* publish.  A mint record is taken over from disk when its wrapper has    *)
(* acknowledged; a capture adapter is asked for its final identity with    *)
(* the evidence of the backend, which none supplies.                       *)
(***************************************************************************)
FinalRecord(h, r) ==
  CASE world.mode[h] = "mint" /\ ticket[h] # None /\ ticket[h].state = "acknowledged" -> conv[h]
    [] world.mode[h] = "capture" -> Stale(r.nonce)
    [] OTHER -> r
FinalizeCreatedState(p) ==
  /\ pc[p] = "created" /\ InLease(p)
  /\ LET recs == [h \in Handles |-> IF h \in loc[p].write THEN FinalRecord(h, loc[p].recs[h])
                                    ELSE loc[p].recs[h]]
     IN IF \E h \in loc[p].write : recs[h] = None THEN Became(p, "release", Empty(p))
        ELSE Became(p, "finalized", [loc[p] EXCEPT !.recs = recs])
  /\ UNCHANGED <<lease, store, term, fixed>>

WriteCreated(p) ==
  /\ pc[p] = "finalized" /\ InLease(p)
  /\ WriteJournal([journal EXCEPT !.phase = "created", !.bind = loc[p].cand,
                                  !.cand = None, !.recs = loc[p].recs])
  /\ Goto(p, "jcreated")
  /\ UNCHANGED <<lease, binding, ticket, conv, evid, term, loc, fixed>>

PublishConversations(p) ==
  /\ pc[p] = "jcreated" /\ InLease(p)
  /\ WriteConversations(loc[p].write, loc[p].recs)
  /\ Goto(p, IF loc[p].active THEN "convs" ELSE "release")
  /\ UNCHANGED <<lease, journal, binding, ticket, evid, term, loc, fixed>>

\* revalidateAdoption, then WriteBinding.
WriteBinding(p) ==
  /\ pc[p] = "convs" /\ InLease(p)
  /\ LET r == Reclaim(journal) IN
     IF loc[p].back /\ ~(r.status = "adoptable" /\ r.bind = loc[p].cand)
     THEN Became(p, "release", Empty(p)) /\ UNCHANGED binding
     ELSE binding' = loc[p].cand /\ Became(p, "bound", Empty(p))
  /\ UNCHANGED <<lease, journal, ticket, conv, evid, term, fixed>>

ClearCommitted(p) ==
  /\ pc[p] = "bound" /\ InLease(p) /\ journal' = None
  /\ Became(p, "release", Empty(p))
  /\ UNCHANGED <<lease, binding, ticket, conv, evid, term, fixed>>

ReleaseLease(p) ==
  /\ pc[p] = "release" /\ Release /\ Became(p, "done", Empty(p))
  /\ UNCHANGED <<store, term, fixed>>

Crash(p) ==
  /\ pc[p] \notin {"idle", "done", "dead"} /\ Became(p, "dead", Empty(p))
  /\ UNCHANGED <<lease, store, term, fixed>>

CreateStep(p) ==
  \/ CreateRefused(p)
  \/ OpenSessionPane(p) \/ createSessionLayout(p) \/ createNewWindowLayout(p)
  \/ createCurrentWindowLayout(p) \/ MarkWindow(p) \/ MarkOpened(p)
  \/ JoinRefused(p) \/ OpenJoinPane(p) \/ MarkJoined(p) \/ JoinProgress(p) \/ JoinFound(p)
  \/ OpenSurface(p) \/ OpenTerminal(p) \/ SendCommand(p)
  \/ CreateFails(p) \/ CmuxCreateFailure(p) \/ GhosttyCreateFailure(p)
  \/ CreateReturns(p) \/ PersistCandidate(p) \/ EmitCommands(p)
  \/ FinalizeCreatedState(p) \/ WriteCreated(p) \/ PublishConversations(p)
  \/ WriteBinding(p) \/ ClearCommitted(p) \/ ReleaseLease(p)
=============================================================================
