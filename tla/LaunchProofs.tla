---------------------------- MODULE LaunchProofs ----------------------------
(* What a launch guarantees. For any number of commands, agents and panes,   *)
(* the launch lease never has two holders, whoever dies and whatever is      *)
(* closed. For any callers, directories and agents of Prepare and Apply, a   *)
(* directory is founded once, a call acts on the subject that was approved   *)
(* and keeps the participants of the calls that succeeded before it.         *)
EXTENDS LaunchSystem, LaunchApply, TLAPS

\* A leaf that names no prover is Zenon's.
USE ZenonT(60)

PaneFields == {"k", "kind", "box", "gen", "h", "nonce", "mark", "proc", "note", "id"}
IsPane(x) == DOMAIN x = PaneFields

\* A pane's identity is given out once; the launcher's is never given out.
PanesInv(L, m) ==
  /\ m \in 0..MaxPanes
  /\ \A x \in L : IsPane(x) /\ (x.k \in 1..m \/ x.k = LauncherPane)
  /\ \A x, y \in L : x.k = y.k => x = y

\* Who writes is who the lease names.
CommandsHold == \A p \in Cmds : pc[p] \in LeaseSteps => lease.by = <<"cmd", p>>
PanesHold ==
  \A x \in layout : /\ x.proc \in Held => lease.by = <<"pane", x.k>>
                    /\ x.note # "none" => lease.by = <<"notify", x.k>>

LaunchInv ==
  /\ pc = [p \in Cmds |-> pc[p]]
  /\ PanesInv(layout, made)
  /\ CommandsHold /\ PanesHold

-----------------------------------------------------------------------------
(* Panes *)

\* No pane of L2 has begun to write since L.
Calm(L, L2) ==
  \A y \in L2 :
    /\ y.proc \in Held => \E x \in L : x.k = y.k /\ x.proc \in Held
    /\ y.note # "none" => \E x \in L : x.k = y.k /\ x.note # "none"

LEMMA FewerPanes ==
  ASSUME PanesInv(layout, made), layout' \subseteq layout, made' = made
  PROVE  PanesInv(layout', made') /\ Calm(layout, layout')
BY DEF PanesInv, Calm

\* A new pane has an identity of its own and writes nothing (Open).
LEMMA OpensPane ==
  ASSUME PanesInv(layout, made), NEW kind, NEW h, NEW n, NEW gen, NEW box,
         Open(kind, h, n, gen, box)
  PROVE  PanesInv(layout', made') /\ Calm(layout, layout')
<1> DEFINE y == [k |-> made + 1, kind |-> kind, box |-> IF box = 0 THEN made + 1 ELSE box,
                 h |-> h, nonce |-> n, gen |-> gen, mark |-> None, note |-> "none", id |-> None,
                 proc |-> IF kind \in {"cmux", "ghostty"} THEN "new" ELSE "wrapper"]
<1>1. /\ layout' = layout \cup {y} /\ IsPane(y) /\ y.k = made + 1
      /\ y.proc \in {"new", "wrapper"} /\ y.note = "none"
  BY DEF Open, IsPane, PaneFields
<1> HIDE DEF y
<1>2. made' = made + 1 /\ made < MaxPanes /\ made \in Nat /\ made' \in 0..MaxPanes
  BY PanesAssumption, SMTT(20) DEF Open, PanesInv
<1>3. \A x \in layout : IsPane(x) /\ (x.k \in 1..made \/ x.k = MaxPanes + 1)
  BY DEF PanesInv, LauncherPane
<1>4. \A x \in layout : x.k # y.k /\ (x.k \in 1..made' \/ x.k = MaxPanes + 1)
  BY <1>1, <1>2, <1>3, PanesAssumption, SMTT(20)
<1>5. y.k \in 1..made'
  BY <1>1, <1>2, SMTT(20)
<1>6. \A x, z \in layout : x.k = z.k => x = z
  BY DEF PanesInv
<1>7. PanesInv(layout', made')
  BY <1>1, <1>2, <1>3, <1>4, <1>5, <1>6 DEF PanesInv, LauncherPane
<1>8. Calm(layout, layout')
  BY <1>1 DEF Calm, Held
<1> QED
  BY <1>7, <1>8

\* A pane that changes keeps its identity (SetPane).
LEMMA SetsPane ==
  ASSUME PanesInv(layout, made), NEW x \in layout, NEW y, IsPane(y), y.k = x.k,
         SetPane(x, y), made' = made
  PROVE  /\ PanesInv(layout', made')
         /\ (y.proc \in Held => x.proc \in Held) /\ (y.note # "none" => x.note # "none")
              => Calm(layout, layout')
BY DEF PanesInv, SetPane, Calm

-----------------------------------------------------------------------------
(* The lease *)

\* Nobody writes while the lease is free: every writer is alive (classifyHolder).
LEMMA FreeMeansNobody ==
  ASSUME LaunchInv, LeaseFree
  PROVE  /\ \A p \in Cmds : pc[p] \notin LeaseSteps
         /\ \A x \in layout : x.proc \notin Held /\ x.note = "none"
<1>1. ASSUME NEW p \in Cmds, pc[p] \in LeaseSteps
      PROVE  FALSE
  <2>1. lease.by = <<"cmd", p>>
    BY <1>1 DEF LaunchInv, CommandsHold
  <2> QED
    BY <1>1, <2>1, SMTT(20) DEF LeaseFree, Alive, LeaseSteps
<1>2. ASSUME NEW x \in layout, x.proc \in Held
      PROVE  FALSE
  <2>1. lease.by = <<"pane", x.k>>
    BY <1>2 DEF LaunchInv, PanesHold
  <2> QED
    BY <1>2, <2>1, SMTT(20) DEF LeaseFree, Alive, Held
<1>3. ASSUME NEW x \in layout, x.note # "none"
      PROVE  FALSE
  <2>1. lease.by = <<"notify", x.k>>
    BY <1>3 DEF LaunchInv, PanesHold
  <2> QED
    BY <1>3, <2>1, SMTT(20) DEF LeaseFree, Alive
<1> QED
  BY <1>1, <1>2, <1>3

\* A step that takes no lease lets nobody begin to write.
LEMMA NobodyBegins ==
  ASSUME LaunchInv, lease' = lease, pc' = [p \in Cmds |-> pc'[p]],
         \A p \in Cmds : pc'[p] \in LeaseSteps => pc[p] \in LeaseSteps,
         PanesInv(layout', made'), Calm(layout, layout')
  PROVE  LaunchInv'
<1>1. CommandsHold'
  BY DEF LaunchInv, CommandsHold
<1>2. PanesHold'
  BY SMTT(20) DEF LaunchInv, PanesHold, Calm
<1> QED
  BY <1>1, <1>2 DEF LaunchInv

\* A command goes on, its panes as they were or calm.
LEMMA CommandGoesOn ==
  ASSUME LaunchInv, NEW p \in Cmds, lease' = lease, NEW l, Goto(p, l),
         l \in LeaseSteps => pc[p] \in LeaseSteps,
         PanesInv(layout', made'), Calm(layout, layout')
  PROVE  LaunchInv'
<1>1. /\ pc' = [q \in Cmds |-> pc'[q]]
      /\ \A q \in Cmds : pc'[q] \in LeaseSteps => pc[q] \in LeaseSteps
  BY DEF LaunchInv, Goto
<1> QED
  BY <1>1, NobodyBegins

\* A command takes the lease while nobody writes (AcquireLease).
LEMMA CommandAcquires ==
  ASSUME LaunchInv, NEW p \in Cmds, NEW n, AcquireLease(Me(p), n), NEW l, Goto(p, l),
         UNCHANGED <<layout, made>>
  PROVE  LaunchInv'
<1>1. /\ \A q \in Cmds : pc[q] \notin LeaseSteps
      /\ \A x \in layout : x.proc \notin Held /\ x.note = "none"
  BY FreeMeansNobody DEF AcquireLease
<1>2. lease'.by = <<"cmd", p>>
  BY DEF AcquireLease, Me
<1>3. pc' = [q \in Cmds |-> pc'[q]] /\ \A q \in Cmds : q # p => pc'[q] = pc[q]
  BY DEF LaunchInv, Goto
<1> QED
  BY <1>1, <1>2, <1>3 DEF LaunchInv, CommandsHold, PanesHold

-----------------------------------------------------------------------------
(* The commands *)

\* A command goes on without touching the lease or the panes.
Quiet(p) ==
  /\ \/ pc' = pc
     \/ \E l : Goto(p, l) /\ (l \in LeaseSteps => pc[p] \in LeaseSteps)
  /\ UNCHANGED <<lease, layout, made>>
LEMMA QuietStep ==
  ASSUME LaunchInv, NEW p \in Cmds, Quiet(p)
  PROVE  LaunchInv'
<1>1. PanesInv(layout', made') /\ Calm(layout, layout')
  BY FewerPanes DEF LaunchInv, Quiet
<1>2. CASE pc' = pc
  BY <1>1, <1>2, NobodyBegins DEF LaunchInv, Quiet
<1>3. CASE \E l : Goto(p, l) /\ (l \in LeaseSteps => pc[p] \in LeaseSteps)
  BY <1>1, <1>3, CommandGoesOn DEF Quiet
<1> QED
  BY <1>2, <1>3 DEF Quiet

\* A command that gives up under the lease goes to its release.
LEMMA Stops ==
  ASSUME NEW p, pc[p] \in LeaseSteps, Stop(p)
  PROVE  Quiet(p)
BY DEF Stop, Became, Quiet, term

\* Before the lease is held.
LEMMA BeforeLease ==
  ASSUME LaunchInv, NEW p \in Cmds,
         ReconcileLoad(p) \/ ApplyNonce(p) \/ GiveUp(p) \/ InspectBegin(p)
           \/ InspectLifecycle(p) \/ CleanupLoad(p)
  PROVE  Quiet(p)
<1>1. CASE ReconcileLoad(p)
  BY <1>1, SMTT(20) DEF ReconcileLoad, Became, Quiet, term, LeaseSteps
<1>2. CASE ApplyNonce(p)
  BY <1>2, SMTT(20) DEF ApplyNonce, Quiet, term, LeaseSteps
<1>3. CASE GiveUp(p)
  BY <1>3, SMTT(20) DEF GiveUp, Became, Quiet, term, LeaseSteps
<1>4. CASE InspectBegin(p) \/ InspectLifecycle(p)
  BY <1>4, SMTT(20) DEF InspectBegin, InspectLifecycle, Became, Quiet, term, LeaseSteps
<1>5. CASE CleanupLoad(p)
  BY <1>5, SMTT(20) DEF CleanupLoad, Became, Quiet, term, LeaseSteps
<1> QED
  BY <1>1, <1>2, <1>3, <1>4, <1>5

\* The lease is taken (ApplyAcquire, Acquire, LifecycleAcquire, CleanupAcquire).
LEMMA AcquireSteps ==
  ASSUME LaunchInv, NEW p \in Cmds,
         ApplyAcquire(p) \/ Acquire(p) \/ LifecycleAcquire(p) \/ CleanupAcquire(p)
  PROVE  LaunchInv'
<1>1. UNCHANGED <<layout, made>>
  BY DEF ApplyAcquire, Acquire, LifecycleAcquire, CleanupAcquire, term
<1>2. CASE Goto(p, "done") /\ UNCHANGED lease
  BY <1>1, <1>2, QuietStep, SMTT(20) DEF Quiet, LeaseSteps
<1>3. CASE \E n, l : AcquireLease(Me(p), n) /\ Goto(p, l)
  BY <1>1, <1>3, CommandAcquires
<1> QED
  BY <1>2, <1>3 DEF ApplyAcquire, Acquire, LifecycleAcquire, CleanupAcquire

\* Reconcile under the lease: what an earlier launch left is classified.
LEMMA RecoverySteps ==
  ASSUME LaunchInv, NEW p \in Cmds,
         ApplyLoad(p) \/ JournalChanged(p) \/ ResumeJoin(p) \/ LauncherConflict(p)
           \/ BindingDecides(p) \/ CommitConversations(p) \/ CommitClear(p) \/ ReclaimDecides(p)
  PROVE  Quiet(p)
<1>1. pc[p] \in LeaseSteps
  BY DEF ApplyLoad, JournalChanged, ResumeJoin, LauncherConflict, BindingDecides, Recovers,
         Unchanged, CommitConversations, CommitClear, ReclaimDecides, LeaseSteps
<1>2. CASE Stop(p)
  BY <1>1, <1>2, Stops
<1>3. CASE ~Stop(p)
  <2>1. CASE ApplyLoad(p) \/ CommitConversations(p) \/ CommitClear(p)
    BY <1>1, <2>1 DEF ApplyLoad, CommitConversations, CommitClear, Became, Quiet, term
  <2>2. CASE JournalChanged(p) \/ ResumeJoin(p) \/ LauncherConflict(p)
    BY <1>1, <1>3, <2>2 DEF JournalChanged, ResumeJoin, LauncherConflict, Became, Quiet, term
  <2>3. CASE BindingDecides(p)
    BY <1>1, <1>3, <2>3 DEF BindingDecides, Became, Quiet, term
  <2>4. CASE ReclaimDecides(p)
    BY <1>1, <1>3, <2>4 DEF ReclaimDecides, Became, Quiet, term
  <2> QED
    BY <2>1, <2>2, <2>3, <2>4
<1> QED
  BY <1>2, <1>3

\* The seats and the backend are chosen, the journal and the tickets written.
LEMMA ChoiceSteps ==
  ASSUME LaunchInv, NEW p \in Cmds,
         ReconcileLiveSeats(p) \/ ChooseNew(p) \/ ChooseRefused(p) \/ ChooseAbsent(p)
           \/ RebindLeaves(p) \/ RebindCloses(p) \/ WriteIntent(p) \/ WriteTickets(p)
           \/ TicketsRefused(p)
  PROVE  Quiet(p)
<1>1. pc[p] \in LeaseSteps
  BY DEF ReconcileLiveSeats, ChooseNew, ChooseRefused, ChooseAbsent, RebindLeaves,
         RebindCloses, NoJoin, Blank, WriteIntent, WriteTickets, TicketsRefused, LeaseSteps
<1>2. CASE Stop(p)
  BY <1>1, <1>2, Stops
<1>3. CASE ~Stop(p)
  <2>1. CASE ReconcileLiveSeats(p)
    BY <1>1, <1>3, <2>1 DEF ReconcileLiveSeats, Became, Quiet, term
  <2>2. CASE ChooseNew(p) \/ ChooseRefused(p) \/ ChooseAbsent(p)
    BY <1>1, <1>3, <2>2 DEF ChooseNew, ChooseRefused, ChooseAbsent, Choose, Became, Quiet, term
  <2>3. CASE RebindLeaves(p) \/ RebindCloses(p)
    BY <1>1, <2>3 DEF RebindLeaves, RebindCloses, Choose, Became, Quiet, term
  <2>4. CASE WriteIntent(p) \/ WriteTickets(p) \/ TicketsRefused(p)
    BY <1>1, <2>4 DEF WriteIntent, WriteTickets, TicketsRefused, Became, Quiet, term
  <2> QED
    BY <2>1, <2>2, <2>3, <2>4
<1> QED
  BY <1>2, <1>3

\* Closing a layout only removes panes (CloseOne).
LEMMA Closes ==
  ASSUME LaunchInv, NEW b, CloseOne(b) \/ layout' = layout, made' = made
  PROVE  PanesInv(layout', made') /\ Calm(layout, layout')
<1>1. layout' \subseteq layout
  BY DEF CloseOne, CloseTmux, CloseCmux, CloseGhostty, authorizedOwnedPanes, Backend
<1> QED
  BY <1>1, FewerPanes DEF LaunchInv

\* The old layout is closed, pane by pane, under the lease (RebindClosing).
LEMMA RebindClosingStep ==
  ASSUME LaunchInv, NEW p \in Cmds, RebindClosing(p)
  PROVE  LaunchInv'
<1>1. PICK b : b = loc[p].cand
  OBVIOUS
<1>2. PanesInv(layout', made') /\ Calm(layout, layout') /\ lease' = lease
  BY <1>1, Closes DEF RebindClosing
<1>3. CASE pc' = pc
  BY <1>2, <1>3, NobodyBegins DEF LaunchInv
<1>4. CASE Goto(p, "journal")
  BY <1>2, <1>4, CommandGoesOn DEF RebindClosing, LeaseSteps
<1> QED
  BY <1>3, <1>4 DEF RebindClosing, Became

\* One pane of the plan is opened (OpenNext).
LEMMA OpensNext ==
  ASSUME LaunchInv, NEW p \in Cmds, pc[p] \in LeaseSteps, NEW gen, NEW box, NEW next,
         OpenNext(p, gen, box, next)
  PROVE  LaunchInv'
<1>1. PICK kind, h, n : Open(kind, h, n, gen, box)
  BY DEF OpenNext
<1>2. PanesInv(layout', made') /\ Calm(layout, layout')
  BY <1>1, OpensPane DEF LaunchInv
<1>3. Goto(p, next) /\ lease' = lease
  BY DEF OpenNext, Became
<1> QED
  BY <1>2, <1>3, CommandGoesOn

LEMMA OpenSteps ==
  ASSUME LaunchInv, NEW p \in Cmds,
         OpenSessionPane(p) \/ createSessionLayout(p) \/ createNewWindowLayout(p)
           \/ createCurrentWindowLayout(p) \/ OpenJoinPane(p) \/ OpenSurface(p) \/ OpenTerminal(p)
  PROVE  LaunchInv'
<1>1. pc[p] \in LeaseSteps
  BY DEF OpenSessionPane, createSessionLayout, createNewWindowLayout,
         createCurrentWindowLayout, OpenJoinPane, OpenSurface, OpenTerminal, Creating, LeaseSteps
<1>2. PICK gen, box, next : OpenNext(p, gen, box, next)
  BY DEF OpenSessionPane, createSessionLayout, createNewWindowLayout,
         createCurrentWindowLayout, OpenJoinPane, OpenSurface, OpenTerminal
<1> QED
  BY <1>1, <1>2, OpensNext

\* A pane is marked, or its wrapper's command typed into it (MarkWindow,
\* MarkOpened, MarkJoined, SendCommand).
LEMMA MarkSteps ==
  ASSUME LaunchInv, NEW p \in Cmds,
         MarkWindow(p) \/ MarkOpened(p) \/ MarkJoined(p) \/ SendCommand(p)
  PROVE  LaunchInv'
<1>1. PICK x \in layout : \E y :
        /\ SetPane(x, y)
        /\ \/ \E n : y = [x EXCEPT !.gen = n] \/ y = [x EXCEPT !.mark = n]
           \/ y = [x EXCEPT !.proc = "wrapper"]
  BY DEF MarkWindow, MarkOpened, MarkJoined, SendCommand, Unmarked, Opened,
         markOwnedWindow, markPane
<1>2. PICK y : /\ SetPane(x, y) /\ IsPane(y) /\ y.k = x.k /\ y.note = x.note
               /\ y.proc = x.proc \/ y.proc = "wrapper"
  BY <1>1 DEF LaunchInv, PanesInv, IsPane, PaneFields
<1>3. made' = made /\ lease' = lease
  BY DEF MarkWindow, MarkOpened, MarkJoined, SendCommand
<1>4. PanesInv(layout', made') /\ Calm(layout, layout')
  <2>1. y.proc \in Held => x.proc \in Held
    BY <1>2 DEF Held
  <2> QED
    BY <1>1, <1>2, <1>3, <2>1, SetsPane DEF LaunchInv
<1>5. CASE SendCommand(p)
  BY <1>3, <1>4, <1>5, NobodyBegins DEF LaunchInv, SendCommand
<1>6. CASE MarkWindow(p) \/ MarkOpened(p) \/ MarkJoined(p)
  <2>1. PICK l : Goto(p, l)
    BY <1>6 DEF MarkWindow, MarkOpened, MarkJoined
  <2>2. pc[p] \in LeaseSteps
    BY <1>6 DEF MarkWindow, MarkOpened, MarkJoined, LeaseSteps
  <2> QED
    BY <1>3, <1>4, <2>1, <2>2, CommandGoesOn
<1> QED
  BY <1>5, <1>6

\* A Create that is refused or fails leaves the panes alone, or closes the orphan.
LEMMA FailureSteps ==
  ASSUME LaunchInv, NEW p \in Cmds,
         CreateRefused(p) \/ JoinRefused(p) \/ CreateFails(p) \/ CmuxCreateFailure(p)
           \/ GhosttyCreateFailure(p)
  PROVE  LaunchInv'
<1>1. pc[p] \in LeaseSteps
  BY DEF CreateRefused, Creating, JoinRefused, Joining, CreateFails, CmuxCreateFailure,
         GhosttyCreateFailure, OrphanClosed, LeaseSteps
<1>2. CASE Stop(p)
  BY <1>1, <1>2, Stops, QuietStep
<1>3. CASE DefiniteFailure(p)
  BY <1>1, <1>3, QuietStep DEF DefiniteFailure, Became, Quiet, term
<1>4. CASE OrphanClosed(p)
  <2>1. PanesInv(layout', made') /\ Calm(layout, layout')
    BY <1>4, FewerPanes DEF LaunchInv, OrphanClosed
  <2> QED
    BY <1>1, <1>4, <2>1, CommandGoesOn DEF OrphanClosed, Became
<1> QED
  BY <1>2, <1>3, <1>4
     DEF CreateRefused, JoinRefused, Disown, CreateFails, CmuxCreateFailure, GhosttyCreateFailure

\* A join's progress, and the commit of journal, conversations and binding.
LEMMA CommitSteps ==
  ASSUME LaunchInv, NEW p \in Cmds,
         JoinProgress(p) \/ JoinFound(p) \/ CreateReturns(p) \/ PersistCandidate(p)
           \/ EmitCommands(p) \/ FinalizeCreatedState(p) \/ WriteCreated(p)
           \/ PublishConversations(p) \/ WriteBinding(p) \/ ClearCommitted(p)
  PROVE  Quiet(p)
<1>1. pc[p] \in LeaseSteps
  BY DEF JoinProgress, JoinFound, Joining, CreateReturns, PersistCandidate, AllOpened,
         EmitCommands, FinalizeCreatedState, WriteCreated, PublishConversations, WriteBinding,
         ClearCommitted, LeaseSteps
<1>2. CASE Stop(p)
  BY <1>1, <1>2, Stops
<1>3. CASE DefiniteFailure(p)
  BY <1>1, <1>3 DEF DefiniteFailure, Became, Quiet, term
<1>4. CASE ~Stop(p) /\ ~DefiniteFailure(p)
  <2>1. CASE JoinProgress(p) \/ JoinFound(p)
    BY <1>1, <1>4, <2>1 DEF JoinProgress, JoinFound, Disown, Became, Quiet, term
  <2>2. CASE CreateReturns(p) \/ PersistCandidate(p) \/ EmitCommands(p)
    BY <1>1, <2>2 DEF CreateReturns, PersistCandidate, EmitCommands, Became, Quiet, term
  <2>3. CASE FinalizeCreatedState(p) \/ WriteCreated(p) \/ PublishConversations(p)
    BY <1>1, <2>3
       DEF FinalizeCreatedState, WriteCreated, PublishConversations, Became, Quiet, term
  <2>4. CASE WriteBinding(p) \/ ClearCommitted(p)
    BY <1>1, <2>4 DEF WriteBinding, ClearCommitted, Became, Quiet, term
  <2> QED
    BY <2>1, <2>2, <2>3, <2>4
<1> QED
  BY <1>2, <1>3, <1>4

\* inspect, focus, close and cleanup, and a crash at any step.
LEMMA LifecycleSteps ==
  ASSUME LaunchInv, NEW p \in Cmds,
         mutateLifecycle(p) \/ FocusLifecycle(p) \/ CleanupClear(p) \/ Crash(p)
  PROVE  Quiet(p)
<1>1. CASE mutateLifecycle(p)
  BY <1>1 DEF mutateLifecycle, Became, Quiet, term, LeaseSteps
<1>2. CASE FocusLifecycle(p)
  BY <1>2, Stops, SMTT(20) DEF FocusLifecycle, LeaseSteps
<1>3. CASE CleanupClear(p)
  BY <1>3 DEF CleanupClear, Became, Quiet, term, LeaseSteps
<1>4. CASE Crash(p)
  BY <1>4, SMTT(20) DEF Crash, Became, Quiet, term, LeaseSteps
<1> QED
  BY <1>1, <1>2, <1>3, <1>4

LEMMA CloseLifecycleStep ==
  ASSUME LaunchInv, NEW p \in Cmds, CloseLifecycle(p)
  PROVE  LaunchInv'
<1>1. PICK b : b = loc[p].cand
  OBVIOUS
<1>2. PanesInv(layout', made') /\ Calm(layout, layout') /\ lease' = lease
  BY <1>1, Closes DEF CloseLifecycle
<1>3. CASE pc' = pc
  BY <1>2, <1>3, NobodyBegins DEF LaunchInv
<1>4. CASE Goto(p, "release")
  BY <1>2, <1>4, CommandGoesOn DEF CloseLifecycle, LeaseSteps
<1> QED
  BY <1>3, <1>4 DEF CloseLifecycle, Became, proc

\* Whoever holds the lease is the only writer.
LEMMA HolderAlone ==
  ASSUME LaunchInv
  PROVE  /\ \A p \in Cmds : lease.by = <<"cmd", p>> =>
              /\ \A q \in Cmds : q # p => pc[q] \notin LeaseSteps
              /\ \A x \in layout : x.proc \notin Held /\ x.note = "none"
         /\ \A x \in layout : lease.by = <<"pane", x.k>> =>
              /\ \A q \in Cmds : pc[q] \notin LeaseSteps
              /\ \A y \in layout : y.note = "none" /\ (y # x => y.proc \notin Held)
         /\ \A x \in layout : lease.by = <<"notify", x.k>> =>
              /\ \A q \in Cmds : pc[q] \notin LeaseSteps
              /\ \A y \in layout : y.proc \notin Held /\ (y # x => y.note = "none")
BY SMTT(20) DEF LaunchInv, CommandsHold, PanesHold, PanesInv

\* Once the holder has stopped writing, the lease can go.
LEMMA NobodyWrites ==
  ASSUME pc' = [p \in Cmds |-> pc'[p]], PanesInv(layout', made'),
         \A p \in Cmds : pc'[p] \notin LeaseSteps,
         \A x \in layout' : x.proc \notin Held /\ x.note = "none"
  PROVE  LaunchInv'
BY DEF LaunchInv, CommandsHold, PanesHold

LEMMA ReleaseLeaseStep ==
  ASSUME LaunchInv, NEW p \in Cmds, ReleaseLease(p)
  PROVE  LaunchInv'
<1>1. pc[p] \in LeaseSteps /\ Goto(p, "done") /\ UNCHANGED <<layout, made>>
  BY DEF ReleaseLease, Became, term, LeaseSteps
<1>2. lease.by = <<"cmd", p>>
  BY <1>1 DEF LaunchInv, CommandsHold
<1>3. /\ \A q \in Cmds : q # p => pc[q] \notin LeaseSteps
      /\ \A x \in layout : x.proc \notin Held /\ x.note = "none"
  BY <1>2, HolderAlone
<1>4. pc' = [q \in Cmds |-> pc'[q]] /\ \A q \in Cmds : pc'[q] \notin LeaseSteps
  BY <1>1, <1>3 DEF LaunchInv, Goto, LeaseSteps
<1>5. PanesInv(layout', made')
  BY <1>1 DEF LaunchInv
<1> QED
  BY <1>1, <1>3, <1>4, <1>5, NobodyWrites

-----------------------------------------------------------------------------
(* The panes *)

\* A wrapper or a notifier takes the lease while nobody writes.
LEMMA PaneAcquires ==
  ASSUME LaunchInv, NEW x \in layout, NEW y, NEW by, NEW n, AcquireLease(by, n),
         SetPane(x, y), IsPane(y), y.k = x.k, UNCHANGED <<pc, made>>,
         \/ by = <<"pane", x.k>> /\ y.note = x.note
         \/ by = <<"notify", x.k>> /\ y.proc = x.proc
  PROVE  LaunchInv'
<1>1. /\ \A q \in Cmds : pc[q] \notin LeaseSteps
      /\ \A z \in layout : z.proc \notin Held /\ z.note = "none"
  BY FreeMeansNobody DEF AcquireLease
<1>2. lease'.by = by
  BY DEF AcquireLease
<1>3. PanesInv(layout', made')
  BY SetsPane DEF LaunchInv
<1>4. \A z \in layout' : z = y \/ z \in layout
  BY DEF SetPane
<1>5. PanesHold'
  BY <1>1, <1>2, <1>4 DEF PanesHold
<1> QED
  BY <1>1, <1>3, <1>5 DEF LaunchInv, CommandsHold

\* A pane goes on without beginning to write.
LEMMA PaneGoesOn ==
  ASSUME LaunchInv, NEW x \in layout, NEW y, SetPane(x, y), IsPane(y), y.k = x.k,
         y.proc \in Held => x.proc \in Held, y.note # "none" => x.note # "none",
         UNCHANGED <<lease, pc, made>>
  PROVE  LaunchInv'
<1>1. PanesInv(layout', made') /\ Calm(layout, layout')
  BY SetsPane DEF LaunchInv
<1> QED
  BY <1>1, NobodyBegins DEF LaunchInv

\* A pane gives the lease back as it stops writing.
LEMMA PaneReleases ==
  ASSUME LaunchInv, NEW x \in layout, NEW y, SetPane(x, y), IsPane(y), y.k = x.k,
         y.proc \notin Held, y.note = "none",
         lease.by = <<"pane", x.k>> \/ lease.by = <<"notify", x.k>>,
         UNCHANGED <<pc, made>>
  PROVE  LaunchInv'
<1>1. /\ \A q \in Cmds : pc[q] \notin LeaseSteps
      /\ \A z \in layout : z # x => z.proc \notin Held /\ z.note = "none"
  BY HolderAlone
<1>2. PanesInv(layout', made')
  BY SetsPane DEF LaunchInv
<1>3. \A z \in layout' : z.proc \notin Held /\ z.note = "none"
  BY <1>1 DEF SetPane
<1> QED
  BY <1>1, <1>2, <1>3, NobodyWrites DEF LaunchInv

\* The wrapper exits, with the lease if it holds it (Exit).
LEMMA Exits ==
  ASSUME LaunchInv, NEW x \in layout, Exit(x), UNCHANGED <<pc, made>>
  PROVE  LaunchInv'
<1> DEFINE y == [x EXCEPT !.proc = "shell"]
<1>1. IsPane(y) /\ y.k = x.k /\ y.proc = "shell" /\ y.note = x.note
  BY DEF LaunchInv, PanesInv, IsPane, PaneFields
<1>2. SetPane(x, y) \/ layout' = layout \ {x}
  BY DEF Exit, SetPane
<1> HIDE DEF y
<1>3. y.proc \notin Held
  BY <1>1 DEF Held
<1>4. CASE ~Holds(PaneMe(x))
  <2>1. lease' = lease
    BY <1>4 DEF Exit
  <2>2. CASE SetPane(x, y)
    BY <1>1, <1>3, <2>1, <2>2, PaneGoesOn
  <2>3. CASE layout' = layout \ {x}
    <3>1. PanesInv(layout', made') /\ Calm(layout, layout')
      BY <2>3, FewerPanes DEF LaunchInv
    <3> QED
      BY <2>1, <3>1, NobodyBegins DEF LaunchInv
  <2> QED
    BY <1>2, <2>2, <2>3
<1>5. CASE Holds(PaneMe(x))
  <2>1. lease.by = <<"pane", x.k>>
    BY <1>5 DEF Holds, PaneMe
  <2>2. /\ \A q \in Cmds : pc[q] \notin LeaseSteps
        /\ \A z \in layout : z.note = "none" /\ (z # x => z.proc \notin Held)
    BY <2>1, HolderAlone
  <2>3. CASE SetPane(x, y)
    BY <1>1, <1>3, <2>1, <2>2, <2>3, PaneReleases
  <2>4. CASE layout' = layout \ {x}
    <3>1. PanesInv(layout', made')
      BY <2>4, FewerPanes DEF LaunchInv
    <3> QED
      BY <2>2, <2>4, <3>1, NobodyWrites DEF LaunchInv
  <2> QED
    BY <1>2, <2>3, <2>4
<1> QED
  BY <1>4, <1>5

\* A pane's process moves on, keeping its identity and its notifier (Move).
LEMMA Moves ==
  ASSUME LaunchInv, NEW x \in layout, NEW s
  PROVE  LET y == [x EXCEPT !.proc = s] IN
         IsPane(y) /\ y.k = x.k /\ y.proc = s /\ y.note = x.note
BY DEF LaunchInv, PanesInv, IsPane, PaneFields

LEMMA MovesOn ==
  ASSUME LaunchInv, NEW x \in layout, NEW s, Move(x, s), s \in Held => x.proc \in Held,
         UNCHANGED <<lease, pc, made>>
  PROVE  LaunchInv'
<1> DEFINE y == [x EXCEPT !.proc = s]
<1>1. IsPane(y) /\ y.k = x.k /\ y.proc = s /\ y.note = x.note /\ SetPane(x, y)
  BY Moves DEF Move
<1> HIDE DEF y
<1> QED
  BY <1>1, PaneGoesOn

\* The wrapper takes the lease, to acknowledge its ticket or to revert it.
LEMMA WrapperAcquires ==
  ASSUME LaunchInv, NEW x \in layout, ExecAcquire(x) \/ RevertAcquire(x)
  PROVE  LaunchInv'
<1>1. PICK s : AcquireLease(PaneMe(x), x.nonce) /\ Move(x, s)
  BY DEF ExecAcquire, RevertAcquire
<1>2. UNCHANGED <<pc, made>>
  BY DEF ExecAcquire, RevertAcquire, proc
<1> DEFINE y == [x EXCEPT !.proc = s]
<1>3. IsPane(y) /\ y.k = x.k /\ y.note = x.note /\ SetPane(x, y)
  BY <1>1, Moves DEF Move
<1> HIDE DEF y
<1> QED
  BY <1>1, <1>2, <1>3, PaneAcquires DEF PaneMe

\* The wrapper is refused, or fails while it acknowledges or reverts.
LEMMA WrapperExits ==
  ASSUME LaunchInv, NEW x \in layout,
         ExecRefused(x) \/ TicketRefused(x) \/ ExecNoIdentity(x) \/ RevertRefused(x)
           \/ RevertTicket(x)
  PROVE  LaunchInv'
<1>1. Exit(x) /\ UNCHANGED <<pc, made>>
  BY DEF ExecRefused, TicketRefused, ExecNoIdentity, RevertRefused, RevertTicket, proc
<1> QED
  BY <1>1, Exits

\* The wrapper goes on under the lease it holds.
LEMMA WrapperGoesOn ==
  ASSUME LaunchInv, NEW x \in layout,
         ExecCapture(x) \/ ExecMint(x) \/ ExecEvidence(x) \/ ExecIdentity(x)
           \/ ExecPreSpawn(x) \/ ExecPromote(x) \/ ExecAck(x) \/ RevertConversation(x)
  PROVE  LaunchInv'
<1>1. x.proc \in Held /\ UNCHANGED <<pc, made>>
  BY DEF ExecCapture, ExecMint, ExecEvidence, ExecIdentity, ExecPreSpawn, ExecPromote,
         ExecAck, RevertConversation, Accepted, At, Held, proc
<1>2. Exit(x) \/ (lease' = lease /\ \E s : Move(x, s))
  BY DEF ExecCapture, ExecMint, ExecEvidence, ExecIdentity, ExecPreSpawn, ExecPromote,
         ExecAck, RevertConversation
<1> QED
  BY <1>1, <1>2, Exits, MovesOn

\* The wrapper gives the lease back and becomes the provider (ExecRelease).
LEMMA ExecReleaseStep ==
  ASSUME LaunchInv, NEW x \in layout, ExecRelease(x)
  PROVE  LaunchInv'
<1> DEFINE y == [x EXCEPT !.proc = "exec", !.id = Ticket(x).id]
<1>1. IsPane(y) /\ y.k = x.k /\ y.proc = "exec" /\ y.note = x.note
  BY DEF LaunchInv, PanesInv, IsPane, PaneFields
<1>2. SetPane(x, y) /\ UNCHANGED <<pc, made>> /\ x.proc \in Held
  BY DEF ExecRelease, proc, At, Held
<1> HIDE DEF y
<1>3. lease.by = <<"pane", x.k>>
  BY <1>2 DEF LaunchInv, PanesHold
<1>4. x.note = "none"
  BY <1>3, HolderAlone
<1> QED
  BY <1>1, <1>2, <1>3, <1>4, PaneReleases DEF Held

\* A pane without the lease moves on, ends, or is run again.
LEMMA PaneSteps ==
  ASSUME LaunchInv, NEW x \in layout,
         ExecProvider(x) \/ ExecProviderFails(x) \/ KillPane(x) \/ RunAgain(x)
  PROVE  LaunchInv'
<1>1. UNCHANGED <<lease, pc, made>>
  BY DEF ExecProvider, ExecProviderFails, KillPane, RunAgain, proc
<1>2. CASE KillPane(x)
  <2>1. PanesInv(layout', made') /\ Calm(layout, layout')
    BY <1>1, <1>2, FewerPanes DEF LaunchInv, KillPane
  <2> QED
    BY <1>1, <2>1, NobodyBegins DEF LaunchInv
<1>3. CASE ExecProvider(x) \/ ExecProviderFails(x) \/ RunAgain(x)
  <2>1. PICK s \in {"agent", "revert", "wrapper"} : Move(x, s)
    BY <1>3 DEF ExecProvider, ExecProviderFails, RunAgain
  <2> QED
    BY <1>1, <2>1, MovesOn DEF Held
<1> QED
  BY <1>2, <1>3

\* The Codex notifier (recordCodexNotify).
LEMMA NotifySteps ==
  ASSUME LaunchInv, NEW x \in layout,
         NotifyAcquire(x) \/ NotifyEvidence(x) \/ NotifyPromote(x) \/ NotifyEnds(x)
  PROVE  LaunchInv'
<1>1. PICK s : SetPane(x, [x EXCEPT !.note = s])
                 /\ (NotifyPromote(x) \/ NotifyEnds(x) => s = "none")
  BY DEF NotifyAcquire, NotifyEvidence, NotifyPromote, NotifyEnds
<1> DEFINE y == [x EXCEPT !.note = s]
<1>2. SetPane(x, y) /\ IsPane(y) /\ y.k = x.k /\ y.proc = x.proc /\ y.note = s
  BY <1>1 DEF LaunchInv, PanesInv, IsPane, PaneFields
<1> HIDE DEF y
<1>3. UNCHANGED <<pc, made>>
  BY DEF NotifyAcquire, NotifyEvidence, NotifyPromote, NotifyEnds, proc
<1>4. CASE NotifyAcquire(x)
  BY <1>2, <1>3, <1>4, PaneAcquires DEF NotifyAcquire, NotifyMe
<1>5. CASE NotifyEvidence(x)
  BY <1>2, <1>3, <1>5, PaneGoesOn DEF NotifyEvidence
<1>6. CASE NotifyPromote(x) \/ NotifyEnds(x)
  <2>1. x.note # "none" /\ y.note = "none"
    BY <1>1, <1>2, <1>6 DEF NotifyPromote, NotifyEnds
  <2>2. lease.by = <<"notify", x.k>>
    BY <2>1 DEF LaunchInv, PanesHold
  <2>3. x.proc \notin Held
    BY <2>2, HolderAlone
  <2> QED
    BY <1>2, <1>3, <2>1, <2>2, <2>3, PaneReleases
<1> QED
  BY <1>4, <1>5, <1>6

LEMMA RunEmittedStep ==
  ASSUME LaunchInv, NEW h, RunEmitted(h)
  PROVE  LaunchInv'
<1>1. PICK n : Open("commands", h, n, None, 0)
  BY DEF RunEmitted
<1>2. PanesInv(layout', made') /\ Calm(layout, layout')
  BY <1>1, OpensPane DEF LaunchInv
<1> QED
  BY <1>2, NobodyBegins DEF LaunchInv, RunEmitted, proc

-----------------------------------------------------------------------------
(* The theorems *)

LEMMA LaunchInit ==
  ASSUME Init
  PROVE  LaunchInv
<1>1. layout = {} \/ layout = {Started} \/ layout = {Launcher}
  BY DEF Init
<1>2. IsPane(Started) /\ Started.k = 1 /\ Started.proc = "agent" /\ Started.note = "none"
  BY DEF Started, IsPane, PaneFields
<1>3. /\ IsPane(Launcher) /\ Launcher.k = LauncherPane /\ Launcher.proc = "user"
      /\ Launcher.note = "none"
  BY DEF Launcher, IsPane, PaneFields
<1>4. made \in 0..MaxPanes /\ (layout = {Started} => made = 1)
  <2>1. CASE world.begun
    BY <2>1, PanesAssumption, SMTT(20) DEF Init
  <2>2. CASE ~world.begun
    <3>1. made = 0 /\ (layout = {Launcher} \/ layout = {})
      BY <2>2 DEF Init
    <3>2. Launcher.proc # Started.proc
      BY <1>2, <1>3
    <3> QED
      BY <3>1, <3>2, PanesAssumption, SMTT(20)
  <2> QED
    BY <2>1, <2>2
<1>5. PanesInv(layout, made)
  BY <1>1, <1>2, <1>3, <1>4, SMTT(20) DEF PanesInv
<1>6. pc = [p \in Cmds |-> pc[p]] /\ \A p \in Cmds : pc[p] \in {"done", "idle"}
  BY DEF Init
<1> QED
  BY <1>1, <1>2, <1>3, <1>5, <1>6 DEF LaunchInv, CommandsHold, PanesHold, LeaseSteps, Held

LEMMA LaunchNext ==
  ASSUME LaunchInv, [Next]_vars
  PROVE  LaunchInv'
<1>1. ASSUME NEW p \in Cmds, ReconcileStep(p)
      PROVE  LaunchInv'
  BY <1>1, BeforeLease, AcquireSteps, RecoverySteps, ChoiceSteps, RebindClosingStep, QuietStep
     DEF ReconcileStep
<1>2. ASSUME NEW p \in Cmds, CreateStep(p)
      PROVE  LaunchInv'
  BY <1>2, OpenSteps, MarkSteps, FailureSteps, CommitSteps, ReleaseLeaseStep, QuietStep
     DEF CreateStep
<1>3. ASSUME NEW p \in Cmds, LifecycleStep(p) \/ Crash(p)
      PROVE  LaunchInv'
  BY <1>3, BeforeLease, AcquireSteps, LifecycleSteps, CloseLifecycleStep, QuietStep
     DEF LifecycleStep
<1>4. ASSUME NEW x \in layout, ExecStep(x)
      PROVE  LaunchInv'
  BY <1>4, WrapperAcquires, WrapperExits, WrapperGoesOn, ExecReleaseStep, PaneSteps, NotifySteps
     DEF ExecStep
<1>5. ASSUME UNCHANGED vars
      PROVE  LaunchInv'
  BY <1>5 DEF vars, term, proc, LaunchInv, CommandsHold, PanesHold
<1> QED
  BY <1>1, <1>2, <1>3, <1>4, <1>5, RunEmittedStep DEF Next, Running

\* The commands, wrappers and notifiers of a session keep the lease's record
\* true, whatever crashes or is closed: a pane's identity is its own, and who
\* writes is who the lease names.
THEOREM LeaseKept == Spec => []LaunchInv
<1>1. Init => LaunchInv
  BY LaunchInit
<1>2. LaunchInv /\ [Next]_vars => LaunchInv'
  BY LaunchNext
<1> QED
  BY <1>1, <1>2, PTL DEF Spec

\* Whoever is between AcquireLease and Release is the holder the lease names,
\* so there is never a second one: taking over a stale lease (classifyHolder)
\* never evicts a live holder.
THEOREM OneLeaseHolderHolds == Spec => []OneLeaseHolder
<1>1. LaunchInv => OneLeaseHolder
  BY DEF LaunchInv, CommandsHold, PanesHold, OneLeaseHolder, Writers, Holds, Me, PaneMe, NotifyMe
<1> QED
  BY <1>1, LeaseKept, PTL

-----------------------------------------------------------------------------
CallFields == {"pc", "subject", "seen", "given", "pin", "plan", "sess", "nonce", "kind",
               "founded", "out"}
TreeFields == {"cfg", "box", "bind", "journal"}

\* Steps of a call that works on a session directory, and on its roster.
Pinned == {"preflight", "repair", "record", "write"}
Acting == {"roster", "reconcile"} \cup Pinned
Checking == {"verify", "authorize", "compare"}
Opening == {"base", "lock"}

DiskInv ==
  /\ DOMAIN path = {"base", "sess"} /\ path.sess \in spent \cup {Nil} /\ spent \subseteq Dirs
  /\ path.sess # Nil => path.base
  /\ tree = [d \in Dirs |-> tree[d]]
  /\ \A d \in Dirs : DOMAIN tree[d] = TreeFields /\ tree[d].cfg \in (SUBSET Agents) \cup {Nil}
  /\ leases = [d \in Dirs |-> leases[d]]

\* Where a call is: which directory, and whose lease.
PlaceInv(p) ==
  /\ DOMAIN call[p] = CallFields
  /\ Sess(p) \in spent \cup {Nil} /\ call[p].founded \in spent \cup {Nil}
  /\ PC(p) \in {"nonce", "lease", "status"} \cup Acting => Sess(p) # Nil
  /\ PC(p) \in Opening \cup {"publish"} => Sess(p) = Nil
  /\ PC(p) = "publish" => path.base
  /\ PC(p) \in {"nonce", "lease"} \cup Opening \cup Checking => call[p].seen.sess = Sess(p)
  /\ PC(p) \in Checking \cup Acting \cup {"status"} /\ Sess(p) # Nil => leases[Sess(p)].by = p

\* What a call has approved or pinned still describes the directory.
PinInv(p) ==
  /\ PC(p) = "compare" /\ Sess(p) # Nil => call[p].seen.bind = Tree(p).bind
  /\ PC(p) \in Acting /\ call[p].founded = Nil =>
       Sess(p) = call[p].subject.sess /\ Tree(p).bind = call[p].subject.bind
  /\ PC(p) \in Pinned => call[p].pin \in SUBSET Agents /\ call[p].pin \subseteq Configured(Tree(p))
  /\ PC(p) \in {"reconcile", "status"} => Wants[p] \subseteq Configured(Tree(p))

Provisioned(p) == Succeeded(p) => Sess(p) # Nil /\ Wants[p] \subseteq Configured(Tree(p))

\* What a call has pinned holds the participants of those that succeeded before.
PinCovers(p, q) == PC(p) \in Pinned /\ Succeeded(q) /\ Sess(q) = Sess(p) => Wants[q] \subseteq call[p].pin

ApplyInv ==
  /\ DiskInv /\ call = [p \in Callers |-> call[p]]
  /\ \A p \in Callers : PlaceInv(p) /\ PinInv(p) /\ Provisioned(p)
  /\ \A p, q \in Callers : PinCovers(p, q)
  /\ OneFounder

-----------------------------------------------------------------------------
(* Who may change what *)

\* Only call p moves; nothing is taken from the others.
OnlyCall(p) ==
  /\ call' = [q \in Callers |-> call'[q]] /\ DOMAIN call'[p] = CallFields
  /\ \A q \in Callers : q # p => call'[q] = call[q]

\* A call's facts stay while its lease, its binding and its roster do.
LEMMA Bystander ==
  ASSUME ApplyInv, NEW q \in Callers, call'[q] = call[q], spent \subseteq spent',
         path.base => path'.base,
         \A d \in spent : leases[d].by = q =>
           /\ leases'[d].by = q /\ tree'[d].bind = tree[d].bind
           /\ Configured(tree[d]) \subseteq Configured(tree'[d])
  PROVE  PlaceInv(q)' /\ PinInv(q)'
<1>1. PlaceInv(q) /\ PinInv(q)
  BY DEF ApplyInv
<1>2. PC(q)' = PC(q) /\ Sess(q)' = Sess(q)
  BY DEF PC, Sess
<1>3. PlaceInv(q)'
  BY <1>1, <1>2 DEF PlaceInv
<1>4. ASSUME PC(q) \in Checking \cup Acting \cup {"status"}, Sess(q) # Nil
      PROVE  /\ Tree(q)'.bind = Tree(q).bind
             /\ Configured(Tree(q)) \subseteq Configured(Tree(q)')
  <2>1. Sess(q) \in spent /\ leases[Sess(q)].by = q
    BY <1>1, <1>4 DEF PlaceInv
  <2>2. Tree(q) = tree[Sess(q)] /\ Tree(q)' = tree'[Sess(q)]
    BY <1>2 DEF Tree
  <2> QED
    BY <2>1, <2>2
<1>5. PinInv(q)'
  <2>1. (PC(q) \in Acting \/ PC(q) = "status" => Sess(q) # Nil)
    BY <1>1 DEF PlaceInv
  <2>2. Configured(Tree(q))' = Configured(Tree(q)')
    BY DEF Configured
  <2> QED
    BY <1>1, <1>2, <1>4, <2>1, <2>2 DEF PinInv, Checking, Acting, Pinned
<1> QED
  BY <1>3, <1>5

\* Two calls never hold the same directory's lease.
LEMMA OneHolder ==
  ASSUME ApplyInv, NEW p \in Callers, NEW q \in Callers, Sess(p) = Sess(q), Sess(p) # Nil,
         PC(p) \in Checking \cup Acting \cup {"status"},
         PC(q) \in Checking \cup Acting \cup {"status"}
  PROVE  p = q
BY DEF ApplyInv, PlaceInv

\* A step of one call that changes nothing inside a directory.
LEMMA CallActs ==
  ASSUME ApplyInv, NEW p \in Callers, UNCHANGED <<tree, spent>>, DiskInv', path.base => path'.base,
         \A d \in spent : \A q \in Callers : q # p /\ leases[d].by = q => leases'[d].by = q,
         OnlyCall(p), call'[p].founded = call[p].founded, PlaceInv(p)', PinInv(p)', ~Succeeded(p)',
         PC(p)' \in Pinned => PC(p) \in Pinned /\ call'[p].pin = call[p].pin /\ Sess(p)' = Sess(p)
  PROVE  ApplyInv'
<1>1. \A q \in Callers : q # p => call'[q] = call[q]
  BY DEF OnlyCall
<1>2. \A q \in Callers : PlaceInv(q)' /\ PinInv(q)'
  BY <1>1, Bystander
<1>3. \A q \in Callers : q # p => (Succeeded(q)' <=> Succeeded(q)) /\ PC(q)' = PC(q) /\ Sess(q)' = Sess(q)
  BY <1>1 DEF Succeeded, PC, Sess
<1>4. \A q \in Callers : Provisioned(q)'
  BY <1>3 DEF ApplyInv, Provisioned, Tree, Configured
<1>5. \A q, r \in Callers : PinCovers(q, r)'
  BY <1>1, <1>3, SMTT(20) DEF ApplyInv, PinCovers
<1>6. OneFounder'
  BY <1>1, SMTT(20) DEF ApplyInv, OneFounder
<1> QED
  BY <1>2, <1>4, <1>5, <1>6 DEF ApplyInv, OnlyCall

LEMMA CallMoves ==
  ASSUME ApplyInv, NEW p \in Callers, UNCHANGED <<path, tree, spent, leases>>, OnlyCall(p),
         call'[p].founded = call[p].founded, PlaceInv(p)', PinInv(p)', ~Succeeded(p)',
         PC(p)' \in Pinned => PC(p) \in Pinned /\ call'[p].pin = call[p].pin /\ Sess(p)' = Sess(p)
  PROVE  ApplyInv'
<1>1. DiskInv'
  BY DEF ApplyInv, DiskInv
<1> QED
  BY <1>1, CallActs

-----------------------------------------------------------------------------
(* How a call ends *)

LEMMA Ended ==
  ASSUME ApplyInv, NEW p \in Callers, NEW out, Ends(p, out)
  PROVE  /\ OnlyCall(p) /\ PC(p)' = "done" /\ Sess(p)' = Sess(p)
         /\ call'[p].founded = call[p].founded /\ call'[p].out = out
         /\ leases' = [d \in Dirs |-> leases'[d]]
         /\ \A d \in Dirs : leases[d].by # p => leases'[d] = leases[d]
<1>1. call = [q \in Callers |-> call[q]]
  BY DEF ApplyInv
<1>2. call' = [call EXCEPT ![p] = [NoCall EXCEPT !.pc = "done", !.kind = call[p].kind, !.sess = Sess(p),
                                                 !.founded = call[p].founded, !.out = out]]
  BY DEF Ends
<1>3. /\ DOMAIN call'[p] = CallFields /\ call'[p].pc = "done" /\ call'[p].sess = Sess(p)
      /\ call'[p].founded = call[p].founded /\ call'[p].out = out
  BY <1>1, <1>2 DEF NoCall, CallFields
<1>4. call' = [q \in Callers |-> call'[q]] /\ \A q \in Callers : q # p => call'[q] = call[q]
  BY <1>1, <1>2
<1>5. /\ leases' = [d \in Dirs |-> leases'[d]]
      /\ \A d \in Dirs : leases[d].by # p => leases'[d] = leases[d]
  BY DEF Ends, Dropped
<1> QED
  BY <1>3, <1>4, <1>5 DEF OnlyCall, PC, Sess

\* A call that has ended keeps what it founded and where it was.
LEMMA DoneInv ==
  ASSUME ApplyInv, NEW p \in Callers, DOMAIN call'[p] = CallFields, PC(p)' = "done", Sess(p)' = Sess(p),
         call'[p].founded \in spent \cup {Nil}, spent \subseteq spent'
  PROVE  PlaceInv(p)' /\ PinInv(p)'
BY SMTT(20) DEF ApplyInv, PlaceInv, PinInv, Acting, Pinned, Checking, Opening

LEMMA CallEnds ==
  ASSUME ApplyInv, NEW p \in Callers, NEW out, Ends(p, out), UNCHANGED <<path, tree, spent>>,
         out.outcome \in {"applied", "provisioned_no_runnable"} => PC(p) = "status"
  PROVE  ApplyInv'
<1>1. /\ OnlyCall(p) /\ PC(p)' = "done" /\ Sess(p)' = Sess(p)
      /\ call'[p].founded = call[p].founded /\ call'[p].out = out
      /\ leases' = [d \in Dirs |-> leases'[d]]
      /\ \A d \in Dirs : leases[d].by # p => leases'[d] = leases[d]
  BY Ended
<1>2. \A q \in Callers : q # p => call'[q] = call[q]
  BY <1>1 DEF OnlyCall
<1>3. DiskInv'
  BY <1>1 DEF ApplyInv, DiskInv
<1>4. spent \subseteq Dirs
  BY DEF ApplyInv, DiskInv
<1>5. PlaceInv(p)' /\ PinInv(p)'
  BY <1>1, DoneInv DEF OnlyCall, ApplyInv, PlaceInv
<1>6. \A q \in Callers : PlaceInv(q)' /\ PinInv(q)'
  BY <1>1, <1>2, <1>4, <1>5, Bystander
<1>7. \A q \in Callers : q # p => (Succeeded(q)' <=> Succeeded(q)) /\ PC(q)' = PC(q) /\ Sess(q)' = Sess(q)
  BY <1>2 DEF Succeeded, PC, Sess
<1>8. Succeeded(p)' => PC(p) = "status" /\ Sess(p) # Nil /\ Wants[p] \subseteq Configured(Tree(p))
  BY <1>1 DEF Succeeded, ApplyInv, PinInv, PlaceInv
<1>9. \A q \in Callers : Provisioned(q)'
  <2>1. Provisioned(p)'
    BY <1>1, <1>8 DEF Provisioned, Tree, Configured
  <2>2. \A q \in Callers : q # p => Provisioned(q)'
    BY <1>7 DEF ApplyInv, Provisioned, Tree, Configured
  <2> QED
    BY <2>1, <2>2
<1>10. ASSUME NEW q \in Callers, NEW r \in Callers, q # p, PC(q) \in Pinned, Succeeded(r)', Sess(r)' = Sess(q)
       PROVE  Wants[r] \subseteq call[q].pin
  <2>1. CASE r # p
    BY <1>7, <1>10, <2>1 DEF ApplyInv, PinCovers
  <2>2. CASE r = p
    BY <1>1, <1>8, <1>10, <2>2, OneHolder DEF Acting, Pinned
  <2> QED
    BY <2>1, <2>2
<1>11. \A q, r \in Callers : PinCovers(q, r)'
  BY <1>1, <1>2, <1>7, <1>10 DEF PinCovers, Pinned
<1>12. OneFounder'
  BY <1>1, <1>2, SMTT(20) DEF ApplyInv, OneFounder
<1> QED
  BY <1>1, <1>3, <1>6, <1>9, <1>11, <1>12 DEF ApplyInv, OnlyCall

LEMMA CallIsRefused ==
  ASSUME ApplyInv, NEW p \in Callers, NEW reason, CallRefused(p, reason)
  PROVE  ApplyInv'
<1> DEFINE out == [outcome |-> "action_required", reason |-> reason]
<1>1. out.outcome \notin {"applied", "provisioned_no_runnable"}
  OBVIOUS
<1>2. Ends(p, out) /\ UNCHANGED <<path, tree, spent>>
  BY DEF CallRefused
<1> HIDE DEF out
<1> QED
  BY <1>1, <1>2, CallEnds

LEMMA CallHasFailed ==
  ASSUME ApplyInv, NEW p \in Callers, Fails(p)
  PROVE  ApplyInv'
<1> DEFINE out == [outcome |-> "error", reason |-> Nil]
<1>1. out.outcome \notin {"applied", "provisioned_no_runnable"}
  OBVIOUS
<1>2. Ends(p, out) /\ UNCHANGED <<path, tree, spent>>
  BY DEF Fails
<1> HIDE DEF out
<1> QED
  BY <1>1, <1>2, CallEnds

\* Prepare or Apply without authority, a crash, and the last report.
LEMMA EndSteps ==
  ASSUME ApplyInv, NEW p \in Callers,
         PrepareRefused(p) \/ ApplyUnauthorized(p) \/ ApplyCrashes(p) \/ Reports(p)
  PROVE  ApplyInv'
<1>1. CASE PrepareRefused(p) \/ ApplyUnauthorized(p) \/ ApplyCrashes(p)
  <2>1. PICK outcome \in {"unsupported", "error", "crashed"} : \E reason :
          Ends(p, [outcome |-> outcome, reason |-> reason]) /\ UNCHANGED <<path, tree, spent>>
    BY <1>1 DEF PrepareRefused, ApplyUnauthorized, ApplyCrashes
  <2> PICK reason : Ends(p, [outcome |-> outcome, reason |-> reason]) /\ UNCHANGED <<path, tree, spent>>
    BY <2>1
  <2> DEFINE out == [outcome |-> outcome, reason |-> reason]
  <2>2. Ends(p, out) /\ out.outcome \notin {"applied", "provisioned_no_runnable"}
    OBVIOUS
  <2> HIDE DEF out
  <2> QED
    BY <2>1, <2>2, CallEnds
<1>2. CASE Reports(p)
  <2>1. CASE path.sess # Sess(p) \/ BaseAuthority # "authorized"
    BY <1>2, <2>1, CallIsRefused DEF Reports
  <2>2. CASE ~(path.sess # Sess(p) \/ BaseAuthority # "authorized")
    <3>1. PICK out : Ends(p, out) /\ UNCHANGED <<path, tree, spent>>
      BY <1>2, <2>2 DEF Reports
    <3> QED
      BY <1>2, <3>1, CallEnds DEF Reports
  <2> QED
    BY <2>1, <2>2
<1> QED
  BY <1>1, <1>2

-----------------------------------------------------------------------------
(* Steps that change no directory *)

LEMMA CallGoes ==
  ASSUME ApplyInv, NEW p \in Callers, NEW l, CallAt(p, l)
  PROVE  /\ OnlyCall(p) /\ PC(p)' = l /\ Sess(p)' = Sess(p)
         /\ call'[p].founded = call[p].founded /\ call'[p].pin = call[p].pin
         /\ call'[p].seen = call[p].seen /\ call'[p].subject = call[p].subject
BY DEF ApplyInv, PlaceInv, CallAt, OnlyCall, PC, Sess, CallFields

\* A call goes on with what it has read.
LEMMA CallGoesOn ==
  ASSUME ApplyInv, NEW p \in Callers, NEW l, CallAt(p, l), l # "done",
         UNCHANGED <<path, tree, spent, leases>>, PlaceInv(p)', PinInv(p)',
         l \in Pinned => PC(p) \in Pinned
  PROVE  ApplyInv'
<1>1. ~Succeeded(p)'
  BY CallGoes DEF Succeeded
<1> QED
  BY <1>1, CallGoes, CallMoves

LEMMA PrepareSteps ==
  ASSUME ApplyInv, NEW p \in Callers, PrepareReads(p) \/ PrepareSeals(p)
  PROVE  ApplyInv'
<1>1. UNCHANGED <<path, tree, spent, leases>>
  BY DEF PrepareReads, PrepareSeals
<1>2. /\ OnlyCall(p) /\ PC(p)' \in {"sealing", "prepared", "idle"} /\ Sess(p)' = Sess(p)
      /\ call'[p].founded = call[p].founded
  BY SMTT(20) DEF PrepareReads, PrepareSeals, Observe, ApplyInv, PlaceInv, OnlyCall, PC, Sess, CallFields
<1>3. PlaceInv(p)' /\ PinInv(p)'
  BY <1>1, <1>2 DEF ApplyInv, PlaceInv, PinInv, OnlyCall, Acting, Pinned, Checking, Opening
<1>4. ~Succeeded(p)' /\ PC(p)' \notin Pinned
  BY <1>2 DEF Succeeded, Pinned
<1> QED
  BY <1>1, <1>2, <1>3, <1>4, CallMoves

\* Apply opens the target by what the paths name now.
LEMMA ApplyOpensStep ==
  ASSUME ApplyInv, NEW p \in Callers, NEW choice, ApplyOpens(p, choice)
  PROVE  ApplyInv'
<1>1. UNCHANGED <<path, tree, spent, leases>>
  BY DEF ApplyOpens
<1>2. PICK l : l = CASE ~path.base -> "authorize" [] path.base /\ path.sess = Nil -> "lock" [] OTHER -> "nonce"
  OBVIOUS
<1>3. PICK s : s = SubjectAt(OpenTarget, call[p], Wants[p])
  OBVIOUS
<1>4. s.sess = path.sess
  BY <1>3 DEF SubjectAt, OpenTarget
<1>5. call' = [call EXCEPT ![p].sess = path.sess, ![p].given = Decisions(call[p].subject, choice),
                            ![p].seen = s, ![p].pin = Nil, ![p].pc = l]
  BY <1>2, <1>3 DEF ApplyOpens
<1>6. /\ OnlyCall(p) /\ PC(p)' = l /\ Sess(p)' = path.sess /\ call'[p].seen = s
      /\ call'[p].founded = call[p].founded
  BY <1>5 DEF ApplyInv, PlaceInv, OnlyCall, PC, Sess, CallFields
<1>7. path.sess \in spent \cup {Nil} /\ (path.sess # Nil => path.base)
  BY DEF ApplyInv, DiskInv
<1>8. \/ l = "authorize" /\ path.sess = Nil
      \/ l = "lock" /\ path.sess = Nil
      \/ l = "nonce" /\ path.sess # Nil
  BY <1>2, <1>7
<1>9. PlaceInv(p)' /\ PinInv(p)'
  BY <1>1, <1>4, <1>6, <1>7, <1>8
     DEF ApplyInv, PlaceInv, PinInv, OnlyCall, Acting, Pinned, Checking, Opening
<1>10. ~Succeeded(p)' /\ PC(p)' \notin Pinned
  BY <1>6, <1>8 DEF Succeeded, Pinned
<1> QED
  BY <1>1, <1>6, <1>9, <1>10, CallMoves

LEMMA ReadsNonceStep ==
  ASSUME ApplyInv, NEW p \in Callers, ReadsNonce(p)
  PROVE  ApplyInv'
<1>1. UNCHANGED <<path, tree, spent, leases>> /\ PC(p) = "nonce"
  BY DEF ReadsNonce
<1>2. PICK n : call' = [call EXCEPT ![p].pc = "lease", ![p].nonce = n]
  BY DEF ReadsNonce
<1>3. /\ OnlyCall(p) /\ PC(p)' = "lease" /\ Sess(p)' = Sess(p) /\ call'[p].seen = call[p].seen
      /\ call'[p].founded = call[p].founded
  BY <1>2 DEF ApplyInv, PlaceInv, OnlyCall, PC, Sess, CallFields
<1>4. PlaceInv(p)' /\ PinInv(p)'
  BY <1>1, <1>3 DEF ApplyInv, PlaceInv, PinInv, OnlyCall, Acting, Pinned, Checking, Opening
<1>5. ~Succeeded(p)' /\ PC(p)' \notin Pinned
  BY <1>3 DEF Succeeded, Pinned
<1> QED
  BY <1>1, <1>3, <1>4, <1>5, CallMoves

\* Behind the creation lock the target is verified, or published at once.
LEMMA LocksCreationStep ==
  ASSUME ApplyInv, NEW p \in Callers, LocksCreation(p)
  PROVE  ApplyInv'
<1>1. UNCHANGED <<path, tree, spent, leases>> /\ PC(p) = "lock" /\ path.base
  BY DEF LocksCreation
<1>2. PICK l \in {"verify", "publish"} : CallAt(p, l)
  BY DEF LocksCreation
<1>3. PlaceInv(p)' /\ PinInv(p)'
  BY <1>1, <1>2, CallGoes DEF ApplyInv, PlaceInv, PinInv, OnlyCall, Acting, Pinned, Checking, Opening
<1> QED
  BY <1>1, <1>2, <1>3, CallGoesOn DEF Pinned

LEMMA VerifiesTargetStep ==
  ASSUME ApplyInv, NEW p \in Callers, VerifiesTarget(p)
  PROVE  ApplyInv'
<1>1. CASE CallRefused(p, "subject_changed")
  BY <1>1, CallIsRefused
<1>2. CASE CallAt(p, "authorize") /\ UNCHANGED <<path, tree, spent, creation, leases, env>>
  <2>1. PC(p) = "verify"
    BY DEF VerifiesTarget
  <2>2. PlaceInv(p)' /\ PinInv(p)'
    BY <1>2, <2>1, CallGoes, SMTT(20) DEF ApplyInv, PlaceInv, PinInv, OnlyCall, Acting, Pinned, Checking, Opening
  <2> QED
    BY <1>2, <2>2, CallGoesOn DEF Pinned
<1> QED
  BY <1>1, <1>2 DEF VerifiesTarget

\* The subject is prepared again: what it says of the binding is what is there.
LEMMA AuthorizeReadsStep ==
  ASSUME ApplyInv, NEW p \in Callers, AuthorizeReads(p)
  PROVE  ApplyInv'
<1>1. CASE CallRefused(p, "subject_changed")
  BY <1>1, CallIsRefused
<1>2. CASE call[p].seen.sess = path.sess /\ Observe(p, "compare")
             /\ UNCHANGED <<path, tree, spent, creation, leases, env>>
  <2>1. PC(p) = "authorize"
    BY DEF AuthorizeReads
  <2>2. PICK s : s = SubjectAt(OpenTarget, call[p], Wants[p])
    OBVIOUS
  <2>3. s.sess = path.sess /\ (path.sess # Nil => s.bind = tree[path.sess].bind)
    BY <2>2 DEF SubjectAt, OpenTarget
  <2>4. call' = [call EXCEPT ![p].seen = s, ![p].pin = PinAt(OpenTarget), ![p].pc = "compare"]
    BY <1>2, <2>2 DEF Observe
  <2>5. /\ OnlyCall(p) /\ PC(p)' = "compare" /\ Sess(p)' = Sess(p) /\ call'[p].seen = s
        /\ call'[p].founded = call[p].founded
    BY <2>4 DEF ApplyInv, PlaceInv, OnlyCall, PC, Sess, CallFields
  <2>6. Sess(p) = path.sess
    BY <1>2, <2>1 DEF ApplyInv, PlaceInv, Checking
  <2>7. PlaceInv(p)'
    BY <1>2, <2>1, <2>3, <2>5, <2>6 DEF ApplyInv, PlaceInv, OnlyCall, Acting, Pinned, Checking, Opening
  <2>8. PinInv(p)'
    BY <1>2, <2>3, <2>5, <2>6 DEF PinInv, Acting, Pinned, Tree
  <2>9. ~Succeeded(p)' /\ PC(p)' \notin Pinned
    BY <2>5 DEF Succeeded, Pinned
  <2> QED
    BY <1>2, <2>5, <2>7, <2>8, <2>9, CallMoves
<1> QED
  BY <1>1, <1>2 DEF AuthorizeReads

\* Only the subject that was approved is acted on (authorizeApply).
LEMMA ApprovedOnly ==
  ASSUME NEW o, NEW approved, NEW given, Refusal(o, approved, given) = Nil
  PROVE  o.sess = approved.sess /\ o.bind = approved.bind
<1>1. SameSubject(o, approved)
  BY NilAssumption DEF Refusal
<1> QED
  BY <1>1 DEF SameSubject, SubjectDigest

LEMMA AuthorizeComparesStep ==
  ASSUME ApplyInv, NEW p \in Callers, AuthorizeCompares(p)
  PROVE  ApplyInv'
<1>1. CASE \E reason : CallRefused(p, reason)
  BY <1>1, CallIsRefused
<1>2. CASE ~\E reason : CallRefused(p, reason)
  <2>1. /\ PC(p) = "compare" /\ TargetHolds(call[p])
        /\ Refusal(call[p].seen, call[p].subject, call[p].given) = Nil
        /\ UNCHANGED <<path, tree, spent, leases>>
    BY <1>2 DEF AuthorizeCompares
  <2>2. PICK l : l = CASE ~call[p].seen.base -> "base"
                      [] call[p].seen.base /\ Sess(p) = Nil -> "publish" [] OTHER -> "roster"
    OBVIOUS
  <2>3. CallAt(p, l)
    BY <1>2, <2>2 DEF AuthorizeCompares
  <2>4. call[p].seen.sess = Sess(p) /\ path.sess = call[p].seen.sess /\ path.base = call[p].seen.base
    BY <2>1 DEF ApplyInv, PlaceInv, Checking, TargetHolds
  <2>5. path.sess # Nil => path.base
    BY DEF ApplyInv, DiskInv
  <2>6. \/ l = "base" /\ Sess(p) = Nil
        \/ l = "publish" /\ Sess(p) = Nil /\ path.base
        \/ l = "roster" /\ Sess(p) # Nil
    BY <2>2, <2>4, <2>5
  <2>7. PlaceInv(p)'
    BY <2>1, <2>3, <2>4, <2>6, CallGoes, SMTT(20)
       DEF ApplyInv, PlaceInv, OnlyCall, Acting, Pinned, Checking, Opening
  <2>8. call[p].seen.sess = call[p].subject.sess /\ call[p].seen.bind = call[p].subject.bind
    BY <2>1, ApprovedOnly
  <2>9. Sess(p) # Nil => Tree(p).bind = call[p].seen.bind
    BY <2>1 DEF ApplyInv, PinInv
  <2>10. Tree(p)' = Tree(p)
    BY <2>1, <2>3, CallGoes DEF Tree
  <2>11. PinInv(p)'
    BY <2>3, <2>4, <2>6, <2>8, <2>9, <2>10, CallGoes DEF PinInv, Acting, Pinned
  <2> QED
    BY <2>1, <2>3, <2>6, <2>7, <2>11, CallGoesOn DEF Pinned
<1> QED
  BY <1>1, <1>2

\* The repair is planned, ends, and the roster is verified against the pin.
LEMMA RepairPlannedStep ==
  ASSUME ApplyInv, NEW p \in Callers, RepairPlanned(p)
  PROVE  ApplyInv'
<1>1. CASE Fails(p)
  BY <1>1, CallHasFailed
<1>2. CASE ~Fails(p)
  <2>1. /\ PC(p) = "preflight" /\ UNCHANGED <<path, tree, spent, leases>>
        /\ call' = [call EXCEPT ![p].plan = Tree(p), ![p].pc = "repair"]
    BY <1>2 DEF RepairPlanned
  <2>2. /\ OnlyCall(p) /\ PC(p)' = "repair" /\ Sess(p)' = Sess(p) /\ call'[p].pin = call[p].pin
        /\ call'[p].founded = call[p].founded /\ call'[p].subject = call[p].subject
    BY <2>1 DEF ApplyInv, PlaceInv, OnlyCall, PC, Sess, CallFields
  <2>3. Tree(p)' = Tree(p) /\ Configured(Tree(p))' = Configured(Tree(p))
    BY <2>1, <2>2 DEF Tree, Configured
  <2>4. PlaceInv(p)' /\ PinInv(p)'
    BY <2>1, <2>2, <2>3, SMTT(20) DEF ApplyInv, PlaceInv, PinInv, OnlyCall, Acting, Pinned, Checking, Opening
  <2>5. ~Succeeded(p)' /\ PC(p) \in Pinned
    BY <2>1, <2>2 DEF Succeeded, Pinned
  <2> QED
    BY <2>1, <2>2, <2>4, <2>5, CallMoves
<1> QED
  BY <1>1, <1>2

LEMMA RecordSteps ==
  ASSUME ApplyInv, NEW p \in Callers, RepairEnds(p) \/ VerifiesRoster(p)
  PROVE  ApplyInv'
<1>1. CASE Fails(p)
  BY <1>1, CallHasFailed
<1>2. CASE ~Fails(p)
  <2>1. PICK l \in {"record", "write", "reconcile", "status"} :
          /\ CallAt(p, l) /\ PC(p) \in {"repair", "record"} /\ UNCHANGED <<path, tree, spent, leases>>
          /\ l \in {"reconcile", "status"} => EffectiveRoster(p) = call[p].pin
    BY <1>2 DEF RepairEnds, VerifiesRoster
  <2>2. Tree(p)' = Tree(p) /\ Configured(Tree(p))' = Configured(Tree(p))
    BY <2>1, CallGoes DEF Tree, Configured
  <2>3. call[p].pin \subseteq Configured(Tree(p))
    BY <2>1 DEF ApplyInv, PinInv, Pinned
  <2>4. EffectiveRoster(p) = call[p].pin => Wants[p] \subseteq call[p].pin
    BY DEF EffectiveRoster
  <2>5. PlaceInv(p)'
    BY <2>1, CallGoes DEF ApplyInv, PlaceInv, OnlyCall, Acting, Pinned, Checking, Opening
  <2>6. PinInv(p)'
    BY <2>1, <2>2, <2>3, <2>4, CallGoes DEF ApplyInv, PinInv, Acting, Pinned
  <2> QED
    BY <2>1, <2>5, <2>6, CallGoesOn DEF Pinned
<1> QED
  BY <1>1, <1>2

-----------------------------------------------------------------------------
(* Steps that change a directory *)

\* Who acts in a directory holds its lease; the others' directories stay.
LEMMA HolderWrites ==
  ASSUME ApplyInv, NEW p \in Callers, PC(p) \in Acting, UNCHANGED <<path, spent>>, DiskInv',
         \A d \in Dirs : d # Sess(p) => tree'[d] = tree[d],
         \A d \in Dirs : leases[d].by # p => leases'[d] = leases[d],
         OnlyCall(p), Sess(p)' = Sess(p), call'[p].founded = call[p].founded,
         PlaceInv(p)', PinInv(p)', ~Succeeded(p)',
         \A q \in Callers : Succeeded(q) /\ Sess(q) = Sess(p) =>
           /\ Wants[q] \subseteq Configured(tree'[Sess(p)])
           /\ PC(p)' \in Pinned => Wants[q] \subseteq call'[p].pin
  PROVE  ApplyInv'
<1>1. \A q \in Callers : q # p => call'[q] = call[q]
  BY DEF OnlyCall
<1>2. Sess(p) \in spent /\ spent \subseteq Dirs /\ leases[Sess(p)].by = p
  BY DEF ApplyInv, DiskInv, PlaceInv
<1>3. \A q \in Callers : PlaceInv(q)' /\ PinInv(q)'
  BY <1>1, <1>2, Bystander
<1>4. \A q \in Callers : q # p => (Succeeded(q)' <=> Succeeded(q)) /\ PC(q)' = PC(q) /\ Sess(q)' = Sess(q)
  BY <1>1 DEF Succeeded, PC, Sess
<1>5. ~Succeeded(p)
  BY DEF Succeeded, Acting, Pinned
<1>6. ASSUME NEW q \in Callers, Succeeded(q)'
      PROVE  Sess(q)' # Nil /\ Wants[q] \subseteq Configured(Tree(q))'
  <2>1. q # p /\ Succeeded(q) /\ Sess(q) # Nil /\ Sess(q)' = Sess(q) /\ Wants[q] \subseteq Configured(Tree(q))
    BY <1>4, <1>6 DEF ApplyInv, Provisioned
  <2>2. Sess(q) \in Dirs
    BY <1>2, <2>1 DEF ApplyInv, PlaceInv
  <2>3. Configured(Tree(q))' = Configured(tree'[Sess(q)]) /\ Configured(Tree(q)) = Configured(tree[Sess(q)])
    BY <2>1 DEF Tree, Configured
  <2> QED
    BY <2>1, <2>2, <2>3
<1>7. \A q \in Callers : Provisioned(q)'
  BY <1>6 DEF Provisioned
<1>8. \A q, r \in Callers : PinCovers(q, r)'
  BY <1>1, <1>4, SMTT(20) DEF ApplyInv, PinCovers
<1>9. OneFounder'
  BY <1>1, SMTT(20) DEF ApplyInv, OneFounder
<1> QED
  BY <1>3, <1>7, <1>8, <1>9 DEF ApplyInv, OnlyCall

\* A roster file is written; the rest of the directory stays.
LEMMA RosterWritten ==
  ASSUME ApplyInv, NEW d \in Dirs, NEW cfg \in SUBSET Agents, tree' = [tree EXCEPT ![d].cfg = cfg]
  PROVE  /\ tree' = [x \in Dirs |-> tree'[x]]
         /\ \A x \in Dirs : DOMAIN tree'[x] = TreeFields /\ tree'[x].cfg \in (SUBSET Agents) \cup {Nil}
         /\ \A x \in Dirs : x # d => tree'[x] = tree[x]
         /\ tree'[d].bind = tree[d].bind /\ Configured(tree'[d]) = cfg
<1>1. tree = [x \in Dirs |-> tree[x]]
  BY DEF ApplyInv, DiskInv
<1>2. DOMAIN tree[d] = TreeFields
  BY DEF ApplyInv, DiskInv
<1>3. tree'[d].cfg = cfg /\ tree'[d].bind = tree[d].bind /\ DOMAIN tree'[d] = TreeFields
  BY <1>1, <1>2 DEF TreeFields
<1>4. tree' = [x \in Dirs |-> tree'[x]] /\ \A x \in Dirs : x # d => tree'[x] = tree[x]
  BY <1>1
<1>5. Configured(tree'[d]) = cfg
  BY <1>3, NilAssumption DEF Configured
<1> QED
  BY <1>3, <1>4, <1>5 DEF ApplyInv, DiskInv

LEMMA PinsRosterStep ==
  ASSUME ApplyInv, NEW p \in Callers, PinsRoster(p)
  PROVE  ApplyInv'
<1>1. CASE Fails(p)
  BY <1>1, CallHasFailed
<1>2. CASE ~Fails(p)
  <2>1. PC(p) = "roster" /\ UNCHANGED <<path, spent, leases>>
    BY <1>2 DEF PinsRoster
  <2>2. Sess(p) \in Dirs /\ Tree(p) = tree[Sess(p)] /\ Tree(p).cfg \in (SUBSET Agents) \cup {Nil}
    BY <2>1 DEF ApplyInv, DiskInv, PlaceInv, Acting, Tree
  <2>3. PICK cfg : cfg = IF Tree(p).cfg = Nil THEN DiscoveredRoster(Tree(p), Wants[p]) ELSE Tree(p).cfg
    OBVIOUS
  <2>4. /\ tree' = [tree EXCEPT ![Sess(p)].cfg = cfg]
        /\ call' = [call EXCEPT ![p].pin = cfg, ![p].pc = "preflight"]
    BY <1>2, <2>3 DEF PinsRoster
  <2>5. cfg \in SUBSET Agents /\ Configured(Tree(p)) \subseteq cfg
    BY <2>2, <2>3, WantsAssumption DEF DiscoveredRoster, Discovered, Configured
  <2>6. /\ OnlyCall(p) /\ PC(p)' = "preflight" /\ Sess(p)' = Sess(p) /\ call'[p].pin = cfg
        /\ call'[p].founded = call[p].founded /\ call'[p].subject = call[p].subject
    BY <2>4 DEF ApplyInv, PlaceInv, OnlyCall, PC, Sess, CallFields
  <2>7. DiskInv'
    BY <2>1, <2>2, <2>4, <2>5, RosterWritten DEF ApplyInv, DiskInv
  <2>8. Tree(p)' = tree'[Sess(p)] /\ Configured(Tree(p))' = Configured(tree'[Sess(p)])
    BY <2>6 DEF Tree, Configured
  <2>9. /\ tree'[Sess(p)].bind = Tree(p).bind /\ Configured(tree'[Sess(p)]) = cfg
        /\ \A d \in Dirs : d # Sess(p) => tree'[d] = tree[d]
    BY <2>2, <2>4, <2>5, RosterWritten
  <2>10. PlaceInv(p)'
    BY <2>1, <2>6 DEF ApplyInv, PlaceInv, OnlyCall, Acting, Pinned, Checking, Opening
  <2>11. PinInv(p)'
    BY <2>1, <2>5, <2>6, <2>8, <2>9 DEF ApplyInv, PinInv, Acting, Pinned
  <2>12. \A q \in Callers : Succeeded(q) /\ Sess(q) = Sess(p) => Wants[q] \subseteq cfg
    BY <2>2, <2>5 DEF ApplyInv, Provisioned, Tree
  <2>13. ~Succeeded(p)' /\ PC(p) \in Acting
    BY <2>1, <2>6 DEF Succeeded, Acting
  <2> QED
    BY <2>1, <2>6, <2>7, <2>9, <2>10, <2>11, <2>12, <2>13, HolderWrites
<1> QED
  BY <1>1, <1>2

\* The repair of one mailbox leaves the roster and the binding.
LEMMA RepairsOneStep ==
  ASSUME ApplyInv, NEW p \in Callers, NEW h, RepairsOne(p, h)
  PROVE  ApplyInv'
<1>1. PC(p) = "repair" /\ UNCHANGED <<path, spent, leases>>
  BY DEF RepairsOne
<1>2. Sess(p) \in Dirs /\ Tree(p) = tree[Sess(p)] /\ DOMAIN Tree(p) = TreeFields
        /\ tree = [d \in Dirs |-> tree[d]]
  BY <1>1 DEF ApplyInv, DiskInv, PlaceInv, Acting, Pinned, Tree
<1>3. /\ OnlyCall(p) /\ PC(p)' \in {"repair", "record"} /\ Sess(p)' = Sess(p)
      /\ call'[p].pin = call[p].pin
      /\ call'[p].founded = call[p].founded /\ call'[p].subject = call[p].subject
  <2>1. CASE CallAt(p, "record")
    BY <2>1, CallGoes
  <2>2. CASE call' = [call EXCEPT ![p].plan.box[h] = "whole"]
    BY <1>1, <2>2 DEF ApplyInv, PlaceInv, OnlyCall, PC, Sess, CallFields
  <2> QED
    BY <2>1, <2>2 DEF RepairsOne
<1>4. \/ tree' = tree
      \/ \E t : /\ tree' = [tree EXCEPT ![Sess(p)] = t] /\ DOMAIN t = TreeFields
               /\ t.cfg = Tree(p).cfg /\ t.bind = Tree(p).bind
  BY <1>2 DEF RepairsOne, RepairMailbox, RepairBegun, TreeFields
<1>5. /\ tree' = [d \in Dirs |-> tree'[d]]
      /\ \A d \in Dirs : /\ d # Sess(p) => tree'[d] = tree[d]
                        /\ DOMAIN tree'[d] = TreeFields /\ tree'[d].cfg = tree[d].cfg
                        /\ tree'[d].bind = tree[d].bind
  BY <1>2, <1>4 DEF ApplyInv, DiskInv
<1>6. DiskInv'
  BY <1>1, <1>5 DEF ApplyInv, DiskInv
<1>7. Tree(p)' = tree'[Sess(p)] /\ Configured(Tree(p))' = Configured(Tree(p))
        /\ Configured(tree'[Sess(p)]) = Configured(Tree(p))
  BY <1>2, <1>3, <1>5 DEF Tree, Configured
<1>8. PlaceInv(p)'
  BY <1>1, <1>3 DEF ApplyInv, PlaceInv, OnlyCall, Acting, Pinned, Checking, Opening
<1>9. PinInv(p)'
  BY <1>1, <1>2, <1>3, <1>5, <1>7, SMTT(20) DEF ApplyInv, PinInv, Acting, Pinned
<1>10. \A q \in Callers : Succeeded(q) /\ Sess(q) = Sess(p) =>
         Wants[q] \subseteq Configured(Tree(p)) /\ Wants[q] \subseteq call[p].pin
  BY <1>1 DEF ApplyInv, Provisioned, PinCovers, Tree, Pinned
<1>11. ~Succeeded(p)' /\ PC(p) \in Acting
  BY <1>1, <1>3 DEF Succeeded, Acting, Pinned
<1> QED
  BY <1>1, <1>3, <1>5, <1>6, <1>7, <1>8, <1>9, <1>10, <1>11, HolderWrites

\* The wanted participants join the pinned roster.
LEMMA WritesRosterStep ==
  ASSUME ApplyInv, NEW p \in Callers, NEW durable, WritesRoster(p, durable)
  PROVE  ApplyInv'
<1>1. CASE Fails(p)
  BY <1>1, CallHasFailed
<1>2. CASE ~Fails(p)
  <2>1. /\ PC(p) = "write" /\ UNCHANGED <<path, spent>>
        /\ tree' = [tree EXCEPT ![Sess(p)].cfg = EffectiveRoster(p)]
    BY <1>2 DEF WritesRoster
  <2>2. Sess(p) \in Dirs /\ Tree(p) = tree[Sess(p)]
    BY <2>1 DEF ApplyInv, DiskInv, PlaceInv, Acting, Pinned, Tree
  <2>3. PICK cfg : cfg = EffectiveRoster(p)
    OBVIOUS
  <2>4. cfg \in SUBSET Agents /\ cfg = call[p].pin \cup Wants[p]
    BY <2>1, <2>3, WantsAssumption DEF ApplyInv, PinInv, Pinned, EffectiveRoster
  <2>5. /\ tree'[Sess(p)].bind = Tree(p).bind /\ Configured(tree'[Sess(p)]) = cfg
        /\ \A d \in Dirs : d # Sess(p) => tree'[d] = tree[d]
    BY <2>1, <2>2, <2>3, <2>4, RosterWritten
  <2>6. \A q \in Callers : Succeeded(q) /\ Sess(q) = Sess(p) => Wants[q] \subseteq cfg
    BY <2>1, <2>4 DEF ApplyInv, PinCovers, Pinned
  <2>7. PC(p) \in Acting
    BY <2>1 DEF Acting, Pinned
  <2>8. CASE \E l \in {"reconcile", "status"} : CallAt(p, l) /\ UNCHANGED leases
    <3>1. PICK l \in {"reconcile", "status"} : CallAt(p, l) /\ UNCHANGED leases
      BY <2>8
    <3>2. DiskInv'
      BY <2>1, <2>2, <2>3, <2>4, <3>1, RosterWritten DEF ApplyInv, DiskInv
    <3>3. Tree(p)' = tree'[Sess(p)] /\ Configured(Tree(p))' = Configured(tree'[Sess(p)])
      BY <3>1, CallGoes DEF Tree, Configured
    <3>4. PlaceInv(p)'
      BY <2>1, <3>1, CallGoes DEF ApplyInv, PlaceInv, OnlyCall, Acting, Pinned, Checking, Opening
    <3>5. PinInv(p)'
      BY <2>1, <2>4, <2>5, <3>1, <3>3, CallGoes DEF ApplyInv, PinInv, Acting, Pinned
    <3>6. ~Succeeded(p)' /\ PC(p)' \notin Pinned
      BY <3>1, CallGoes DEF Succeeded, Pinned
    <3> QED
      BY <2>1, <2>5, <2>6, <2>7, <3>1, <3>2, <3>4, <3>5, <3>6, CallGoes, HolderWrites
  <2>9. CASE Ends(p, [outcome |-> "action_required", reason |-> "roster_config_durability_uncertain"])
    <3>1. PICK out : Ends(p, out) /\ out.outcome \notin {"applied", "provisioned_no_runnable"}
      BY <2>9, SMTT(20)
    <3>2. DiskInv'
      BY <2>1, <2>2, <2>3, <2>4, <3>1, Ended, RosterWritten DEF ApplyInv, DiskInv
    <3>3. PlaceInv(p)' /\ PinInv(p)'
      BY <2>1, <3>1, Ended, DoneInv DEF OnlyCall, ApplyInv, PlaceInv
    <3>4. ~Succeeded(p)' /\ PC(p)' \notin Pinned
      BY <3>1, Ended DEF Succeeded, Pinned
    <3> QED
      BY <2>1, <2>5, <2>6, <2>7, <3>1, <3>2, <3>3, <3>4, Ended, HolderWrites
  <2> QED
    BY <1>2, <2>8, <2>9 DEF WritesRoster
<1> QED
  BY <1>1, <1>2

\* Reconcile writes the binding or the journal of the directory it holds.
LEMMA ReconcilesStep ==
  ASSUME ApplyInv, NEW p \in Callers, NEW answer, Reconciles(p, answer)
  PROVE  ApplyInv'
<1>1. PC(p) = "reconcile" /\ UNCHANGED <<path, spent>>
  BY DEF Reconciles
<1>2. /\ Sess(p) \in Dirs /\ Tree(p) = tree[Sess(p)] /\ DOMAIN Tree(p) = TreeFields
      /\ tree = [d \in Dirs |-> tree[d]]
  BY <1>1 DEF ApplyInv, DiskInv, PlaceInv, Acting, Tree
<1>3. \/ tree' = tree
      \/ \E b : tree' = [tree EXCEPT ![Sess(p)].bind = b, ![Sess(p)].journal = 0]
      \/ \E n : tree' = [tree EXCEPT ![Sess(p)].journal = n]
  BY DEF Reconciles
<1>4. /\ tree' = [d \in Dirs |-> tree'[d]]
      /\ \A d \in Dirs : /\ d # Sess(p) => tree'[d] = tree[d]
                        /\ DOMAIN tree'[d] = TreeFields /\ tree'[d].cfg = tree[d].cfg
  <2>1. \A d \in Dirs : DOMAIN tree[d] = TreeFields
    BY DEF ApplyInv, DiskInv
  <2>2. ASSUME NEW b, tree' = [tree EXCEPT ![Sess(p)].bind = b, ![Sess(p)].journal = 0]
        PROVE  <1>4!1 /\ <1>4!2
    BY <1>2, <2>1, <2>2 DEF TreeFields
  <2>3. ASSUME NEW n, tree' = [tree EXCEPT ![Sess(p)].journal = n]
        PROVE  <1>4!1 /\ <1>4!2
    BY <1>2, <2>1, <2>3 DEF TreeFields
  <2> QED
    BY <1>2, <1>3, <2>1, <2>2, <2>3
<1>5. Configured(tree'[Sess(p)]) = Configured(Tree(p))
  BY <1>2, <1>4 DEF Configured
<1>6. \A q \in Callers : Succeeded(q) /\ Sess(q) = Sess(p) => Wants[q] \subseteq Configured(tree'[Sess(p)])
  BY <1>5 DEF ApplyInv, Provisioned, Tree
<1>7. PC(p) \in Acting
  BY <1>1 DEF Acting
<1>8. CASE \E a : call' = [call EXCEPT ![p].pc = "status", ![p].out = a] /\ UNCHANGED leases
  <2> PICK a : call' = [call EXCEPT ![p].pc = "status", ![p].out = a] /\ UNCHANGED leases
    BY <1>8
  <2>1. /\ OnlyCall(p) /\ PC(p)' = "status" /\ Sess(p)' = Sess(p) /\ leases' = leases
        /\ call'[p].founded = call[p].founded
    BY DEF ApplyInv, PlaceInv, OnlyCall, PC, Sess, CallFields
  <2>2. DiskInv'
    BY <1>1, <1>4, <2>1 DEF ApplyInv, DiskInv
  <2>3. Configured(Tree(p))' = Configured(Tree(p))
    BY <1>5, <2>1 DEF Tree, Configured
  <2>4. PlaceInv(p)' /\ PinInv(p)'
    BY <1>1, <2>1, <2>3, SMTT(20) DEF ApplyInv, PlaceInv, PinInv, OnlyCall, Acting, Pinned, Checking, Opening
  <2>5. ~Succeeded(p)' /\ PC(p)' \notin Pinned
    BY <2>1 DEF Succeeded, Pinned
  <2> QED
    BY <1>1, <1>4, <1>6, <1>7, <2>1, <2>2, <2>4, <2>5, HolderWrites
<1>9. CASE \E reason : Ends(p, [outcome |-> "action_required", reason |-> reason])
  <2>1. PICK out : Ends(p, out) /\ out.outcome \notin {"applied", "provisioned_no_runnable"}
    BY <1>9, SMTT(20)
  <2>2. DiskInv'
    BY <1>1, <1>4, <2>1, Ended DEF ApplyInv, DiskInv
  <2>3. PlaceInv(p)' /\ PinInv(p)'
    BY <1>1, <2>1, Ended, DoneInv DEF OnlyCall, ApplyInv, PlaceInv
  <2>4. ~Succeeded(p)' /\ PC(p)' \notin Pinned
    BY <2>1, Ended DEF Succeeded, Pinned
  <2> QED
    BY <1>1, <1>4, <1>6, <1>7, <2>1, <2>2, <2>3, <2>4, Ended, HolderWrites
<1> QED
  BY <1>8, <1>9 DEF Reconciles

LEMMA AcquiresLeaseStep ==
  ASSUME ApplyInv, NEW p \in Callers, AcquiresLease(p)
  PROVE  ApplyInv'
<1>1. CASE CallRefused(p, "launch_lease_unavailable")
  BY <1>1, CallIsRefused
<1>2. CASE ~CallRefused(p, "launch_lease_unavailable")
  <2>1. /\ PC(p) = "lease" /\ leases[Sess(p)].by = Nil /\ CallAt(p, "verify")
        /\ leases' = [leases EXCEPT ![Sess(p)] = [by |-> p, nonce |-> call[p].nonce]]
        /\ UNCHANGED <<path, tree, spent>>
    BY <1>2 DEF AcquiresLease, LeaseIsFree
  <2>2. Sess(p) \in Dirs
    BY <2>1 DEF ApplyInv, DiskInv, PlaceInv
  <2>3. leases' = [d \in Dirs |-> leases'[d]] /\ leases'[Sess(p)].by = p
        /\ \A d \in Dirs : d # Sess(p) => leases'[d] = leases[d]
    BY <2>1, <2>2 DEF ApplyInv, DiskInv
  <2>4. DiskInv'
    BY <2>1, <2>3 DEF ApplyInv, DiskInv
  <2>5. \A d \in spent : \A q \in Callers : q # p /\ leases[d].by = q => leases'[d].by = q
    BY <2>1, <2>3, NilAssumption, SMTT(20) DEF ApplyInv, DiskInv
  <2>6. PlaceInv(p)' /\ PinInv(p)'
    BY <2>1, <2>3, CallGoes, SMTT(20) DEF ApplyInv, PlaceInv, PinInv, OnlyCall, Acting, Pinned, Checking, Opening
  <2>7. ~Succeeded(p)' /\ PC(p)' \notin Pinned
    BY <2>1, CallGoes, SMTT(20) DEF Succeeded, Pinned
  <2> QED
    BY <2>1, <2>4, <2>5, <2>6, <2>7, CallGoes, CallActs
<1> QED
  BY <1>1, <1>2

LEMMA CreatesBaseStep ==
  ASSUME ApplyInv, NEW p \in Callers, NEW durable, CreatesBase(p, durable)
  PROVE  ApplyInv'
<1>1. CASE CallRefused(p, "subject_changed")
  BY <1>1, CallIsRefused
<1>2. CASE ~CallRefused(p, "subject_changed")
  <2>1. PC(p) = "base" /\ path' = [path EXCEPT !.base = TRUE] /\ UNCHANGED <<tree, spent>>
    BY <1>2 DEF CreatesBase
  <2>2. DOMAIN path' = {"base", "sess"} /\ path'.base /\ path'.sess = path.sess
    BY <2>1 DEF ApplyInv, DiskInv
  <2>3. CASE CallAt(p, "lock") /\ UNCHANGED leases
    <3>1. DiskInv'
      BY <2>1, <2>2, <2>3 DEF ApplyInv, DiskInv
    <3>2. PlaceInv(p)' /\ PinInv(p)'
      BY <2>1, <2>3, CallGoes, SMTT(20) DEF ApplyInv, PlaceInv, PinInv, OnlyCall, Acting, Pinned, Checking, Opening
    <3>3. ~Succeeded(p)' /\ PC(p)' \notin Pinned
      BY <2>3, CallGoes, SMTT(20) DEF Succeeded, Pinned
    <3> QED
      BY <2>1, <2>2, <2>3, <3>1, <3>2, <3>3, CallGoes, CallActs
  <2>4. CASE \E reason : Ends(p, [outcome |-> "action_required", reason |-> reason])
    <3>1. PICK out : Ends(p, out) /\ out.outcome \notin {"applied", "provisioned_no_runnable"}
      BY <2>4, SMTT(20)
    <3>2. DiskInv'
      BY <2>1, <2>2, <3>1, Ended DEF ApplyInv, DiskInv
    <3>3. PlaceInv(p)' /\ PinInv(p)'
      BY <2>1, <3>1, Ended, DoneInv DEF OnlyCall, ApplyInv, PlaceInv
    <3>4. ~Succeeded(p)' /\ PC(p)' \notin Pinned
      BY <3>1, Ended DEF Succeeded, Pinned
    <3>5. \A d \in spent : \A q \in Callers : q # p /\ leases[d].by = q => leases'[d].by = q
      BY <3>1, Ended DEF ApplyInv, DiskInv
    <3> QED
      BY <2>1, <2>2, <3>1, <3>2, <3>3, <3>4, <3>5, Ended, CallActs
  <2> QED
    BY <1>2, <2>3, <2>4 DEF CreatesBase
<1> QED
  BY <1>1, <1>2

\* A complete session appears under its name, founded by this call alone.
LEMMA PublishesStep ==
  ASSUME ApplyInv, NEW p \in Callers, NEW durable, Publishes(p, durable)
  PROVE  ApplyInv'
<1>1. CASE CallRefused(p, "subject_changed")
  BY <1>1, CallIsRefused
<1>2. CASE ~CallRefused(p, "subject_changed")
  <2>1. PC(p) = "publish" /\ path.sess = Nil /\ path.base
    BY <1>2 DEF Publishes, Vacant, ApplyInv, PlaceInv
  <2>2. PICK d \in Dirs \ spent :
          /\ path' = [path EXCEPT !.sess = d] /\ spent' = spent \cup {d}
          /\ tree' = [tree EXCEPT ![d] = InitializedTree(Wants[p])]
          /\ \/ /\ leases' = [leases EXCEPT ![d] = [by |-> p, nonce |-> 0]]
                /\ \E l \in {"reconcile", "status"} :
                     call' = [call EXCEPT ![p].sess = d, ![p].founded = d, ![p].pc = l]
             \/ Ends(p, [outcome |-> "action_required", reason |-> "session_publication_durability_uncertain"])
    BY <1>2, <2>1 DEF Publishes
  <2>3. DOMAIN path' = {"base", "sess"} /\ path'.base /\ path'.sess = d
    BY <2>1, <2>2 DEF ApplyInv, DiskInv
  <2>4. /\ DOMAIN InitializedTree(Wants[p]) = TreeFields
        /\ InitializedTree(Wants[p]).cfg = Wants[p] /\ Wants[p] \in SUBSET Agents
    BY WantsAssumption DEF InitializedTree, NoTree, TreeFields
  <2>5. /\ tree' = [x \in Dirs |-> tree'[x]] /\ \A x \in Dirs : x # d => tree'[x] = tree[x]
        /\ tree'[d] = InitializedTree(Wants[p])
    BY <2>2 DEF ApplyInv, DiskInv
  <2>6. \A x \in Dirs : DOMAIN tree'[x] = TreeFields /\ tree'[x].cfg \in (SUBSET Agents) \cup {Nil}
    BY <2>4, <2>5 DEF ApplyInv, DiskInv
  <2>7. Configured(tree'[d]) = Wants[p]
    BY <2>4, <2>5, NilAssumption DEF Configured
  <2>8. /\ OnlyCall(p) /\ PC(p)' \in {"reconcile", "status", "done"} /\ ~Succeeded(p)'
        /\ leases' = [x \in Dirs |-> leases'[x]]
        /\ \A x \in Dirs : leases[x].by # p /\ x # d => leases'[x] = leases[x]
        /\ \/ /\ PC(p)' # "done" /\ Sess(p)' = d /\ call'[p].founded = d /\ leases'[d].by = p
           \/ /\ PC(p)' = "done" /\ Sess(p)' = Sess(p) /\ call'[p].founded = call[p].founded
    <3>1. CASE Ends(p, [outcome |-> "action_required", reason |-> "session_publication_durability_uncertain"])
      <4>1. PICK out : Ends(p, out) /\ out.outcome \notin {"applied", "provisioned_no_runnable"}
        BY <3>1, SMTT(20)
      <4> QED
        BY <4>1, Ended DEF Succeeded
    <3>2. CASE /\ leases' = [leases EXCEPT ![d] = [by |-> p, nonce |-> 0]]
               /\ \E l \in {"reconcile", "status"} :
                     call' = [call EXCEPT ![p].sess = d, ![p].founded = d, ![p].pc = l]
      <4>1. PICK l \in {"reconcile", "status"} :
              call' = [call EXCEPT ![p].sess = d, ![p].founded = d, ![p].pc = l]
        BY <3>2
      <4>2. OnlyCall(p) /\ PC(p)' = l /\ Sess(p)' = d /\ call'[p].founded = d
        BY <4>1 DEF ApplyInv, PlaceInv, OnlyCall, PC, Sess, CallFields
      <4>3. ~Succeeded(p)'
        BY <4>2 DEF Succeeded
      <4> QED
        BY <3>2, <4>2, <4>3 DEF ApplyInv, DiskInv
    <3> QED
      BY <2>2, <3>1, <3>2
  <2>9. DiskInv'
    BY <2>2, <2>3, <2>5, <2>6, <2>8 DEF ApplyInv, DiskInv
  <2>10. \A q \in Callers : q # p => call'[q] = call[q]
    BY <2>8 DEF OnlyCall
  <2>11. spent \subseteq Dirs /\ \A x \in spent : x # d /\ x \in Dirs /\ tree'[x] = tree[x]
    BY <2>2, <2>5 DEF ApplyInv, DiskInv
  <2>12. \A q \in Callers : q # p => PlaceInv(q)' /\ PinInv(q)'
    BY <2>2, <2>3, <2>8, <2>10, <2>11, Bystander
  <2>13. PlaceInv(p)' /\ PinInv(p)'
    <3>1. CASE PC(p)' = "done"
      BY <2>2, <2>8, <3>1, DoneInv DEF OnlyCall, ApplyInv, PlaceInv
    <3>2. CASE PC(p)' # "done"
      <4>1. Configured(Tree(p))' = Wants[p]
        BY <2>7, <2>8, <3>2 DEF Tree, Configured
      <4>2. d # Nil /\ d \in spent'
        BY <2>2, NilAssumption
      <4> QED
        BY <2>8, <3>2, <4>1, <4>2 DEF PlaceInv, PinInv, OnlyCall, Acting, Pinned, Checking, Opening
    <3> QED
      BY <3>1, <3>2
  <2>14. \A q \in Callers : q # p => (Succeeded(q)' <=> Succeeded(q)) /\ PC(q)' = PC(q) /\ Sess(q)' = Sess(q)
    BY <2>10 DEF Succeeded, PC, Sess
  <2>15. ASSUME NEW q \in Callers, Succeeded(q)'
         PROVE  Sess(q)' # Nil /\ Wants[q] \subseteq Configured(Tree(q))'
    <3>1. q # p /\ Succeeded(q) /\ Sess(q) # Nil /\ Sess(q)' = Sess(q) /\ Wants[q] \subseteq Configured(Tree(q))
      BY <2>8, <2>14, <2>15 DEF ApplyInv, Provisioned
    <3>2. tree'[Sess(q)] = tree[Sess(q)]
      BY <2>11, <3>1 DEF ApplyInv, PlaceInv
    <3> QED
      BY <3>1, <3>2 DEF Tree, Configured
  <2>16. \A q \in Callers : Provisioned(q)'
    BY <2>15 DEF Provisioned
  <2>17. \A q, r \in Callers : PinCovers(q, r)'
    BY <2>8, <2>10, <2>14, SMTT(20) DEF ApplyInv, PinCovers, Pinned
  <2>18. OneFounder'
    BY <2>2, <2>8, <2>10, NilAssumption, SMTT(20) DEF ApplyInv, PlaceInv, OneFounder
  <2> QED
    BY <2>8, <2>9, <2>12, <2>13, <2>16, <2>17, <2>18 DEF ApplyInv, OnlyCall
<1> QED
  BY <1>1, <1>2

-----------------------------------------------------------------------------
(* The others *)

\* What the others do leaves bindings alone, and only adds to rosters.
LEMMA OthersMove ==
  ASSUME ApplyInv, UNCHANGED <<call, leases>>, DiskInv', spent \subseteq spent', path.base => path'.base,
         \A d \in spent : /\ tree'[d].bind = tree[d].bind
                          /\ Configured(tree[d]) \subseteq Configured(tree'[d])
  PROVE  ApplyInv'
<1>1. \A q \in Callers : PlaceInv(q)' /\ PinInv(q)'
  BY Bystander
<1>2. \A q \in Callers : (Succeeded(q)' <=> Succeeded(q)) /\ PC(q)' = PC(q) /\ Sess(q)' = Sess(q)
  BY DEF Succeeded, PC, Sess
<1>3. ASSUME NEW q \in Callers, Succeeded(q)'
      PROVE  Sess(q)' # Nil /\ Wants[q] \subseteq Configured(Tree(q))'
  <2>1. Succeeded(q) /\ Sess(q) # Nil /\ Sess(q)' = Sess(q) /\ Wants[q] \subseteq Configured(Tree(q))
    BY <1>2, <1>3 DEF ApplyInv, Provisioned
  <2>2. Sess(q) \in spent
    BY <2>1 DEF ApplyInv, PlaceInv
  <2>3. Configured(Tree(q))' = Configured(tree'[Sess(q)]) /\ Configured(Tree(q)) = Configured(tree[Sess(q)])
    BY <2>1 DEF Tree, Configured
  <2> QED
    BY <2>1, <2>2, <2>3
<1>4. \A q \in Callers : Provisioned(q)'
  BY <1>3 DEF Provisioned
<1>5. \A q, r \in Callers : PinCovers(q, r)'
  BY <1>2 DEF ApplyInv, PinCovers
<1>6. OneFounder'
  BY DEF ApplyInv, OneFounder
<1> QED
  BY <1>1, <1>4, <1>5, <1>6 DEF ApplyInv

LEMMA OthersStep ==
  ASSUME ApplyInv, OthersNext
  PROVE  ApplyInv'
<1>1. UNCHANGED <<call, leases>>
  BY DEF OthersNext, SessionAppears, SessionMoved, ExecutableReplaced, RosterEdited, AgentJoins,
         ObservedChange
<1>2. CASE UNCHANGED <<path, tree, spent>>
  <2>1. DiskInv'
    BY <1>1, <1>2 DEF ApplyInv, DiskInv
  <2> QED
    BY <1>1, <1>2, <2>1, OthersMove
<1>3. CASE SessionAppears
  <2>1. /\ path.base /\ UNCHANGED tree
        /\ \E d \in Dirs \ spent : path' = [path EXCEPT !.sess = d] /\ spent' = spent \cup {d}
    <3>1. (CHOOSE x \in Dirs \ spent : TRUE) \in Dirs \ spent
      BY <1>3 DEF SessionAppears
    <3> QED
      BY <1>3, <3>1 DEF SessionAppears
  <2>2. PICK d \in Dirs \ spent : path' = [path EXCEPT !.sess = d] /\ spent' = spent \cup {d}
    BY <2>1
  <2>3. DOMAIN path' = {"base", "sess"} /\ path'.base /\ path'.sess = d
    BY <2>1, <2>2 DEF ApplyInv, DiskInv
  <2>4. DiskInv'
    BY <1>1, <2>1, <2>2, <2>3 DEF ApplyInv, DiskInv
  <2> QED
    BY <1>1, <2>1, <2>2, <2>3, <2>4, OthersMove
<1>4. CASE SessionMoved
  <2>1. path' = [path EXCEPT !.sess = Nil] /\ UNCHANGED <<tree, spent>>
    BY <1>4 DEF SessionMoved
  <2>2. DOMAIN path' = {"base", "sess"} /\ path'.base = path.base /\ path'.sess = Nil
    BY <2>1 DEF ApplyInv, DiskInv
  <2>3. DiskInv'
    BY <1>1, <2>1, <2>2 DEF ApplyInv, DiskInv
  <2> QED
    BY <1>1, <2>1, <2>2, <2>3, OthersMove
<1>5. ASSUME NEW h \in Agents, RosterEdited(h)
      PROVE  ApplyInv'
  <2>1. /\ path.sess \in Dirs /\ UNCHANGED <<path, spent>>
        /\ tree' = [tree EXCEPT ![path.sess].cfg = Configured(tree[path.sess]) \cup {h}]
    BY <1>5 DEF RosterEdited, ApplyInv, DiskInv
  <2>2. PICK cfg : cfg = Configured(tree[path.sess]) \cup {h}
    OBVIOUS
  <2>3. cfg \in SUBSET Agents
    BY <2>1, <2>2 DEF ApplyInv, DiskInv, Configured
  <2>4. DiskInv'
    BY <1>1, <2>1, <2>2, <2>3, RosterWritten DEF ApplyInv, DiskInv
  <2>5. \A d \in Dirs : /\ tree'[d].bind = tree[d].bind
                        /\ Configured(tree[d]) \subseteq Configured(tree'[d])
    <3>1. /\ \A x \in Dirs : x # path.sess => tree'[x] = tree[x]
          /\ tree'[path.sess].bind = tree[path.sess].bind /\ Configured(tree'[path.sess]) = cfg
      BY <2>1, <2>2, <2>3, RosterWritten
    <3>2. Configured(tree[path.sess]) \subseteq Configured(tree'[path.sess])
      BY <2>2, <3>1
    <3>3. \A x \in Dirs : x # path.sess => Configured(tree'[x]) = Configured(tree[x])
      BY <3>1
    <3> QED
      BY <3>1, <3>2, <3>3
  <2>6. spent \subseteq Dirs
    BY DEF ApplyInv, DiskInv
  <2> QED
    BY <1>1, <2>1, <2>4, <2>5, <2>6, OthersMove
<1>6. ASSUME NEW h \in Agents, NEW s, AgentJoins(h, s)
      PROVE  ApplyInv'
  <2>1. /\ path.sess \in Dirs /\ UNCHANGED <<path, spent>>
        /\ tree' = [tree EXCEPT ![path.sess].box[h] = s]
    BY <1>6 DEF AgentJoins, ApplyInv, DiskInv
  <2>2. tree = [d \in Dirs |-> tree[d]] /\ \A d \in Dirs : DOMAIN tree[d] = TreeFields
    BY DEF ApplyInv, DiskInv
  <2>3. /\ tree' = [d \in Dirs |-> tree'[d]]
        /\ \A d \in Dirs : /\ DOMAIN tree'[d] = TreeFields /\ tree'[d].cfg = tree[d].cfg
                          /\ tree'[d].bind = tree[d].bind
    BY <2>1, <2>2 DEF TreeFields
  <2>4. DiskInv'
    BY <1>1, <2>1, <2>3 DEF ApplyInv, DiskInv
  <2>5. spent \subseteq Dirs /\ \A d \in Dirs : Configured(tree'[d]) = Configured(tree[d])
    BY <2>3 DEF ApplyInv, DiskInv, Configured
  <2> QED
    BY <1>1, <2>1, <2>3, <2>4, <2>5, OthersMove
<1> QED
  BY <1>2, <1>3, <1>4, <1>5, <1>6 DEF OthersNext, ExecutableReplaced, ObservedChange

-----------------------------------------------------------------------------
(* The theorems *)

LEMMA ApplyInitially ==
  ASSUME ApplyInit
  PROVE  ApplyInv
<1>1. PICK d : d = CHOOSE x \in Dirs : TRUE
  OBVIOUS
<1>2. d \in Dirs
  BY <1>1, DirsAssumption
<1>3. PICK t \in {NoTree, Launched} :
        /\ path \in {[base |-> FALSE, sess |-> Nil], [base |-> TRUE, sess |-> Nil], [base |-> TRUE, sess |-> d]}
        /\ tree = [x \in Dirs |-> IF x = path.sess THEN t ELSE NoTree]
  BY <1>1 DEF ApplyInit
<1>4. /\ DOMAIN NoTree = TreeFields /\ DOMAIN Launched = TreeFields
      /\ NoTree.cfg = Nil /\ Launched.cfg = {}
  BY DEF NoTree, Launched, TreeFields
<1>5. DiskInv
  <2>1. spent = {path.sess} \ {Nil} /\ leases = [x \in Dirs |-> leases[x]]
    BY DEF ApplyInit
  <2>2. DOMAIN path = {"base", "sess"} /\ path.sess \in {d, Nil} /\ (path.sess # Nil => path.base)
    BY <1>3, SMTT(20)
  <2> QED
    BY <1>2, <1>3, <1>4, <2>1, <2>2 DEF DiskInv
<1>6. PICK k \in Requests : call = [p \in Callers |-> [NoCall EXCEPT !.kind = k[p]]]
  BY DEF ApplyInit
<1>7. \A p \in Callers : /\ DOMAIN call[p] = CallFields /\ call[p].pc = "idle" /\ call[p].sess = Nil
                         /\ call[p].founded = Nil
  BY <1>6 DEF NoCall, CallFields
<1>8. \A p \in Callers : PlaceInv(p) /\ PinInv(p)
  BY <1>7 DEF PlaceInv, PinInv, PC, Sess, Acting, Pinned, Checking, Opening
<1>9. \A p \in Callers : ~Succeeded(p) /\ PC(p) \notin Pinned
  BY <1>7 DEF Succeeded, PC, Pinned
<1> QED
  BY <1>5, <1>6, <1>7, <1>8, <1>9 DEF ApplyInv, Provisioned, PinCovers, OneFounder

LEMMA ApplySteps ==
  ASSUME ApplyInv, [ApplyNext]_applyVars
  PROVE  ApplyInv'
<1>1. ASSUME NEW p \in Callers, PrepareNext(p) \/ AuthorityNext(p) \/ Reports(p) \/ ApplyCrashes(p)
      PROVE  ApplyInv'
  BY <1>1, PrepareSteps, EndSteps, ApplyOpensStep, ReadsNonceStep, LocksCreationStep,
     AcquiresLeaseStep, VerifiesTargetStep, AuthorizeReadsStep, AuthorizeComparesStep
     DEF PrepareNext, AuthorityNext
<1>2. ASSUME NEW p \in Callers, SessionNext(p)
      PROVE  ApplyInv'
  BY <1>2, CreatesBaseStep, PublishesStep, WritesRosterStep, PinsRosterStep, RepairPlannedStep,
     RecordSteps, RepairsOneStep DEF SessionNext
<1>3. CASE UNCHANGED applyVars
  <2>1. UNCHANGED <<path, tree, spent, leases, call>>
    BY <1>3 DEF applyVars
  <2>2. DiskInv'
    BY <2>1 DEF ApplyInv, DiskInv
  <2> QED
    BY <2>1, <2>2, OthersMove
<1> QED
  BY <1>1, <1>2, <1>3, ReconcilesStep, OthersStep DEF ApplyNext, Waiting

\* Whatever other calls, commands and the operator do, a call acts only in the
\* directory whose lease it holds, and what it approved or pinned stays true there.
THEOREM ApplyKept == ApplySpec => []ApplyInv
<1>1. ApplyInit => ApplyInv
  BY ApplyInitially
<1>2. ApplyInv /\ [ApplyNext]_applyVars => ApplyInv'
  BY ApplySteps
<1> QED
  BY <1>1, <1>2, PTL DEF ApplySpec

\* Two calls never take the same session directory for one they have founded:
\* a directory is published under a name that was vacant, and only once.
THEOREM OneFounderHolds == ApplySpec => []OneFounder
<1>1. ApplyInv => OneFounder
  BY DEF ApplyInv
<1> QED
  BY <1>1, ApplyKept, PTL

\* When Apply launches in a session that was there, the binding is the one in the
\* subject the caller approved (authorizeApply under the lease).
THEOREM ActsOnApprovedHolds == ApplySpec => []ActsOnApproved
<1>1. ApplyInv => ActsOnApproved
  BY DEF ApplyInv, PinInv, ActsOnApproved, Acting
<1> QED
  BY <1>1, ApplyKept, PTL

\* The participants of a call that succeeded stay in the roster of its session,
\* whatever other calls write (provisionExistingApplyRoster).
THEOREM RosterKeptHolds == ApplySpec => []RosterKept
<1>1. ApplyInv => RosterKept
  BY DEF ApplyInv, Provisioned, RosterKept
<1> QED
  BY <1>1, ApplyKept, PTL
=============================================================================
