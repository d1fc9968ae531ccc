---------------------------- MODULE LaunchExec -----------------------------
(***************************************************************************)
(* What runs in a pane: the launch-exec wrapper (runLaunchExec), which     *)
(* acknowledges its ticket under the launch lease before it becomes the    *)
(* agent, the agent, and the Codex notifier.  A pane may be closed between *)
(* any two steps.                                                          *)
(***************************************************************************)
EXTENDS LaunchCreate

PaneMe(x) == <<"pane", x.k>>
At(x, s) == x \in layout /\ x.proc = s
Move(x, s) == SetPane(x, [x EXCEPT !.proc = s])
Ticket(x) == ticket[x.h]
OwnTicket(x) == Ticket(x) # None /\ Ticket(x).nonce = x.nonce
Conv(x) == conv[x.h]

\* The wrapper exits: tmux closes its pane, the other backends show the
\* shell again; a lease it holds is released by its defer.
Exit(x) ==
  /\ layout' = (layout \ {x}) \cup
       (IF x.kind \in {"cmux", "ghostty"} THEN {[x EXCEPT !.proc = "shell"]} ELSE {})
  /\ IF Holds(PaneMe(x)) THEN Release ELSE UNCHANGED lease

(***************************************************************************)
(* PrepareExecution.                                                       *)
(***************************************************************************)
\* acquireExecutionLease waits only for a holder of its own generation.
ExecAcquire(x) ==
  /\ At(x, "wrapper") /\ AcquireLease(PaneMe(x), x.nonce) /\ Move(x, "held")
  /\ UNCHANGED <<store, made, proc, fixed>>
ExecRefused(x) ==
  /\ At(x, "wrapper") /\ ~LeaseFree /\ Exit(x)
  /\ UNCHANGED <<store, made, proc, fixed>>

\* The ticket is missing, of another generation or in a state the mode does
\* not accept.
\* Mutant: a minted ticket that was acknowledged starts again.
StartStatesAgain(m) ==
  CASE m = "mint"     -> {"pending", "spawn_attempted", "acknowledged"}
    [] m = "capture"  -> {"pending"}
    [] m = "prespawn" -> {"pending", "identity_acquired", "spawn_attempted", "acknowledged"}
StartStates(m) ==
  CASE m = "mint"     -> {"pending", "spawn_attempted"}
    [] m = "capture"  -> {"pending"}
    [] m = "prespawn" -> {"pending", "identity_acquired", "spawn_attempted", "acknowledged"}
TicketRefused(x) ==
  /\ At(x, "held") /\ ~(OwnTicket(x) /\ Ticket(x).state \in StartStates(Ticket(x).mode))
  /\ Exit(x)
  /\ UNCHANGED <<store, made, proc, fixed>>
Accepted(x, m, s) ==
  At(x, "held") /\ OwnTicket(x) /\ Ticket(x).mode = m /\ Ticket(x).state \in s

ExecCapture(x) ==
  /\ Accepted(x, "capture", {"pending"})
  /\ SwapTicket(x.h, x.nonce, {"pending"}, "spawn_attempted") /\ Move(x, "acked")
  /\ UNCHANGED <<lease, journal, binding, conv, evid, made, proc, fixed>>
ExecMint(x) ==
  /\ Accepted(x, "mint", StartStates("mint"))
  /\ SwapTicket(x.h, x.nonce, StartStates("mint"), "spawn_attempted") /\ Move(x, "attempted")
  /\ UNCHANGED <<lease, journal, binding, conv, evid, made, proc, fixed>>

\* preparePreSpawnCapture: evidence, identity, attempt; each step is skipped
\* when an earlier wrapper got that far.
ExecEvidence(x) ==
  /\ Accepted(x, "prespawn", {"pending"})
  /\ evid' = evid \cup {<<x.h, x.nonce>>} /\ Move(x, "evidence")
  /\ UNCHANGED <<lease, journal, binding, ticket, conv, made, proc, fixed>>
ExecNoIdentity(x) ==
  /\ Accepted(x, "prespawn", {"pending"}) /\ <<x.h, x.nonce>> \notin evid /\ Exit(x)
  /\ UNCHANGED <<store, made, proc, fixed>>
ExecIdentity(x) ==
  /\ At(x, "evidence") /\ SwapIdentity(x.h, x.nonce, x.nonce)
  /\ Move(x, "identity")
  /\ UNCHANGED <<lease, journal, binding, conv, evid, made, proc, fixed>>
ExecPreSpawn(x) ==
  /\ \/ At(x, "identity")
     \/ Accepted(x, "prespawn", {"identity_acquired", "spawn_attempted", "acknowledged"})
  /\ IF Ticket(x).state = "identity_acquired"
     THEN SwapTicket(x.h, x.nonce, {"identity_acquired"}, "spawn_attempted")
     ELSE UNCHANGED ticket
  /\ Move(x, IF Ticket(x).state = "acknowledged" THEN "acked" ELSE "attempted")
  /\ UNCHANGED <<lease, journal, binding, conv, evid, made, proc, fixed>>

\* The conversation record becomes ready, or already is for this identity.
PromotesPending(x) == Conv(x) # None /\ Conv(x).state = "pending" /\ Conv(x).nonce = x.nonce
AlreadyReady(x) ==
  /\ Conv(x) # None /\ Conv(x).state = "ready" /\ Conv(x).id = Ticket(x).id
  /\ Ticket(x).mode = "prespawn" => Conv(x).nonce = x.nonce
ExecPromote(x) ==
  /\ At(x, "attempted")
  /\ IF PromotesPending(x)
     THEN conv' = [conv EXCEPT ![x.h] = Ready(x.nonce, Ticket(x).id)] /\ Move(x, "promoted") /\ UNCHANGED lease
     ELSE UNCHANGED conv /\ IF AlreadyReady(x) THEN Move(x, "promoted") /\ UNCHANGED lease ELSE Exit(x)
  /\ UNCHANGED <<journal, binding, ticket, evid, made, proc, fixed>>
ExecAck(x) ==
  /\ At(x, "promoted")
  /\ SwapTicket(x.h, x.nonce, {"spawn_attempted"}, "acknowledged") /\ Move(x, "acked")
  /\ UNCHANGED <<lease, journal, binding, conv, evid, made, proc, fixed>>
ExecRelease(x) ==
  /\ At(x, "acked") /\ Release
  /\ SetPane(x, [x EXCEPT !.proc = "exec", !.id = Ticket(x).id])
  /\ UNCHANGED <<store, made, proc, fixed>>

(***************************************************************************)
(* exec of the provider, and RevertExecution when it fails.                *)
(***************************************************************************)
ExecProvider(x) ==
  /\ At(x, "exec") /\ Move(x, "agent")
  /\ UNCHANGED <<lease, store, made, proc, fixed>>
ExecProviderFails(x) ==
  /\ At(x, "exec") /\ Move(x, "revert")
  /\ UNCHANGED <<lease, store, made, proc, fixed>>
RevertAcquire(x) ==
  /\ At(x, "revert") /\ AcquireLease(PaneMe(x), x.nonce) /\ Move(x, "undo")
  /\ UNCHANGED <<store, made, proc, fixed>>
RevertRefused(x) ==
  /\ At(x, "revert") /\ ~LeaseFree /\ Exit(x)
  /\ UNCHANGED <<store, made, proc, fixed>>
\* Only a ready record of this very generation is demoted.
RevertConversation(x) ==
  /\ At(x, "undo")
  /\ IF OwnTicket(x) /\ (Ticket(x).mode = "mint" => Conv(x) # None)
     THEN /\ conv' = IF Ticket(x).mode = "mint" /\ Conv(x).state = "ready" /\ Conv(x).nonce = x.nonce
                     THEN [conv EXCEPT ![x.h] = Pending(x.nonce)] ELSE conv
          /\ Move(x, "undone") /\ UNCHANGED lease
     ELSE Exit(x) /\ UNCHANGED conv
  /\ UNCHANGED <<journal, binding, ticket, evid, made, proc, fixed>>
RevertFrom(m) ==
  CASE m = "mint"     -> {"acknowledged"}
    [] m = "capture"  -> {"spawn_attempted"}
    [] m = "prespawn" -> {"spawn_attempted", "acknowledged"}
RevertTicket(x) ==
  /\ At(x, "undone")
  /\ LET m == Ticket(x).mode IN
     IF Ticket(x).state \in RevertFrom(m)
     THEN SwapTicket(x.h, x.nonce, RevertFrom(m),
                     IF m = "prespawn" THEN "identity_acquired" ELSE "pending")
     ELSE UNCHANGED ticket
  /\ Exit(x)
  /\ UNCHANGED <<journal, binding, conv, evid, made, proc, fixed>>

(***************************************************************************)
(* recordCodexNotify, run by the agent after a turn.                       *)
(***************************************************************************)
NotifyMe(x) == <<"notify", x.k>>
NotifyAcquire(x) ==
  /\ At(x, "agent") /\ x.note = "none" /\ world.mode[x.h] = "capture"
  /\ AcquireLease(NotifyMe(x), x.nonce)
  /\ SetPane(x, [x EXCEPT !.note = "held"])
  /\ UNCHANGED <<store, made, proc, fixed>>
NotifyAccepted(x) ==
  /\ OwnTicket(x) /\ Ticket(x).mode = "capture"
  /\ Ticket(x).state \in {"spawn_attempted", "acknowledged"}
  /\ Conv(x) # None /\ Conv(x).state = "pending" /\ Conv(x).nonce = x.nonce
NotifyEvidence(x) ==
  /\ x \in layout /\ x.note = "held" /\ NotifyAccepted(x)
  /\ evid' = evid \cup {<<x.h, x.nonce>>}
  /\ SetPane(x, [x EXCEPT !.note = "stored"])
  /\ UNCHANGED <<lease, journal, binding, ticket, conv, made, proc, fixed>>
NotifyPromote(x) ==
  /\ x \in layout /\ x.note = "stored"
  /\ conv' = [conv EXCEPT ![x.h] = Ready(x.nonce, x.nonce)]
  /\ SetPane(x, [x EXCEPT !.note = "none"]) /\ Release
  /\ UNCHANGED <<journal, binding, ticket, evid, made, proc, fixed>>
\* Refused or already ready, or killed before it is done.
NotifyEnds(x) ==
  /\ x \in layout /\ x.note \in {"held", "stored"}
  /\ SetPane(x, [x EXCEPT !.note = "none"])
  /\ IF x.note = "held" /\ ~NotifyAccepted(x) THEN Release ELSE UNCHANGED lease
  /\ UNCHANGED <<store, made, proc, fixed>>

\* The operator, the provider or the terminal ends a pane; in a shell the
\* wrapper's command can be run again, and so can an emitted command.
KillPane(x) ==
  /\ x \in layout /\ layout' = layout \ {x}
  /\ UNCHANGED <<lease, store, made, proc, fixed>>
RunAgain(x) ==
  /\ At(x, "shell") /\ Move(x, "wrapper")
  /\ UNCHANGED <<lease, store, made, proc, fixed>>
RunEmitted(h) ==
  /\ ticket[h] # None /\ Via(ticket[h].nonce) = "commands"
  /\ Open("commands", h, ticket[h].nonce, None, 0)
  /\ UNCHANGED <<lease, store, proc, fixed>>

ExecStep(x) ==
  \/ ExecAcquire(x) \/ ExecRefused(x) \/ TicketRefused(x)
  \/ ExecCapture(x) \/ ExecMint(x)
  \/ ExecEvidence(x) \/ ExecNoIdentity(x) \/ ExecIdentity(x) \/ ExecPreSpawn(x)
  \/ ExecPromote(x) \/ ExecAck(x) \/ ExecRelease(x)
  \/ ExecProvider(x) \/ ExecProviderFails(x)
  \/ RevertAcquire(x) \/ RevertRefused(x) \/ RevertConversation(x) \/ RevertTicket(x)
  \/ NotifyAcquire(x) \/ NotifyEvidence(x) \/ NotifyPromote(x) \/ NotifyEnds(x)
  \/ KillPane(x) \/ RunAgain(x)
=============================================================================
