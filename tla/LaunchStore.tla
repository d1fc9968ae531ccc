---------------------------- MODULE LaunchStore ----------------------------
(***************************************************************************)
(* The durable launch state of one session root (internal/launch): the     *)
(* launch lease, the journal, the binding, one execution ticket and one    *)
(* conversation record per handle, the capture evidence, and the panes the *)
(* terminal backends hold.  Every other launch module writes this state    *)
(* through the operators below.                                            *)
(*                                                                         *)
(* A launch generation (a nonce) is named after the command that drew it,  *)
(* so Cmds doubles as the set of nonces; a minted conversation id is named *)
(* after its generation too.                                               *)
(***************************************************************************)
EXTENDS Integers, FiniteSets, FiniteSetsExt

CONSTANTS Cmds,      \* the amq commands that run in a behaviour
          Handles,   \* the agents of the project's roster
          MaxPanes,  \* bound: panes ever opened
          None       \* an absent file or field

ASSUME PanesAssumption == MaxPanes \in Nat \ {0}

VARIABLES lease,     \* meta/launch/lease.json: NoLease or [by, nonce]
          journal,   \* meta/launch/journal.json
          binding,   \* meta/launch/binding.json
          ticket,    \* execution tickets by handle
          conv,      \* conversation records by handle
          evid,      \* capture evidence: set of <<handle, nonce>>
          layout,    \* the backends' live panes
          made,      \* panes opened so far
          pc, loc,   \* each command's position and locals
          world,     \* the adapters and the commands' arguments
          lost       \* history: generations whose layout was given up

store == <<journal, binding, ticket, conv, evid>>
term == <<layout, made>>
proc == <<pc, loc>>
fixed == <<world, lost>>

\* A layout kind is a backend and, for tmux, a placement: the default
\* session, a session with a placement, a new window, the launcher's window.
Placed == {"placed", "window", "current"}
SessionKinds == {"session", "placed"}
TmuxKinds == {"session"} \cup Placed
Kinds == TmuxKinds \cup {"cmux", "ghostty", "commands"}
Backend(k) == IF k \in TmuxKinds THEN "tmux" ELSE k
\* The placement a request names: none unless it asks for a tmux one.
Placement(k) == IF k \in Placed THEN k ELSE "default"
Modes == {"mint", "capture", "prespawn"}

(***************************************************************************)
(* Processes and the lease.  A lease record names its holder; a command    *)
(* that has ended, a closed pane or a finished notifier is a dead holder.  *)
(***************************************************************************)
Held == {"held", "evidence", "identity", "attempted", "promoted", "acked",
         "undo", "undone"}

\* Mutant: a wrapper that runs in a pane is taken for a dead holder.
AliveCommandsOnly(by) ==
  by[1] = "cmd" /\ pc[by[2]] \notin {"idle", "done", "dead"}
\* classifyHolder.
Alive(by) ==
  CASE by[1] = "cmd"    -> pc[by[2]] \notin {"idle", "done", "dead"}
    [] by[1] = "pane"   -> \E x \in layout : x.k = by[2] /\ x.proc \notin {"new", "shell"}
    [] by[1] = "notify" -> \E x \in layout : x.k = by[2] /\ x.note # "none"
    [] by[1] = "nobody" -> FALSE

\* An absent lease file names no holder.
NoLease == [by |-> <<"nobody", 0>>, nonce |-> None]

\* inspectLeaseLocked: a missing or a stale lease is taken.
LeaseFree == ~Alive(lease.by)
AcquireLease(by, n) == LeaseFree /\ lease' = [by |-> by, nonce |-> n]
Release == lease' = NoLease
\* authorizeWrite: the record on disk is still the holder's.
Holds(by) == lease.by = by

(***************************************************************************)
(* Conversation records and execution tickets.                             *)
(***************************************************************************)
Pending(n) == [state |-> "pending", nonce |-> n, id |-> None]
Ready(n, id) == [state |-> "ready", nonce |-> n, id |-> id]
Stale(n) == [state |-> "stale", nonce |-> n, id |-> None]

\* Validate on a conversation record, on the fields modelled here: only a
\* ready record has an identity.
ValidConversation(r) ==
  /\ r.state \in {"pending", "ready", "stale"} /\ r.nonce \in Cmds
  /\ IF r.state = "ready" THEN r.id \in Cmds ELSE r.id = None

NewExecutionTicket(h, n, id, wr) ==
  [nonce |-> n, state |-> "pending", id |-> id,
   mode |-> IF wr \/ world.mode[h] = "mint" THEN world.mode[h] ELSE "capture"]

\* Validate on an execution ticket: a minted one always names its
\* conversation, a pre-spawn one from the moment it was acquired.
ValidTicket(t) ==
  /\ t.nonce \in Cmds /\ t.mode \in Modes
  /\ t.mode = "mint" => t.id # None
  /\ t.mode = "prespawn" => (t.id = None) = (t.state = "pending")

\* CompareAndSwapExecutionTicket.
SwapTicket(h, n, from, to) ==
  /\ ticket[h] # None /\ ticket[h].nonce = n /\ ticket[h].state \in from
  /\ ticket' = [ticket EXCEPT ![h].state = to]
\* CompareAndSwapExecutionIdentity.
SwapIdentity(h, n, id) ==
  /\ ticket[h] # None /\ ticket[h].nonce = n /\ ticket[h].state = "pending"
  /\ ticket' = [ticket EXCEPT ![h].state = "identity_acquired", ![h].id = id]
\* RemoveExecutionTicket, for the handles of one launch.
RemoveTickets(hs, n) ==
  ticket' = [h \in Handles |-> IF h \in hs /\ ticket[h] # None /\ ticket[h].nonce = n
                               THEN None ELSE ticket[h]]
WriteConversations(hs, recs) ==
  conv' = [h \in Handles |-> IF h \in hs THEN recs[h] ELSE conv[h]]

(***************************************************************************)
(* The journal and the binding.                                            *)
(***************************************************************************)
\* fresh holds the handles whose journaled disposition is not "resumed".
NewLaunchJournal(n, kind, roster, plan, fresh, recs, join) ==
  [nonce |-> n, phase |-> "intent", kind |-> kind, roster |-> roster,
   plan |-> plan, fresh |-> fresh, recs |-> recs, bind |-> None, cand |-> None,
   join |-> join, deltas |-> {}]

\* ValidateRequest: the roster digest and the placement must be the same.
journalPlacementMatches(j, kind) == Placement(kind) = Placement(j.kind)
ValidateRequest(j, roster, kind) == j.roster = roster /\ journalPlacementMatches(j, kind)

\* Validate on a journal: phase and binding agree, a join's deltas are one
\* per handle, a pending record carries the journal's generation.
ValidJournal(j) ==
  /\ j.phase \in {"intent", "created"} /\ j.nonce \in Cmds /\ j.kind \in Kinds
  /\ j.plan # {} /\ j.plan \subseteq j.roster /\ j.fresh \subseteq j.plan
  /\ (j.phase = "created") = (j.bind # None)
  /\ j.phase = "created" => j.cand = None
  /\ j.join = None => j.deltas = {}
  /\ \A d, e \in j.deltas : d[1] = e[1] => d = e
  /\ \A h \in j.plan : /\ ValidConversation(j.recs[h])
                       /\ j.recs[h].state = "pending" => j.recs[h].nonce = j.nonce

\* The generation the binding of a journal's layout carries: a join keeps
\* that of the binding it extends.
BindNonce(j) == IF j.join = None THEN j.nonce ELSE j.join.nonce
journalMatchesBinding(j, b) ==
  Backend(b.kind) = Backend(j.kind) /\ b.nonce = BindNonce(j)

WriteJournal(j) == journal' = j
\* ClearJournal and ClearJournalRaw: only the journal that was read.
ClearJournal(j) == journal = j /\ journal' = None
\* History: the journal of generation j.nonce goes while binding b does not name
\* its layout.
Forget(j, b) ==
  lost' = IF j = None \/ (b # None /\ b = j.bind) THEN lost
          ELSE lost \cup {j.nonce}
=============================================================================
