------------------------------- MODULE Routing -------------------------------
(***************************************************************************)
(* amq send, amq reply and amq route explain: how a message finds the      *)
(* queue it is delivered to, and how its headers lead a reply back.        *)
(*                                                                         *)
(* A command has two steps.  The first resolves and authorizes the source  *)
(* and the destination, snapshots the physical directories it opened, and  *)
(* then reads the body, which may wait on standard input for as long as    *)
(* the operator likes.  The second revalidates what it can, delivers, and  *)
(* keeps the sender's copy.  Directories may be replaced and rosters       *)
(* edited between the two.                                                 *)
(***************************************************************************)
EXTENDS SessionContext, Sequences

CONSTANTS
  Correspondents,       \* agent handles, the same names in every tree
  Present,       \* the queue directories that exist at first
  Setups,        \* the configurations to start from: .amqrc files and machine
  Strictness,    \* whether commands run with --strict
  Scopes         \* bounds on changes of the terminal's context, on replaced
                 \* directories and edited rosters, and on replies

Bases == {RootAt(t, Base) : t \in Trees}

ReplyHeaders == [handle : Correspondents, session : Sessions \union LegacyNames \union {Base}]

\* A configuration file names the base of a tree, or none; a session is a
\* directory of its base.
ASSUME RoutingAssumption ==
  /\ Unset \notin Roots \union Trees \union Sessions \union ReplyHeaders
  /\ Base \notin Sessions \union LegacyNames
  /\ DefaultNamed \subseteq Trees
  /\ \A r \in Present : r \in Roots /\ BaseOf(r) \in Present
  /\ \A setup \in Setups :
       /\ setup.rc \in [Trees -> [present : BOOLEAN, root : Bases \union {Unset}, peers : SUBSET Trees]]
       /\ setup.machine \in [global : Bases \union {Unset}, home : Bases \union {Unset}]

VARIABLES
  config,   \* meta/config.json of each queue directory: a roster, or Unset
  mail,     \* the messages delivered, in order
  pending,  \* the command waiting for its body
  scope     \* what is left of the bounds

routingVars == <<dirs, rc, machine, boxes, shell, config, mail, pending, scope>>

NoSend == [verb |-> "none"]

---------------------------------------------------------------------------
(* The delivery route.                                                     *)

Refused == [ok |-> FALSE, dest |-> Unset, session |-> Base, project |-> Unset]

\* Cross-project routing needs a project that owns the source root.
OwnsSource(cfg, source) ==
  /\ cfg.found /\ cfg.project # Unset /\ cfg.root # Unset
  /\ \/ source = cfg.root
     \/ IsSessionUnder(source, cfg.root) /\ SessionRootFound(cfg.root, source.session)

PeerSession(source, session, mirror) ==
  IF session # Unset THEN session
  ELSE IF mirror /\ ClassifyRoot(source) # Unset THEN source.session
  ELSE Base

PlanPeer(source, project, session, mirror) ==
  LET cfg  == FindAmqrc(source)
      peer == RootAt(project, Base)
      s    == PeerSession(source, session, mirror)
  IN  IF /\ OwnsSource(cfg, source)
         /\ project \in cfg.peers
         /\ session # Unset => ValidSessionName(session)
         /\ s # Base => SessionRootFound(peer, s)
        THEN [ok |-> TRUE, dest |-> RootAt(project, s), session |-> s, project |-> cfg.project]
        ELSE Refused

PlanSession(source, session) ==
  IF /\ ValidSessionName(session)
     /\ ClassifyRoot(source) # Unset
     /\ SessionRootFound(ClassifyRoot(source), session)
    THEN [ok |-> TRUE, dest |-> SessionRoot(ClassifyRoot(source), session),
          session |-> session, project |-> Unset]
    ELSE Refused

PlanDeliveryRoute(source, project, session, mirror) ==
  IF project # Unset THEN PlanPeer(source, project, session, mirror)
  ELSE IF session # Unset THEN PlanSession(source, session)
  ELSE [ok |-> TRUE, dest |-> source, session |-> Base, project |-> Unset]

---------------------------------------------------------------------------
(* Whose roster authorizes a mailbox.                                      *)

\* A named pin is strongest, an exact-root pin keeps its own root, and
\* without a pin a session inherits the configuration of its base.
LocalConfigBase(dest, ignorePin) ==
  IF PinPresent /\ ~ignorePin
    THEN IF PinSession = Base THEN Unset ELSE shell.base
    ELSE ClassifyRoot(dest)

ConfigAuthority(dest, base) ==
  IF base # Unset /\ base # dest /\ config[base] # Unset THEN base ELSE dest

AuthorityOpens(dest, base) == base = Unset \/ base = dest \/ Exists(base)

\* Without a roster there is nothing to validate against; an unknown handle
\* is a warning unless the command is strict.
KnownHandle(roster, strict, h) ==
  IF roster = Unset \/ ~strict THEN TRUE ELSE h \in roster

\* The destination of a local message: the roster must exist (reply accepts
\* an unconfigured root whose mailbox is complete), and the mailbox is
\* complete or can be repaired.
LocalMailboxAuthorized(dest, h, ignorePin, strict, rosterNeeded) ==
  LET base == LocalConfigBase(dest, ignorePin)
      auth == ConfigAuthority(dest, base)
  IN  /\ AuthorityOpens(dest, base)
      /\ IF config[auth] = Unset THEN ~rosterNeeded /\ h \in boxes[dest]
         ELSE KnownHandle(config[auth], strict, h)

PeerMailboxAuthorized(dest, h, strict) ==
  /\ h \in boxes[dest]
  /\ KnownHandle(config[ConfigAuthority(dest, BaseOf(dest))], strict, h)

SenderKnown(source, me, ignorePin, strict) ==
  LET base == LocalConfigBase(source, ignorePin)
  IN  /\ AuthorityOpens(source, base)
      /\ KnownHandle(config[ConfigAuthority(source, base)], strict, me)

---------------------------------------------------------------------------
(* amq send                                                                *)

SendArgs ==
  [root : Roots \union {Unset}, project : Trees \union {Unset},
   session : Sessions \union {Unset}, from : Sessions \union {Unset},
   ignorePin : BOOLEAN, allowSelf : BOOLEAN,
   me : Correspondents, to : Correspondents, strict : Strictness]

Routed(a) == a.project # Unset \/ a.session # Unset \/ a.from # Unset

SendFlagsValid(a) ==
  /\ a.ignorePin => a.root # Unset /\ a.from = Unset
  /\ a.from # Unset => a.project = Unset /\ a.session # Unset

\* --allow-self changes nothing for another recipient.
ValidSendArgs == {a \in SendArgs : SendFlagsValid(a) /\ (a.allowSelf => a.to = a.me)}

\* The source context: the pin must be well formed and current, and an
\* unrouted --root must not cross into another tree than the terminal's own.
SendSourceGuarded(a, root) ==
  /\ ~PinInvalid
  /\ a.ignorePin \/ LegacyPinAgrees
  /\ PinIdentity =>
       /\ IsCurrent(shell.base, shell.baseId)
       /\ a.from # Unset => IsCurrent(root, shell.rootId)
  /\ a.from # Unset => Allowed("source", PinState, "mismatch", {"from_session"})
  /\ a.from = Unset => GuardSource(root, a.project # Unset, a.ignorePin, a.root # Unset)
  /\ a.root # Unset /\ ~Routed(a) => ~ConflictingSource(root)

\* --from-session names the sender's session below an explicit base.
SendSource(a, root) == IF a.from = Unset THEN root ELSE SessionRoot(root, a.from)

SendSourceFound(a, root) ==
  a.from # Unset => /\ ClassifyRoot(root) = Unset
                    /\ SessionRootFound(root, a.from)
                    /\ a.me \in boxes[SessionRoot(root, a.from)]

NotSelf(a, source, dest) == a.allowSelf \/ a.to # a.me \/ (source # dest /\ Routed(a))

SendMailboxAuthorized(a, root, source, dest) ==
  IF a.project # Unset
    THEN /\ PeerMailboxAuthorized(dest, a.to, a.strict)
         /\ SenderKnown(source, a.me, a.ignorePin, a.strict)
    ELSE LET base == IF a.from # Unset THEN root ELSE LocalConfigBase(dest, a.ignorePin)
             auth == ConfigAuthority(dest, base)
             own  == IF a.session # Unset /\ auth = dest THEN config[source] ELSE config[auth]
         IN  /\ AuthorityOpens(dest, base)
             /\ config[auth] # Unset
             /\ KnownHandle(config[auth], a.strict, a.to)
             /\ KnownHandle(own, a.strict, a.me)

\* reply_to: handle@session from a session, the bare handle from a base, and
\* nothing on a send that crosses no boundary.
SenderInSession(a, root) == a.from # Unset \/ ClassifyRoot(root) # Unset

SendReplyTo(a, root) ==
  IF a.project = Unset /\ a.session = Unset THEN Unset
  ELSE IF SenderInSession(a, root)
    THEN [handle |-> a.me, session |-> SendSource(a, root).session]
    ELSE IF a.project # Unset THEN [handle |-> a.me, session |-> Base] ELSE Unset

\* Everything send decides before it reads the body.
PlanSend(a) ==
  LET root   == ResolveEnvRoot(a.root)
      source == SendSource(a, root)
      plan   == PlanDeliveryRoute(source, a.project, a.session, TRUE)
  IN  IF /\ root # Unset
         /\ SendSourceGuarded(a, root)
         /\ SendSourceFound(a, root)
         /\ plan.ok
         /\ Exists(source) /\ Exists(plan.dest)
         /\ NotSelf(a, source, plan.dest)
         /\ SendMailboxAuthorized(a, root, source, plan.dest)
        THEN [verb |-> "send", me |-> a.me, to |-> a.to, strict |-> a.strict,
              source |-> source, dest |-> plan.dest,
              sourceId |-> dirs[source], destId |-> dirs[plan.dest],
              project |-> a.project, routed |-> Routed(a), re |-> 0,
              auth |-> ConfigAuthority(plan.dest,
                         IF a.project # Unset THEN BaseOf(plan.dest)
                         ELSE IF a.from # Unset THEN root
                         ELSE LocalConfigBase(plan.dest, a.ignorePin)),
              own |-> ConfigAuthority(source, LocalConfigBase(source, a.ignorePin)),
              roster |-> config, replyTo |-> SendReplyTo(a, root),
              replyProject |-> plan.project,
              pin |-> IF a.ignorePin \/ a.from # Unset THEN Unset ELSE shell.rootId]
        ELSE NoSend

StartSend ==
  /\ pending = NoSend /\ mail = <<>>
  /\ \E a \in ValidSendArgs : LET c == PlanSend(a) IN c # NoSend /\ pending' = c
  /\ UNCHANGED <<contextVars, config, mail, scope>>

---------------------------------------------------------------------------
(* amq reply                                                               *)

\* The box of root in which h finds message m: received, or kept as sent.
BoxOf(m, root, h) ==
  IF m.dest = root /\ m.destId = dirs[root] /\ m.to = h THEN "inbox"
  ELSE IF m.source = root /\ m.sourceId = dirs[root] /\ m.from = h THEN "sent"
  ELSE "none"

\* Where the headers of the original send the reply.
ReplyRoute(m, me) ==
  IF m.replyTo # Unset
    THEN [to |-> m.replyTo.handle, project |-> m.replyProject,
          session |-> IF m.replyTo.session = Base THEN Unset ELSE m.replyTo.session,
          ok |-> m.replyTo.session # Base \/ m.replyProject # Unset]
    ELSE [to |-> IF m.from = me THEN m.to ELSE m.from, project |-> Unset,
          session |-> Unset, ok |-> m.replyProject = Unset]

\* Mutant: the replier's session is not restamped.
ReplyToBare(me, root, project, session) ==
  IF project = Unset THEN Unset ELSE [handle |-> me, session |-> Base]

\* The reply restamps the headers with the replier's own identity.
ReplyToForSource(me, root, project, session) ==
  IF project = Unset /\ session = Unset THEN Unset
  ELSE IF ResolveSessionName(root) # Base
    THEN [handle |-> me, session |-> ResolveSessionName(root)]
    ELSE IF project # Unset THEN [handle |-> me, session |-> Base] ELSE Unset

ReplyMailboxAuthorized(route, root, dest, me, ignorePin, strict) ==
  IF route.project # Unset
    THEN /\ SenderKnown(root, me, ignorePin, strict)
         /\ PeerMailboxAuthorized(dest, route.to, strict)
    ELSE LocalMailboxAuthorized(dest, route.to, ignorePin, strict, FALSE)

\* Everything reply decides before it reads the body.
PlanReply(i, rootFlag, me, ignorePin, strict) ==
  LET root  == ResolveEnvRoot(rootFlag)
      m     == mail[i]
      route == ReplyRoute(m, me)
      plan  == PlanDeliveryRoute(root, route.project, route.session, FALSE)
  IN  IF /\ ignorePin => rootFlag # Unset
         /\ root # Unset
         /\ GuardSource(root, FALSE, ignorePin, rootFlag # Unset)
         /\ ~PinInvalid
         /\ Exists(root)
         /\ PinIdentity /\ ~ignorePin => IsCurrent(root, shell.rootId)
         /\ BoxOf(m, root, me) # "none"
         /\ BoxOf(m, root, me) = "sent" => m.replyTo = Unset
         /\ route.ok /\ plan.ok
         /\ Exists(plan.dest)
         /\ ReplyMailboxAuthorized(route, root, plan.dest, me, ignorePin, strict)
        THEN [verb |-> "reply", me |-> me, to |-> route.to, strict |-> strict,
              source |-> root, dest |-> plan.dest,
              sourceId |-> dirs[root], destId |-> dirs[plan.dest],
              project |-> route.project,
              routed |-> route.project # Unset \/ route.session # Unset, re |-> i,
              auth |-> ConfigAuthority(plan.dest,
                         IF route.project # Unset THEN BaseOf(plan.dest)
                         ELSE LocalConfigBase(plan.dest, ignorePin)),
              own |-> ConfigAuthority(root, LocalConfigBase(root, ignorePin)),
              roster |-> config,
              replyTo |-> ReplyToForSource(me, root, route.project, route.session),
              replyProject |-> plan.project,
              pin |-> IF ignorePin THEN Unset ELSE shell.rootId]
        ELSE NoSend

StartReply ==
  /\ pending = NoSend /\ mail # <<>> /\ scope.replies > 0
  /\ \E rootFlag \in Roots \union {Unset}, me \in Correspondents, ignorePin \in BOOLEAN, strict \in Strictness :
       LET c == PlanReply(Len(mail), rootFlag, me, ignorePin, strict)
       IN  c # NoSend /\ pending' = c
  /\ scope' = [scope EXCEPT !.replies = @ - 1]
  /\ UNCHANGED <<contextVars, config, mail>>

---------------------------------------------------------------------------
(* Delivery.                                                               *)

\* A message, and the directories that stand under its two names as it is
\* delivered (a reply will go to the first, by its name).
Message(c) ==
  [from |-> c.me, to |-> c.to, source |-> c.source, sourceId |-> c.sourceId,
   dest |-> c.dest, destId |-> c.destId, replyTo |-> c.replyTo,
   replyProject |-> c.replyProject, re |-> c.re, pin |-> c.pin,
   standing |-> <<dirs[c.source], dirs[c.dest]>>]

StillThere(r, id) == Exists(r) /\ dirs[r] = id

\* A selected roster is read again; one that disappeared stops a strict send.
SelectedRevalidated(c, auth, h) ==
  /\ KnownHandle(config[auth], c.strict, h)
  /\ config[auth] = Unset /\ c.roster[auth] # Unset => ~c.strict

\* A peer's mailbox is never created or repaired.
PeerRevalidated(c) ==
  /\ SelectedRevalidated(c, c.own, c.me)
  /\ SelectedRevalidated(c, c.auth, c.to)
  /\ StillThere(c.source, c.sourceId)
  /\ c.to \in boxes[c.dest]

\* Mutant: the source is trusted as it was before the body was read.
LocalRevalidatedOnce(c) ==
  /\ c.roster[c.auth] # Unset => config[c.auth] = c.roster[c.auth]
  /\ c.roster[c.auth] = Unset => c.to \in boxes[c.dest]

\* A local mailbox is repaired under the roster that authorized it, which
\* must not have changed.
LocalRevalidated(c) ==
  /\ c.roster[c.auth] # Unset => config[c.auth] = c.roster[c.auth]
  /\ c.roster[c.auth] = Unset => c.to \in boxes[c.dest]
  /\ c.routed => StillThere(c.source, c.sourceId)

Delivers(c) ==
  /\ StillThere(c.dest, c.destId)
  /\ IF c.project # Unset THEN PeerRevalidated(c) ELSE LocalRevalidated(c)

\* The last checks and the delivery are one step.
DeliverMessage ==
  /\ pending # NoSend /\ Delivers(pending)
  /\ mail' = Append(mail, Message(pending))
  /\ boxes' = [boxes EXCEPT ![pending.dest] = @ \union {pending.to}]
  /\ pending' = NoSend
  /\ UNCHANGED <<dirs, rc, machine, shell, config, scope>>

Abandon ==
  /\ pending # NoSend /\ ~Delivers(pending)
  /\ pending' = NoSend
  /\ UNCHANGED <<contextVars, config, mail, scope>>

---------------------------------------------------------------------------
(* amq route explain                                                       *)

\* --from-cwd asks the same question from another directory: shell.cwd is any.
ExplainArgs ==
  [root : Roots \union {Unset}, project : Trees \union {Unset},
   session : Sessions \union {Unset}, me : Correspondents, to : Correspondents]

ExplainRoute(a) ==
  LET root == ResolveEnvRoot(a.root)
      plan == PlanDeliveryRoute(root, a.project, a.session, TRUE)
  IN  IF /\ root # Unset
         /\ GuardSource(root, a.project # Unset, FALSE, a.root # Unset)
         /\ plan.ok
         /\ Exists(plan.dest)
         /\ IF a.project # Unset THEN a.to \in boxes[plan.dest]
            ELSE ~PinInvalid /\ LocalMailboxAuthorized(plan.dest, a.to, FALSE, FALSE, TRUE)
        THEN plan ELSE Refused

\* Mutant: the printed command leaves a peer's session to send's default.
RouteArgvMirrored(a, plan) ==
  [root |-> ResolveEnvRoot(a.root), project |-> a.project,
   session |-> IF a.project # Unset \/ plan.session = Base THEN Unset ELSE plan.session,
   from |-> Unset, ignorePin |-> FALSE, allowSelf |-> FALSE,
   me |-> a.me, to |-> a.to, strict |-> FALSE]

\* The command line printed for an explained route.
RouteArgv(a, plan) ==
  [root |-> ResolveEnvRoot(a.root), project |-> a.project,
   session |-> IF plan.session = Base THEN Unset ELSE plan.session,
   from |-> Unset, ignorePin |-> FALSE, allowSelf |-> FALSE,
   me |-> a.me, to |-> a.to, strict |-> FALSE]

---------------------------------------------------------------------------
(* The rest of the world.                                                  *)

Move ==
  /\ pending = NoSend
  /\ scope.moves > 0 /\ scope' = [scope EXCEPT !.moves = @ - 1]
  /\ UNCHANGED <<config, mail, pending>>
  /\ \/ \E s \in Sessions : EnvSession(s) \/ ExportSession(s)
     \/ \E r \in Roots : EnvRoot(r) \/ CoopContext(r) \/ ExportRoot(r)
     \/ Env
     \/ \E t \in Trees \union {Elsewhere} : ChangeDirectory(t)

\* A session directory is removed and made again under its name.
ReplaceDirectory(r) ==
  /\ scope' = [scope EXCEPT !.edits = @ - 1]
  /\ Exists(r) /\ r.session # Base
  /\ dirs' = [dirs EXCEPT ![r] = @ + 1]
  /\ UNCHANGED <<rc, machine, boxes, shell, config, mail, pending>>

EditRoster(r, roster) ==
  /\ scope' = [scope EXCEPT !.edits = @ - 1]
  /\ Exists(r) /\ config[r] # roster
  /\ config' = [config EXCEPT ![r] = roster]
  /\ UNCHANGED <<contextVars, mail, pending>>

InitialShells ==
  [root : {Unset}, base : {Unset}, session : {Unset},
   rootId : {Unset}, baseId : {Unset}, cwd : Trees \union {Elsewhere}]

RoutingInit ==
  /\ dirs = [r \in Roots |-> IF r \in Present THEN 1 ELSE 0]
  /\ \E setup \in Setups : rc = setup.rc /\ machine = setup.machine
  /\ boxes = [r \in Roots |-> IF r \in Present THEN Correspondents ELSE {}]
  /\ config = [r \in Roots |-> IF r \in Present /\ r.session = Base THEN Correspondents ELSE Unset]
  /\ shell \in InitialShells
  /\ mail = <<>> /\ pending = NoSend /\ scope \in Scopes

RoutingNext ==
  \/ Move
  \/ StartSend \/ StartReply \/ DeliverMessage \/ Abandon
  \/ scope.edits > 0 /\ \E r \in Roots : ReplaceDirectory(r)
  \/ scope.edits > 0 /\ \E r \in Roots, roster \in {Unset, {}} : EditRoster(r, roster)

RoutingSpec == RoutingInit /\ [][RoutingNext]_routingVars

---------------------------------------------------------------------------
(* Properties.                                                             *)

\* A reply reaches the mailbox its original was sent from -- the same tree,
\* session and handle, whatever the contexts of the two terminals -- or is
\* refused; a follow-up on one's own local message reaches its recipient.
\* Senders in a directory whose name is no session name are excepted: their
\* cross-project reply_to names the base of their tree.
RepliesReturn ==
  \A i \in DOMAIN mail :
    LET m == mail[i] o == mail[m.re]
    IN  m.re # 0 /\ o.source.session \notin LegacyNames =>
          \/ m.dest = o.source /\ m.to = o.from
          \/ m.from = o.from /\ m.source = o.source /\ m.dest = o.dest /\ m.to = o.to

\* A message is delivered while the directories its command authorized still
\* stand under their names, whatever was replaced while it waited for its body;
\* under an identity pin the source is the very directory that was pinned,
\* whatever --root says, and read, drain, watch, monitor and dlq open that
\* directory, or with --session a session of the pinned base; only
\* --ignore-session-pin and send's --from-session lift the pin.
PinnedSource ==
  /\ \A i \in DOMAIN mail :
       /\ mail[i].standing = <<mail[i].sourceId, mail[i].destId>>
       /\ mail[i].pin # Unset => mail[i].pin = <<mail[i].source, mail[i].sourceId>>
  /\ mail = <<>> /\ pending = NoSend /\ PinIdentity =>
       \A flag \in Roots \union {Unset}, session \in Sessions \union {Unset}, me \in Correspondents :
         OpensMailbox(flag, session, FALSE, me) =>
           IF session = Unset THEN Token(ResolveMailboxRoot(flag, session)) = shell.rootId
           ELSE /\ Token(BaseOf(ResolveMailboxRoot(flag, session))) = shell.baseId
                /\ ResolveMailboxRoot(flag, session).session = session

\* AM_ROOT, exported by hand over an identity pin, is in another tree than root.
StrayRoot(root) ==
  PinIdentity /\ shell.root # Unset /\ BaseTreeRelation(shell.root, root) = "different"

\* The command line route explain prints is accepted by send in the terminal
\* and directory it was explained for, and delivers to the explained queue.
\* Four differences of the two commands are excepted: route explain does not
\* ask whether the source directory exists, accepts the sender itself as
\* recipient, does not see that a stray AM_ROOT stops an unrouted send, and
\* mirrors into a peer a directory name that send's --session rejects.
ExplainedRouteSends ==
  mail = <<>> /\ pending = NoSend =>
    \A a \in ExplainArgs :
      LET plan == ExplainRoute(a)
          argv == RouteArgv(a, plan)
          sent == PlanSend(argv)
      IN  /\ plan.ok
          /\ Exists(ResolveEnvRoot(a.root))
          /\ a.to # a.me \/ plan.dest # ResolveEnvRoot(a.root)
          /\ Routed(argv) \/ ~StrayRoot(ResolveEnvRoot(a.root))
          /\ plan.session \notin LegacyNames
          => sent # NoSend /\ sent.dest = plan.dest
=============================================================================
