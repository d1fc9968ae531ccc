--------------------------- MODULE SessionContext ---------------------------
(***************************************************************************)
(* Which queue a command works on.  A queue directory is the base of a     *)
(* project tree or a session directly below it; a terminal carries a       *)
(* context in AM_ROOT, AM_BASE_ROOT, AM_SESSION, AM_ROOT_ID and            *)
(* AM_BASE_ROOT_ID (the pin, written by amq env and coop exec) and a       *)
(* working directory.  This module resolves roots, classifies them, loads  *)
(* and authenticates the pin, and decides by the session-guard table.      *)
(***************************************************************************)
EXTENDS Naturals, FiniteSets

CONSTANTS
  Trees,          \* project directories, each with one base queue
  Sessions,       \* session names validateSessionName accepts
  LegacyNames,    \* directory names it rejects (upper case or dotted)
  DefaultNamed,   \* trees whose base directory is called .agent-mail
  InGit,          \* trees that are Git worktrees
  Base,           \* "no session": the base of a tree
  Unset,          \* an absent variable, flag or result
  Elsewhere       \* a working directory outside every tree

VARIABLES
  dirs,     \* physical identity of each queue directory; 0: no such directory
  rc,       \* the .amqrc of each tree: the base it names, and its peers
  machine,  \* AMQ_GLOBAL_ROOT and the root of ~/.amqrc
  boxes,    \* the handles with a complete mailbox in each queue directory
  shell     \* the terminal: pin variables and working directory

contextVars == <<dirs, rc, machine, boxes, shell>>

Roots == [tree : Trees, session : Sessions \union LegacyNames \union {Base}]

RootAt(t, s) == [tree |-> t, session |-> s]

BaseOf(r) == RootAt(r.tree, Base)

ValidSessionName(s) == s \in Sessions

Exists(r) == dirs[r] # 0

---------------------------------------------------------------------------
(* Physical identity of directories.                                       *)

Token(r) == IF Exists(r) THEN <<r, dirs[r]>> ELSE Unset

RelateTrees(a, b) ==
  IF ~Exists(a) \/ ~Exists(b) THEN "unknown"
  ELSE IF Token(a) = Token(b) THEN "same" ELSE "different"

IsCurrent(r, token) == token # Unset /\ Token(r) = token

---------------------------------------------------------------------------
(* Classification: is this root a session, and below which base?           *)

IsBaseOrSession(r, base) == r = base \/ BaseOf(r) = base

IsSessionUnder(r, base) == r # base /\ BaseOf(r) = base

\* The configuration that owns a root: the .amqrc of its tree, else ~/.amqrc
\* when that file names the root's own base.
FindAmqrc(r) ==
  IF rc[r.tree].present
    THEN [found |-> TRUE, project |-> r.tree, root |-> rc[r.tree].root, peers |-> rc[r.tree].peers]
    ELSE IF machine.home # Unset /\ IsBaseOrSession(r, machine.home)
      THEN [found |-> TRUE, project |-> Unset, root |-> machine.home, peers |-> {}]
      ELSE [found |-> FALSE, project |-> Unset, root |-> Unset, peers |-> {}]

ConfiguredBase(r) ==
  LET cfg == FindAmqrc(r)
  IN  IF cfg.root # Unset /\ IsBaseOrSession(r, cfg.root) THEN cfg.root ELSE Unset

\* A direct child of .agent-mail is a session whatever .amqrc says.
ClassifyRoot(r) ==
  IF shell.base = r THEN Unset
  ELSE IF shell.base # Unset /\ IsSessionUnder(r, shell.base) THEN shell.base
  ELSE IF r.session # Base /\ r.tree \in DefaultNamed THEN BaseOf(r)
  ELSE IF ConfiguredBase(r) = r THEN Unset ELSE ConfiguredBase(r)

ResolveSessionName(r) == IF ClassifyRoot(r) = Unset THEN Base ELSE r.session

InferredSession(r) ==
  IF ValidSessionName(ResolveSessionName(r)) THEN ResolveSessionName(r) ELSE Base

BaseRootOf(r) == IF ClassifyRoot(r) # Unset THEN ClassifyRoot(r) ELSE r

BaseTreeRelation(a, b) == RelateTrees(BaseRootOf(a), BaseRootOf(b))

\* The terminal's own variables place it in a tree other than target's: an
\* AM_BASE_ROOT that cannot be verified counts as evidence, AM_ROOT does not.
ConflictingSource(target) ==
  \/ \E src \in {shell.root, shell.base} \ {Unset, target} :
       BaseTreeRelation(src, target) = "different"
  \/ /\ shell.base \notin {Unset, target}
     /\ BaseTreeRelation(shell.base, target) = "unknown"

\* A session below a base is a real directory there.
SessionRoot(base, s) == RootAt(base.tree, s)

SessionRootFound(base, s) ==
  base.session = Base /\ Exists(base) /\ Exists(SessionRoot(base, s))

---------------------------------------------------------------------------
(* Discovery: flag, AM_ROOT, project .amqrc, AMQ_GLOBAL_ROOT, then the     *)
(* implicit fallbacks, of which ~/.amqrc is ineligible inside Git.         *)

CwdRc ==
  IF shell.cwd \in Trees /\ rc[shell.cwd].present THEN rc[shell.cwd].root ELSE Unset

DetectAgentMail ==
  IF shell.cwd \in DefaultNamed /\ Exists(RootAt(shell.cwd, Base))
    THEN RootAt(shell.cwd, Base) ELSE Unset

InsideGit == shell.cwd \in InGit

DiscoveredBase ==
  IF CwdRc # Unset THEN CwdRc
  ELSE IF machine.global # Unset THEN machine.global
  ELSE IF InsideGit \/ machine.home = Unset THEN DetectAgentMail
  ELSE machine.home

ResolveEnvRoot(flag) ==
  IF flag # Unset THEN flag
  ELSE IF shell.root # Unset THEN shell.root
  ELSE DiscoveredBase

---------------------------------------------------------------------------
(* The session pin.                                                        *)

\* One half of the identity pin without the other, or either without the
\* base it belongs to, is refused by every participating command.
PinPresent == shell.session # Unset \/ shell.rootId # Unset \/ shell.baseId # Unset

PinInvalid ==
  PinPresent /\ (shell.base = Unset \/ ((shell.rootId = Unset) # (shell.baseId = Unset)))

PinIdentity == PinPresent /\ shell.rootId # Unset

PinSession == IF shell.session = Unset THEN Base ELSE shell.session

\* The pinned session below the pinned base; below a session there is no queue.
ExpectedRoot ==
  IF PinSession = Base THEN shell.base
  ELSE IF shell.base.session = Base THEN RootAt(shell.base.tree, PinSession) ELSE Unset

PinState ==
  IF PinInvalid THEN "invalid"
  ELSE IF ~PinPresent THEN "absent" ELSE IF PinIdentity THEN "identity" ELSE "legacy"

\* A legacy pin does not silently override a contradictory live AM_ROOT.
LegacyPinAgrees ==
  \/ ~PinPresent \/ PinIdentity
  \/ shell.root \in {Unset, ExpectedRoot}

\* An identity pin authenticates the base, the session entry directly below
\* it, and the root itself.
VerifyRootUnderBase(root) ==
  /\ IsCurrent(shell.base, shell.baseId)
  /\ IF PinSession = Base
       THEN RelateTrees(shell.base, root) = "same"
       ELSE /\ SessionRootFound(shell.base, PinSession)
            /\ RelateTrees(SessionRoot(shell.base, PinSession), root) = "same"
  /\ IsCurrent(root, shell.rootId)

PinMismatch(target) ==
  IF PinPresent
    THEN \/ ~LegacyPinAgrees
         \/ IF PinIdentity THEN ~VerifyRootUnderBase(target) ELSE target # ExpectedRoot
    ELSE ConflictingSource(target)

---------------------------------------------------------------------------
(* The guard.                                                              *)

InitializedRoot(r) == Exists(r) /\ boxes[r] # {}

\* The initialized queue the working directory points at, if any: the
\* pinned session there, the base, or any session of it.
CwdLocalRoots ==
  LET local == IF CwdRc # Unset THEN CwdRc ELSE DetectAgentMail
      peer  == RootAt(local.tree, PinSession)
  IN  IF local = Unset THEN {}
      ELSE IF PinSession # Base /\ InitializedRoot(peer) THEN {peer}
      ELSE IF InitializedRoot(local) THEN {local}
      ELSE {r \in Roots : IsSessionUnder(r, local) /\ InitializedRoot(r)}

\* A live exact-root identity pin outranks the working directory.
CwdAgrees(target) ==
  \/ ~PinPresent
  \/ PinIdentity /\ PinSession = Base /\ VerifyRootUnderBase(target)
  \/ CwdLocalRoots = {}
  \/ \E local \in CwdLocalRoots : BaseTreeRelation(local, target) = "same"

\* The policy table: the facts on which a command proceeds.  A refusal is an
\* exit status for most commands, a warning for list, a report for doctor.
Allowed(kind, pin, relation, flags) ==
  \/ kind = "mailbox" /\ "routed" \in flags /\ pin # "invalid"
  \/ "ignore_pin" \in flags /\ kind \in {"mailbox", "source", "doctor"}
  \/ kind = "source" /\ "from_session" \in flags /\ pin # "invalid"
  \/ pin # "invalid" /\ relation \in {"unbound", "match"}
  \/ /\ pin # "invalid" /\ relation = "own_base"
     /\ (kind = "list" /\ "explicit_root" \in flags) \/ kind = "doctor"

Relation(target) ==
  IF PinMismatch(target) THEN "mismatch"
  ELSE IF PinPresent THEN "match" ELSE "unbound"

GuardMailbox(target, routed, ignorePin, explicitRoot) ==
  \/ routed \/ ignorePin
  \/ /\ ~PinInvalid
     /\ explicitRoot \/ CwdAgrees(target)
     /\ Allowed("mailbox", PinState, Relation(target), {})

\* --session routes below the authorized base, never below ambient AM_ROOT.
RouteBase(root) == IF PinPresent THEN shell.base ELSE BaseRootOf(root)

RoutedSessionAllowed(root, session) ==
  /\ ~PinInvalid /\ LegacyPinAgrees
  /\ PinIdentity => VerifyRootUnderBase(root)
  /\ SessionRootFound(RouteBase(root), session)

ResolveMailboxRoot(flag, session) ==
  LET root == ResolveEnvRoot(flag)
  IN  IF session = Unset \/ root = Unset THEN root
      ELSE IF flag = Unset /\ RoutedSessionAllowed(root, session)
        THEN SessionRoot(RouteBase(root), session) ELSE Unset

PinOverrideValid(flag, session, ignorePin) ==
  ignorePin => flag # Unset /\ session = Unset

\* The directory whose handle the command keeps is the one the pin names.
SnapshotAuthorized(root, session, ignorePin) ==
  session = Unset /\ ~ignorePin => ~PinInvalid /\ (PinIdentity => IsCurrent(root, shell.rootId))

\* read, drain, watch, monitor and dlq open the mailbox of me.
OpensMailbox(flag, session, ignorePin, me) ==
  LET root == ResolveMailboxRoot(flag, session)
  IN  /\ root # Unset
      /\ PinOverrideValid(flag, session, ignorePin)
      /\ GuardMailbox(root, session # Unset, ignorePin, flag # Unset)
      /\ Exists(root) /\ SnapshotAuthorized(root, session, ignorePin)
      /\ me \in boxes[root]

GuardSource(target, crossProject, ignorePin, explicitRoot) ==
  \/ ignorePin
  \/ /\ ~PinInvalid
     /\ explicitRoot \/ crossProject \/ CwdAgrees(target)
     /\ Allowed("source", PinState, Relation(target), {})

---------------------------------------------------------------------------
(* amq env and coop exec write the complete context.                       *)

Exported(root, base, session) ==
  [shell EXCEPT !.root = root, !.base = base, !.session = session,
                !.rootId = IF Exists(root) /\ Exists(base) THEN Token(root) ELSE Unset,
                !.baseId = IF Exists(root) /\ Exists(base) THEN Token(base) ELSE Unset]

\* Without a name asked for, the exported session is the inferred one; a root
\* whose name is not a session name is exported as its own base.
ClassifyEnvRoot(root) ==
  IF ClassifyRoot(root) # Unset /\ InferredSession(root) # Base
    THEN Exported(root, ClassifyRoot(root), InferredSession(root))
    ELSE Exported(root, root, Base)

EnvSessionBase ==
  IF PinPresent THEN shell.base
  ELSE IF ResolveEnvRoot(Unset) = Unset THEN Unset ELSE BaseRootOf(ResolveEnvRoot(Unset))

EnvSessionAllowed(s) ==
  /\ ~PinInvalid /\ LegacyPinAgrees
  /\ PinIdentity =>
       /\ VerifyRootUnderBase(IF shell.root = Unset THEN ExpectedRoot ELSE shell.root)
       /\ SessionRootFound(shell.base, s)
  /\ EnvSessionBase # Unset
  /\ EnvSessionBase.session = Base

\* amq env --session s
EnvSession(s) ==
  /\ EnvSessionAllowed(s)
  /\ shell' = Exported(SessionRoot(EnvSessionBase, s), EnvSessionBase, s)
  /\ UNCHANGED <<dirs, rc, machine, boxes>>

\* amq env --root r: an explicit context replaces the pin
EnvRoot(r) ==
  /\ shell' = ClassifyEnvRoot(r)
  /\ UNCHANGED <<dirs, rc, machine, boxes>>

\* amq env with neither: the discovered root, which the pin must not contradict
Env ==
  /\ ResolveEnvRoot(Unset) # Unset
  /\ Allowed("env", PinState, Relation(ResolveEnvRoot(Unset)), {})
  /\ shell' = ClassifyEnvRoot(ResolveEnvRoot(Unset))
  /\ UNCHANGED <<dirs, rc, machine, boxes>>

\* coop exec --root r: the agent's environment
CoopContext(r) ==
  /\ Exists(r)
  /\ shell' = IF InferredSession(r) = Base THEN Exported(r, r, Base)
              ELSE Exported(r, BaseOf(r), InferredSession(r))
  /\ UNCHANGED <<dirs, rc, machine, boxes>>

\* The operator exports AM_ROOT or AM_SESSION by hand, or changes directory.
ExportRoot(r) ==
  /\ shell.root # r
  /\ shell' = [shell EXCEPT !.root = r]
  /\ UNCHANGED <<dirs, rc, machine, boxes>>

ExportSession(s) ==
  /\ shell.session # s
  /\ shell' = [shell EXCEPT !.session = s]
  /\ UNCHANGED <<dirs, rc, machine, boxes>>

ChangeDirectory(t) ==
  /\ shell.cwd # t
  /\ shell' = [shell EXCEPT !.cwd = t]
  /\ UNCHANGED <<dirs, rc, machine, boxes>>
=============================================================================
