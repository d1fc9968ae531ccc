---------------------------- MODULE LaunchApply ----------------------------
(***************************************************************************)
(* Prepare and Apply of the launch API (internal/launch/prepare.go and      *)
(* apply.go): a caller prepares a subject without writing anything, and     *)
(* applies it later; Apply takes the authority over the session, prepares   *)
(* the subject again and acts only if it is the one that was approved.      *)
(*                                                                          *)
(* Callers race each other, commands that make or move a session directory, *)
(* and an operator who edits its roster.  Reconcile is LaunchReconcile's    *)
(* subject; here it answers, and may leave a binding or a journal.          *)
(***************************************************************************)
EXTENDS LaunchPlan

CONSTANTS Callers,  \* calls of Prepare and Apply
          Dirs,     \* identities of directories
          Wants,    \* [Callers -> SUBSET Agents]: the participants of a call
          Requests, \* a set of functions from Callers to kinds of request
          MaxBind,  \* bound on binding generations
          Turmoil   \* bound on crashes and on what the others do

ASSUME WantsAssumption == Wants \in [Callers -> SUBSET Agents]
ASSUME DirsAssumption == Dirs # {}
ASSUME NilAssumption ==
    /\ Nil \notin Dirs /\ Nil \notin Callers /\ Nil \notin {"reprepare_required", "subject_changed"}
    /\ \A roster \in SUBSET Agents : Nil # roster

VARIABLES
    path,     \* the base directory exists; the directory named as the session
    tree,     \* [Dirs -> what is in the directory]
    spent,    \* directories that have been named as the session
    creation, \* holder of the session creation lock, and whether its file exists
    leases,   \* [Dirs -> holder of the launch lease, or Nil, and its nonce]
    env,      \* what Prepare observes beside the session, and the changes left
    call      \* [Callers -> what a call has read and decided]

applyVars == <<path, tree, spent, creation, leases, env, call>>

NoHolder == [by |-> Nil, nonce |-> 0]
NoCall == [pc |-> "idle", subject |-> Nil, seen |-> Nil, given |-> Nil, pin |-> Nil, plan |-> Nil,
           sess |-> Nil, nonce |-> 0, kind |-> "runs", founded |-> Nil, out |-> Nil]

\* Nothing, a base, a bare session directory, or a session launched before.
Launched == [NoTree EXCEPT !.cfg = {}, !.bind = [gen |-> 1, via |-> "ghostty", host |-> "here"]]

ApplyInit ==
    /\ \E d \in {CHOOSE x \in Dirs : TRUE}, t \in {NoTree, Launched} :
         /\ path \in {[base |-> FALSE, sess |-> Nil], [base |-> TRUE, sess |-> Nil], [base |-> TRUE, sess |-> d]}
         /\ tree = [x \in Dirs |-> IF x = path.sess THEN t ELSE NoTree]
    /\ spent = {path.sess} \ {Nil}
    /\ creation = [by |-> Nil, file |-> FALSE]
    /\ leases = [d \in Dirs |-> NoHolder]
    /\ env = [trust |-> FALSE, conv |-> "none", host |-> "here", up |-> AllUp,
              input |-> TRUE, exe |-> 0, rc |-> "ok", left |-> Turmoil]
    /\ \E k \in Requests : call = [p \in Callers |-> [NoCall EXCEPT !.kind = k[p]]]

PC(p) == call[p].pc
Runs(p) == call[p].kind # "none"
CallAt(p, pc) == call' = [call EXCEPT ![p].pc = pc]
Sess(p) == call[p].sess
Tree(p) == tree[Sess(p)]

-----------------------------------------------------------------------------
(* How a call ends. *)

\* Lease.Release, or abandonCapability when the session is no longer reachable.
Dropped(p) == [d \in Dirs |-> IF leases[d].by = p THEN NoHolder ELSE leases[d]]

Ends(p, out) ==
    /\ call' = [call EXCEPT ![p] = [NoCall EXCEPT !.pc = "done", !.kind = call[p].kind, !.sess = Sess(p),
                                                 !.founded = call[p].founded, !.out = out]]
    /\ leases' = Dropped(p)
    /\ creation' = [creation EXCEPT !.by = IF @ = p THEN Nil ELSE @]

CallRefused(p, reason) ==
    /\ Ends(p, [outcome |-> "action_required", reason |-> reason])
    /\ UNCHANGED <<path, tree, spent, env>>

-----------------------------------------------------------------------------
(* Prepare. *)

\* openExplicitBaseAuthority: the base must be the root .amqrc configures.
BaseAuthority == IF env.rc = "ok" THEN "authorized" ELSE "base_root_unauthorized"

\* openPrepareTarget: what the paths name now.
OpenTarget == path.sess

\* prepareAtTarget: the observations that make the subject.
SubjectAt(d, c, wanted) ==
    [base |-> path.base, sess |-> d,
     roster |-> IF d = Nil THEN Nil ELSE SelectedRoster(tree[d], wanted),
     bind |-> IF d = Nil THEN Unbound ELSE tree[d].bind,
     kind |-> c.kind, trust |-> env.trust, conv |-> IF d = Nil THEN "none" ELSE env.conv, host |-> env.host,
     up |-> env.up, input |-> env.input, exe |-> env.exe]

PinAt(d) == IF d = Nil THEN Nil ELSE tree[d].cfg

\* prepareTargetState.verify: every pinned name still names what it named.
TargetHolds(c) ==
    /\ BaseAuthority = "authorized" /\ path.base = c.seen.base
    /\ path.sess = c.seen.sess
    /\ (c.seen.sess # Nil /\ c.pin # Nil) => tree[c.seen.sess].cfg = c.pin

\* The observations are read first, the target is verified last.
Observe(p, next) ==
    call' = [call EXCEPT ![p].seen = SubjectAt(OpenTarget, call[p], Wants[p]), ![p].pin = PinAt(OpenTarget), ![p].pc = next]

PrepareReads(p) ==
    /\ PC(p) = "idle" /\ BaseAuthority = "authorized" /\ Observe(p, "sealing")
    /\ UNCHANGED <<path, tree, spent, creation, leases, env>>

\* prepareBaseRootRefusal: nothing is observed, nothing can be applied.
PrepareRefused(p) ==
    /\ PC(p) = "idle" /\ BaseAuthority # "authorized"
    /\ Ends(p, [outcome |-> "unsupported", reason |-> BaseAuthority])
    /\ UNCHANGED <<path, tree, spent, env>>

\* Drift while it is read fails the Prepare.
PrepareSeals(p) ==
    /\ PC(p) = "sealing"
    /\ call' = [call EXCEPT ![p].pc = IF TargetHolds(call[p]) THEN "prepared" ELSE "idle",
                            ![p].subject = IF TargetHolds(call[p]) THEN call[p].seen ELSE Nil]
    /\ UNCHANGED <<path, tree, spent, creation, leases, env>>

-----------------------------------------------------------------------------
(* Apply: the authority. *)

\* The caller accepts, declines or leaves out the decisions the subject asks for.
Decisions(o, choice) == [choice |-> choice, actions |-> IF choice = "omit" THEN {} ELSE RequiredActions(o)]

\* Apply opens the target anew and chooses its authority by what is there.
ApplyOpens(p, choice) ==
    /\ PC(p) = "prepared" /\ BaseAuthority = "authorized"
    /\ RequiredActions(call[p].subject) = {} => choice = "accept"
    /\ call' = [call EXCEPT ![p].sess = path.sess, ![p].given = Decisions(call[p].subject, choice),
                            ![p].seen = SubjectAt(OpenTarget, call[p], Wants[p]), ![p].pin = Nil,
                            ![p].pc = CASE ~path.base -> "authorize"
                                        [] path.base /\ path.sess = Nil -> "lock"
                                        [] OTHER -> "nonce"]
    /\ UNCHANGED <<path, tree, spent, creation, leases, env>>

ApplyUnauthorized(p) ==
    /\ PC(p) = "prepared" /\ BaseAuthority # "authorized"
    /\ Ends(p, [outcome |-> "error", reason |-> BaseAuthority])
    /\ UNCHANGED <<path, tree, spent, env>>

\* applyRequestsRebind.
WantsRebind(p) == call[p].given.choice = "accept" /\ "rebind_confirmation" \in call[p].given.actions

\* The nonce of the launch to continue is read before the lease is held.
ReadsNonce(p) ==
    /\ PC(p) = "nonce"
    /\ call' = [call EXCEPT ![p].pc = "lease",
                            ![p].nonce = CASE Tree(p).journal # 0 -> Tree(p).journal
                                           [] Tree(p).journal = 0 /\ ~WantsRebind(p) -> Tree(p).bind.gen
                                           [] OTHER -> 0]
    /\ UNCHANGED <<path, tree, spent, creation, leases, env>>

\* WithSessionCreationLock waits for the lock, whose file stays behind.
LocksCreation(p) ==
    /\ PC(p) = "lock" /\ path.base /\ creation.by = Nil
    /\ creation' = [by |-> p, file |-> TRUE]
    /\ CallAt(p, IF call[p].seen.base THEN "verify" ELSE "publish")
    /\ UNCHANGED <<path, tree, spent, leases, env>>

LeaseIsFree(d) == leases[d].by = Nil

\* acquireExistingApplyLease: behind the creation lock when its file exists.
AcquiresLease(p) ==
    /\ PC(p) = "lease"
    /\ creation.file => creation.by = Nil
    /\ IF LeaseIsFree(Sess(p))
       THEN /\ leases' = [leases EXCEPT ![Sess(p)] = [by |-> p, nonce |-> call[p].nonce]]
            /\ CallAt(p, "verify")
            /\ UNCHANGED <<path, tree, spent, creation, env>>
       ELSE CallRefused(p, "launch_lease_unavailable")

VerifiesTarget(p) ==
    /\ PC(p) = "verify"
    /\ IF TargetHolds(call[p])
       THEN CallAt(p, "authorize") /\ UNCHANGED <<path, tree, spent, creation, leases, env>>
       ELSE CallRefused(p, "subject_changed")

\* authorizeApply: prepare again, under the authority, and compare; the target is
\* the one that was opened.
AuthorizeReads(p) ==
    /\ PC(p) = "authorize"
    /\ IF call[p].seen.sess # path.sess
       THEN CallRefused(p, "subject_changed")
       ELSE /\ Observe(p, "compare")
            /\ UNCHANGED <<path, tree, spent, creation, leases, env>>

AuthorizeCompares(p) ==
    /\ PC(p) = "compare"
    /\ IF ~TargetHolds(call[p]) THEN CallRefused(p, "subject_changed")
       ELSE IF Refusal(call[p].seen, call[p].subject, call[p].given) # Nil
       THEN CallRefused(p, Refusal(call[p].seen, call[p].subject, call[p].given))
       ELSE /\ CallAt(p, CASE ~call[p].seen.base -> "base"
                         [] call[p].seen.base /\ Sess(p) = Nil -> "publish"
                         [] OTHER -> "roster")
            /\ UNCHANGED <<path, tree, spent, creation, leases, env>>

-----------------------------------------------------------------------------
(* Apply: the session directory. *)

\* applyMissingBaseRoot: verified once more, created exclusively.
CreatesBase(p, durable) ==
    /\ PC(p) = "base"
    /\ IF path.base \/ BaseAuthority # "authorized" THEN durable /\ CallRefused(p, "subject_changed")
       ELSE /\ path' = [path EXCEPT !.base = TRUE]
            /\ IF durable THEN CallAt(p, "lock") /\ UNCHANGED <<creation, leases>>
               ELSE Ends(p, [outcome |-> "action_required", reason |-> "base_root_creation_durability_uncertain"])
            /\ UNCHANGED <<tree, spent, env>>

\* Mutant: an existing directory is taken for the published one.
VacantAlways == TRUE

\* renameDirectChildNoReplace: an existing directory is never replaced.
Vacant == path.sess = Nil

\* A complete session, its lease already held, appears under its name at once.
Publishes(p, durable) ==
    /\ PC(p) = "publish"
    /\ IF ~Vacant THEN durable /\ CallRefused(p, "subject_changed")
       ELSE \E d \in IF path.sess # Nil THEN {path.sess} ELSE Dirs \ spent :
            /\ (path.sess = Nil => d = CHOOSE x \in Dirs \ spent : TRUE)
            /\ path' = [path EXCEPT !.sess = d] /\ spent' = spent \cup {d}
            /\ tree' = [tree EXCEPT ![d] = InitializedTree(Wants[p])]
            /\ IF durable
               THEN /\ leases' = [leases EXCEPT ![d] = [by |-> p, nonce |-> 0]]
                    /\ call' = [call EXCEPT ![p].sess = d, ![p].founded = d,
                                            ![p].pc = IF Runs(p) THEN "reconcile" ELSE "status"]
                    /\ UNCHANGED creation
               ELSE Ends(p, [outcome |-> "action_required", reason |-> "session_publication_durability_uncertain"])
            /\ UNCHANGED env

-----------------------------------------------------------------------------
(* Apply: the roster of a session that exists. *)

\* authorizeWrite: the lease record is still this call's, in the named directory.
MayWrite(p) == leases[Sess(p)].by = p /\ path.sess = Sess(p)

\* A call that fails returns an error, and its lease is released on the way.
Fails(p) == Ends(p, [outcome |-> "error", reason |-> Nil]) /\ UNCHANGED <<path, tree, spent, env>>

\* A missing roster file is written from the mailboxes on disk and the wanted
\* ones; then the roster is pinned.  The lease is held throughout, and this is
\* one step.
PinsRoster(p) ==
    /\ PC(p) = "roster"
    /\ IF ~MayWrite(p) \/ (Tree(p).cfg = Nil /\ UnsafeEntry(Tree(p))) THEN Fails(p)
       ELSE LET cfg == IF Tree(p).cfg = Nil THEN DiscoveredRoster(Tree(p), Wants[p]) ELSE Tree(p).cfg
            IN  /\ tree' = [tree EXCEPT ![Sess(p)].cfg = cfg]
                /\ call' = [call EXCEPT ![p].pin = cfg, ![p].pc = "preflight"]
                /\ UNCHANGED <<path, spent, creation, leases, env>>

PinHolds(p) == path.sess = Sess(p) /\ Tree(p).cfg = call[p].pin

\* The repair is planned for the wanted mailboxes only, and refused as a whole.
RepairPlanned(p) ==
    /\ PC(p) = "preflight"
    /\ IF ~PinHolds(p) \/ PreflightHazard(Tree(p), Wants[p]) THEN Fails(p)
       ELSE /\ call' = [call EXCEPT ![p].plan = Tree(p), ![p].pc = "repair"]
            /\ UNCHANGED <<path, tree, spent, creation, leases, env>>

\* One mailbox; it stops at the first that changed since the plan or cannot be made.
RepairsOne(p, h) ==
    /\ PC(p) = "repair"
    /\ h \in Wants[p] /\ call[p].plan.box[h] # "whole"
    /\ IF ChangedSince(call[p].plan, Tree(p), h) \/ ~MayWrite(p)
       THEN CallAt(p, "record") /\ UNCHANGED tree
       ELSE \/ /\ tree' = [tree EXCEPT ![Sess(p)] = RepairMailbox(Tree(p), h)]
               /\ call' = [call EXCEPT ![p].plan.box[h] = "whole"]
            \/ /\ env.left > 0
               /\ tree' = [tree EXCEPT ![Sess(p)] = RepairBegun(Tree(p), h)]
               /\ CallAt(p, "record")
    /\ UNCHANGED <<path, spent, creation, leases, env>>

\* A repair that stopped half way is "partial", which Apply does not take for a
\* failure; whether it is verified whole makes no difference either.
RepairEnds(p) ==
    /\ PC(p) = "repair" /\ \A h \in Wants[p] : call[p].plan.box[h] = "whole"
    /\ CallAt(p, "record")
    /\ UNCHANGED <<path, tree, spent, creation, leases, env>>

\* Mutant: the wanted handles replace the roster.
WantedRoster(p) == Wants[p]

EffectiveRoster(p) == call[p].pin \cup Wants[p]

\* Verify, then write: an edit in between is overwritten.
VerifiesRoster(p) ==
    /\ PC(p) = "record"
    /\ IF EffectiveRoster(p) # call[p].pin /\ (~PinHolds(p) \/ ~MayWrite(p)) THEN Fails(p)
       ELSE /\ CallAt(p, IF EffectiveRoster(p) # call[p].pin THEN "write"
                       ELSE IF Runs(p) THEN "reconcile" ELSE "status")
            /\ UNCHANGED <<path, tree, spent, creation, leases, env>>

WritesRoster(p, durable) ==
    /\ PC(p) = "write"
    /\ IF path.sess # Sess(p) THEN durable /\ Fails(p)
       ELSE /\ tree' = [tree EXCEPT ![Sess(p)].cfg = EffectiveRoster(p)]
            /\ IF durable
               THEN CallAt(p, IF Runs(p) THEN "reconcile" ELSE "status") /\ UNCHANGED <<creation, leases>>
               ELSE Ends(p, [outcome |-> "action_required", reason |-> "roster_config_durability_uncertain"])
            /\ UNCHANGED <<path, spent, env>>

-----------------------------------------------------------------------------
(* Apply: the launch, and what is reported of it. *)

\* classifyApplyMutation: what the session shows decides what is reported.
Classified(t) ==
    CASE t.bind.gen # 0 -> "committed"
      [] t.bind.gen = 0 /\ t.journal # 0 -> "uncertain"
      [] OTHER -> "not_applied"

NonceOf(p) == IF leases[Sess(p)].nonce # 0 THEN leases[Sess(p)].nonce ELSE Tree(p).bind.gen + 1

NewBinding(p) == [gen |-> NonceOf(p), via |-> SelectBackend(call[p].seen), host |-> env.host]

\* The new binding, a journal left behind, nothing to do, or a refusal.
Reconciles(p, answer) ==
    /\ PC(p) = "reconcile"
    /\ answer = "bound" => MayWrite(p) /\ NonceOf(p) <= MaxBind
    /\ answer = "journal" => MayWrite(p) /\ NonceOf(p) <= MaxBind /\ env.left > 0
    /\ tree' = CASE answer = "bound" -> [tree EXCEPT ![Sess(p)].bind = NewBinding(p), ![Sess(p)].journal = 0]
                 [] answer = "journal" -> [tree EXCEPT ![Sess(p)].journal = NonceOf(p)]
                 [] OTHER -> tree
    /\ IF answer = "journal"
       THEN Ends(p, [outcome |-> "action_required", reason |-> Classified(tree'[Sess(p)])])
       ELSE /\ call' = [call EXCEPT ![p].pc = "status", ![p].out = answer] /\ UNCHANGED <<creation, leases>>
    /\ env' = [env EXCEPT !.trust = @ \/ answer = "bound", !.left = IF answer = "journal" THEN @ - 1 ELSE @]
    /\ UNCHANGED <<path, spent>>

\* The status is prepared once more; executables that changed meanwhile turn a
\* launch that happened into subject_changed.
Reports(p) ==
    /\ PC(p) = "status"
    /\ IF path.sess # Sess(p) \/ BaseAuthority # "authorized" THEN CallRefused(p, "subject_changed")
       ELSE /\ Ends(p, CASE ~Runs(p) -> [outcome |-> "provisioned_no_runnable", reason |-> Nil]
                         [] Runs(p) /\ call[p].out = "bound" /\ env.exe = call[p].subject.exe ->
                                [outcome |-> "applied", reason |-> Nil]
                         [] Runs(p) /\ call[p].out = "bound" /\ env.exe # call[p].subject.exe ->
                                [outcome |-> "action_required", reason |-> "subject_changed"]
                         [] OTHER -> [outcome |-> "action_required", reason |-> Classified(Tree(p))])
            /\ UNCHANGED <<path, tree, spent, env>>

-----------------------------------------------------------------------------
(* The others. *)

\* Bound: they act Turmoil times, while a call is under way.
MayStir == env.left > 0 /\ \E p \in Callers : PC(p) # "done"
Stir == MayStir /\ env' = [env EXCEPT !.left = @ - 1]

\* The process of a call dies: its locks are free, its lease record is stale.
ApplyCrashes(p) ==
    /\ PC(p) \notin {"idle", "done"} /\ env.left > 0
    /\ Ends(p, [outcome |-> "crashed", reason |-> Nil])
    /\ env' = [env EXCEPT !.left = @ - 1]
    /\ UNCHANGED <<path, tree, spent>>

\* amq session create and amq coop: a bare directory under the session's name.
SessionAppears ==
    /\ path.base /\ path.sess = Nil /\ Dirs \ spent # {} /\ Stir
    /\ LET d == CHOOSE x \in Dirs \ spent : TRUE
       IN  path' = [path EXCEPT !.sess = d] /\ spent' = spent \cup {d}
    /\ UNCHANGED <<tree, creation, leases, call>>

\* An agent joins: its mailbox is made without the lease; or a link takes its place.
AgentJoins(h, state) ==
    /\ path.sess # Nil /\ tree[path.sess].box[h] = "missing" /\ Stir
    /\ tree' = [tree EXCEPT ![path.sess].box[h] = state]
    /\ UNCHANGED <<path, spent, creation, leases, call>>

\* The operator adds an agent to the roster, or moves the session away.
RosterEdited(h) ==
    /\ path.sess # Nil /\ h \notin Configured(tree[path.sess]) /\ Stir
    /\ tree' = [tree EXCEPT ![path.sess].cfg = Configured(tree[path.sess]) \cup {h}]
    /\ UNCHANGED <<path, spent, creation, leases, call>>

SessionMoved ==
    /\ path.sess # Nil /\ Stir
    /\ path' = [path EXCEPT !.sess = Nil]
    /\ UNCHANGED <<tree, spent, creation, leases, call>>

ExecutableReplaced ==
    /\ MayStir
    /\ env' = [env EXCEPT !.exe = 1 - @, !.left = @ - 1]
    /\ UNCHANGED <<path, tree, spent, creation, leases, call>>

\* The agent's conversation, this host or the available backends change.
ObservedChange(field, value) ==
    /\ MayStir /\ env[field] # value
    /\ env' = [env EXCEPT ![field] = value, !.left = @ - 1]
    /\ UNCHANGED <<path, tree, spent, creation, leases, call>>

-----------------------------------------------------------------------------
PrepareNext(p) == PrepareReads(p) \/ PrepareRefused(p) \/ PrepareSeals(p)

AuthorityNext(p) ==
    \/ \E choice \in {"accept", "abort", "omit"} : ApplyOpens(p, choice)
    \/ ApplyUnauthorized(p) \/ ReadsNonce(p) \/ LocksCreation(p) \/ AcquiresLease(p) \/ VerifiesTarget(p)
    \/ AuthorizeReads(p) \/ AuthorizeCompares(p)

SessionNext(p) ==
    \/ \E ok \in BOOLEAN : CreatesBase(p, ok) \/ Publishes(p, ok) \/ WritesRoster(p, ok)
    \/ PinsRoster(p) \/ RepairPlanned(p) \/ RepairEnds(p) \/ VerifiesRoster(p)
    \/ \E h \in Agents : RepairsOne(p, h)

OthersNext ==
    \/ SessionAppears \/ SessionMoved \/ ExecutableReplaced
    \/ \E h \in Agents : RosterEdited(h) \/ \E s \in {"whole", "unsafe"} : AgentJoins(h, s)
    \/ \E c \in Conversations \ {"none"} : ObservedChange("conv", c)
    \/ ObservedChange("host", "moved") \/ ObservedChange("rc", "edited") \/ ObservedChange("input", FALSE)
    \/ ObservedChange("up", [AllUp EXCEPT !.tmux = "no"]) \/ ObservedChange("up", [AllUp EXCEPT !.ghostty = "old"])

\* The callers that have no result yet.
Waiting == {p \in Callers : PC(p) # "done"}

ApplyNext ==
    \/ \E p \in Waiting : PrepareNext(p) \/ AuthorityNext(p) \/ SessionNext(p) \/ Reports(p) \/ ApplyCrashes(p)
    \/ \E p \in Waiting, a \in {"bound", "journal", "none", "refused"} : Reconciles(p, a)
    \/ MayStir /\ OthersNext

ApplySpec == ApplyInit /\ [][ApplyNext]_applyVars

Succeeded(p) == PC(p) = "done" /\ call[p].out.outcome \in {"applied", "provisioned_no_runnable"}

\* Two calls never take the same session directory for one they have founded
\* (PublishInitializedDirectChildExclusive, WithSessionCreationLock).
OneFounder == \A p, q \in Callers : p # q /\ call[p].founded # Nil => call[p].founded # call[q].founded

\* When Apply launches in a session that was there, the binding is the one in the
\* subject the caller approved: nothing was launched since the subject was prepared
\* again (authorizeApply under the lease).
ActsOnApproved ==
    \A p \in Callers : PC(p) = "reconcile" /\ call[p].founded = Nil =>
        Sess(p) = call[p].subject.sess /\ Tree(p).bind = call[p].subject.bind

\* The participants of a call that succeeded stay in the roster of its session,
\* whatever other calls write (provisionExistingApplyRoster).
RosterKept == \A p \in Callers : Succeeded(p) => Wants[p] \subseteq Configured(Tree(p))
=============================================================================
