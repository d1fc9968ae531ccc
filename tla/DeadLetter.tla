----------------------------- MODULE DeadLetter -----------------------------
(* The dead-letter queue of one mailbox (internal/fsq/dlq.go) and the        *)
(* commands that work on it (internal/cli/dlq.go), concurrently with the     *)
(* consumer that fills it.  Envelopes of different originals share no file,  *)
(* so one original file name is modelled: it moves through inbox/new and     *)
(* inbox/cur, and each time its ingest fails a fresh envelope embeds it.     *)
(*   retry   - under the envelope's flock: persist "pending", redeliver      *)
(*             through inbox/tmp, persist "delivered" (or "ready" again);    *)
(*   inspect - dlq read: move the envelope new -> cur;                       *)
(*   purge   - list without a lock, remove under it what is unchanged.       *)
(* A process may die at any step, which releases its lock, and any           *)
(* file-system call may fail.                                                *)
EXTENDS Naturals, FiniteSets

CONSTANTS Ids,         \* envelope ids
          Procs,       \* operator processes (dlq retry, dlq purge)
          Attempts,    \* names of attempt files in inbox/tmp
          None,
          MaxRetries,  \* fsq.MaxRetries
          CountBound   \* bound: forced retries stop here

States == {"ready", "pending", "delivered"}
Envelopes == [state : States, count : 0..CountBound]

ASSUME DeadLetterAssumption ==
  /\ MaxRetries \in Nat /\ CountBound \in Nat
  /\ None \notin Ids /\ None \notin Procs /\ None \notin Attempts /\ None \notin Envelopes

VARIABLES
  inew, icur,      \* the original is in inbox/new, in inbox/cur
  part, full,      \* its attempt files in inbox/tmp: partial, complete
  dnew, dcur,      \* [Ids -> Envelopes \cup {None}]: dlq/new, dlq/cur
  lock,            \* [Ids -> Procs \cup {None}]: holder of the envelope's flock
  cons,            \* the consumer's program counter
  pc, tgt, force,  \* each process: program counter, envelope, --force
  env,             \* the envelope in its memory
  own,             \* the attempt file it publishes
  sel,             \* a purge's candidates <<box, id, envelope seen>>
  born,            \* history: ids ever written
  gone,            \* history: ids a purge removed a copy of
  redelivered      \* history: per id, attempts its retries published

inbox == <<inew, icur, part, full>>
boxes == <<dnew, dcur>>
proc == <<pc, tgt, force, env, own, sel>>
history == <<born, gone, redelivered>>
vars == <<inbox, boxes, lock, cons, proc, history>>

Init ==
  /\ inew = TRUE /\ icur = FALSE /\ part = {} /\ full = {}
  /\ dnew = [e \in Ids |-> None] /\ dcur = [e \in Ids |-> None]
  /\ lock = [e \in Ids |-> None]
  /\ cons = "idle"
  /\ pc = [p \in Procs |-> "idle"] /\ tgt = [p \in Procs |-> None]
  /\ force = [p \in Procs |-> FALSE]
  /\ env = [p \in Procs |-> None] /\ own = [p \in Procs |-> None]
  /\ sel = [p \in Procs |-> {}]
  /\ born = {} /\ gone = {} /\ redelivered = [e \in Ids |-> 0]

-----------------------------------------------------------------------------
(* The consumer: claim, then ingest or move to the dead-letter queue *)

Claim ==
  /\ cons = "idle"
  /\ inew /\ ~icur
  /\ inew' = FALSE /\ icur' = TRUE
  /\ cons' = "held"
  /\ UNCHANGED <<part, full, boxes, lock, proc, history>>

\* Ingested, or the consumer died or gave up: the message stays in cur.
Keep ==
  /\ cons \in {"held", "source"}
  /\ cons' = "idle"
  /\ UNCHANGED <<inbox, boxes, lock, proc, history>>

\* moveInboxMessageToDLQ writes a fresh envelope ...
Bury(e) ==
  /\ cons = "held"
  /\ e \notin born
  /\ dnew' = [dnew EXCEPT ![e] = [state |-> "ready", count |-> 0]]
  /\ born' = born \cup {e}
  /\ cons' = "source"
  /\ UNCHANGED <<inbox, dcur, lock, proc, gone, redelivered>>

\* ... and then removes the claimed source.
RemoveSource ==
  /\ cons = "source"
  /\ icur' = FALSE
  /\ cons' = "idle"
  /\ UNCHANGED <<inew, part, full, boxes, lock, proc, history>>

-----------------------------------------------------------------------------
(* dlq retry *)

\* The process returns or dies; the kernel releases its lock.
Leave(p) ==
  /\ pc' = [pc EXCEPT ![p] = "idle"]
  /\ lock' = [e \in Ids |-> IF lock[e] = p THEN None ELSE lock[e]]
  /\ tgt' = [tgt EXCEPT ![p] = None]
  /\ force' = [force EXCEPT ![p] = FALSE]
  /\ env' = [env EXCEPT ![p] = None]
  /\ own' = [own EXCEPT ![p] = None]
  /\ sel' = [sel EXCEPT ![p] = {}]

Goto(p, where) ==
  /\ pc' = [pc EXCEPT ![p] = where]
  /\ UNCHANGED <<lock, tgt, force, own, sel>>

\* FindDLQMessage: cur is authoritative whenever both boxes hold the envelope.
Authority(e) == IF dcur[e] # None THEN dcur[e] ELSE dnew[e]

\* Take the lock, find and read the envelope, and remove the stale new copy of
\* one found in cur (reconcileDLQCurAuthorityLocked).  A delivered envelope is
\* terminal.
Find(p, e, f) ==
  /\ pc[p] = "idle" /\ lock[e] = None /\ Authority(e) # None
  /\ dnew' = IF dcur[e] # None THEN [dnew EXCEPT ![e] = None] ELSE dnew
  /\ Authority(e).state # "delivered"
  /\ lock' = [lock EXCEPT ![e] = p]
  /\ tgt' = [tgt EXCEPT ![p] = e]
  /\ force' = [force EXCEPT ![p] = f]
  /\ env' = [env EXCEPT ![p] = Authority(e)]
  /\ pc' = [pc EXCEPT ![p] = "statnew"]
  /\ UNCHANGED <<inbox, dcur, cons, own, sel, history>>

\* The same for a retry that ends here: the envelope is delivered already, or
\* the reconciled directories do not sync.  dlq read does no more than this to
\* an envelope found in cur.
Reconcile(e) ==
  /\ lock[e] = None /\ dcur[e] # None /\ dnew[e] # None
  /\ dnew' = [dnew EXCEPT ![e] = None]
  /\ UNCHANGED <<inbox, dcur, lock, cons, proc, history>>

\* Mutant: "delivered" is persisted before the delivery.
DecideDelivered(p, present) ==
  /\ env[p].state = "ready" /\ ~present /\ env[p].count < MaxRetries
  /\ env' = [env EXCEPT ![p] = [state |-> "delivered", count |-> @.count + 1]]
  /\ Goto(p, "update")

\* What the envelope's state, the original's presence and the retry count decide.
Decide(p, present) ==
  \/ /\ env[p].state = "pending" /\ present
     /\ env' = [env EXCEPT ![p].state = "delivered"]
     /\ Goto(p, "final")
  \/ /\ env[p].state = "pending" /\ ~present
     /\ Goto(p, "recover")
     /\ UNCHANGED env
  \/ /\ env[p].state = "ready"
     /\ present \/ (env[p].count >= MaxRetries /\ ~force[p])
     /\ Leave(p)
  \/ /\ env[p].state = "ready" /\ ~present
     /\ env[p].count < MaxRetries \/ force[p]
     /\ env[p].count < CountBound
     /\ env' = [env EXCEPT ![p] = [state |-> "pending", count |-> @.count + 1]]
     /\ Goto(p, "update")

\* The original is looked for in inbox/new first, then in inbox/cur.
StatNew(p) ==
  /\ pc[p] = "statnew"
  /\ IF inew THEN Decide(p, TRUE) ELSE Goto(p, "statcur") /\ UNCHANGED env
  /\ UNCHANGED <<inbox, boxes, cons, history>>

\* Mutant: only inbox/new is checked.
StatCurSkipped(p) ==
  /\ pc[p] = "statcur"
  /\ Decide(p, FALSE)
  /\ UNCHANGED <<inbox, boxes, cons, history>>

StatCur(p) ==
  /\ pc[p] = "statcur"
  /\ Decide(p, icur)
  /\ UNCHANGED <<inbox, boxes, cons, history>>

\* Mutant: the old copy is removed before the new one is written.
UpdateRemovesFirst(p, next) ==
  LET e == tgt[p]
  IN \/ /\ dcur' = [dcur EXCEPT ![e] = env[p]]
        /\ dnew' = [dnew EXCEPT ![e] = None]
        /\ IF next = "idle" THEN Leave(p)
           ELSE Goto(p, next) /\ UNCHANGED env
     \/ /\ dnew' = [dnew EXCEPT ![e] = None]
        /\ UNCHANGED dcur
        /\ Leave(p)

\* updateRetriedDLQEnvelope: replace the envelope in cur, then remove the copy
\* in new.  It may fail, or the process die, after either change.
updateRetriedDLQEnvelope(p, next) ==
  LET e == tgt[p]
  IN /\ dcur' = [dcur EXCEPT ![e] = env[p]]
     /\ \/ /\ dnew' = [dnew EXCEPT ![e] = None]
           /\ IF next = "idle" THEN Leave(p)
              ELSE Goto(p, next) /\ UNCHANGED env
        \/ /\ dnew' \in {dnew, [dnew EXCEPT ![e] = None]}
           /\ Leave(p)

\* Before delivering, the retry persists "pending" and the new count.
Update(p) ==
  /\ pc[p] = "update"
  /\ updateRetriedDLQEnvelope(p, "stage")
  /\ UNCHANGED <<inbox, cons, history>>

\* The last write: "delivered", or "ready" after a delivery that did not commit.
Finalize(p) ==
  /\ pc[p] = "final"
  /\ updateRetriedDLQEnvelope(p, "idle")
  /\ UNCHANGED <<inbox, cons, history>>

\* What the last write is going to say.
Settle(p, state) ==
  /\ env' = [env EXCEPT ![p].state = state]
  /\ pc' = [pc EXCEPT ![p] = "final"]
  /\ UNCHANGED <<lock, tgt, force, own, sel>>

\* DeliverToInbox: open an attempt file of a fresh name, ...
Stage(p) ==
  /\ pc[p] = "stage"
  /\ \E t \in Attempts \ (part \cup full \cup {own[q] : q \in Procs}) :
       /\ part' = part \cup {t}
       /\ own' = [own EXCEPT ![p] = t]
  /\ pc' = [pc EXCEPT ![p] = "write"]
  /\ UNCHANGED <<inew, icur, full, boxes, lock, cons, tgt, force, env, sel, history>>

\* ... complete it, ...
Write(p) ==
  /\ pc[p] = "write"
  /\ part' = part \ {own[p]}
  /\ full' = full \cup ({own[p]} \cap part)
  /\ Goto(p, "publish") /\ UNCHANGED env
  /\ UNCHANGED <<inew, icur, boxes, cons, history>>

\* (staging fails: the attempt file is removed, or stays behind)
StageFail(p) ==
  /\ pc[p] \in {"stage", "write"}
  /\ part' \in {part, part \ {own[p]}}
  /\ UNCHANGED <<inew, icur, full>>
  /\ Settle(p, "ready")
  /\ UNCHANGED <<boxes, cons, history>>

\* Rename the attempt into inbox/new; the name is free.
Renamed(p) ==
  /\ own[p] \in full /\ ~inew
  /\ inew' = TRUE
  /\ full' = full \ {own[p]}
  /\ redelivered' = [redelivered EXCEPT ![tgt[p]] = @ + 1]
  /\ UNCHANGED <<icur, part, born, gone>>

\* The name is taken by the same bytes: the attempt is redundant.
Redundant(p) ==
  /\ own[p] \in full /\ inew
  /\ full' = full \ {own[p]}
  /\ UNCHANGED <<inew, icur, part, history>>

\* ... publish it.  A failed sync of inbox/new is a committed delivery.
Publish(p) ==
  /\ pc[p] = "publish"
  /\ Renamed(p) \/ Redundant(p)
  /\ Settle(p, "delivered")
  /\ UNCHANGED <<boxes, cons>>

\* The attempt was swept or published by another retry, the rename failed, or
\* the file it collided with could not be read.
PublishFail(p) ==
  /\ pc[p] = "publish"
  /\ full' \in {full, full \ {own[p]}}
  /\ Settle(p, "ready")
  /\ UNCHANGED <<inew, icur, part, boxes, cons, history>>

\* recoverPendingInboxTmp: a pending retry without a visible destination picks
\* a retained complete attempt ...
Recover(p) ==
  /\ pc[p] = "recover"
  /\ \E t \in full : own' = [own EXCEPT ![p] = t]
  /\ pc' = [pc EXCEPT ![p] = "complete"]
  /\ UNCHANGED <<inbox, boxes, lock, cons, tgt, force, env, sel, history>>

\* ... and publishes it.
Complete(p) ==
  /\ pc[p] = "complete"
  /\ Renamed(p) \/ Redundant(p)
  /\ Settle(p, "delivered")
  /\ UNCHANGED <<boxes, cons>>

\* The process dies or returns an error: nothing retained, a failed stat, read,
\* write or rename.
Abort(p) ==
  /\ pc[p] # "idle"
  /\ Leave(p)
  /\ UNCHANGED <<inbox, boxes, cons, history>>

\* The rename fails otherwise, and cleanupTemp removes the attempt.
CompleteFail(p) ==
  /\ pc[p] = "complete"
  /\ full' = full \ {own[p]}
  /\ Leave(p)
  /\ UNCHANGED <<inew, icur, part, boxes, cons, history>>

-----------------------------------------------------------------------------
(* dlq read, dlq purge and cleanup *)

\* MoveDLQNewToCur of an envelope that is only in new.
Inspect(e) ==
  /\ lock[e] = None /\ dnew[e] # None /\ dcur[e] = None
  /\ dcur' = [dcur EXCEPT ![e] = dnew[e]]
  /\ dnew' = [dnew EXCEPT ![e] = None]
  /\ UNCHANGED <<inbox, lock, cons, proc, history>>

Listed(b, content) == {<<b, e, content[e]>> : e \in {i \in Ids : content[i] # None}}

\* runDLQPurge lists dlq/new and then dlq/cur, without a lock; --older-than and
\* unreadable entries leave some out.
PurgeListNew(p) ==
  /\ pc[p] = "idle"
  /\ sel' \in {[sel EXCEPT ![p] = s] : s \in SUBSET Listed("new", dnew)}
  /\ pc' = [pc EXCEPT ![p] = "list"]
  /\ UNCHANGED <<inbox, boxes, lock, cons, tgt, force, env, own, history>>

PurgeListCur(p) ==
  /\ pc[p] = "list"
  /\ sel' \in {[sel EXCEPT ![p] = @ \cup s] : s \in SUBSET Listed("cur", dcur)}
  /\ pc' = [pc EXCEPT ![p] = "purge"]
  /\ UNCHANGED <<inbox, boxes, lock, cons, tgt, force, env, own, history>>

\* Mutant: a purge removes whatever is under the listed name.
StillThere(x) == (IF x[1] = "new" THEN dnew[x[2]] ELSE dcur[x[2]]) # None

\* os.SameFile and the digest: every rewrite of an envelope is a new file with
\* another state or count.
UnchangedSince(x) == x[3] = IF x[1] = "new" THEN dnew[x[2]] ELSE dcur[x[2]]

\* removeSelectedDLQPurgeCandidate, in the order listed; a candidate that
\* changed is skipped, and so is one whose removal fails.
PurgeRemove(p, x) ==
  /\ pc[p] = "purge" /\ x \in sel[p]
  /\ x[1] = "cur" => \A y \in sel[p] : y[1] = "cur"
  /\ lock[x[2]] = None
  /\ \/ /\ UnchangedSince(x)
        /\ IF x[1] = "new" THEN dnew' = [dnew EXCEPT ![x[2]] = None] /\ UNCHANGED dcur
                           ELSE dcur' = [dcur EXCEPT ![x[2]] = None] /\ UNCHANGED dnew
        /\ gone' = gone \cup {x[2]}
     \/ UNCHANGED <<boxes, gone>>
  /\ sel' = [sel EXCEPT ![p] = @ \ {x}]
  /\ UNCHANGED <<inbox, lock, cons, pc, tgt, force, env, own, born, redelivered>>

PurgeEnd(p) ==
  /\ pc[p] = "purge" /\ sel[p] = {}
  /\ Leave(p)
  /\ UNCHANGED <<inbox, boxes, cons, history>>

\* amq cleanup --tmp-older-than.
Sweep(t) ==
  /\ t \in part \cup full
  /\ part' = part \ {t} /\ full' = full \ {t}
  /\ UNCHANGED <<inew, icur, boxes, lock, cons, proc, history>>

-----------------------------------------------------------------------------
Consumer == Claim \/ Keep \/ RemoveSource \/ \E e \in Ids : Bury(e)

Retry(p) ==
  \/ StatNew(p) \/ StatCur(p) \/ Update(p) \/ Finalize(p)
  \/ Stage(p) \/ Write(p) \/ StageFail(p) \/ Publish(p) \/ PublishFail(p)
  \/ Recover(p) \/ Complete(p) \/ CompleteFail(p)

Purge(p) == PurgeListNew(p) \/ PurgeListCur(p) \/ (\E x \in sel[p] : PurgeRemove(p, x)) \/ PurgeEnd(p)

Next ==
  \/ Consumer
  \/ \E p \in Procs : Retry(p) \/ Purge(p) \/ Abort(p)
  \/ \E p \in Procs, e \in Ids, f \in BOOLEAN : Find(p, e, f)
  \/ \E e \in Ids : Reconcile(e) \/ Inspect(e)
  \/ \E t \in Attempts : Sweep(t)

Spec == Init /\ [][Next]_vars

-----------------------------------------------------------------------------
(* Properties *)

\* Every variable stays within the values files and processes can have.
TypeOK ==
  /\ inew \in BOOLEAN /\ icur \in BOOLEAN
  /\ part \subseteq Attempts /\ full \subseteq Attempts
  /\ dnew \in [Ids -> Envelopes \cup {None}] /\ dcur \in [Ids -> Envelopes \cup {None}]
  /\ lock \in [Ids -> Procs \cup {None}]
  /\ cons \in {"idle", "held", "source"}
  /\ pc \in [Procs -> {"idle", "statnew", "statcur", "update", "stage", "write", "publish",
                       "final", "recover", "complete", "list", "purge"}]
  /\ tgt \in [Procs -> Ids \cup {None}]
  /\ force \in [Procs -> BOOLEAN]
  /\ env \in [Procs -> Envelopes \cup {None}]
  /\ own \in [Procs -> Attempts \cup {None}]
  /\ sel \in [Procs -> SUBSET ({"new", "cur"} \X Ids \X Envelopes)]
  /\ born \subseteq Ids /\ gone \subseteq Ids
  /\ redelivered \in [Ids -> Nat]

\* The original survives every crash and failure until an operator purges an
\* envelope: it is in the inbox or in an envelope.
OriginalKept ==
  gone = {} => inew \/ icur \/ \E e \in Ids : Authority(e) # None

\* "Normal AMQ flows never hold the same filename in both inbox/new and
\* inbox/cur - a committed claim removes new, and DLQ retry refuses redelivery
\* while a retained cur exists" (claim_rename.go).
NeverBothBoxes == ~(inew /\ icur)

\* While an original has a single envelope, its retries publish it at most once,
\* however many processes retry it, die and recover, and never beside a copy
\* that a partial transition left in inbox/cur ("metadata failures cannot
\* duplicate retry delivery", dlq.go).
RedeliveredOnce ==
  Cardinality(born) = 1 /\ gone = {} =>
    NeverBothBoxes /\ \A e \in Ids : redelivered[e] <= 1

\* A terminal audit is true: an envelope that says "delivered" has seen its
\* original published again, by its own retry or by that of another envelope.
DeliveredTrue ==
  \A e \in Ids : Authority(e) # None /\ Authority(e).state = "delivered" =>
    \E d \in Ids : redelivered[d] >= 1

\* The box FindDLQMessage finds an envelope in.
FoundIn(e) == IF dcur[e] # None THEN "cur" ELSE "new"

\* "a stale pre-update envelope cannot hide a completed retry audit or a newer
\* retry count" (dlq.go): what FindDLQMessage finds never goes back.  Only a purge
\* takes an audit away, and then exactly the one it listed before it asked, never
\* one that a retry wrote meanwhile or still works on (os.SameFile, the digest and
\* the lock in removeSelectedDLQPurgeCandidate).
AuditMonotone ==
  [][\A e \in Ids : Authority(e) # None =>
       \/ /\ Authority(e)' # None
          /\ Authority(e)'.count >= Authority(e).count
          /\ Authority(e).state = "delivered" => Authority(e)'.state = "delivered"
       \/ /\ \E p \in Procs : <<FoundIn(e), e, Authority(e)>> \in sel[p]
          /\ \A q \in Procs : tgt[q] = e => pc[q] \in {"idle", "list", "purge"}]_vars
=============================================================================
