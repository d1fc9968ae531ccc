-------------------------- MODULE DeadLetterProofs --------------------------
(* What DeadLetter guarantees for any number of envelopes, operator          *)
(* processes and attempt files: the original is never lost, an audit never   *)
(* goes back and never claims a delivery that did not happen, and one        *)
(* envelope is redelivered at most once.                                     *)
EXTENDS DeadLetter, FiniteSetTheorems, TLAPS

\* A leaf that names no prover is Zenon's.
USE ZenonT(60)

\* The steps of a retry between its lock and its return.
Delivering == {"update", "stage", "write", "publish", "recover", "complete"}
Working == Delivering \cup {"statnew", "statcur", "final"}

\* A working retry holds the lock of its envelope, knows its content, and has
\* "pending" in hand from the decision to deliver until the outcome is known.
Held ==
  \A p \in Procs :
    /\ pc[p] \in Working => tgt[p] \in Ids /\ lock[tgt[p]] = p /\ env[p] \in Envelopes
    /\ pc[p] \in Delivering => env[p].state = "pending"

\* Under the lock the audit on disk stays behind the one in hand, and it is not
\* terminal: the lock keeps purges, inspections and other retries away.
Behind ==
  \A p \in Procs : pc[p] \in Working =>
    /\ Authority(tgt[p]) # None
    /\ Authority(tgt[p]).state # "delivered"
    /\ Authority(tgt[p]).count <= env[p].count

\* Envelopes come from the consumer, and only a purge takes one away; the source
\* is removed after its envelope is written.
Recorded ==
  /\ IsFiniteSet(born)
  /\ \A e \in Ids : Authority(e) # None \/ redelivered[e] # 0 => e \in born
  /\ gone = {} => \A e \in born : Authority(e) # None
  /\ born = {} => inew \/ icur
  /\ cons = "source" => born # {}
  /\ cons # "idle" => icur

\* Some retry has published the original again.
Seen == \E d \in Ids : redelivered[d] >= 1

\* What an envelope may say as long as no retry has published.
Honest(v) ==
  v # None => v.state # "delivered" /\ (v.state = "pending" => ~inew /\ ~icur)

\* Until a retry publishes, nothing says "delivered", and "pending" was written
\* by someone who found the original in neither box: it cannot come back
\* unless a retry publishes it.
Truthful ==
  Seen \/ /\ \A e \in Ids : Honest(dnew[e]) /\ Honest(dcur[e])
          /\ \A p \in Procs : Honest(env[p]) /\ (pc[p] = "statcur" => ~inew)

\* One envelope at most, and no purge so far.
Alone == gone = {} /\ \A d, e \in born : d = e

\* With a single envelope at most one retry works; while it delivers, the
\* original is in neither box, and once it is published it stays in one.
Single ==
  Alone =>
    /\ ~(inew /\ icur)
    /\ \A e \in Ids : redelivered[e] <= 1 /\ (redelivered[e] = 1 => inew \/ icur)
    /\ cons = "source" => \A e \in Ids : redelivered[e] = 0
    /\ \A p \in Procs : pc[p] \in Delivering => ~inew /\ ~icur
    /\ \A p \in Procs : pc[p] = "statcur" => ~inew

IInv == TypeOK /\ Held /\ Behind /\ Recorded /\ Truthful /\ Single

-----------------------------------------------------------------------------
(* Types *)

\* What is known of an envelope, and of one whose state or count moved.
LEMMA EnvelopeTyped ==
  ASSUME NEW v \in Envelopes
  PROVE  /\ v # None /\ v.state \in States /\ v.count \in 0..CountBound /\ v.count \in Nat
         /\ \A s \in States : /\ [v EXCEPT !.state = s] \in Envelopes
                              /\ [v EXCEPT !.state = s].state = s
                              /\ [v EXCEPT !.state = s].count = v.count
         /\ v.count < CountBound => [state |-> "pending", count |-> v.count + 1] \in Envelopes
  BY DeadLetterAssumption, SMTT(20) DEF Envelopes, States

\* None is neither a process nor a dead letter.
LEMMA NoneApart == None \notin Procs /\ None \notin Ids
  BY DeadLetterAssumption

\* A new dead letter is written with no retries.
LEMMA FreshTyped == [state |-> "ready", count |-> 0] \in Envelopes
  BY DeadLetterAssumption, SMTT(20) DEF Envelopes, States

\* The variables of the processes, the locks included, stay typed.
ProcTypes ==
  /\ lock \in [Ids -> Procs \cup {None}]
  /\ pc \in [Procs -> {"idle", "statnew", "statcur", "update", "stage", "write", "publish",
                       "final", "recover", "complete", "list", "purge"}]
  /\ tgt \in [Procs -> Ids \cup {None}]
  /\ force \in [Procs -> BOOLEAN]
  /\ env \in [Procs -> Envelopes \cup {None}]
  /\ own \in [Procs -> Attempts \cup {None}]
  /\ sel \in [Procs -> SUBSET ({"new", "cur"} \X Ids \X Envelopes)]

FileTypes ==
  /\ inew \in BOOLEAN /\ icur \in BOOLEAN
  /\ part \subseteq Attempts /\ full \subseteq Attempts
  /\ dnew \in [Ids -> Envelopes \cup {None}] /\ dcur \in [Ids -> Envelopes \cup {None}]
  /\ cons \in {"idle", "held", "source"}
  /\ born \subseteq Ids /\ gone \subseteq Ids
  /\ redelivered \in [Ids -> Nat]

\* What a retry takes as the record is an envelope.
LEMMA AuthorityTyped ==
  ASSUME TypeOK, NEW e \in Ids, Authority(e) # None
  PROVE  Authority(e) \in Envelopes /\ Authority(e).count \in Nat
<1>1. Authority(e) \in Envelopes
  BY DEF TypeOK, Authority
<1> QED
  BY <1>1, EnvelopeTyped

\* The type invariant in two parts.
LEMMA TwoTypes == TypeOK <=> ProcTypes /\ FileTypes
  BY DEF TypeOK, ProcTypes, FileTypes

\* A command that ends gives its lock back.
LEMMA LeaveTypes ==
  ASSUME ProcTypes, NEW p \in Procs, Leave(p)
  PROVE  ProcTypes'
  BY DEF ProcTypes, Leave

\* A command that goes on keeps its dead letter and its lock.
LEMMA GotoTypes ==
  ASSUME ProcTypes, NEW p \in Procs,
         NEW where \in {"statcur", "update", "stage", "publish", "final", "recover"},
         Goto(p, where), env' \in [Procs -> Envelopes \cup {None}]
  PROVE  ProcTypes'
  BY DEF ProcTypes, Goto

\* The decision after a look at the inbox.
LEMMA DecideTypes ==
  ASSUME ProcTypes, Held, NEW p \in Procs, NEW present, Decide(p, present), pc[p] \in Working
  PROVE  ProcTypes'
<1>1. env[p] \in Envelopes
  BY DEF Held
<1>2. CASE Leave(p)
  BY <1>2, LeaveTypes
<1>3. CASE /\ env' = [env EXCEPT ![p].state = "delivered"]
           /\ Goto(p, "final")
  <2>1. env' \in [Procs -> Envelopes \cup {None}]
    BY <1>1, <1>3, EnvelopeTyped DEF ProcTypes, States
  <2> QED
    BY <1>3, <2>1, GotoTypes
<1>4. CASE Goto(p, "recover") /\ UNCHANGED env
  BY <1>4, GotoTypes DEF ProcTypes
<1>5. CASE /\ env[p].count < CountBound
           /\ env' = [env EXCEPT ![p] = [state |-> "pending", count |-> @.count + 1]]
           /\ Goto(p, "update")
  <2>1. env' \in [Procs -> Envelopes \cup {None}]
    BY <1>1, <1>5, EnvelopeTyped DEF ProcTypes
  <2> QED
    BY <1>5, <2>1, GotoTypes
<1> QED
  BY <1>2, <1>3, <1>4, <1>5 DEF Decide

\* The state a retry will record.
LEMMA SettleTypes ==
  ASSUME ProcTypes, Held, NEW p \in Procs, NEW s \in States, Settle(p, s), pc[p] \in Working
  PROVE  ProcTypes'
<1>1. env[p] \in Envelopes
  BY DEF Held
<1>2. env' \in [Procs -> Envelopes \cup {None}]
  BY <1>1, EnvelopeTyped DEF ProcTypes, Settle
<1> QED
  BY <1>2 DEF ProcTypes, Settle

\* The rewrite of an envelope, which ends up in cur.
LEMMA UpdateTypes ==
  ASSUME ProcTypes, FileTypes, Held, NEW p \in Procs, pc[p] \in Working,
         NEW next \in {"stage", "idle"}, updateRetriedDLQEnvelope(p, next)
  PROVE  /\ ProcTypes'
         /\ dnew' \in [Ids -> Envelopes \cup {None}] /\ dcur' \in [Ids -> Envelopes \cup {None}]
<1>1. env[p] \in Envelopes /\ tgt[p] \in Ids
  BY DEF Held
<1>2. dnew' \in [Ids -> Envelopes \cup {None}] /\ dcur' \in [Ids -> Envelopes \cup {None}]
  BY <1>1 DEF updateRetriedDLQEnvelope, FileTypes
<1>3. Leave(p) \/ (next = "stage" /\ Goto(p, "stage") /\ UNCHANGED env)
  BY DEF updateRetriedDLQEnvelope
<1>4. ProcTypes'
  <2>1. CASE Leave(p)
    BY <2>1, LeaveTypes
  <2>2. CASE Goto(p, "stage") /\ UNCHANGED env
    BY <2>2, GotoTypes DEF ProcTypes
  <2> QED
    BY <1>3, <2>1, <2>2
<1> QED
  BY <1>2, <1>4

\* Every step of a retry.
LEMMA RetryTypes ==
  ASSUME ProcTypes, FileTypes, Held, NEW p \in Procs, Retry(p)
  PROVE  ProcTypes' /\ FileTypes'
<1> USE DEF inbox, boxes, history, Working, Delivering
<1>1. CASE StatNew(p)
  <2>1. FileTypes'
    BY <1>1 DEF StatNew, FileTypes
  <2>2. CASE inew
    BY <1>1, <2>1, <2>2, DecideTypes DEF StatNew
  <2>3. CASE ~inew
    BY <1>1, <2>1, <2>3, GotoTypes DEF StatNew, ProcTypes
  <2> QED
    BY <2>2, <2>3
<1>2. CASE StatCur(p)
  BY <1>2, DecideTypes DEF StatCur, FileTypes
<1>3. CASE Update(p)
  <2>1. ProcTypes' /\ dnew' \in [Ids -> Envelopes \cup {None}] /\ dcur' \in [Ids -> Envelopes \cup {None}]
    BY <1>3, UpdateTypes DEF Update
  <2> QED
    BY <1>3, <2>1 DEF Update, FileTypes
<1>4. CASE Finalize(p)
  <2>1. ProcTypes' /\ dnew' \in [Ids -> Envelopes \cup {None}] /\ dcur' \in [Ids -> Envelopes \cup {None}]
    BY <1>4, UpdateTypes DEF Finalize
  <2> QED
    BY <1>4, <2>1 DEF Finalize, FileTypes
<1>5. CASE Stage(p)
  BY <1>5, SMTT(20) DEF Stage, ProcTypes, FileTypes
<1>6. CASE Write(p)
  <2>1. ProcTypes'
    BY <1>6, GotoTypes DEF Write, ProcTypes
  <2> QED
    BY <1>6, <2>1 DEF Write, FileTypes
<1>7. CASE StageFail(p)
  <2>1. ProcTypes'
    BY <1>7, SettleTypes DEF StageFail, States
  <2> QED
    BY <1>7, <2>1 DEF StageFail, FileTypes
<1>8. CASE Publish(p) \/ Complete(p)
  <2>1. ProcTypes'
    BY <1>8, SettleTypes DEF Publish, Complete, States
  <2>2. tgt[p] \in Ids
    BY <1>8 DEF Publish, Complete, Held
  <2> QED
    <3>1. CASE Renamed(p)
      BY <1>8, <2>1, <2>2, <3>1, SMTT(20) DEF Publish, Complete, Renamed, FileTypes
    <3>2. CASE Redundant(p)
      BY <1>8, <2>1, <3>2 DEF Publish, Complete, Redundant, FileTypes
    <3> QED
      BY <1>8, <3>1, <3>2 DEF Publish, Complete
<1>9. CASE PublishFail(p)
  <2>1. ProcTypes'
    BY <1>9, SettleTypes DEF PublishFail, States
  <2> QED
    BY <1>9, <2>1 DEF PublishFail, FileTypes
<1>10. CASE Recover(p)
  BY <1>10 DEF Recover, ProcTypes, FileTypes
<1>11. CASE CompleteFail(p)
  BY <1>11, LeaveTypes DEF CompleteFail, FileTypes
<1> QED
  BY <1>1, <1>2, <1>3, <1>4, <1>5, <1>6, <1>7, <1>8, <1>9, <1>10, <1>11 DEF Retry

\* Every step of a purge.
LEMMA PurgeTypes ==
  ASSUME ProcTypes, FileTypes, NEW p \in Procs, Purge(p)
  PROVE  ProcTypes' /\ FileTypes'
<1> USE DEF inbox, boxes, history
<1>1. CASE PurgeListNew(p)
  <2>1. Listed("new", dnew) \subseteq {"new", "cur"} \X Ids \X Envelopes
    BY SMTT(20) DEF Listed, FileTypes
  <2> QED
    BY <1>1, <2>1 DEF PurgeListNew, ProcTypes, FileTypes
<1>2. CASE PurgeListCur(p)
  <2>1. Listed("cur", dcur) \subseteq {"new", "cur"} \X Ids \X Envelopes
    BY SMTT(20) DEF Listed, FileTypes
  <2> QED
    BY <1>2, <2>1, SMTT(20) DEF PurgeListCur, ProcTypes, FileTypes
<1>3. ASSUME NEW x \in sel[p], PurgeRemove(p, x)
      PROVE  ProcTypes' /\ FileTypes'
  <2>1. x[2] \in Ids
    BY SMTT(20) DEF ProcTypes
  <2>2. ProcTypes'
    BY <1>3 DEF PurgeRemove, ProcTypes
  <2>3. FileTypes'
    BY <1>3, <2>1 DEF PurgeRemove, FileTypes
  <2> QED
    BY <2>2, <2>3
<1>4. CASE PurgeEnd(p)
  BY <1>4, LeaveTypes DEF PurgeEnd, FileTypes
<1> QED
  BY <1>1, <1>2, <1>3, <1>4 DEF Purge

\* Every step of the system keeps the types.
LEMMA TypeStep ==
  ASSUME TypeOK, Held, [Next]_vars
  PROVE  TypeOK'
<1> USE DEF inbox, boxes, history, proc
<1>0. ProcTypes /\ FileTypes
  BY TwoTypes
<1>1. ASSUME Consumer
      PROVE  ProcTypes' /\ FileTypes'
  <2>1. ProcTypes'
    BY <1>0, <1>1 DEF Consumer, Claim, Keep, Bury, RemoveSource, ProcTypes
  <2>2. FileTypes'
    <3>1. CASE Claim \/ Keep \/ RemoveSource
      BY <1>0, <3>1 DEF Claim, Keep, RemoveSource, FileTypes
    <3>2. ASSUME NEW e \in Ids, Bury(e)
          PROVE  FileTypes'
      BY <1>0, <3>2, FreshTyped DEF Bury, FileTypes
    <3> QED
      BY <1>1, <3>1, <3>2 DEF Consumer
  <2> QED
    BY <2>1, <2>2
<1>2. ASSUME NEW p \in Procs, Retry(p) \/ Purge(p) \/ Abort(p)
      PROVE  ProcTypes' /\ FileTypes'
  <2>1. CASE Abort(p)
    BY <1>0, <2>1, LeaveTypes DEF Abort, FileTypes
  <2> QED
    BY <1>0, <1>2, <2>1, RetryTypes, PurgeTypes
<1>3. ASSUME NEW p \in Procs, NEW e \in Ids, NEW f \in BOOLEAN, Find(p, e, f)
      PROVE  ProcTypes' /\ FileTypes'
  <2>1. Authority(e) \in Envelopes
    BY <1>0, <1>3 DEF Find, Authority, FileTypes
  <2> QED
    BY <1>0, <1>3, <2>1 DEF Find, ProcTypes, FileTypes
<1>4. ASSUME NEW e \in Ids, Reconcile(e) \/ Inspect(e)
      PROVE  ProcTypes' /\ FileTypes'
  BY <1>0, <1>4 DEF Reconcile, Inspect, ProcTypes, FileTypes
<1>5. ASSUME NEW t \in Attempts, Sweep(t)
      PROVE  ProcTypes' /\ FileTypes'
  BY <1>0, <1>5 DEF Sweep, ProcTypes, FileTypes
<1>6. ASSUME UNCHANGED vars
      PROVE  ProcTypes' /\ FileTypes'
  <2>1. UNCHANGED <<inbox, boxes, cons, history>> /\ UNCHANGED <<lock, proc>>
    BY <1>6 DEF vars
  <2>2. ProcTypes'
    BY <1>0, <2>1 DEF ProcTypes
  <2>3. FileTypes'
    BY <1>0, <2>1 DEF FileTypes
  <2> QED
    BY <2>2, <2>3
<1>7. TypeOK' <=> ProcTypes' /\ FileTypes'
  BY DEF TypeOK, ProcTypes, FileTypes
<1> QED
  BY <1>1, <1>2, <1>3, <1>4, <1>5, <1>6, <1>7 DEF Next

-----------------------------------------------------------------------------
(* What a step of a retry does, by kinds *)

\* The retry goes on with v in hand; the dead-letter boxes and the consumer's
\* side stay as they are.
Turns(p, where, v) ==
  /\ pc' = [pc EXCEPT ![p] = where]
  /\ env' = [env EXCEPT ![p] = v]
  /\ UNCHANGED <<lock, tgt, dnew, dcur, cons, icur, born, gone>>

\* ... and so does inbox/new: a look, a decision, staging, a failure.
Thinks(p, where, v) == Turns(p, where, v) /\ UNCHANGED <<inew, redelivered>>

\* The original is not in inbox/new.
Looks(p) == pc[p] = "statnew" /\ ~inew /\ Thinks(p, "statcur", env[p])

\* It is in neither box: resume a pending delivery or start one.
Misses(p) ==
  /\ pc[p] = "statcur" /\ ~icur
  /\ \/ env[p].state = "pending" /\ Thinks(p, "recover", env[p])
     \/ /\ env[p].state = "ready" /\ env[p].count < CountBound
        /\ Thinks(p, "update", [state |-> "pending", count |-> env[p].count + 1])

Works(p) ==
  /\ pc[p] \in Delivering
  /\ \E where \in Delivering : Thinks(p, where, env[p])

Fails(p) == pc[p] \in Delivering /\ Thinks(p, "final", [env[p] EXCEPT !.state = "ready"])

\* A pending delivery finds the original there.
Meets(p) ==
  /\ \/ pc[p] = "statnew" /\ inew
     \/ pc[p] = "statcur" /\ icur
     \/ pc[p] \in Delivering /\ inew
  /\ env[p].state = "pending"
  /\ Thinks(p, "final", [env[p] EXCEPT !.state = "delivered"])

Publishes(p) ==
  /\ pc[p] \in Delivering /\ ~inew
  /\ inew' = TRUE
  /\ redelivered' = [redelivered EXCEPT ![tgt[p]] = @ + 1]
  /\ Turns(p, "final", [env[p] EXCEPT !.state = "delivered"])

Frees(p) ==
  /\ pc' = [pc EXCEPT ![p] = "idle"]
  /\ lock' = [e \in Ids |-> IF lock[e] = p THEN None ELSE lock[e]]
  /\ tgt' = [tgt EXCEPT ![p] = None]
  /\ env' = [env EXCEPT ![p] = None]

Rests(p) == Frees(p) /\ UNCHANGED <<inew, icur, dnew, dcur, cons, born, gone, redelivered>>

\* The envelope in hand becomes the authority.
Saves(p) ==
  /\ pc[p] \in {"update", "final"}
  /\ dcur' = [dcur EXCEPT ![tgt[p]] = env[p]]
  /\ dnew' \in {dnew, [dnew EXCEPT ![tgt[p]] = None]}
  /\ \/ Frees(p)
     \/ /\ pc[p] = "update" /\ pc' = [pc EXCEPT ![p] = "stage"]
        /\ UNCHANGED <<lock, tgt, env>>
  /\ UNCHANGED <<inew, icur, cons, born, gone, redelivered>>

\* What a lookup decides: nothing that was not seen.
LEMMA DecideEffect ==
  ASSUME NEW p \in Procs, ProcTypes, NEW present, Decide(p, present),
         present => (pc[p] = "statnew" /\ inew) \/ (pc[p] = "statcur" /\ icur),
         ~present => pc[p] = "statcur" /\ ~icur,
         UNCHANGED <<inbox, boxes, cons, history>>
  PROVE  Misses(p) \/ Meets(p) \/ Rests(p)
<1> USE DEF inbox, boxes, history
<1>1. CASE Leave(p)
  BY <1>1 DEF Leave, Frees, Rests
<1>2. CASE /\ env[p].state = "pending" /\ present
           /\ env' = [env EXCEPT ![p].state = "delivered"]
           /\ Goto(p, "final")
  BY <1>2 DEF Goto, Meets, Thinks, Turns
<1>3. CASE /\ env[p].state = "pending" /\ ~present
           /\ Goto(p, "recover") /\ UNCHANGED env
  <2>1. env' = [env EXCEPT ![p] = env[p]]
    BY <1>3 DEF ProcTypes
  <2> QED
    BY <1>3, <2>1 DEF Goto, Misses, Thinks, Turns
<1>4. CASE /\ env[p].state = "ready" /\ ~present /\ env[p].count < CountBound
           /\ env' = [env EXCEPT ![p] = [state |-> "pending", count |-> @.count + 1]]
           /\ Goto(p, "update")
  BY <1>4 DEF Goto, Misses, Thinks, Turns
<1> QED
  BY <1>1, <1>2, <1>3, <1>4 DEF Decide

\* The rewrite of an envelope is the Saves kind.
LEMMA UpdateEffect ==
  ASSUME NEW p \in Procs, NEW next,
         \/ pc[p] = "update" /\ next = "stage"
         \/ pc[p] = "final" /\ next = "idle",
         updateRetriedDLQEnvelope(p, next), UNCHANGED <<inbox, cons, history>>
  PROVE  Saves(p)
<1>1. /\ dcur' = [dcur EXCEPT ![tgt[p]] = env[p]]
      /\ dnew' \in {dnew, [dnew EXCEPT ![tgt[p]] = None]}
      /\ Leave(p) \/ (next = "stage" /\ Goto(p, "stage") /\ UNCHANGED env)
  BY DEF updateRetriedDLQEnvelope
<1>2. Frees(p) \/ (pc[p] = "update" /\ pc' = [pc EXCEPT ![p] = "stage"] /\ UNCHANGED <<lock, tgt, env>>)
  BY <1>1 DEF Leave, Goto, Frees
<1> QED
  BY <1>1, <1>2 DEF Saves, inbox, history

\* Every step of a retry is of one of eight kinds.
LEMMA RetryEffect ==
  ASSUME ProcTypes, Held, NEW p \in Procs, Retry(p)
  PROVE  \/ Looks(p) \/ Misses(p) \/ Works(p) \/ Fails(p) \/ Meets(p)
         \/ Publishes(p) \/ Rests(p) \/ Saves(p)
<1> USE DEF inbox, boxes, history
<1>0. env = [env EXCEPT ![p] = env[p]]
  BY DEF ProcTypes
<1>1. CASE StatNew(p)
  <2>1. CASE inew
    <3>1. Decide(p, TRUE)
      BY <1>1, <2>1 DEF StatNew
    <3> QED
      BY <1>1, <2>1, <3>1, DecideEffect DEF StatNew
  <2>2. CASE ~inew
    BY <1>0, <1>1, <2>2 DEF StatNew, Goto, Looks, Thinks, Turns
  <2> QED
    BY <2>1, <2>2
<1>2. CASE StatCur(p)
  <2>1. Decide(p, icur)
    BY <1>2 DEF StatCur
  <2> QED
    BY <1>2, <2>1, DecideEffect DEF StatCur
<1>3. CASE Update(p)
  BY <1>3, UpdateEffect DEF Update
<1>4. CASE Finalize(p)
  BY <1>4, UpdateEffect DEF Finalize
<1>5. CASE Stage(p) \/ Write(p) \/ Recover(p)
  <2>1. \E where \in Delivering : Thinks(p, where, env[p])
    BY <1>0, <1>5 DEF Stage, Write, Recover, Goto, Thinks, Turns, Delivering
  <2> QED
    BY <1>5, <2>1 DEF Stage, Write, Recover, Works, Delivering
<1>6. CASE StageFail(p) \/ PublishFail(p)
  BY <1>6 DEF StageFail, PublishFail, Settle, Fails, Thinks, Turns, Delivering
<1>7. CASE Publish(p) \/ Complete(p)
  <2>1. pc[p] \in Delivering /\ env[p].state = "pending"
    BY <1>7 DEF Publish, Complete, Delivering, Held
  <2>2. CASE Renamed(p)
    BY <1>7, <2>1, <2>2 DEF Publish, Complete, Settle, Renamed, Publishes, Turns
  <2>3. CASE Redundant(p)
    BY <1>7, <2>1, <2>3 DEF Publish, Complete, Settle, Redundant, Meets, Thinks, Turns
  <2> QED
    BY <1>7, <2>2, <2>3 DEF Publish, Complete
<1>8. CASE CompleteFail(p)
  BY <1>8 DEF CompleteFail, Leave, Frees, Rests
<1> QED
  BY <1>1, <1>2, <1>3, <1>4, <1>5, <1>6, <1>7, <1>8 DEF Retry

\* A process starts or continues a purge.
Lists(p) ==
  /\ pc[p] \in {"idle", "list"}
  /\ pc' \in {[pc EXCEPT ![p] = "list"], [pc EXCEPT ![p] = "purge"]}
  /\ UNCHANGED <<inew, icur, dnew, dcur, lock, cons, tgt, env, born, gone, redelivered>>

\* A copy of an envelope that no retry holds goes away: its stale copy in new,
\* or, by a purge, any copy.
Trims(e) ==
  /\ lock[e] = None /\ dcur[e] # None
  /\ dnew' = [dnew EXCEPT ![e] = None]
  /\ UNCHANGED <<inew, icur, dcur, lock, cons, pc, tgt, env, born, gone, redelivered>>

Shifts(e) ==
  /\ lock[e] = None /\ dnew[e] # None /\ dcur[e] = None
  /\ dcur' = [dcur EXCEPT ![e] = dnew[e]]
  /\ dnew' = [dnew EXCEPT ![e] = None]
  /\ UNCHANGED <<inew, icur, lock, cons, pc, tgt, env, born, gone, redelivered>>

Purges(e) ==
  /\ lock[e] = None
  /\ \/ dnew' = [dnew EXCEPT ![e] = None] /\ UNCHANGED dcur
     \/ dcur' = [dcur EXCEPT ![e] = None] /\ UNCHANGED dnew
  /\ gone' = gone \cup {e}
  /\ UNCHANGED <<inew, icur, lock, cons, pc, tgt, env, born, redelivered>>

Purged == \E p \in Procs : \E x \in sel[p] : PurgeRemove(p, x)

Idles == UNCHANGED <<inew, icur, dnew, dcur, lock, cons, pc, tgt, env, born, gone, redelivered>>

\* The kinds of steps.
LEMMA StepEffect ==
  ASSUME ProcTypes, Held, [Next]_vars
  PROVE  \/ Consumer \/ Idles
         \/ \E p \in Procs : \/ Looks(p) \/ Misses(p) \/ Works(p) \/ Fails(p) \/ Meets(p)
                             \/ Publishes(p) \/ Rests(p) \/ Saves(p) \/ Lists(p)
         \/ \E p \in Procs, e \in Ids, f \in BOOLEAN : Find(p, e, f)
         \/ \E e \in Ids : Trims(e) \/ Shifts(e) \/ (Purges(e) /\ Purged)
<1> USE DEF inbox, boxes, history, proc
<1>1. ASSUME NEW p \in Procs, Abort(p) \/ PurgeEnd(p)
      PROVE  Rests(p)
  BY <1>1 DEF Abort, PurgeEnd, Leave, Frees, Rests
<1>2. ASSUME NEW p \in Procs, PurgeListNew(p) \/ PurgeListCur(p)
      PROVE  Lists(p)
  BY <1>2 DEF PurgeListNew, PurgeListCur, Lists
<1>3. ASSUME NEW p \in Procs, NEW x \in sel[p], PurgeRemove(p, x)
      PROVE  Idles \/ \E e \in Ids : Purges(e) /\ Purged
  <2>1. x[2] \in Ids
    BY SMTT(20) DEF ProcTypes
  <2>2. Idles \/ Purges(x[2])
    BY <1>3 DEF PurgeRemove, Idles, Purges
  <2>3. Purged
    BY <1>3 DEF Purged
  <2> QED
    BY <2>1, <2>2, <2>3
<1>4. ASSUME NEW e \in Ids, Reconcile(e) \/ Inspect(e)
      PROVE  Trims(e) \/ Shifts(e)
  BY <1>4 DEF Reconcile, Inspect, Trims, Shifts
<1>5. ASSUME NEW t \in Attempts, Sweep(t)
      PROVE  Idles
  BY <1>5 DEF Sweep, Idles
<1>6. CASE UNCHANGED vars
  BY <1>6 DEF vars, Idles
<1>7. ASSUME NEW p \in Procs, Retry(p)
      PROVE  \/ Looks(p) \/ Misses(p) \/ Works(p) \/ Fails(p) \/ Meets(p)
             \/ Publishes(p) \/ Rests(p) \/ Saves(p)
  BY <1>7, RetryEffect
<1> QED
  BY <1>1, <1>2, <1>3, <1>4, <1>5, <1>6, <1>7 DEF Next, Purge

-----------------------------------------------------------------------------
(* The invariant, kind by kind *)

\* A working retry holds the lock of its dead letter, which is there.
LEMMA WorkingTarget ==
  ASSUME IInv, NEW p \in Procs, pc[p] \in Working
  PROVE  /\ tgt[p] \in Ids /\ lock[tgt[p]] = p /\ env[p] \in Envelopes
         /\ Authority(tgt[p]) # None
         /\ tgt[p] \in born
  BY DEF IInv, Held, Behind, Recorded

\* The lock makes a retry the only one at work on its envelope.
LEMMA OneWorker ==
  ASSUME IInv, NEW p \in Procs, NEW q \in Procs, pc[p] \in Working, pc[q] \in Working,
         tgt[p] = tgt[q]
  PROVE  p = q
  BY WorkingTarget

\* With one dead letter at work, there is one worker.
LEMMA OneWorkerAlone ==
  ASSUME IInv, Alone, NEW p \in Procs, NEW q \in Procs, pc[p] \in Working, pc[q] \in Working
  PROVE  p = q
  BY WorkingTarget DEF Alone

\* A worker that turns to its next step keeps what it holds.
LEMMA TurnKeeps ==
  ASSUME IInv, NEW p \in Procs, NEW where \in Working, NEW v \in Envelopes,
         pc[p] \in Working, Turns(p, where, v), v.count >= env[p].count,
         where \in Delivering => v.state = "pending"
  PROVE  Held' /\ Behind'
<1>1. \A q \in Procs : /\ tgt'[q] = tgt[q]
                       /\ q # p => pc'[q] = pc[q] /\ env'[q] = env[q]
      /\ pc'[p] = where /\ env'[p] = v
  BY DEF Turns, IInv, TypeOK
<1>2. Held'
  BY <1>1, SMTT(20) DEF Turns, IInv, Held
<1>4. env[p] \in Envelopes /\ Authority(tgt[p]) \in Envelopes
  BY WorkingTarget, SMTT(20) DEF IInv, TypeOK, Authority
<1>5. Behind'
  <2> SUFFICES ASSUME NEW q \in Procs, pc'[q] \in Working
               PROVE  /\ Authority(tgt[q])' # None
                      /\ Authority(tgt[q])'.state # "delivered"
                      /\ Authority(tgt[q])'.count <= env'[q].count
    BY DEF Behind
  <2>1. Authority(tgt[q])' = Authority(tgt[q])
    BY DEF Turns, Authority
  <2>2. CASE q = p
    <3>1. Authority(tgt[p]).count <= env[p].count /\ Authority(tgt[p]).state # "delivered"
      BY DEF IInv, Behind
    <3>2. Authority(tgt[p]).count \in Nat /\ env[p].count \in Nat /\ v.count \in Nat
      BY <1>4, EnvelopeTyped
    <3>3. Authority(tgt[p]) # None
      BY <1>4, EnvelopeTyped
    <3>4. env'[p] = v /\ Authority(tgt[p])' = Authority(tgt[p])
      BY <1>1, <2>1, <2>2
    <3>5. Authority(tgt[p]).count <= v.count
      BY <3>1, <3>2, SMTT(20)
    <3> QED
      BY <2>2, <3>1, <3>3, <3>4, <3>5
  <2>3. CASE q # p
    BY <1>1, <2>1, <2>3 DEF IInv, Behind
  <2> QED
    BY <2>2, <2>3
<1> QED
  BY <1>2, <1>5

Inv == Held /\ Behind /\ Recorded /\ Truthful /\ Single

\* A retry that goes on without publishing, with something honest in hand.
LEMMA ThinkStep ==
  ASSUME IInv, NEW p \in Procs, NEW where \in Working, NEW v \in Envelopes,
         pc[p] \in Working, Thinks(p, where, v), v.count >= env[p].count,
         where \in Delivering => v.state = "pending",
         Seen \/ Honest(v),
         where = "statcur" => ~inew,
         Alone /\ where \in Delivering => ~inew /\ ~icur
  PROVE  Inv'
<1>1. Held' /\ Behind'
  BY TurnKeeps DEF Thinks
<1>2. /\ UNCHANGED <<inew, icur, dnew, dcur, cons, born, gone, redelivered>>
      /\ \A q \in Procs : q # p => pc'[q] = pc[q] /\ env'[q] = env[q]
      /\ pc'[p] = where /\ env'[p] = v
  BY DEF Thinks, Turns, IInv, TypeOK
<1>3. Recorded'
  BY <1>2 DEF IInv, Recorded, Authority
<1>4. Truthful'
  BY <1>2 DEF IInv, Truthful, Seen, Honest
<1>5. Single'
  BY <1>2 DEF IInv, Single, Alone
<1> QED
  BY <1>1, <1>3, <1>4, <1>5 DEF Inv

\* Steps of a retry that change no file.
LEMMA ThinkKinds ==
  ASSUME IInv, NEW p \in Procs, Looks(p) \/ Misses(p) \/ Works(p) \/ Fails(p) \/ Meets(p)
  PROVE  Inv'
<1>0. pc[p] \in Working
  BY DEF Looks, Misses, Works, Fails, Meets, Working, Delivering
<1>1. /\ tgt[p] \in Ids /\ env[p] \in Envelopes /\ env[p] # None
      /\ env[p].state \in States /\ env[p].count \in Nat
  BY <1>0, WorkingTarget, EnvelopeTyped
<1>2. \A s \in States : /\ [env[p] EXCEPT !.state = s] \in Envelopes
                        /\ [env[p] EXCEPT !.state = s].state = s
                        /\ [env[p] EXCEPT !.state = s].count = env[p].count
  BY <1>1, EnvelopeTyped
<1>3. Seen \/ Honest(env[p])
  BY DEF IInv, Truthful
<1>4. CASE Looks(p)
  BY <1>0, <1>1, <1>3, <1>4, ThinkStep, SMTT(30) DEF Looks, Working, Delivering
<1>5. CASE Misses(p)
  <2>1. Alone => ~inew
    BY <1>5 DEF Misses, IInv, Single
  <2>2. Seen \/ ~inew
    BY <1>5 DEF Misses, IInv, Truthful
  <2>3. ~icur /\ pc[p] = "statcur"
    BY <1>5 DEF Misses
  <2>4. CASE env[p].state = "pending" /\ Thinks(p, "recover", env[p])
    BY <1>0, <1>1, <1>3, <2>1, <2>3, <2>4, ThinkStep, SMTT(30) DEF Working, Delivering
  <2>5. CASE /\ env[p].state = "ready" /\ env[p].count < CountBound
             /\ Thinks(p, "update", [state |-> "pending", count |-> env[p].count + 1])
    <3>1. PICK v \in Envelopes : /\ v = [state |-> "pending", count |-> env[p].count + 1]
      BY <1>1, <2>5, EnvelopeTyped
    <3>2. v.state = "pending" /\ v.count >= env[p].count
      BY <1>1, <3>1, SMTT(20)
    <3>3. Seen \/ Honest(v)
      BY <2>2, <2>3, <3>2 DEF Honest
    <3>4. Thinks(p, "update", v)
      BY <2>5, <3>1
    <3> QED
      BY <1>0, <2>1, <2>3, <3>2, <3>3, <3>4, ThinkStep DEF Working, Delivering
  <2> QED
    BY <1>5, <2>4, <2>5 DEF Misses
<1>6. CASE Works(p)
  <2>1. PICK where \in Delivering : Thinks(p, where, env[p])
    BY <1>6 DEF Works
  <2>2. env[p].state = "pending" /\ (Alone => ~inew /\ ~icur)
    BY <1>6 DEF Works, IInv, Held, Single
  <2> QED
    BY <1>0, <1>1, <1>3, <2>1, <2>2, ThinkStep, SMTT(30) DEF Working, Delivering
<1>7. CASE Fails(p)
  <2>1. PICK v \in Envelopes : v = [env[p] EXCEPT !.state = "ready"]
    BY <1>2 DEF States
  <2>2. v.state = "ready" /\ v.count >= env[p].count
    BY <1>1, <1>2, <2>1, SMTT(20) DEF States
  <2>3. Honest(v)
    BY <2>2 DEF Honest
  <2>4. Thinks(p, "final", v)
    BY <1>7, <2>1 DEF Fails
  <2> QED
    BY <1>0, <2>2, <2>3, <2>4, ThinkStep DEF Working, Delivering
<1>8. CASE Meets(p)
  <2>1. PICK v \in Envelopes : v = [env[p] EXCEPT !.state = "delivered"]
    BY <1>2 DEF States
  <2>2. v.state = "delivered" /\ v.count >= env[p].count
    BY <1>1, <1>2, <2>1, SMTT(20) DEF States
  <2>3. Seen
    BY <1>1, <1>3, <1>8 DEF Meets, Honest
  <2>4. Thinks(p, "final", v)
    BY <1>8, <2>1 DEF Meets
  <2> QED
    BY <1>0, <2>2, <2>3, <2>4, ThinkStep DEF Working, Delivering
<1> QED
  BY <1>4, <1>5, <1>6, <1>7, <1>8

\* A publication: what follows may say "delivered", and with a single envelope
\* it is the first.
LEMMA PublishStep ==
  ASSUME IInv, NEW p \in Procs, Publishes(p)
  PROVE  Inv'
<1>0. pc[p] \in Working /\ pc[p] \in Delivering
  BY DEF Publishes, Working
<1>1. tgt[p] \in Ids /\ env[p] \in Envelopes /\ tgt[p] \in born
  BY <1>0, WorkingTarget
<1>2. PICK v \in Envelopes : v = [env[p] EXCEPT !.state = "delivered"]
  BY <1>1, EnvelopeTyped DEF States
<1>3. v.count = env[p].count /\ env[p].count \in Nat
  BY <1>1, <1>2, EnvelopeTyped DEF States
<1>4. Turns(p, "final", v)
  BY <1>2 DEF Publishes
<1>5. Held' /\ Behind'
  BY <1>0, <1>3, <1>4, TurnKeeps, SMTT(20) DEF Working, Delivering
<1>6. /\ UNCHANGED <<icur, dnew, dcur, cons, born, gone>>
      /\ ~inew /\ inew'
      /\ \A q \in Procs : q # p => pc'[q] = pc[q]
      /\ pc'[p] = "final"
      /\ redelivered' = [redelivered EXCEPT ![tgt[p]] = @ + 1]
      /\ redelivered \in [Ids -> Nat]
  BY DEF Publishes, Turns, IInv, TypeOK
<1>7. Recorded'
  BY <1>1, <1>6 DEF IInv, Recorded, Authority
<1>8. Truthful'
  BY <1>1, <1>6, SMTT(20) DEF Truthful, Seen
<1>9. Single'
  <2> SUFFICES ASSUME Alone
               PROVE  /\ ~(inew' /\ icur')
                      /\ \A e \in Ids : redelivered'[e] <= 1
                      /\ cons' # "source"
                      /\ \A q \in Procs : pc'[q] \notin Delivering \cup {"statcur"}
    BY <1>6 DEF Single, Alone
  <2>1. ~icur /\ \A e \in Ids : redelivered[e] <= 1 /\ redelivered[e] # 1
    BY <1>0, <1>6 DEF IInv, Single
  <2>2. \A q \in Procs : q # p => pc[q] \notin Working
    BY <1>0, OneWorkerAlone
  <2>3. cons # "source"
    BY <2>1 DEF IInv, Recorded
  <2> QED
    BY <1>1, <1>6, <2>1, <2>2, <2>3, SMTT(20) DEF Working, Delivering
<1> QED
  BY <1>5, <1>7, <1>8, <1>9 DEF Inv

\* A process that leaves holds nothing; the others keep what they hold.
LEMMA RestStep ==
  ASSUME IInv, NEW p \in Procs, Rests(p)
  PROVE  Inv'
<1>1. /\ UNCHANGED <<inew, icur, dnew, dcur, cons, born, gone, redelivered>>
      /\ \A q \in Procs : q # p => pc'[q] = pc[q] /\ env'[q] = env[q] /\ tgt'[q] = tgt[q]
      /\ pc'[p] = "idle" /\ env'[p] = None
      /\ \A e \in Ids : lock[e] # p => lock'[e] = lock[e]
  BY DEF Rests, Frees, IInv, TypeOK
<1>2. Held'
  BY <1>1, SMTT(20) DEF IInv, Held, Working, Delivering
<1>3. Behind'
  BY <1>1, SMTT(30) DEF IInv, Behind, Authority, Working, Delivering
<1>4. Recorded'
  BY <1>1 DEF IInv, Recorded, Authority
<1>5. Truthful'
  BY <1>1 DEF IInv, Truthful, Seen, Honest
<1>6. Single'
  BY <1>1 DEF IInv, Single, Alone, Delivering
<1> QED
  BY <1>2, <1>3, <1>4, <1>5, <1>6 DEF Inv

\* What updateRetriedDLQEnvelope leaves as the authority.
LEMMA SavedAuthority ==
  ASSUME IInv, NEW p \in Procs, Saves(p)
  PROVE  /\ pc[p] \in Working /\ tgt[p] \in Ids /\ env[p] \in Envelopes
         /\ \A e \in Ids : Authority(e)' = IF e = tgt[p] THEN env[p] ELSE Authority(e)
         /\ \A e \in Ids : dnew'[e] \in {dnew[e], None} /\ dcur'[e] \in {dcur[e], env[p]}
<1>1. pc[p] \in Working /\ tgt[p] \in Ids /\ env[p] \in Envelopes
  BY WorkingTarget DEF Saves, Working, Delivering
<1>2. env[p] # None
  BY <1>1, EnvelopeTyped
<1> QED
  BY <1>1, <1>2 DEF Saves, Authority, IInv, TypeOK

\* The rewrite of the envelope.
LEMMA SaveStep ==
  ASSUME IInv, NEW p \in Procs, Saves(p)
  PROVE  Inv'
<1>1. /\ UNCHANGED <<inew, icur, cons, born, gone, redelivered>>
      /\ \A q \in Procs : q # p => pc'[q] = pc[q] /\ env'[q] = env[q] /\ tgt'[q] = tgt[q]
      /\ \/ pc'[p] = "idle" /\ env'[p] = None
         \/ /\ pc[p] = "update" /\ pc'[p] = "stage"
            /\ env'[p] = env[p] /\ tgt'[p] = tgt[p] /\ UNCHANGED lock
      /\ \A e \in Ids : lock[e] # p => lock'[e] = lock[e]
  BY SMTT(20) DEF Saves, Frees, IInv, TypeOK
<1>2. /\ pc[p] \in Working /\ tgt[p] \in Ids /\ env[p] \in Envelopes /\ env[p] # None
      /\ tgt[p] \in born
      /\ \A e \in Ids : Authority(e)' = IF e = tgt[p] THEN env[p] ELSE Authority(e)
      /\ \A e \in Ids : dnew'[e] \in {dnew[e], None} /\ dcur'[e] \in {dcur[e], env[p]}
  BY SavedAuthority, WorkingTarget, EnvelopeTyped
<1>3. Held'
  <2> SUFFICES ASSUME NEW q \in Procs
               PROVE  /\ pc'[q] \in Working =>
                           tgt'[q] \in Ids /\ lock'[tgt'[q]] = q /\ env'[q] \in Envelopes
                      /\ pc'[q] \in Delivering => env'[q].state = "pending"
    BY DEF Held
  <2>1. CASE q = p
    BY <1>1, <1>2, <2>1 DEF IInv, Held, Working, Delivering
  <2>2. CASE q # p
    <3>1. pc'[q] = pc[q] /\ env'[q] = env[q] /\ tgt'[q] = tgt[q]
      BY <1>1, <2>2
    <3>2. pc[q] \in Working => tgt[q] \in Ids /\ lock[tgt[q]] = q /\ lock'[tgt[q]] = q
      BY <1>1, <2>2 DEF IInv, Held
    <3> QED
      BY <3>1, <3>2 DEF IInv, Held
  <2> QED
    BY <2>1, <2>2
<1>4. Behind'
  <2> SUFFICES ASSUME NEW q \in Procs, pc'[q] \in Working
               PROVE  /\ Authority(tgt[q])' # None
                      /\ Authority(tgt[q])'.state # "delivered"
                      /\ Authority(tgt[q])'.count <= env'[q].count
    BY DEF Behind
  <2>1. CASE q = p
    <3>1. pc[p] = "update" /\ env'[p] = env[p] /\ tgt'[p] = tgt[p]
      BY <1>1, <2>1 DEF Working, Delivering
    <3>2. env[p].state = "pending" /\ env[p].count \in Nat
      BY <1>2, <3>1, EnvelopeTyped DEF IInv, Held, Delivering
    <3>3. PICK e \in Ids : e = tgt[p] /\ e = tgt'[p]
      BY <1>2, <3>1
    <3>4. Authority(e)' = env[p]
      BY <1>2, <3>3
    <3> QED
      BY <1>2, <2>1, <3>1, <3>2, <3>3, <3>4, SMTT(20) DEF Authority
  <2>2. CASE q # p
    <3>1. pc[q] \in Working /\ tgt'[q] = tgt[q] /\ env'[q] = env[q]
      BY <1>1, <2>2
    <3>2. tgt[q] \in Ids /\ tgt[q] # tgt[p]
      BY <1>2, <2>2, <3>1, OneWorker, WorkingTarget
    <3>3. PICK e \in Ids : e = tgt[q] /\ e = tgt'[q]
      BY <3>1, <3>2
    <3>4. Authority(e)' = Authority(e)
      BY <1>2, <3>2, <3>3
    <3> QED
      BY <3>1, <3>3, <3>4 DEF IInv, Behind, Authority
  <2> QED
    BY <2>1, <2>2
<1>5. Recorded'
  BY <1>1, <1>2 DEF IInv, Recorded, TypeOK
<1>6. Truthful'
  BY <1>1, <1>2, SMTT(30) DEF IInv, Truthful, Seen, Honest
<1>7. Single'
  BY <1>1 DEF IInv, Single, Alone, Delivering
<1> QED
  BY <1>3, <1>4, <1>5, <1>6, <1>7 DEF Inv

\* The listing of a purge.
LEMMA ListStep ==
  ASSUME IInv, NEW p \in Procs, Lists(p)
  PROVE  Inv'
<1>1. /\ UNCHANGED <<inew, icur, dnew, dcur, lock, cons, tgt, env, born, gone, redelivered>>
      /\ \A q \in Procs : q # p => pc'[q] = pc[q]
      /\ pc'[p] \in {"list", "purge"}
  BY DEF Lists, IInv, TypeOK
<1>2. Held' /\ Behind'
  BY <1>1, SMTT(20) DEF IInv, Held, Behind, Authority, Working, Delivering
<1>3. Recorded' /\ Truthful'
  BY <1>1 DEF IInv, Recorded, Authority, Truthful, Seen, Honest
<1>4. Single'
  BY <1>1 DEF IInv, Single, Alone, Delivering
<1> QED
  BY <1>2, <1>3, <1>4 DEF Inv

\* Taking the lock: the authority is in hand, and what it hid goes away.
LEMMA FindStep ==
  ASSUME IInv, NEW p \in Procs, NEW e \in Ids, NEW f, Find(p, e, f)
  PROVE  Inv'
<1>0. UNCHANGED <<inew, icur, cons, born, gone, redelivered>>
  BY DEF Find, inbox, history
<1>1. /\ \A q \in Procs : q # p => pc'[q] = pc[q] /\ env'[q] = env[q] /\ tgt'[q] = tgt[q]
      /\ pc'[p] = "statnew" /\ env'[p] = Authority(e) /\ tgt'[p] = e
      /\ lock'[e] = p /\ lock[e] = None
      /\ \A d \in Ids : d # e => lock'[d] = lock[d]
  BY DEF Find, IInv, TypeOK
<1>2. /\ Authority(e) \in Envelopes /\ Authority(e) # None /\ Authority(e).state # "delivered"
      /\ Authority(e).count \in Nat
  BY AuthorityTyped DEF Find, IInv
<1>3. /\ \A d \in Ids : Authority(d)' = Authority(d)
      /\ \A d \in Ids : dnew'[d] \in {dnew[d], None} /\ dcur'[d] = dcur[d]
  BY DEF Find, Authority, IInv, TypeOK
<1>4. ASSUME NEW q \in Procs, pc[q] \in Working
      PROVE  tgt[q] \in Ids /\ tgt[q] # e
  <2>1. tgt[q] \in Ids /\ lock[tgt[q]] = q
    BY <1>4 DEF IInv, Held
  <2> QED
    BY <1>1, <2>1, NoneApart
<1>5. Held'
  <2> SUFFICES ASSUME NEW q \in Procs
               PROVE  /\ pc'[q] \in Working =>
                           tgt'[q] \in Ids /\ lock'[tgt'[q]] = q /\ env'[q] \in Envelopes
                      /\ pc'[q] \in Delivering => env'[q].state = "pending"
    BY DEF Held
  <2>1. CASE q = p
    BY <1>1, <1>2, <2>1 DEF Delivering
  <2>2. CASE q # p
    <3>1. pc'[q] = pc[q] /\ env'[q] = env[q] /\ tgt'[q] = tgt[q]
      BY <1>1, <2>2
    <3>2. pc[q] \in Working => tgt[q] \in Ids /\ lock[tgt[q]] = q /\ lock'[tgt[q]] = q
      BY <1>1, <1>4 DEF IInv, Held
    <3> QED
      BY <3>1, <3>2 DEF IInv, Held
  <2> QED
    BY <2>1, <2>2
<1>6. Behind'
  <2> SUFFICES ASSUME NEW q \in Procs, pc'[q] \in Working
               PROVE  /\ Authority(tgt[q])' # None
                      /\ Authority(tgt[q])'.state # "delivered"
                      /\ Authority(tgt[q])'.count <= env'[q].count
    BY DEF Behind
  <2>1. CASE q = p
    <3>1. Authority(tgt[q])' = Authority(e)
      BY <1>1, <1>3, <2>1 DEF Authority
    <3> QED
      BY <1>1, <1>2, <2>1, <3>1, SMTT(20)
  <2>2. CASE q # p
    <3>1. pc[q] \in Working /\ env'[q] = env[q] /\ tgt'[q] = tgt[q]
      BY <1>1, <2>2
    <3>2. Authority(tgt[q])' = Authority(tgt[q])
      BY <1>3, <1>4, <3>1 DEF Authority
    <3> QED
      BY <3>1, <3>2 DEF IInv, Behind
  <2> QED
    BY <2>1, <2>2
<1>7. Recorded'
  BY <1>0, <1>3 DEF IInv, Recorded, TypeOK
<1>8. Truthful'
  <2>1. Seen \/ Honest(Authority(e))
    BY DEF IInv, Truthful, Authority
  <2>2. CASE Seen
    BY <1>0, <2>2 DEF Truthful, Seen
  <2>3. CASE ~Seen
    <3>1. \A v : Honest(v)' = Honest(v)
      BY <1>0 DEF Honest
    <3>2. \A d \in Ids : Honest(dnew'[d]) /\ Honest(dcur'[d])
      BY <1>3, <2>3 DEF IInv, Truthful, Honest
    <3>3. ASSUME NEW q \in Procs
          PROVE  Honest(env'[q]) /\ (pc'[q] = "statcur" => ~inew)
      BY <1>1, <2>1, <2>3 DEF IInv, Truthful
    <3> QED
      BY <1>0, <3>1, <3>2, <3>3 DEF Truthful, Honest
  <2> QED
    BY <2>2, <2>3
<1>9. Single'
  BY <1>0, <1>1 DEF IInv, Single, Alone, Delivering
<1> QED
  BY <1>5, <1>6, <1>7, <1>8, <1>9 DEF Inv

\* Copies of envelopes that no retry holds move or go away.
LEMMA BoxStep ==
  ASSUME IInv, NEW e \in Ids, Trims(e) \/ Shifts(e) \/ Purges(e)
  PROVE  Inv'
<1>1. /\ UNCHANGED <<inew, icur, lock, cons, pc, tgt, env, born, redelivered>>
      /\ lock[e] = None
      /\ \A d \in Ids : d # e => Authority(d)' = Authority(d)
      /\ \/ UNCHANGED gone /\ Authority(e)' = Authority(e)
         \/ gone' = gone \cup {e} /\ (Authority(e)' # None => Authority(e) # None)
      /\ \A d \in Ids : /\ dnew'[d] \in {dnew[d], None}
                        /\ dcur'[d] \in {dcur[d], dnew[d], None}
  <2>1. CASE Trims(e)
    BY <2>1 DEF Trims, Authority, IInv, TypeOK
  <2>2. CASE Shifts(e)
    BY <2>2 DEF Shifts, Authority, IInv, TypeOK
  <2>3. CASE Purges(e)
    BY <2>3 DEF Purges, Authority, IInv, TypeOK
  <2> QED
    BY <2>1, <2>2, <2>3
<1>2. Held'
  BY <1>1 DEF IInv, Held
<1>3. \A q \in Procs : pc[q] \in Working => tgt[q] \in Ids /\ tgt[q] # e
  BY <1>1, NoneApart, SMTT(30) DEF IInv, Held
<1>4. Behind'
  BY <1>1, <1>3 DEF IInv, Behind
<1>5. Recorded'
  BY <1>1 DEF IInv, Recorded, TypeOK
<1>6. Truthful'
  BY <1>1 DEF IInv, Truthful, Seen, Honest
<1>7. Single'
  BY <1>1 DEF IInv, Single, Alone
<1> QED
  BY <1>2, <1>4, <1>5, <1>6, <1>7 DEF Inv

\* The consumer writes envelopes under fresh ids and removes the source after.
LEMMA ConsumerStep ==
  ASSUME IInv, Consumer
  PROVE  Inv'
<1>0. UNCHANGED <<lock, pc, tgt, env, gone, redelivered>>
  BY DEF Consumer, Claim, Keep, RemoveSource, Bury, proc, history
<1>1. Held'
  BY <1>0 DEF IInv, Held
<1>2. CASE Claim \/ Keep \/ RemoveSource
  <2>1. /\ UNCHANGED <<dnew, dcur, born>>
        /\ \/ inew /\ ~icur /\ ~inew' /\ icur' /\ cons = "idle" /\ cons' = "held"
           \/ UNCHANGED <<inew, icur>> /\ cons' = "idle"
           \/ cons = "source" /\ icur /\ UNCHANGED inew /\ ~icur' /\ cons' = "idle"
    BY <1>2 DEF Claim, Keep, RemoveSource, boxes, history, inbox, IInv, Recorded
  <2>2. Behind'
    BY <1>0, <2>1 DEF IInv, Behind, Authority
  <2>3. Recorded'
    BY <1>0, <2>1 DEF IInv, Recorded, Authority
  <2>4. Truthful'
    BY <1>0, <2>1 DEF IInv, Truthful, Seen, Honest
  <2>5. Single'
    BY <1>0, <2>1, SMTT(20) DEF IInv, Single, Alone
  <2> QED
    BY <1>1, <2>2, <2>3, <2>4, <2>5 DEF Inv
<1>3. ASSUME NEW e \in Ids, Bury(e)
      PROVE  Inv'
  <2>1. /\ UNCHANGED <<inew, icur, dcur>>
        /\ e \notin born /\ born' = born \cup {e}
        /\ cons = "held" /\ cons' = "source" /\ icur
        /\ dnew' = [dnew EXCEPT ![e] = [state |-> "ready", count |-> 0]]
    BY <1>3 DEF Bury, inbox, IInv, Recorded
  <2>2. \A q \in Procs : pc[q] \in Working => tgt[q] \in Ids /\ tgt[q] # e
    BY <2>1, WorkingTarget
  <2>3. PICK v \in Envelopes : v = [state |-> "ready", count |-> 0]
    BY FreshTyped
  <2>4. v # None /\ v.state = "ready"
    BY <2>3, EnvelopeTyped
  <2>5. /\ \A d \in Ids : d # e => dnew'[d] = dnew[d] /\ Authority(d)' = Authority(d)
        /\ dnew'[e] = v
        /\ Authority(e)' = v
    BY <2>1, <2>3 DEF IInv, TypeOK, Recorded, Authority
  <2>6. Behind'
    BY <1>0, <2>2, <2>5 DEF IInv, Behind, Authority
  <2>7. Recorded'
    <3>1. IsFiniteSet(born')
      BY <2>1, FS_AddElement DEF IInv, Recorded
    <3> QED
      BY <1>0, <2>1, <2>4, <2>5, <3>1 DEF IInv, Recorded, TypeOK
  <2>8. Truthful'
    BY <1>0, <2>1, <2>4, <2>5 DEF IInv, Truthful, Seen, Honest
  <2>9. Single'
    <3> SUFFICES ASSUME Alone'
                 PROVE  Single'
      BY DEF Single
    <3>1. born = {} /\ Alone
      BY <1>0, <2>1 DEF Alone
    <3>2. \A d \in Ids : redelivered[d] = 0
      BY <3>1 DEF IInv, Recorded
    <3>3. \A q \in Procs : pc[q] \notin Working
      BY <3>1, WorkingTarget
    <3> QED
      BY <1>0, <2>1, <3>1, <3>2, <3>3 DEF IInv, Single, Working
  <2> QED
    BY <1>1, <2>6, <2>7, <2>8, <2>9 DEF Inv
<1> QED
  BY <1>2, <1>3 DEF Consumer

\* Steps that leave the files, the records and the workers alone.
LEMMA IdleStep ==
  ASSUME IInv, Idles
  PROVE  Inv'
<1>1. Held' /\ Behind'
  BY DEF Idles, IInv, Held, Behind, Authority
<1>2. Recorded' /\ Truthful'
  BY DEF Idles, IInv, Recorded, Authority, Truthful, Seen, Honest
<1>3. Single'
  BY DEF Idles, IInv, Single, Alone
<1> QED
  BY <1>1, <1>2, <1>3 DEF Inv

\* The invariant holds at the start.
LEMMA InitEstablishes == Init => IInv
<1> SUFFICES ASSUME Init
             PROVE  IInv
  OBVIOUS
<1>1. TypeOK
  BY DEF Init, TypeOK
<1>2. Held /\ Behind
  BY DEF Init, Held, Behind, Working, Delivering
<1>3. Recorded
  BY FS_EmptySet DEF Init, Recorded, Authority
<1>4. Truthful /\ Single
  BY SMTT(20) DEF Init, Truthful, Honest, Single, Delivering
<1> QED
  BY <1>1, <1>2, <1>3, <1>4 DEF IInv

\* Every step keeps the invariant.
LEMMA NextPreserves == IInv /\ [Next]_vars => IInv'
<1> SUFFICES ASSUME IInv, [Next]_vars
             PROVE  IInv'
  OBVIOUS
<1>1. TypeOK'
  BY TypeStep DEF IInv
<1>2. \/ Consumer \/ Idles
      \/ \E p \in Procs : \/ Looks(p) \/ Misses(p) \/ Works(p) \/ Fails(p) \/ Meets(p)
                          \/ Publishes(p) \/ Rests(p) \/ Saves(p) \/ Lists(p)
      \/ \E p \in Procs, e \in Ids, f \in BOOLEAN : Find(p, e, f)
      \/ \E e \in Ids : Trims(e) \/ Shifts(e) \/ (Purges(e) /\ Purged)
  BY StepEffect, TwoTypes DEF IInv
<1>3. Inv'
  BY <1>2, ConsumerStep, IdleStep, ThinkKinds, PublishStep, RestStep, SaveStep, ListStep, FindStep, BoxStep
<1> QED
  BY <1>1, <1>3 DEF IInv, Inv

\* The invariant always holds.
LEMMA Invariance == Spec => []IInv
  BY InitEstablishes, NextPreserves, PTL DEF Spec

-----------------------------------------------------------------------------
(* The theorems *)

\* moveInboxMessageToDLQ, retry, inspection and cleanup never lose the
\* original, whichever process dies at whichever step: as long as no purge
\* has removed an envelope it is in the inbox or in an envelope.
THEOREM OriginalNeverLost == Spec => []OriginalKept
<1>1. IInv => OriginalKept
  BY DEF IInv, OriginalKept, Recorded, TypeOK
<1> QED
  BY <1>1, Invariance, PTL

\* RetryDLQMessage publishes an original with a single envelope at most once,
\* and never beside a copy in inbox/cur.
THEOREM RetriedOnce == Spec => []RedeliveredOnce
<1>1. IInv => RedeliveredOnce
  <2> SUFFICES ASSUME IInv, Cardinality(born) = 1, gone = {}
               PROVE  NeverBothBoxes /\ \A e \in Ids : redelivered[e] <= 1
    BY DEF RedeliveredOnce
  <2>1. \E x : born = {x}
    BY FS_Singleton DEF IInv, Recorded
  <2>2. Alone
    BY <2>1 DEF Alone
  <2> QED
    BY <2>2 DEF IInv, Single, NeverBothBoxes
<1> QED
  BY <1>1, Invariance, PTL

\* An envelope that says "delivered" has seen its original published again.
THEOREM AuditsTrue == Spec => []DeliveredTrue
<1>1. IInv => DeliveredTrue
  BY DEF IInv, DeliveredTrue, Truthful, Seen, Honest, Authority
<1> QED
  BY <1>1, Invariance, PTL

\* What FindDLQMessage finds never loses a retry it counted or a delivery it
\* recorded, whatever copies partial updates leave behind; a purge takes away what
\* it listed, and nothing a retry has written since (updateRetriedDLQEnvelope,
\* removeSelectedDLQPurgeCandidate).
THEOREM AuditsNeverGoBack == Spec => AuditMonotone
<1> DEFINE Ahead(e) == /\ Authority(e)' # None
                       /\ Authority(e)'.count >= Authority(e).count
                       /\ Authority(e).state = "delivered" => Authority(e)'.state = "delivered"
           AsListed(e) == /\ \E p \in Procs : <<FoundIn(e), e, Authority(e)>> \in sel[p]
                         /\ \A q \in Procs : tgt[q] = e => pc[q] \in {"idle", "list", "purge"}
           Forward == \A e \in Ids : Authority(e) # None => Ahead(e)
           Kept == \A e \in Ids : Authority(e) # None => Ahead(e) \/ AsListed(e)
<1>1. ASSUME IInv, [Next]_vars
      PROVE  \A e \in Ids : Authority(e) # None =>
               \/ /\ Authority(e)' # None
                  /\ Authority(e)'.count >= Authority(e).count
                  /\ Authority(e).state = "delivered" => Authority(e)'.state = "delivered"
               \/ /\ \E p \in Procs : <<FoundIn(e), e, Authority(e)>> \in sel[p]
                  /\ \A q \in Procs : tgt[q] = e => pc[q] \in {"idle", "list", "purge"}
  <2> SUFFICES Kept
    OBVIOUS
  <2>0. ASSUME \A e \in Ids : Authority(e) # None => Authority(e)' = Authority(e)
        PROVE  Forward
    <3>1. \A e \in Ids : Authority(e) # None => Authority(e).count \in Nat
      BY <1>1, AuthorityTyped DEF IInv
    <3> QED
      BY <2>0, <3>1, SMTT(20)
  <2>1. ASSUME NEW p \in Procs, Saves(p)
        PROVE  Forward
    <3>1. /\ pc[p] \in Working /\ tgt[p] \in Ids /\ env[p] \in Envelopes /\ env[p] # None
          /\ \A e \in Ids : Authority(e)' = IF e = tgt[p] THEN env[p] ELSE Authority(e)
      BY <1>1, <2>1, SavedAuthority, EnvelopeTyped
    <3>2. /\ Authority(tgt[p]).state # "delivered" /\ Authority(tgt[p]).count <= env[p].count
      BY <1>1, <3>1 DEF IInv, Behind
    <3>3. \A e \in Ids : Authority(e) # None => Authority(e).count \in Nat
      BY <1>1, AuthorityTyped DEF IInv
    <3>4. env[p].count \in Nat
      BY <3>1, EnvelopeTyped
    <3> QED
      BY <3>1, <3>2, <3>3, <3>4, SMTT(20)
  <2>2. CASE Consumer \/ Idles
    <3>1. \A e \in Ids : Authority(e) # None => Authority(e)' = Authority(e)
      BY <1>1, <2>2 DEF Consumer, Claim, Keep, RemoveSource, Bury, Idles, boxes, Authority,
                        IInv, TypeOK, Recorded
    <3> QED
      BY <2>0, <3>1
  <2>3. ASSUME NEW p \in Procs,
               \/ Looks(p) \/ Misses(p) \/ Works(p) \/ Fails(p) \/ Meets(p)
               \/ Publishes(p) \/ Rests(p) \/ Lists(p)
        PROVE  Forward
    <3>1. UNCHANGED <<dnew, dcur>>
      BY <2>3 DEF Looks, Misses, Works, Fails, Meets, Publishes, Rests, Lists, Thinks, Turns
    <3> QED
      BY <2>0, <3>1 DEF Authority
  <2>4. ASSUME NEW p \in Procs, NEW e \in Ids, NEW f \in BOOLEAN, Find(p, e, f)
        PROVE  Forward
    <3>1. \A d \in Ids : Authority(d)' = Authority(d)
      BY <1>1, <2>4 DEF Find, Authority, IInv, TypeOK
    <3> QED
      BY <2>0, <3>1
  <2>5. ASSUME NEW e \in Ids, Trims(e) \/ Shifts(e)
        PROVE  Forward
    <3>1. \A d \in Ids : Authority(d)' = Authority(d)
      BY <1>1, <2>5 DEF Trims, Shifts, Authority, IInv, TypeOK
    <3> QED
      BY <2>0, <3>1
  <2>6. \/ Consumer \/ Idles
        \/ \E p \in Procs : \/ Looks(p) \/ Misses(p) \/ Works(p) \/ Fails(p) \/ Meets(p)
                            \/ Publishes(p) \/ Rests(p) \/ Saves(p) \/ Lists(p)
        \/ \E p \in Procs, e \in Ids, f \in BOOLEAN : Find(p, e, f)
        \/ \E e \in Ids : Trims(e) \/ Shifts(e) \/ (Purges(e) /\ Purged)
    BY <1>1, StepEffect, TwoTypes DEF IInv
  <2>7. ASSUME NEW p \in Procs, NEW x \in sel[p], PurgeRemove(p, x)
        PROVE  Kept
    <3>1. \A e \in Ids : Authority(e) # None => Authority(e).count \in Nat
      BY <1>1, AuthorityTyped DEF IInv
    <3> SUFFICES ASSUME NEW e \in Ids, Authority(e) # None, Authority(e)' # Authority(e)
                 PROVE  AsListed(e)
      BY <3>1, SMTT(20)
    <3>2. /\ x \in {"new", "cur"} \X Ids \X Envelopes
          /\ dnew \in [Ids -> Envelopes \cup {None}] /\ dcur \in [Ids -> Envelopes \cup {None}]
      BY <1>1 DEF IInv, TypeOK
    <3>3. x = <<x[1], x[2], x[3]>> /\ x[1] \in {"new", "cur"} /\ x[2] \in Ids /\ x[3] \in Envelopes
      BY <3>2, SMTT(20)
    <3>4. x[3] # None
      BY <3>3, DeadLetterAssumption
    <3>5. /\ UnchangedSince(x) /\ lock[x[2]] = None
          /\ IF x[1] = "new" THEN dnew' = [dnew EXCEPT ![x[2]] = None] /\ UNCHANGED dcur
                              ELSE dcur' = [dcur EXCEPT ![x[2]] = None] /\ UNCHANGED dnew
      BY <2>7 DEF PurgeRemove, boxes, Authority
    <3>6. e = x[2]
      BY <3>2, <3>3, <3>5 DEF Authority
    <3>7. FoundIn(e) = x[1] /\ Authority(e) = x[3]
      BY <3>2, <3>3, <3>4, <3>5, <3>6 DEF Authority, FoundIn, UnchangedSince
    <3>8. <<FoundIn(e), e, Authority(e)>> \in sel[p]
      BY <3>3, <3>6, <3>7
    <3>9. ASSUME NEW q \in Procs, tgt[q] = e PROVE pc[q] \in {"idle", "list", "purge"}
      <4>1. pc[q] \notin Working
        <5>1. pc[q] \in Working => lock[tgt[q]] = q
          BY <1>1 DEF IInv, Held
        <5> QED
          BY <3>5, <3>6, <3>9, <5>1, DeadLetterAssumption
      <4> QED
        BY <1>1, <4>1 DEF IInv, TypeOK, Working, Delivering
    <3> QED
      BY <3>8, <3>9
  <2>8. Forward => Kept
    OBVIOUS
  <2> HIDE DEF Forward, Kept
  <2> QED
    BY <2>1, <2>2, <2>3, <2>4, <2>5, <2>6, <2>7, <2>8 DEF Purged
<1> QED
  BY <1>1, Invariance, PTL DEF Spec, AuditMonotone
=============================================================================
