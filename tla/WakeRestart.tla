---------------------------- MODULE WakeRestart ----------------------------
(* The restart request of a wake: the file .wake.restart beside .wake.lock,  *)
(* `amq wake restart` that publishes it, signals the wake and waits, and the *)
(* rules by which one request replaces, adopts or preserves another.  Every  *)
(* step that reads and writes under the lifecycle guard is one action.  The  *)
(* stages are the private copies of a candidate that Darwin runs from.       *)
EXTENDS Naturals, FiniteSets

CONSTANTS Callers,    \* processes that run `amq wake restart`
          Images,     \* versions of the program
          Asked,      \* versions the callers run themselves
          MaxRequest, \* bound on the requests made
          MaxLease,   \* bound on the generations of the lock
          Absent        \* no value

VARIABLES
  holder,   \* .wake.lock: Absent or the generation that holds it
  proof,    \* the generation .wake.prepared names, 0 without one
  request,  \* .wake.restart: Absent or a record
  stages,   \* requests whose staged image is on disk
  runner,   \* the wake process
  caller,   \* [Callers -> what the caller knows]
  spent     \* requests and generations used so far

restartFiles == <<holder, proof, request, stages>>

Idle == [pc |-> "idle", id |-> 0, cand |-> 0, exp |-> Absent, rec |-> Absent,
         seen |-> 0, result |-> Absent]

(* The process named by the lock runs and is the one that wrote it. *)
LockRuns == holder # Absent /\ runner.pc # "dead" /\ runner.pid = holder.pid

(* The resumed wake holds the guard between its claim and its new lock. *)
GuardFree == runner.pc # "claimed"

(* What distinguishes one attempt from another; the bound image does not. *)
SameAttempt(a, b) ==
  /\ a.id = b.id /\ a.self = b.self /\ a.gen = b.gen /\ a.cand = b.cand
  /\ a.claimed = b.claimed /\ a.prev = b.prev

(* A pending request as seen by a caller: adopt it, wait for the successor   *)
(* that claimed it, or leave it alone.                                       *)
Classify(rec) ==
  CASE ~rec.claimed /\ rec.gen = holder.gen -> "adopt"
    [] rec.claimed /\ rec.succ = holder.gen -> "join"
    [] rec.claimed /\ rec.gen = holder.gen  -> "unstable"
    [] OTHER                                -> "preserve"

(* No request is pending. *)
Open == IF request = Absent THEN TRUE ELSE request.refused

(* The stages a record answers for: its own and its predecessor's image. *)
Owned(rec) == {rec.id} \cup ({rec.prev} \ {Absent})

(* Reclaiming a record deletes the stages it answers for; it is then moved   *)
(* into quarantine.  The mutant trusts the bound evidence and forgets a      *)
(* stage whose wake died before it was recorded.                             *)
ReclaimedBound ==
  IF request = Absent THEN stages
  ELSE IF request.bound THEN stages \ Owned(request) ELSE stages \ {request.prev}
Reclaimed == IF request = Absent THEN stages ELSE stages \ Owned(request)

(* The image a new request names as its predecessor's: the live stage. *)
PreviousStage == holder.stage

NewRequest(id, self, cand, memory) ==
  [id |-> id, self |-> self, refused |-> FALSE, claimed |-> FALSE,
   gen |-> holder.gen, succ |-> 0, cand |-> cand, bound |-> FALSE,
   prev |-> PreviousStage, memory |-> memory]

(* A candidate that was refused moves to the end of the remembered ones.     *)
(* The limit of eight is never met here: there are fewer images.             *)
RememberRefusal(memory, cand) == memory \cup {cand}

(* What a self-upgrade may remember: a pending attempt is not among the      *)
(* refused ones, a refused one is.                                           *)
ValidMemory(rec) ==
  rec.memory = {} \/ (rec.self /\ (rec.refused <=> rec.cand \in rec.memory))

(* A bound image is not the one its predecessor runs from. *)
ValidStage(rec) == rec.bound => rec.prev # rec.id

(* What every reader of the record insists on. *)
ValidRecord(rec) ==
  /\ IF rec.claimed THEN rec.succ \notin {0, rec.gen} ELSE rec.succ = 0
  /\ ValidStage(rec)
  /\ ValidMemory(rec)

(* Refusing a request is a compare-and-swap on the attempt.  A self-upgrade  *)
(* also remembers the candidate.                                             *)
Refused(rec) ==
  [rec EXCEPT !.refused = TRUE,
              !.memory = IF rec.self THEN RememberRefusal(@, rec.cand) ELSE @]
CanRefuse(rec) ==
  /\ request # Absent
  /\ ~request.claimed /\ ~request.refused
  /\ SameAttempt(rec, request)
----------------------------------------------------------------------------
Say(c, s) == caller' = [caller EXCEPT ![c] = s]
Ends(c, result) == Say(c, [Idle EXCEPT !.result = result])
Fails(c) == Ends(c, "failed")

(* The owner runs `amq wake restart` from the image it wants. *)
Ask(c, cand) ==
  /\ caller[c].pc = "idle" /\ spent.ids < MaxRequest
  /\ spent' = [spent EXCEPT !.ids = @ + 1]
  /\ Say(c, [Idle EXCEPT !.pc = "snap", !.id = spent.ids + 1, !.cand = cand])
  /\ UNCHANGED <<restartFiles, runner>>

(* A pending request of this generation is adopted, with its candidate, and  *)
(* announced again; one the successor has claimed is only waited for.        *)
Adopts(c, exp) ==
  Say(c, [caller[c] EXCEPT !.id = request.id, !.cand = request.cand,
             !.exp = exp, !.rec = request,
             !.pc = IF Classify(request) = "adopt" THEN "notify" ELSE "look"])

Adoptable == Classify(request) \in {"adopt", "join"}

(* The incumbent a caller may restart is confirmed and has not changed since *)
(* the caller first saw it.                                                  *)
SameIncumbent(c) == LockRuns /\ holder = caller[c].exp

(* The lock has moved to another generation of the process that was asked. *)
Moved(k) == LockRuns /\ holder.pid = k.exp.pid /\ holder.gen # k.rec.gen

(* A request is refused, settled by somebody else, or still ours to await. *)
Awaited(k) == request # Absent /\ request.id = k.id

(* First guarded pass: the incumbent is confirmed, a refused request is      *)
(* cleared away, a pending one adopted or preserved.                         *)
Snapshot(c) ==
  /\ caller[c].pc = "snap" /\ GuardFree
  /\ \/ ~LockRuns /\ Fails(c) /\ UNCHANGED <<request, stages>>
     \/ /\ LockRuns /\ ~Open
        /\ IF Adoptable THEN Adopts(c, holder) ELSE Fails(c)
        /\ UNCHANGED <<request, stages>>
     \/ /\ LockRuns /\ Open
        /\ stages' = Reclaimed
        /\ request' = Absent
        /\ Say(c, [caller[c] EXCEPT !.pc = "preflight", !.exp = holder])
  /\ UNCHANGED <<holder, proof, runner, spent>>

(* The candidate proves, outside the guard, that it takes the wake's         *)
(* arguments; it must be the same file before and after.                     *)
Preflight(c) ==
  /\ caller[c].pc = "preflight"
  /\ \/ Fails(c)
     \/ Say(c, [caller[c] EXCEPT !.pc = "publish"])
  /\ UNCHANGED <<restartFiles, runner, spent>>

(* Second guarded pass: the lock must be the one of the first.  A request    *)
(* that appeared in between is adopted or preserved; otherwise ours is       *)
(* written.                                                                  *)
Publish(c) ==
  /\ caller[c].pc = "publish" /\ GuardFree
  /\ LET mine == NewRequest(caller[c].id, FALSE, caller[c].cand, {})
     IN \/ ~SameIncumbent(c) /\ Fails(c) /\ UNCHANGED <<request, stages>>
        \/ /\ SameIncumbent(c) /\ ~Open
           /\ IF Adoptable THEN Adopts(c, holder) ELSE Fails(c)
           /\ UNCHANGED <<request, stages>>
        \/ /\ SameIncumbent(c) /\ Open
           /\ stages' = Reclaimed
           /\ request' = mine
           /\ Say(c, [caller[c] EXCEPT !.pc = "notify", !.rec = mine])
  /\ UNCHANGED <<holder, proof, runner, spent>>

(* SIGUSR1 is sent under the guard, to the exact process, for the exact      *)
(* record.  Between the ignored disposition and the new handler it is lost.  *)
Notify(c) ==
  /\ caller[c].pc = "notify" /\ GuardFree
  /\ IF SameIncumbent(c) /\ request = caller[c].rec
     THEN /\ Say(c, [caller[c] EXCEPT !.pc = "look"])
          /\ runner' = [runner EXCEPT !.sig = runner.pc # "exec"]
     ELSE Fails(c) /\ UNCHANGED runner
  /\ UNCHANGED <<restartFiles, spent>>
----------------------------------------------------------------------------
(* The caller waits.  It reads the lock without the guard: a new generation  *)
(* of the same process must run the candidate.                               *)
Look(c) ==
  /\ caller[c].pc = "look"
  /\ \/ Fails(c)
     \/ LET k == caller[c]
        IN IF Moved(k) /\ holder.img # k.cand THEN Fails(c)
           ELSE Say(c, [k EXCEPT !.pc = IF Moved(k) THEN "ready" ELSE "peek",
                                 !.exp = IF Moved(k) THEN holder ELSE @,
                                 !.seen = IF holder = Absent THEN 0 ELSE holder.gen])
  /\ UNCHANGED <<restartFiles, runner, spent>>

(* The generation is prepared and its request has been consumed. *)
SuccessorReady == proof = holder.gen /\ request = Absent

(* Under the guard: the successor is prepared and has consumed the record. *)
Ready(c) ==
  /\ caller[c].pc = "ready" /\ GuardFree
  /\ LET k == caller[c]
     IN IF ~SameIncumbent(c) THEN Fails(c)
        ELSE IF SuccessorReady
             THEN Ends(c, "restarted")
             ELSE Say(c, [k EXCEPT !.pc = "peek"])
  /\ UNCHANGED <<restartFiles, runner, spent>>

(* The record is read without the guard: refused, gone, or still pending. *)
Peek(c) ==
  /\ caller[c].pc = "peek"
  /\ LET k == caller[c]
     IN CASE Awaited(k) /\ request.refused -> Fails(c)
          [] ~Awaited(k) /\ k.seen \in {0, k.rec.gen} ->
               Fails(c)
          [] OTHER -> Say(c, [k EXCEPT !.pc = "look", !.seen = 0])
  /\ UNCHANGED <<restartFiles, runner, spent>>

CallerNext ==
  \E c \in Callers :
    \/ \E cand \in Asked : Ask(c, cand)
    \/ Snapshot(c) \/ Preflight(c) \/ Publish(c) \/ Notify(c)
    \/ Look(c) \/ Ready(c) \/ Peek(c)
=============================================================================
