------------------------------ MODULE Delivery ------------------------------
(* Maildir delivery and consumption of one AMQ queue root, as the processes *)
(* of the amq command line perform it concurrently on one file system:      *)
(*   - `amq send`  (internal/cli/send.go over fsq.DeliverToInboxes and      *)
(*     fsq.DeliverToExistingInbox): stage in inbox/tmp, publish into        *)
(*     inbox/new without replacing, clean up and report;                    *)
(*   - `amq drain` and `amq read` (internal/cli/inbox_collect.go, read.go   *)
(*     over fsq.MoveNewToCur): claim new -> cur, parse, emit a receipt or   *)
(*     move the claimed message to the dead-letter queue, print the batch;  *)
(*   - `amq cleanup --tmp-older-than`.                                      *)
(* Any process may crash between two steps, and any file-system call may    *)
(* fail.  A message is the pair <<s, a>> of the send that wrote it and the  *)
(* recipient it is for; a directory is the set of messages whose files it   *)
(* holds.  File[s] is the file name the send uses and data[s] its bytes.    *)
EXTENDS Naturals, FiniteSets

CONSTANTS Senders,      \* invocations of amq send
          Agents,       \* recipients
          Consumers,    \* consumer processes (amq drain, amq read)
          None,         \* no agent, no message
          Rcpt,         \* [Senders -> SUBSET Agents], the deduplicated --to list
          File,         \* [Senders -> Nat], ordered as collectInboxFilenames sorts
          Payloads,     \* the bytes a send may write
          Corrupt,      \* those that do not parse or validate
          Peer,         \* sends to another project (DeliverToExistingInbox)
          Waiters,      \* sends with --wait-for drained
          Me,           \* [Consumers -> Agents]
          Limit         \* --limit of a drain, 0 for none

Msgs == Senders \X Agents

ASSUME DeliveryAssumption ==
  /\ Rcpt \in [Senders -> SUBSET Agents]
  /\ \A s \in Senders : Rcpt[s] # {}
  /\ File \in [Senders -> Nat]
  /\ Me \in [Consumers -> Agents]
  /\ Corrupt \subseteq Payloads /\ Peer \subseteq Senders /\ Waiters \subseteq Senders
  /\ Limit \in Nat
  /\ None \notin Agents /\ None \notin Msgs /\ None \notin Payloads

VARIABLES
  part, tmp,       \* attempt files in inbox/tmp: still being written, complete
  inew, icur,      \* inbox/new and inbox/cur
  dlq,             \* messages with an envelope in dlq/new
  receipts,        \* receipt files <<consumer agent, file, stage>>
  sent,            \* sends copied to the sender's outbox/sent
  data,            \* the bytes each send writes
  phase, at,       \* each send's program counter and the recipient it works on
  staged, committed, \* recipients staged in tmp, recipients published
  drop,            \* recipients whose tmp file is still to be removed
  report,          \* what the send tells its caller
  pc, todo,        \* each consumer's program counter and remaining file names
  hold, unsure,    \* its claimed message; the claim's directory sync failed
  items,           \* the messages its batch will print
  pubs,            \* history: messages ever renamed into inbox/new
  mine,            \* history: messages each consumer claimed in this batch
  shown            \* history: how many batches printed each message they had claimed

disk == <<part, tmp, inew, icur, dlq, receipts, sent>>
senderVars == <<data, phase, at, staged, committed, drop, report>>
consumerVars == <<pc, todo, hold, unsure, items, mine, shown>>
vars == <<disk, senderVars, consumerVars, pubs>>

NoReport == [status |-> "none", delivered |-> {}, failed |-> {}, pending |-> {}]

Init ==
  /\ part = {} /\ tmp = {} /\ inew = {} /\ icur = {} /\ dlq = {}
  /\ receipts = {} /\ sent = {} /\ pubs = {}
  /\ data = [s \in Senders |-> None]
  /\ phase = [s \in Senders |-> "idle"]
  /\ at = [s \in Senders |-> None]
  /\ staged = [s \in Senders |-> {}]
  /\ committed = [s \in Senders |-> {}]
  /\ drop = [s \in Senders |-> {}]
  /\ report = [s \in Senders |-> NoReport]
  /\ pc = [c \in Consumers |-> "idle"]
  /\ todo = [c \in Consumers |-> {}]
  /\ hold = [c \in Consumers |-> None]
  /\ unsure = [c \in Consumers |-> FALSE]
  /\ items = [c \in Consumers |-> {}]
  /\ mine = [c \in Consumers |-> {}]
  /\ shown = [m \in Msgs |-> 0]

\* The messages of directory box whose path would be m's path there.
SameName(m, box) == {n \in box : n[2] = m[2] /\ File[n[1]] = File[m[1]]}
\* The messages of directory box an agent finds under a file name.
Named(a, f, box) == {n \in box : n[2] = a /\ File[n[1]] = f}

-----------------------------------------------------------------------------
(* Sending *)

\* How a send ends: status and recipient sets of the returned error, and the
\* staged tmp files it still has to remove before it returns.
Return(s, status, delivered, failed, pending, cleanup) ==
  /\ report' = [report EXCEPT ![s] = [status |-> status, delivered |-> delivered,
                                      failed |-> failed, pending |-> pending]]
  /\ drop' = [drop EXCEPT ![s] = cleanup]
  /\ phase' = [phase EXCEPT ![s] = "cleanup"]

\* Mutant: the cleanup also removes the attempt that a collision refused.
PublishErrorDropsAll(s, a, status, keepFailed) ==
  LET pending == staged[s] \ (committed[s] \cup {a})
  IN Return(s, status, committed[s], {a}, pending, pending \cup {a})

\* partialDeliveryError, or the plain error of a single peer delivery, which
\* names no other recipient and removes no other file.
PublishError(s, a, status, keepFailed) ==
  LET pending == staged[s] \ (committed[s] \cup {a})
  IN IF s \in Peer
     THEN Return(s, status, {}, {a}, {}, {})
     ELSE Return(s, status, committed[s], {a}, pending,
                 IF keepFailed THEN pending ELSE pending \cup {a})

\* The rename into new (or an identical file there) is visible: the sync of
\* inbox/new succeeds, or the send returns a committed durability error.
SyncNew(s, a) ==
  \/ /\ committed' = [committed EXCEPT ![s] = @ \cup {a}]
     /\ phase' = [phase EXCEPT ![s] = IF committed[s] \cup {a} = Rcpt[s] THEN "record"
                                      ELSE IF s \in Peer THEN "stage" ELSE "publish"]
     /\ UNCHANGED <<drop, report>>
  \/ /\ LET pending == staged[s] \ (committed[s] \cup {a})
        IN IF s \in Peer
           THEN Return(s, "uncertain", {a}, {}, {}, {})
           ELSE Return(s, "uncertain", committed[s] \cup {a}, {}, pending, pending)
     /\ UNCHANGED committed

\* The process is gone, and its memory with it.
EndSend(s, how) ==
  /\ phase' = [phase EXCEPT ![s] = how]
  /\ at' = [at EXCEPT ![s] = None]
  /\ staged' = [staged EXCEPT ![s] = {}]
  /\ committed' = [committed EXCEPT ![s] = {}]
  /\ drop' = [drop EXCEPT ![s] = {}]

Send(s) ==
  /\ phase[s] = "idle"
  /\ phase' = [phase EXCEPT ![s] = "stage"]
  /\ \E d \in Payloads : data' = [data EXCEPT ![s] = d]
  /\ UNCHANGED <<disk, at, staged, committed, drop, report, consumerVars, pubs>>

StageOpen(s, a) ==
  /\ phase[s] = "stage"
  /\ a \in Rcpt[s] \ staged[s]
  /\ part' = part \cup {<<s, a>>}
  /\ at' = [at EXCEPT ![s] = a]
  /\ phase' = [phase EXCEPT ![s] = "write"]
  /\ UNCHANGED <<data, tmp, inew, icur, dlq, receipts, sent, staged, committed, drop, report,
                 consumerVars, pubs>>

\* A tmp file that cleanup unlinked meanwhile is written and synced without error.
StageWrite(s) ==
  /\ phase[s] = "write"
  /\ LET m == <<s, at[s]>>
     IN /\ part' = part \ {m}
        /\ tmp' = tmp \cup ({m} \cap part)
  /\ staged' = [staged EXCEPT ![s] = @ \cup {at[s]}]
  /\ phase' = [phase EXCEPT ![s] = IF s \in Peer \/ staged[s] \cup {at[s]} = Rcpt[s]
                                   THEN "publish" ELSE "stage"]
  /\ UNCHANGED <<data, inew, icur, dlq, receipts, sent, at, committed, drop, report,
                 consumerVars, pubs>>

\* mkdir, random name, write, sync or tmp sync fails.  The attempt's own file is
\* removed unless that fails too, leaving a partial or a complete file behind.
StageFail(s) ==
  /\ phase[s] \in {"stage", "write"}
  /\ \/ UNCHANGED <<part, tmp>>
     \/ /\ phase[s] = "write"
        /\ part' = part \ {<<s, at[s]>>}
        /\ \/ UNCHANGED tmp
           \/ tmp' = tmp \cup ({<<s, at[s]>>} \cap part)
  /\ Return(s, "error", {}, {}, {}, IF s \in Peer THEN {} ELSE staged[s])
  /\ UNCHANGED <<data, inew, icur, dlq, receipts, sent, at, staged, committed, consumerVars, pubs>>

\* Mutant: a rename that replaces the destination.
PublishReplacing(s, a) ==
  /\ phase[s] = "publish"
  /\ a \in staged[s] \ committed[s]
  /\ <<s, a>> \in tmp
  /\ tmp' = tmp \ {<<s, a>>}
  /\ inew' = (inew \ SameName(<<s, a>>, inew)) \cup {<<s, a>>}
  /\ pubs' = pubs \cup {<<s, a>>}
  /\ SyncNew(s, a)
  /\ UNCHANGED <<data, part, icur, dlq, receipts, sent, at, staged, consumerVars>>

\* publishTmpNoReplace with a free destination name.
Publish(s, a) ==
  /\ phase[s] = "publish"
  /\ a \in staged[s] \ committed[s]
  /\ <<s, a>> \in tmp
  /\ SameName(<<s, a>>, inew) = {}
  /\ tmp' = tmp \ {<<s, a>>}
  /\ inew' = inew \cup {<<s, a>>}
  /\ pubs' = pubs \cup {<<s, a>>}
  /\ SyncNew(s, a)
  /\ UNCHANGED <<data, part, icur, dlq, receipts, sent, at, staged, consumerVars>>

\* The rename finds the destination name taken.
PublishCollides(s, a) ==
  /\ phase[s] = "publish"
  /\ a \in staged[s] \ committed[s]
  /\ <<s, a>> \in tmp
  /\ SameName(<<s, a>>, inew) # {}
  /\ at' = [at EXCEPT ![s] = a]
  /\ phase' = [phase EXCEPT ![s] = "resolve"]
  /\ UNCHANGED <<data, disk, staged, committed, drop, report, consumerVars, pubs>>

\* The rename fails otherwise (the tmp file was swept, I/O, EXDEV): cleanupTemp.
PublishFail(s, a) ==
  /\ phase[s] = "publish"
  /\ a \in staged[s] \ committed[s]
  /\ tmp' \in {tmp, tmp \ {<<s, a>>}}
  /\ PublishError(s, a, "error", FALSE)
  /\ UNCHANGED <<data, part, inew, icur, dlq, receipts, sent, at, staged, committed,
                 consumerVars, pubs>>

\* Mutant: any collision counts as a replay of the same message.
ResolveBlindly(s) ==
  /\ phase[s] = "resolve"
  /\ tmp' = tmp \ {<<s, at[s]>>}
  /\ SyncNew(s, at[s])
  /\ UNCHANGED <<data, part, inew, icur, dlq, receipts, sent, at, staged, consumerVars, pubs>>

\* resolvePublishCollision: identical bytes are an idempotent success; other
\* bytes, or a destination that cannot be read (a consumer may have claimed it
\* meanwhile), keep both copies.
Resolve(s) ==
  LET a == at[s]
      m == <<s, a>>
      twins == {n \in SameName(m, inew) : data[n[1]] = data[s]}
  IN /\ phase[s] = "resolve"
     /\ \/ /\ PublishError(s, a, "collision", TRUE)
           /\ UNCHANGED <<tmp, committed>>
        \/ /\ twins # {}
           /\ tmp' = tmp \ {m}
           /\ SyncNew(s, a)
        \/ /\ twins # {}                      \* removing the redundant tmp fails
           /\ PublishError(s, a, "error", FALSE)
           /\ UNCHANGED <<tmp, committed>>
     /\ UNCHANGED <<data, part, inew, icur, dlq, receipts, sent, at, staged, consumerVars, pubs>>

\* cleanupTmpStages, one file at a time; a failed removal leaves the file.
CleanupTmp(s) ==
  /\ phase[s] = "cleanup"
  /\ \E a \in drop[s] : /\ drop' = [drop EXCEPT ![s] = @ \ {a}]
                        /\ tmp' \in {tmp, tmp \ {<<s, a>>}}
  /\ UNCHANGED <<data, part, inew, icur, dlq, receipts, sent, phase, at, staged, committed, report,
                 consumerVars, pubs>>

SendFails(s) ==
  /\ phase[s] = "cleanup"
  /\ drop[s] = {}
  /\ EndSend(s, "failed")
  /\ UNCHANGED <<data, disk, report, consumerVars, pubs>>

\* Best-effort copy to outbox/sent, then --wait-for or the success output.
Record(s) ==
  /\ phase[s] = "record"
  /\ sent' \in {sent, sent \cup {s}}
  /\ report' = [report EXCEPT ![s] = [status |-> "ok", delivered |-> committed[s],
                                      failed |-> {}, pending |-> {}]]
  /\ EndSend(s, IF s \in Waiters THEN "wait" ELSE "done")
  /\ UNCHANGED <<data, part, tmp, inew, icur, dlq, receipts, consumerVars, pubs>>

\* WaitForDeliveryRoot finds the single recipient's receipt, or times out.
WaitMatched(s) ==
  /\ phase[s] = "wait"
  /\ \E a \in Rcpt[s] : <<a, File[s], "drained">> \in receipts
  /\ phase' = [phase EXCEPT ![s] = "matched"]
  /\ UNCHANGED <<data, disk, at, staged, committed, drop, report, consumerVars, pubs>>

WaitTimeout(s) ==
  /\ phase[s] = "wait"
  /\ phase' = [phase EXCEPT ![s] = "timeout"]
  /\ UNCHANGED <<data, disk, at, staged, committed, drop, report, consumerVars, pubs>>

SenderEnded == {"idle", "failed", "done", "matched", "timeout", "crashed"}

CrashSender(s) ==
  /\ phase[s] \notin SenderEnded
  /\ EndSend(s, "crashed")
  /\ report' = [report EXCEPT ![s] = NoReport]
  /\ UNCHANGED <<data, disk, consumerVars, pubs>>

\* amq cleanup --tmp-older-than removes an attempt file of any age the operator
\* chose, whether its sender is dead or only slow.
SweepTmp(m) ==
  /\ m \in tmp \cup part
  /\ tmp' = tmp \ {m}
  /\ part' = part \ {m}
  /\ UNCHANGED <<inew, icur, dlq, receipts, sent, senderVars, consumerVars, pubs>>

-----------------------------------------------------------------------------
(* Consuming *)

\* receipt.EmitDeliveryRoot is best effort.
emitReceipt(a, f, stage) ==
  receipts' \in {receipts, receipts \cup {<<a, f, stage>>}}

\* drainInboxItemsPinned takes its sorted snapshot of inbox/new.
Drain(c) ==
  /\ pc[c] = "idle"
  /\ pc' = [pc EXCEPT ![c] = "scan"]
  /\ todo' = [todo EXCEPT ![c] = {File[m[1]] : m \in {n \in inew : n[2] = Me[c]}}]
  /\ UNCHANGED <<disk, senderVars, hold, unsure, items, mine, shown, pubs>>

\* Mutant: the limit is reached one item early.
LimitReachedEarly(c) == Limit > 0 /\ Cardinality(items[c]) + 1 >= Limit
LimitReached(c) == Limit > 0 /\ Cardinality(items[c]) >= Limit

Next_File(c, f) ==
  /\ pc[c] = "scan"
  /\ ~LimitReached(c)
  /\ f \in todo[c]
  /\ \A g \in todo[c] : f <= g

\* MoveNewToCur renames new -> cur without replacing; a failed directory sync
\* afterwards is a committed claim of uncertain durability.
MoveNewToCur(c, m) ==
  /\ m \in inew
  /\ SameName(m, icur) = {}
  /\ inew' = inew \ {m}
  /\ icur' = icur \cup {m}
  /\ hold' = [hold EXCEPT ![c] = m]
  /\ \E b \in BOOLEAN : unsure' = [unsure EXCEPT ![c] = b]
  /\ mine' = [mine EXCEPT ![c] = @ \cup {m}]

ClaimWins(c) ==
  \E f \in todo[c] :
    /\ Next_File(c, f)
    /\ \E m \in Named(Me[c], f, inew) : MoveNewToCur(c, m)
    /\ todo' = [todo EXCEPT ![c] = @ \ {f}]
    /\ pc' = [pc EXCEPT ![c] = "held"]
    /\ UNCHANGED <<part, tmp, dlq, receipts, sent, senderVars, items, shown, pubs>>

\* Another consumer won the claim: skip the file.
ClaimLost(c) ==
  \E f \in todo[c] :
    /\ Next_File(c, f)
    /\ Named(Me[c], f, inew) = {}
    /\ todo' = [todo EXCEPT ![c] = @ \ {f}]
    /\ UNCHANGED <<disk, senderVars, pc, hold, unsure, items, mine, shown, pubs>>

\* A ClaimCollisionError ends the batch.
ClaimCollides(c) ==
  \E f \in todo[c] :
    /\ Next_File(c, f)
    /\ Named(Me[c], f, inew) # {}
    /\ Named(Me[c], f, icur) # {}
    /\ pc' = [pc EXCEPT ![c] = "out"]
    /\ UNCHANGED <<disk, senderVars, todo, hold, unsure, items, mine, shown, pubs>>

\* So does any other error of the rename.
ClaimFails(c) ==
  /\ \E f \in todo[c] : Next_File(c, f)
  /\ pc' = [pc EXCEPT ![c] = "out"]
  /\ UNCHANGED <<disk, senderVars, todo, hold, unsure, items, mine, shown, pubs>>

\* The claimed message parses: receipt, batch item, and the batch goes on
\* unless the claim was uncertain.
Ingest(c) ==
  /\ pc[c] = "held"
  /\ data[hold[c][1]] \notin Corrupt
  /\ emitReceipt(Me[c], File[hold[c][1]], "drained")
  /\ items' = [items EXCEPT ![c] = @ \cup {hold[c]}]
  /\ pc' = [pc EXCEPT ![c] = IF unsure[c] THEN "out" ELSE "scan"]
  /\ UNCHANGED <<part, tmp, inew, icur, dlq, sent, senderVars, todo, hold, unsure, mine,
                 shown, pubs>>

\* Mutant: the drained receipt is written before the message is parsed.
IngestFailsAfterReceipt(c) ==
  /\ pc[c] = "held"
  /\ emitReceipt(Me[c], File[hold[c][1]], "drained")
  /\ pc' = [pc EXCEPT ![c] = "dlq"]
  /\ UNCHANGED <<part, tmp, inew, icur, dlq, sent, senderVars, todo, hold, unsure, items, mine,
                 shown, pubs>>

\* It does not parse or validate, or it cannot be read.
IngestFails(c) ==
  /\ pc[c] = "held"
  /\ pc' = [pc EXCEPT ![c] = "dlq"]
  /\ UNCHANGED <<disk, senderVars, todo, hold, unsure, items, mine, shown, pubs>>

\* Mutant: a failed envelope ends the batch without the claimed item.
WriteEnvelopeDropsItem(c) ==
  /\ pc[c] = "dlq"
  /\ \/ /\ dlq' = dlq \cup {hold[c]}
        /\ pc' = [pc EXCEPT ![c] = "source"]
     \/ /\ pc' = [pc EXCEPT ![c] = "out"]
        /\ UNCHANGED dlq
  /\ UNCHANGED <<part, tmp, inew, icur, receipts, sent, senderVars, todo, hold, unsure, items,
                 mine, shown, pubs>>

\* moveInboxMessageToDLQ up to the envelope: none is written, or it is visible
\* and synced, or it is visible and its sync failed (the source is retained).
WriteEnvelope(c) ==
  /\ pc[c] = "dlq"
  /\ \/ /\ dlq' = dlq \cup {hold[c]}
        /\ pc' = [pc EXCEPT ![c] = "source"]
        /\ UNCHANGED items
     \/ /\ dlq' \in {dlq, dlq \cup {hold[c]}}
        /\ items' = [items EXCEPT ![c] = @ \cup {hold[c]}]
        /\ pc' = [pc EXCEPT ![c] = "out"]
  /\ UNCHANGED <<part, tmp, inew, icur, receipts, sent, senderVars, todo, hold, unsure, mine,
                 shown, pubs>>

\* Remove the claimed source after its envelope is durable; the batch goes on
\* when every sync (the claim's repeated ones too) succeeded.
RemoveSource(c) ==
  /\ pc[c] = "source"
  /\ \/ /\ icur' = icur \ {hold[c]}
        /\ emitReceipt(Me[c], File[hold[c][1]], "dlq")
        /\ \E next \in {"scan", "out"} : pc' = [pc EXCEPT ![c] = next]
     \/ /\ pc' = [pc EXCEPT ![c] = "out"]
        /\ UNCHANGED <<icur, receipts>>
  /\ items' = [items EXCEPT ![c] = @ \cup {hold[c]}]
  /\ UNCHANGED <<part, tmp, inew, dlq, sent, senderVars, todo, hold, unsure, mine, shown, pubs>>

\* amq read looks the id up in inbox/new, parses the message and claims it
\* afterwards.
Peek(c) ==
  /\ pc[c] = "idle"
  /\ \E m \in inew :
       /\ m[2] = Me[c]
       /\ hold' = [hold EXCEPT ![c] = m]
       /\ \E next \in {"bad", "peeked"} :
            /\ data[m[1]] \in Corrupt => next = "bad"
            /\ pc' = [pc EXCEPT ![c] = next]
  /\ UNCHANGED <<disk, senderVars, todo, unsure, items, mine, shown, pubs>>

\* Mutant: a message in inbox/new is printed without its claim.
RereadAnywhere(c) ==
  /\ pc[c] = "idle"
  /\ \E m \in inew \cup icur :
       /\ m[2] = Me[c] /\ data[m[1]] \notin Corrupt
       /\ hold' = [hold EXCEPT ![c] = m]
  /\ pc' = [pc EXCEPT ![c] = "again"]
  /\ UNCHANGED <<disk, senderVars, todo, unsure, items, mine, shown, pubs>>

\* An id that is not in inbox/new is looked up in inbox/cur: what parses is
\* printed once more, without a claim and without a receipt; what does not is
\* an error only.
Reread(c) ==
  /\ pc[c] = "idle"
  /\ \E m \in icur :
       /\ m[2] = Me[c] /\ SameName(m, inew) = {} /\ data[m[1]] \notin Corrupt
       /\ hold' = [hold EXCEPT ![c] = m]
  /\ pc' = [pc EXCEPT ![c] = "again"]
  /\ UNCHANGED <<disk, senderVars, todo, unsure, items, mine, shown, pubs>>

\* The claim is by name, so it takes whatever message now has that name.
PeekedClaim(c) ==
  /\ pc[c] \in {"peeked", "bad"}
  /\ \E m \in SameName(hold[c], inew) : MoveNewToCur(c, m)
  /\ IF pc[c] = "bad"
     THEN /\ pc' = [pc EXCEPT ![c] = "dlq"]
          /\ UNCHANGED <<receipts, items>>
     ELSE /\ emitReceipt(Me[c], File[hold[c][1]], "drained")
          /\ items' = [items EXCEPT ![c] = {hold[c]}]
          /\ pc' = [pc EXCEPT ![c] = "out"]
  /\ UNCHANGED <<part, tmp, dlq, sent, senderVars, todo, shown, pubs>>

\* The claim fails (somebody else made it, a collision, I/O).  A message that
\* parsed is not printed then; one that did not gets its failure record printed
\* all the same.
PeekedLost(c) ==
  /\ \/ /\ pc[c] = "peeked"
        /\ pc' = [pc EXCEPT ![c] = "idle"]
        /\ hold' = [hold EXCEPT ![c] = None]
     \/ /\ pc[c] = "bad"
        /\ pc' = [pc EXCEPT ![c] = "excuse"]
        /\ UNCHANGED hold
  /\ UNCHANGED <<disk, senderVars, todo, unsure, items, mine, shown, pubs>>

\* amq read prints without having claimed: a message read again, or the failure
\* record of one whose claim it lost.
Echoing == {"again", "excuse"}

BatchOver(c) == pc[c] \in Echoing \cup {"out"} \/ (pc[c] = "scan" /\ (todo[c] = {} \/ LimitReached(c)))

EndBatch(c) ==
  /\ pc' = [pc EXCEPT ![c] = "idle"]
  /\ todo' = [todo EXCEPT ![c] = {}]
  /\ hold' = [hold EXCEPT ![c] = None]
  /\ unsure' = [unsure EXCEPT ![c] = FALSE]
  /\ items' = [items EXCEPT ![c] = {}]
  /\ mine' = [mine EXCEPT ![c] = {}]

\* finishDrainBatch prints the items, whether or not the batch ended in an error.
Output(c) ==
  /\ BatchOver(c)
  /\ EndBatch(c)
  /\ shown' = [m \in Msgs |-> IF m \in items[c] THEN shown[m] + 1 ELSE shown[m]]
  /\ UNCHANGED <<disk, senderVars, pubs>>

\* The process dies, or its output cannot be written.
CrashConsumer(c) ==
  /\ pc[c] # "idle"
  /\ EndBatch(c)
  /\ UNCHANGED <<disk, senderVars, shown, pubs>>

-----------------------------------------------------------------------------
SenderStep(s) ==
  \/ \E a \in Agents : StageOpen(s, a) \/ Publish(s, a) \/ PublishCollides(s, a) \/ PublishFail(s, a)
  \/ StageWrite(s) \/ StageFail(s) \/ Resolve(s) \/ CleanupTmp(s) \/ SendFails(s)
  \/ Record(s) \/ WaitMatched(s) \/ WaitTimeout(s)

ConsumerStep(c) ==
  \/ ClaimWins(c) \/ ClaimLost(c) \/ ClaimCollides(c) \/ ClaimFails(c)
  \/ Ingest(c) \/ IngestFails(c) \/ WriteEnvelope(c) \/ RemoveSource(c)
  \/ PeekedClaim(c) \/ PeekedLost(c) \/ Output(c)

Next ==
  \/ \E s \in Senders : Send(s) \/ SenderStep(s) \/ CrashSender(s)
  \/ \E c \in Consumers : Drain(c) \/ Peek(c) \/ Reread(c) \/ ConsumerStep(c) \/ CrashConsumer(c)
  \/ \E m \in Msgs : SweepTmp(m)

Spec == Init /\ [][Next]_vars

\* A started send runs on; agents drain again and again (a wake or a hook
\* prompts them), and neither a crash nor an I/O error hits every claim of a
\* consumer that keeps finding one to make.
Fairness ==
  /\ \A s \in Senders : WF_vars(SenderStep(s))
  /\ \A c \in Consumers : /\ WF_vars(ConsumerStep(c))
                           /\ SF_vars(Drain(c))
                           /\ SF_vars(ClaimWins(c))

FairSpec == Spec /\ Fairness

-----------------------------------------------------------------------------
(* Properties *)

Reports == [status : {"none", "ok", "uncertain", "collision", "error"},
            delivered : SUBSET Agents, failed : SUBSET Agents, pending : SUBSET Agents]

\* The directories hold messages and receipts, ...
DiskType ==
  /\ part \subseteq Msgs /\ tmp \subseteq Msgs
  /\ inew \subseteq Msgs /\ icur \subseteq Msgs /\ dlq \subseteq Msgs /\ pubs \subseteq Msgs
  /\ receipts \subseteq Agents \X Nat \X {"drained", "dlq"}
  /\ sent \subseteq Senders

Phases == SenderEnded \cup
            {"stage", "write", "publish", "resolve", "cleanup", "record", "wait"}

\* ... what a send has in memory ...
SenderType ==
  /\ data \in [Senders -> Payloads \cup {None}]
  /\ phase \in [Senders -> Phases]
  /\ at \in [Senders -> Agents \cup {None}]
  /\ staged \in [Senders -> SUBSET Agents]
  /\ committed \in [Senders -> SUBSET Agents]
  /\ drop \in [Senders -> SUBSET Agents]
  /\ report \in [Senders -> Reports]

PCs == {"idle", "scan", "held", "dlq", "source", "peeked", "bad", "out"} \cup Echoing

\* ... and what a consumer has.
ConsumerType ==
  /\ pc \in [Consumers -> PCs]
  /\ todo \in [Consumers -> SUBSET Nat]
  /\ hold \in [Consumers -> Msgs \cup {None}]
  /\ unsure \in [Consumers -> BOOLEAN]
  /\ items \in [Consumers -> SUBSET Msgs]
  /\ mine \in [Consumers -> SUBSET Msgs]
  /\ shown \in [Msgs -> Nat]

\* Every variable stays within the values the processes and directories can have.
TypeOK == DiskType /\ SenderType /\ ConsumerType

\* "Messages are never partially written or lost" (README.md): a message once
\* published is in inbox/new, inbox/cur or a dead-letter envelope, whatever
\* crashes, failed calls, collisions and competing consumers follow, and only
\* completely written files are ever published.
NoLoss ==
  /\ pubs \subseteq inew \cup icur \cup dlq
  /\ part \cap (tmp \cup inew \cup icur) = {}

\* Competing consumers: a message is printed as received, by the process that
\* claimed it, at most once, and while the batch that has claimed it is open no
\* other batch has it or printed it.  What amq read prints without a claim is a
\* message somebody has claimed, or a failure record without its payload.
AtMostOnce ==
  /\ \A m \in Msgs : shown[m] <= 1
  /\ \A c \in Consumers : \A m \in mine[c] :
       /\ shown[m] = 0
       /\ \A d \in Consumers \ {c} : m \notin mine[d] \cup items[d]
  /\ \A c \in Consumers :
       /\ pc[c] = "again" => hold[c] \in icur \cup dlq
       /\ pc[c] = "excuse" => hold[c] \in pubs /\ items[c] = {}

\* "Once a claim commits, its payload or failure record must be observable even
\* if a later claim fails" (drain.go): when a batch ends, for whatever reason,
\* it prints every message it claimed.
BatchComplete ==
  \A c \in Consumers : BatchOver(c) => mine[c] \subseteq items[c]

\* What the sender is told is true when it is told: a recipient reported failed
\* or pending never got this send's message, so sending again duplicates
\* nothing, and one reported delivered has had these bytes under this name, as
\* every recipient of a send with an audit copy in outbox/sent has.
ReportTruth ==
  \A s \in Senders :
    /\ s \in sent => report[s].delivered = Rcpt[s] \/ phase[s] = "crashed"
    /\ \A a \in report[s].failed \cup report[s].pending : <<s, a>> \notin pubs
    /\ \A a \in report[s].delivered :
         \E n \in SameName(<<s, a>>, pubs) : data[n[1]] = data[s]

\* A drained receipt is backed by the message retained in inbox/cur, a dlq
\* receipt by a dead-letter envelope; both survive every later step, and a
\* --wait-for drained that matched speaks of its own send's message.
ReceiptTruth ==
  /\ \A r \in receipts :
       Named(r[1], r[2], IF r[3] = "drained" THEN icur ELSE dlq) # {}
  /\ \A s \in Senders :
       phase[s] = "matched" => \E a \in Rcpt[s] : <<s, a>> \in icur

\* "Normal AMQ flows never hold the same filename in both inbox/new and
\* inbox/cur" (claim_rename.go), as long as each send has its own file name.
NeverBothBoxes ==
  \A m \in inew : Named(m[2], File[m[1]], icur) = {}

\* "A no-replace collision must keep the failed attempt so both copies survive"
\* (maildir.go): once a send reports a collision, only an operator's cleanup
\* removes the refused attempt from tmp.
BothCopiesSurvive ==
  [][\A s \in Senders, a \in Agents :
       (report'[s].status = "collision" /\ a \in report'[s].failed
          /\ <<s, a>> \in tmp /\ <<s, a>> \notin tmp')
         => SweepTmp(<<s, a>>)]_vars

\* Where a message is, read off the directories.
Place(m) ==
  IF m \in dlq THEN "dead"
  ELSE IF m \in icur THEN "claimed"
  ELSE IF m \in inew THEN "queued" ELSE "absent"

\* What is being printed without a claim.
Echo == {<<hold[c], pc[c]>> : c \in {d \in Consumers : pc[d] \in Echoing}}

Promise == INSTANCE Mailbox
             WITH state <- [m \in Msgs |-> Place(m)], told <- shown, echo <- Echo

\* The directories, claims and batches implement the abstract mailbox.
ImplementsMailbox == Promise!Spec

\* A published message does not stay in inbox/new for ever.
EventuallyClaimed ==
  \A m \in Msgs : m \in inew ~> m \notin inew
=============================================================================
