--------------------------- MODULE DeliveryProofs ---------------------------
(* What Delivery guarantees for every set of agents, sends and consumers.    *)
(* Any step keeps every variable within its type and a send's memory true of *)
(* the disk, so no message is lost and reports are truthful. When every send *)
(* has a file name of its own, a claimed message belongs to exactly one      *)
(* batch until that batch prints it: a batch prints all it claimed, receipts *)
(* are backed by files, no name is in new and cur at once, and the           *)
(* directories implement the abstract mailbox.                               *)
EXTENDS Delivery, TLAPS

\* A leaf that names no prover is Zenon's.
USE ZenonT(60)

-----------------------------------------------------------------------------
(* The inductive invariant *)

\* The phases in which a send may still publish.
Sending == {"idle", "stage", "write", "publish", "resolve"}

\* A send's memory agrees with its program counter.
Consistent(s) ==
  /\ phase[s] = "idle" => staged[s] = {} /\ committed[s] = {}
  /\ phase[s] \in {"write", "resolve"} => at[s] \in Agents
  /\ phase[s] = "resolve" => at[s] \in staged[s] \ committed[s]
  /\ phase[s] = "record" => committed[s] = Rcpt[s]
  /\ phase[s] \in Sending \cup {"record"} => report[s] = NoReport /\ s \notin sent
  /\ phase[s] = "cleanup" => s \notin sent

SenderInv == \A s \in Senders : Consistent(s)

\* A complete attempt or a published file belongs to a recipient that its send,
\* as long as it may still publish, knows to be staged.
StagedOnly(s) ==
  phase[s] \in Sending =>
    \A a \in Agents : <<s, a>> \in tmp \cup pubs => a \in staged[s]

StagedInv == \A s \in Senders : StagedOnly(s)

\* A send that may still publish has published to no recipient outside
\* committed, and every committed recipient has had its bytes.
HasHad(s, a) == \E n \in SameName(<<s, a>>, pubs) : data[n[1]] = data[s]

CommittedOnly(s) ==
  /\ phase[s] \in Sending =>
       \A a \in Agents : <<s, a>> \in pubs => a \in committed[s]
  /\ \A a \in committed[s] : HasHad(s, a)

CommittedInv == \A s \in Senders : CommittedOnly(s)

\* A consumer past its claim holds a message, and one that is about to remove
\* the claimed source has written the envelope.
Holds(c) ==
  /\ pc[c] \in {"held", "dlq", "source", "peeked", "bad", "again", "excuse"} => hold[c] \in Msgs
  /\ pc[c] = "source" => hold[c] \in dlq

ConsumerInv == \A c \in Consumers : Holds(c)

\* Only published files are in inbox/new and inbox/cur.
BoxInv == inew \cup icur \subseteq pubs

-----------------------------------------------------------------------------
(* What a step of one process leaves alone *)

SenderMove(s) == Send(s) \/ SenderStep(s) \/ CrashSender(s)
ConsumerMove(c) == Drain(c) \/ Peek(c) \/ Reread(c) \/ ConsumerStep(c) \/ CrashConsumer(c)

\* Every step is a send's, a consumer's or a cleanup's.
LEMMA Moves ==
  ASSUME [Next]_vars
  PROVE  \/ \E s \in Senders : SenderMove(s)
         \/ \E c \in Consumers : ConsumerMove(c)
         \/ \E m \in Msgs : SweepTmp(m)
         \/ UNCHANGED vars
  BY DEF Next, SenderMove, ConsumerMove

\* Consumers leave inbox/tmp and the senders' memory alone ...
LEMMA ConsumerFrame ==
  ASSUME NEW c \in Consumers, ConsumerMove(c)
  PROVE  UNCHANGED <<part, tmp, sent, data, phase, at, staged, committed, drop, report, pubs>>
<1> USE DEF ConsumerMove, ConsumerStep, disk, senderVars
<1>1. CASE Drain(c) \/ Peek(c) \/ Reread(c) \/ PeekedClaim(c) \/ PeekedLost(c)
  BY <1>1 DEF Drain, Peek, Reread, PeekedClaim, PeekedLost
<1>2. CASE ClaimWins(c) \/ ClaimLost(c) \/ ClaimCollides(c) \/ ClaimFails(c)
  BY <1>2 DEF ClaimWins, ClaimLost, ClaimCollides, ClaimFails
<1>3. CASE Ingest(c) \/ IngestFails(c) \/ WriteEnvelope(c) \/ RemoveSource(c)
  BY <1>3 DEF Ingest, IngestFails, WriteEnvelope, RemoveSource
<1>4. CASE Output(c) \/ CrashConsumer(c)
  BY <1>4 DEF Output, CrashConsumer
<1> QED
  BY <1>1, <1>2, <1>3, <1>4

\* ... and sends leave inbox/cur, the dead-letter queue and the consumers' memory alone.
LEMMA SenderFrame ==
  ASSUME NEW s \in Senders, SenderMove(s)
  PROVE  UNCHANGED <<icur, dlq, receipts, pc, todo, hold, unsure, items, mine, shown>>
<1> USE DEF SenderMove, SenderStep, disk, consumerVars
<1>1. CASE Send(s) \/ StageWrite(s) \/ StageFail(s) \/ Resolve(s) \/ CleanupTmp(s)
  BY <1>1 DEF Send, StageWrite, StageFail, Resolve, CleanupTmp
<1>2. CASE SendFails(s) \/ Record(s) \/ WaitMatched(s) \/ WaitTimeout(s) \/ CrashSender(s)
  BY <1>2 DEF SendFails, Record, WaitMatched, WaitTimeout, CrashSender
<1>3. CASE \E a \in Agents : StageOpen(s, a) \/ Publish(s, a) \/ PublishCollides(s, a)
                             \/ PublishFail(s, a)
  BY <1>3 DEF StageOpen, Publish, PublishCollides, PublishFail
<1> QED
  BY <1>1, <1>2, <1>3

-----------------------------------------------------------------------------
(* Types of a send's memory *)

\* What a returning send writes is well typed.
LEMMA ReturnType ==
  ASSUME SenderType, NEW s \in Senders,
         NEW status \in {"none", "ok", "uncertain", "collision", "error"},
         NEW delivered \in SUBSET Agents, NEW failed \in SUBSET Agents,
         NEW pending \in SUBSET Agents, NEW cleanup \in SUBSET Agents,
         Return(s, status, delivered, failed, pending, cleanup)
  PROVE  /\ report' \in [Senders -> Reports]
         /\ drop' \in [Senders -> SUBSET Agents]
         /\ phase' \in [Senders -> Phases]
  BY DEF SenderType, Return, Reports, Phases

\* So is what a failed publication reports (partialDeliveryError) ...
LEMMA PublishErrorType ==
  ASSUME SenderType, NEW s \in Senders, NEW a \in Agents,
         NEW status \in {"collision", "error"}, NEW keepFailed \in BOOLEAN,
         PublishError(s, a, status, keepFailed)
  PROVE  /\ report' \in [Senders -> Reports]
         /\ drop' \in [Senders -> SUBSET Agents]
         /\ phase' \in [Senders -> Phases]
<1> DEFINE pending == staged[s] \ (committed[s] \cup {a})
<1>1. /\ pending \in SUBSET Agents /\ {a} \in SUBSET Agents /\ committed[s] \in SUBSET Agents
      /\ pending \cup {a} \in SUBSET Agents /\ {} \in SUBSET Agents
      /\ status \in {"none", "ok", "uncertain", "collision", "error"}
  BY DEF SenderType
<1>2. CASE s \in Peer
  <2>1. Return(s, status, {}, {a}, {}, {})
    BY <1>2 DEF PublishError
  <2> QED
    BY <1>1, <2>1, ReturnType
<1>3. CASE s \notin Peer /\ keepFailed
  <2>1. Return(s, status, committed[s], {a}, pending, pending)
    BY <1>3 DEF PublishError
  <2> QED
    BY <1>1, <2>1, ReturnType
<1>4. CASE s \notin Peer /\ ~keepFailed
  <2>1. Return(s, status, committed[s], {a}, pending, pending \cup {a})
    BY <1>4 DEF PublishError
  <2> QED
    BY <1>1, <2>1, ReturnType
<1> QED
  BY <1>2, <1>3, <1>4

\* ... and what follows a visible one (the sync of inbox/new).
LEMMA SyncNewType ==
  ASSUME SenderType, NEW s \in Senders, NEW a \in Agents, SyncNew(s, a)
  PROVE  /\ report' \in [Senders -> Reports]
         /\ drop' \in [Senders -> SUBSET Agents]
         /\ committed' \in [Senders -> SUBSET Agents]
         /\ phase' \in [Senders -> Phases]
<1> DEFINE pending == staged[s] \ (committed[s] \cup {a})
<1>1. /\ pending \in SUBSET Agents /\ {a} \in SUBSET Agents /\ {} \in SUBSET Agents
      /\ committed[s] \cup {a} \in SUBSET Agents
  BY DEF SenderType
<1>2. CASE /\ committed' = [committed EXCEPT ![s] = @ \cup {a}]
           /\ phase' = [phase EXCEPT ![s] = IF committed[s] \cup {a} = Rcpt[s] THEN "record"
                                      ELSE IF s \in Peer THEN "stage" ELSE "publish"]
           /\ UNCHANGED <<drop, report>>
  BY <1>1, <1>2 DEF SenderType, Phases
<1>3. CASE UNCHANGED committed /\ s \in Peer /\ Return(s, "uncertain", {a}, {}, {}, {})
  BY <1>1, <1>3, ReturnType DEF SenderType
<1>4. CASE /\ UNCHANGED committed /\ s \notin Peer
           /\ Return(s, "uncertain", committed[s] \cup {a}, {}, pending, pending)
  BY <1>1, <1>4, ReturnType DEF SenderType
<1> QED
  BY <1>2, <1>3, <1>4 DEF SyncNew

\* A send that ends clears its memory.
LEMMA EndSendType ==
  ASSUME SenderType, NEW s \in Senders, NEW how \in Phases, EndSend(s, how)
  PROVE  /\ phase' \in [Senders -> Phases]
         /\ at' \in [Senders -> Agents \cup {None}]
         /\ staged' \in [Senders -> SUBSET Agents]
         /\ committed' \in [Senders -> SUBSET Agents]
         /\ drop' \in [Senders -> SUBSET Agents]
  BY DEF SenderType, EndSend

\* Every step of a send keeps the senders' memory well typed.
LEMMA SenderTypeStep ==
  ASSUME SenderType, SenderInv, NEW s \in Senders, SenderMove(s)
  PROVE  SenderType'
<1>1. CASE Send(s)
  BY <1>1 DEF Send, SenderType, Phases
<1>2. CASE StageWrite(s)
  <2>1. at[s] \in Agents
    BY <1>2 DEF StageWrite, SenderInv, Consistent
  <2> QED
    BY <1>2, <2>1 DEF StageWrite, SenderType, Phases
<1>3. CASE StageFail(s)
  <2>1. (IF s \in Peer THEN {} ELSE staged[s]) \in SUBSET Agents /\ {} \in SUBSET Agents
    BY DEF SenderType
  <2>2. Return(s, "error", {}, {}, {}, IF s \in Peer THEN {} ELSE staged[s])
        /\ UNCHANGED <<data, at, staged, committed>>
    BY <1>3 DEF StageFail
  <2>3. report' \in [Senders -> Reports] /\ drop' \in [Senders -> SUBSET Agents]
        /\ phase' \in [Senders -> Phases]
    BY <2>1, <2>2, ReturnType
  <2> QED
    BY <2>2, <2>3 DEF SenderType
<1>4. CASE Resolve(s)
  <2>0. PICK a \in Agents : a = at[s]
    BY <1>4 DEF Resolve, SenderInv, Consistent
  <2>1. UNCHANGED <<data, at, staged>>
    BY <1>4 DEF Resolve
  <2>2. CASE SyncNew(s, a)
    BY <2>1, <2>2, SyncNewType DEF SenderType
  <2>3. CASE \/ PublishError(s, a, "collision", TRUE) /\ UNCHANGED committed
             \/ PublishError(s, a, "error", FALSE) /\ UNCHANGED committed
    BY <2>1, <2>3, PublishErrorType DEF SenderType
  <2> QED
    BY <1>4, <2>0, <2>2, <2>3 DEF Resolve
<1>5. CASE CleanupTmp(s)
  BY <1>5 DEF CleanupTmp, SenderType
<1>6. CASE SendFails(s)
  BY <1>6, EndSendType DEF SendFails, SenderType, Phases, SenderEnded
<1>7. CASE Record(s)
  <2>1. EndSend(s, "wait") \/ EndSend(s, "done")
    BY <1>7 DEF Record
  <2>2. report' \in [Senders -> Reports] /\ UNCHANGED data
    BY <1>7 DEF Record, SenderType, Reports
  <2> QED
    BY <2>1, <2>2, EndSendType DEF SenderType, Phases, SenderEnded
<1>8. CASE WaitMatched(s) \/ WaitTimeout(s)
  BY <1>8 DEF WaitMatched, WaitTimeout, SenderType, Phases, SenderEnded
<1>9. CASE CrashSender(s)
  <2>1. report' \in [Senders -> Reports] /\ UNCHANGED data
    BY <1>9 DEF CrashSender, SenderType, Reports, NoReport
  <2> QED
    BY <1>9, <2>1, EndSendType DEF CrashSender, SenderType, Phases, SenderEnded
<1>10. ASSUME NEW a \in Agents, StageOpen(s, a) \/ PublishCollides(s, a) PROVE SenderType'
  BY <1>10, SMTT(30) DEF StageOpen, PublishCollides, SenderType, Phases
<1>11. ASSUME NEW a \in Agents, Publish(s, a) PROVE SenderType'
  BY <1>11, SyncNewType DEF Publish, SenderType
<1>12. ASSUME NEW a \in Agents, PublishFail(s, a) PROVE SenderType'
  BY <1>12, PublishErrorType DEF PublishFail, SenderType
<1> QED
  BY <1>1, <1>2, <1>3, <1>4, <1>5, <1>6, <1>7, <1>8, <1>9, <1>10, <1>11, <1>12
     DEF SenderMove, SenderStep

-----------------------------------------------------------------------------
(* Types of a consumer's memory *)

\* A claim (MoveNewToCur) stores a message, ...
LEMMA ClaimType ==
  ASSUME DiskType, ConsumerType, NEW c \in Consumers, NEW m \in Msgs, MoveNewToCur(c, m)
  PROVE  /\ hold' \in [Consumers -> Msgs \cup {None}]
         /\ unsure' \in [Consumers -> BOOLEAN]
         /\ mine' \in [Consumers -> SUBSET Msgs]
         /\ inew' \subseteq Msgs /\ icur' \subseteq Msgs
  BY DEF DiskType, ConsumerType, MoveNewToCur

\* ... and a batch that ends clears the memory.
LEMMA EndBatchType ==
  ASSUME ConsumerType, NEW c \in Consumers, EndBatch(c), shown' \in [Msgs -> Nat]
  PROVE  ConsumerType'
  BY DEF ConsumerType, EndBatch, PCs

\* Every step of a consumer keeps the consumers' memory well typed.
LEMMA ConsumerTypeStep ==
  ASSUME DiskType, ConsumerType, ConsumerInv, NEW c \in Consumers, ConsumerMove(c)
  PROVE  ConsumerType'
<1>0. ASSUME NEW next \in PCs, pc' = [pc EXCEPT ![c] = next] PROVE pc' \in [Consumers -> PCs]
  BY <1>0 DEF ConsumerType
<1>1. CASE Drain(c)
  <2>1. {File[m[1]] : m \in {n \in inew : n[2] = Me[c]}} \in SUBSET Nat
    BY DeliveryAssumption, SMTT(20) DEF DiskType, Msgs
  <2> QED
    BY <1>1, <2>1 DEF Drain, ConsumerType, PCs
<1>2. CASE Peek(c)
  BY <1>2, SMTT(30) DEF Peek, DiskType, ConsumerType, PCs
<1>12. CASE Reread(c)
  BY <1>12, SMTT(30) DEF Reread, DiskType, ConsumerType, PCs, Echoing
<1>3. CASE ClaimWins(c)
  <2>1. PICK f \in todo[c], m \in Msgs : /\ MoveNewToCur(c, m)
                                        /\ todo' = [todo EXCEPT ![c] = @ \ {f}]
    BY <1>3 DEF ClaimWins, Named, DiskType
  <2>2. pc' = [pc EXCEPT ![c] = "held"] /\ UNCHANGED <<items, shown>>
    BY <1>3 DEF ClaimWins
  <2>3. todo' \in [Consumers -> SUBSET Nat] /\ pc' \in [Consumers -> PCs]
    BY <2>1, <2>2 DEF ConsumerType, PCs
  <2> QED
    BY <2>1, <2>2, <2>3, ClaimType DEF ConsumerType
<1>4. CASE ClaimLost(c) \/ ClaimCollides(c) \/ ClaimFails(c)
  BY <1>4 DEF ClaimLost, ClaimCollides, ClaimFails, ConsumerType, PCs
<1>5. CASE Ingest(c)
  <2>1. items[c] \cup {hold[c]} \in SUBSET Msgs
    BY <1>5 DEF Ingest, ConsumerInv, Holds, ConsumerType
  <2> QED
    BY <1>5, <2>1 DEF Ingest, ConsumerType, PCs
<1>6. CASE IngestFails(c)
  BY <1>6 DEF IngestFails, ConsumerType, PCs
<1>7. CASE WriteEnvelope(c)
  <2>1. items[c] \cup {hold[c]} \in SUBSET Msgs
    BY <1>7 DEF WriteEnvelope, ConsumerInv, Holds, ConsumerType
  <2>2. \/ UNCHANGED items
        \/ items' = [items EXCEPT ![c] = items[c] \cup {hold[c]}]
    BY <1>7 DEF WriteEnvelope
  <2>3. items' \in [Consumers -> SUBSET Msgs]
    BY <2>1, <2>2 DEF ConsumerType
  <2>4. pc' \in [Consumers -> PCs]
    BY <1>7 DEF WriteEnvelope, ConsumerType, PCs
  <2> QED
    BY <1>7, <2>3, <2>4 DEF WriteEnvelope, ConsumerType
<1>8. CASE RemoveSource(c)
  <2>1. items[c] \cup {hold[c]} \in SUBSET Msgs
    BY <1>8 DEF RemoveSource, ConsumerInv, Holds, ConsumerType
  <2>2. items' \in [Consumers -> SUBSET Msgs]
    BY <1>8, <2>1 DEF RemoveSource, ConsumerType
  <2>3. \E next \in {"scan", "out"} : pc' = [pc EXCEPT ![c] = next]
    BY <1>8 DEF RemoveSource
  <2> QED
    BY <1>0, <1>8, <2>2, <2>3 DEF RemoveSource, ConsumerType, PCs
<1>9. CASE PeekedClaim(c)
  <2>1. PICK m \in Msgs : MoveNewToCur(c, m)
    BY <1>9 DEF PeekedClaim, SameName, DiskType
  <2>2. {hold[c]} \in SUBSET Msgs
    BY <1>9 DEF PeekedClaim, ConsumerInv, Holds
  <2>3. UNCHANGED items \/ items' = [items EXCEPT ![c] = {hold[c]}]
    BY <1>9 DEF PeekedClaim
  <2>4. items' \in [Consumers -> SUBSET Msgs]
    BY <2>2, <2>3 DEF ConsumerType
  <2>5. \E next \in {"dlq", "out"} : pc' = [pc EXCEPT ![c] = next]
    BY <1>9 DEF PeekedClaim
  <2>6. pc' \in [Consumers -> PCs] /\ UNCHANGED <<todo, shown>>
    BY <1>0, <1>9, <2>5 DEF PeekedClaim, PCs
  <2> QED
    BY <2>1, <2>4, <2>6, ClaimType DEF ConsumerType
<1>10. CASE PeekedLost(c)
  BY <1>10 DEF PeekedLost, ConsumerType, PCs, Echoing
<1>11. CASE Output(c) \/ CrashConsumer(c)
  <2>1. shown' \in [Msgs -> Nat]
    BY <1>11, SMTT(20) DEF Output, CrashConsumer, ConsumerType
  <2> QED
    BY <1>11, <2>1, EndBatchType DEF Output, CrashConsumer
<1> QED
  BY <1>1, <1>2, <1>3, <1>4, <1>5, <1>6, <1>7, <1>8, <1>9, <1>10, <1>11, <1>12
     DEF ConsumerMove, ConsumerStep

-----------------------------------------------------------------------------
(* Types of the directories *)

\* A receipt names an agent, a file and a known stage.
LEMMA ReceiptType ==
  ASSUME DiskType, NEW a \in Agents, NEW m \in Msgs, NEW stage \in {"drained", "dlq"},
         emitReceipt(a, File[m[1]], stage)
  PROVE  receipts' \subseteq Agents \X Nat \X {"drained", "dlq"}
<1>1. File[m[1]] \in Nat
  BY DeliveryAssumption DEF Msgs
<1> QED
  BY <1>1, SMTT(20) DEF DiskType, emitReceipt

\* Every step of a send leaves well-typed directories, ...
LEMMA SenderDiskType ==
  ASSUME DiskType, SenderInv, NEW s \in Senders, SenderMove(s)
  PROVE  DiskType'
<1> USE DEF DiskType, Msgs
<1>1. CASE Send(s) \/ SendFails(s) \/ WaitMatched(s) \/ WaitTimeout(s) \/ CrashSender(s)
  BY <1>1 DEF Send, SendFails, WaitMatched, WaitTimeout, CrashSender, disk
<1>2. CASE StageWrite(s) \/ StageFail(s)
  BY <1>2 DEF StageWrite, StageFail
<1>3. CASE Resolve(s) \/ CleanupTmp(s) \/ Record(s)
  BY <1>3 DEF Resolve, CleanupTmp, Record
<1>4. ASSUME NEW a \in Agents, StageOpen(s, a) PROVE DiskType'
  <2>1. <<s, a>> \in Senders \X Agents
    OBVIOUS
  <2> QED
    BY <1>4, <2>1 DEF StageOpen
<1>7. ASSUME NEW a \in Agents, PublishCollides(s, a) PROVE DiskType'
  BY <1>7 DEF PublishCollides, disk
<1>5. ASSUME NEW a \in Agents, PublishFail(s, a) PROVE DiskType'
  BY <1>5 DEF PublishFail
<1>6. ASSUME NEW a \in Agents, Publish(s, a) PROVE DiskType'
  BY <1>6 DEF Publish
<1> QED
  BY <1>1, <1>2, <1>3, <1>4, <1>5, <1>6, <1>7 DEF SenderMove, SenderStep

\* ... and so does every step of a consumer.
LEMMA ConsumerDiskType ==
  ASSUME DiskType, ConsumerType, ConsumerInv, NEW c \in Consumers, ConsumerMove(c)
  PROVE  DiskType'
<1>0. Me[c] \in Agents
  BY DeliveryAssumption
<1>1. CASE Drain(c) \/ Peek(c) \/ Reread(c) \/ PeekedLost(c) \/ Output(c) \/ CrashConsumer(c)
  BY <1>1 DEF Drain, Peek, Reread, PeekedLost, Output, CrashConsumer, disk, DiskType, ConsumerMove, ConsumerStep
<1>2. CASE ClaimLost(c) \/ ClaimCollides(c) \/ ClaimFails(c) \/ IngestFails(c)
  BY <1>2 DEF ClaimLost, ClaimCollides, ClaimFails, IngestFails, disk, DiskType
<1>3. CASE ClaimWins(c)
  <2>1. PICK m \in Msgs : MoveNewToCur(c, m)
    BY <1>3 DEF ClaimWins, Named, DiskType
  <2> QED
    BY <1>3, <2>1, ClaimType DEF ClaimWins, DiskType
<1>4. CASE Ingest(c)
  <2>1. hold[c] \in Msgs /\ emitReceipt(Me[c], File[hold[c][1]], "drained")
    BY <1>4 DEF Ingest, ConsumerInv, Holds
  <2> QED
    BY <1>0, <1>4, <2>1, ReceiptType DEF Ingest, DiskType
<1>5. CASE WriteEnvelope(c)
  <2>1. hold[c] \in Msgs
    BY <1>5 DEF WriteEnvelope, ConsumerInv, Holds
  <2> QED
    BY <1>5, <2>1 DEF WriteEnvelope, DiskType
<1>6. CASE RemoveSource(c)
  <2>1. hold[c] \in Msgs
    BY <1>6 DEF RemoveSource, ConsumerInv, Holds
  <2>2. receipts' \subseteq Agents \X Nat \X {"drained", "dlq"}
    BY <1>0, <1>6, <2>1, ReceiptType DEF RemoveSource, DiskType
  <2> QED
    BY <1>6, <2>2 DEF RemoveSource, DiskType
<1>7. CASE PeekedClaim(c)
  <2>1. PICK m \in Msgs : MoveNewToCur(c, m)
    BY <1>7 DEF PeekedClaim, SameName, DiskType
  <2>2. hold[c] \in Msgs
    BY <1>7 DEF PeekedClaim, ConsumerInv, Holds
  <2>3. receipts' \subseteq Agents \X Nat \X {"drained", "dlq"}
    BY <1>0, <1>7, <2>2, ReceiptType DEF PeekedClaim, DiskType
  <2> QED
    BY <1>7, <2>1, <2>3, ClaimType DEF PeekedClaim, DiskType
<1> QED
  BY <1>1, <1>2, <1>3, <1>4, <1>5, <1>6, <1>7 DEF ConsumerMove, ConsumerStep

\* Every step keeps every variable in its type.
LEMMA TypeStep ==
  ASSUME TypeOK, SenderInv, ConsumerInv, [Next]_vars
  PROVE  TypeOK'
<1>1. ASSUME NEW s \in Senders, SenderMove(s) PROVE TypeOK'
  BY <1>1, SenderTypeStep, SenderDiskType, SenderFrame DEF TypeOK, ConsumerType
<1>2. ASSUME NEW c \in Consumers, ConsumerMove(c) PROVE TypeOK'
  BY <1>2, ConsumerTypeStep, ConsumerDiskType, ConsumerFrame DEF TypeOK, SenderType
<1>3. ASSUME NEW m \in Msgs, SweepTmp(m) PROVE TypeOK'
  BY <1>3 DEF SweepTmp, senderVars, consumerVars, TypeOK, DiskType, SenderType, ConsumerType
<1>4. CASE UNCHANGED vars
  BY <1>4 DEF vars, disk, senderVars, consumerVars, TypeOK, DiskType, SenderType, ConsumerType
<1> QED
  BY <1>1, <1>2, <1>3, <1>4, Moves

-----------------------------------------------------------------------------
\* A send writes no other send's memory.
LEMMA OtherSends ==
  ASSUME TypeOK, NEW s \in Senders, SenderMove(s), NEW t \in Senders \ {s}
  PROVE  /\ data'[t] = data[t] /\ phase'[t] = phase[t] /\ at'[t] = at[t]
         /\ staged'[t] = staged[t] /\ committed'[t] = committed[t]
         /\ report'[t] = report[t] /\ (t \in sent' <=> t \in sent)
<1> USE DEF TypeOK, SenderType, SenderMove, SenderStep, disk, senderVars
<1>1. CASE Send(s) \/ StageWrite(s) \/ CleanupTmp(s) \/ WaitMatched(s) \/ WaitTimeout(s)
  BY <1>1 DEF Send, StageWrite, CleanupTmp, WaitMatched, WaitTimeout
<1>2. CASE SendFails(s) \/ Record(s) \/ CrashSender(s)
  BY <1>2 DEF SendFails, Record, CrashSender, EndSend
<1>3. CASE StageFail(s)
  BY <1>3 DEF StageFail, Return
<1>4. CASE Resolve(s)
  BY <1>4 DEF Resolve, PublishError, SyncNew, Return
<1>5. ASSUME NEW a \in Agents, StageOpen(s, a) \/ PublishCollides(s, a) \/ PublishFail(s, a)
      PROVE  /\ data'[t] = data[t] /\ phase'[t] = phase[t] /\ at'[t] = at[t]
             /\ staged'[t] = staged[t] /\ committed'[t] = committed[t]
             /\ report'[t] = report[t] /\ (t \in sent' <=> t \in sent)
  BY <1>5 DEF StageOpen, PublishCollides, PublishFail, PublishError, Return
<1>6. ASSUME NEW a \in Agents, Publish(s, a)
      PROVE  /\ data'[t] = data[t] /\ phase'[t] = phase[t] /\ at'[t] = at[t]
             /\ staged'[t] = staged[t] /\ committed'[t] = committed[t]
             /\ report'[t] = report[t] /\ (t \in sent' <=> t \in sent)
  BY <1>6, SMTT(30) DEF Publish, SyncNew, Return
<1> QED
  BY <1>1, <1>2, <1>3, <1>4, <1>5, <1>6

-----------------------------------------------------------------------------
(* The rest of the inductive invariant *)

\* Every step keeps each send's memory consistent with its program counter.
LEMMA SenderInvStep ==
  ASSUME TypeOK, SenderInv, [Next]_vars
  PROVE  SenderInv'
<1>1. ASSUME NEW s \in Senders, SenderMove(s) PROVE SenderInv'
  <2>1. ASSUME NEW t \in Senders \ {s} PROVE Consistent(t)'
    BY <1>1, <2>1, OtherSends DEF SenderInv, Consistent
  <2>2. Consistent(s)'
    <3> USE DEF TypeOK, SenderType, SenderInv, Consistent, Sending, SenderEnded
    <3>1. CASE Send(s) \/ StageWrite(s) \/ CleanupTmp(s) \/ WaitMatched(s) \/ WaitTimeout(s)
      BY <3>1 DEF Send, StageWrite, CleanupTmp, WaitMatched, WaitTimeout, disk
    <3>2. CASE SendFails(s) \/ Record(s) \/ CrashSender(s)
      BY <3>2, SMTT(20) DEF SendFails, Record, CrashSender, EndSend, disk
    <3>3. CASE StageFail(s)
      BY <3>3 DEF StageFail, Return
    <3>4. CASE Resolve(s)
      BY <3>4 DEF Resolve, PublishError, SyncNew, Return
    <3>5. ASSUME NEW a \in Agents, StageOpen(s, a) \/ PublishCollides(s, a) \/ PublishFail(s, a)
          PROVE  Consistent(s)'
      BY <3>5 DEF StageOpen, PublishCollides, PublishFail, PublishError, Return, disk
    <3>6. ASSUME NEW a \in Agents, Publish(s, a) PROVE Consistent(s)'
      BY <3>6 DEF Publish, SyncNew, Return
    <3> QED
      BY <1>1, <3>1, <3>2, <3>3, <3>4, <3>5, <3>6 DEF SenderMove, SenderStep
  <2> QED
    BY <2>1, <2>2 DEF SenderInv
<1>2. ASSUME NEW c \in Consumers, ConsumerMove(c) PROVE SenderInv'
  BY <1>2, ConsumerFrame DEF SenderInv, Consistent
<1>3. ASSUME NEW m \in Msgs, SweepTmp(m) PROVE SenderInv'
  BY <1>3 DEF SweepTmp, senderVars, SenderInv, Consistent
<1>4. CASE UNCHANGED vars
  BY <1>4 DEF vars, disk, senderVars, SenderInv, Consistent
<1> QED
  BY <1>1, <1>2, <1>3, <1>4, Moves

\* A send creates files of its own only, and never unpublishes one.
LEMMA OtherFiles ==
  ASSUME TypeOK, SenderInv, NEW s \in Senders, SenderMove(s)
  PROVE  /\ \A t \in Senders \ {s}, a \in Agents :
              /\ <<t, a>> \in tmp' => <<t, a>> \in tmp
              /\ <<t, a>> \in pubs' <=> <<t, a>> \in pubs
         /\ pubs \subseteq pubs'
<1> USE DEF TypeOK
<1>1. CASE Send(s) \/ CleanupTmp(s) \/ WaitMatched(s) \/ WaitTimeout(s)
  BY <1>1 DEF Send, CleanupTmp, WaitMatched, WaitTimeout, disk
<1>2. CASE StageWrite(s) \/ StageFail(s)
  BY <1>2 DEF StageWrite, StageFail
<1>3. CASE SendFails(s) \/ Record(s) \/ CrashSender(s)
  BY <1>3 DEF SendFails, Record, CrashSender, disk
<1>4. CASE Resolve(s)
  BY <1>4 DEF Resolve
<1>5. CASE \E a \in Agents : StageOpen(s, a) \/ PublishCollides(s, a) \/ PublishFail(s, a)
  BY <1>5 DEF StageOpen, PublishCollides, PublishFail, disk
<1>6. CASE \E a \in Agents : Publish(s, a)
  BY <1>6 DEF Publish
<1> QED
  BY <1>1, <1>2, <1>3, <1>4, <1>5, <1>6 DEF SenderMove, SenderStep

\* Every step keeps attempts and publications within the staged recipients.
LEMMA StagedStep ==
  ASSUME TypeOK, SenderInv, StagedInv, [Next]_vars
  PROVE  StagedInv'
<1>1. ASSUME NEW s \in Senders, SenderMove(s) PROVE StagedInv'
  <2>1. ASSUME NEW t \in Senders \ {s} PROVE StagedOnly(t)'
    BY <1>1, <2>1, OtherSends, OtherFiles DEF StagedInv, StagedOnly
  <2>2. StagedOnly(s)'
    <3> USE DEF TypeOK, SenderType, SenderInv, Consistent, StagedInv, StagedOnly, Sending, SenderEnded
    <3>1. CASE Send(s) \/ StageWrite(s) \/ CleanupTmp(s) \/ WaitMatched(s) \/ WaitTimeout(s)
      <4>1. CASE Send(s)
        BY <4>1 DEF Send, disk
      <4>2. CASE StageWrite(s)
        BY <4>2 DEF StageWrite
      <4>3. CASE CleanupTmp(s)
        BY <4>3 DEF CleanupTmp
      <4>4. CASE WaitMatched(s) \/ WaitTimeout(s)
        BY <4>4 DEF WaitMatched, WaitTimeout, disk
      <4> QED
        BY <3>1, <4>1, <4>2, <4>3, <4>4
    <3>2. CASE SendFails(s) \/ Record(s) \/ CrashSender(s)
      BY <3>2 DEF SendFails, Record, CrashSender, EndSend, disk
    <3>3. CASE StageFail(s)
      BY <3>3 DEF StageFail, Return
    <3>4. CASE Resolve(s)
      BY <3>4 DEF Resolve, PublishError, SyncNew, Return
    <3>5. ASSUME NEW a \in Agents, StageOpen(s, a) \/ PublishCollides(s, a) \/ PublishFail(s, a)
          PROVE  StagedOnly(s)'
      BY <3>5 DEF StageOpen, PublishCollides, PublishFail, PublishError, Return, disk
    <3>6. ASSUME NEW a \in Agents, Publish(s, a) PROVE StagedOnly(s)'
      BY <3>6 DEF Publish, SyncNew, Return
    <3> QED
      BY <1>1, <3>1, <3>2, <3>3, <3>4, <3>5, <3>6 DEF SenderMove, SenderStep
  <2> QED
    BY <2>1, <2>2 DEF StagedInv
<1>2. ASSUME NEW c \in Consumers, ConsumerMove(c) PROVE StagedInv'
  BY <1>2, ConsumerFrame DEF StagedInv, StagedOnly
<1>3. ASSUME NEW m \in Msgs, SweepTmp(m) PROVE StagedInv'
  BY <1>3 DEF SweepTmp, senderVars, StagedInv, StagedOnly
<1>4. CASE UNCHANGED vars
  BY <1>4 DEF vars, disk, senderVars, StagedInv, StagedOnly
<1> QED
  BY <1>1, <1>2, <1>3, <1>4, Moves

\* A started send's bytes never change.
LEMMA DataStable ==
  ASSUME TypeOK, NEW s \in Senders, SenderMove(s), NEW t \in Senders, phase[t] # "idle"
  PROVE  data'[t] = data[t]
<1> USE DEF TypeOK, SenderType
<1>1. CASE Send(s)
  BY <1>1 DEF Send
<1>2. CASE \/ StageWrite(s) \/ StageFail(s) \/ CleanupTmp(s) \/ WaitMatched(s) \/ WaitTimeout(s)
           \/ SendFails(s) \/ Record(s) \/ CrashSender(s) \/ Resolve(s)
  BY <1>2 DEF StageWrite, StageFail, CleanupTmp, WaitMatched, WaitTimeout, SendFails, Record,
              CrashSender, Resolve
<1>3. CASE \E a \in Agents : \/ StageOpen(s, a) \/ PublishCollides(s, a)
                             \/ PublishFail(s, a) \/ Publish(s, a)
  BY <1>3 DEF StageOpen, PublishCollides, PublishFail, Publish
<1> QED
  BY <1>1, <1>2, <1>3 DEF SenderMove, SenderStep

\* Who has had which bytes depends only on publications and data.
LEMMA HasHadFrame ==
  ASSUME UNCHANGED <<pubs, data>>
  PROVE  \A t, a : HasHad(t, a)' <=> HasHad(t, a)
<1> SUFFICES ASSUME NEW t, NEW a PROVE HasHad(t, a)' <=> HasHad(t, a)
  OBVIOUS
<1>1. pubs' = pubs /\ data' = data
  OBVIOUS
<1> QED
  BY <1>1 DEF HasHad, SameName

\* A recipient that has had a send's bytes has had them for ever.
LEMMA HasHadStable ==
  ASSUME TypeOK, SenderInv, StagedInv, NEW s \in Senders, SenderMove(s),
         NEW t \in Senders, NEW a \in Agents, phase[t] # "idle", HasHad(t, a)
  PROVE  HasHad(t, a)'
<1>1. PICK n \in SameName(<<t, a>>, pubs) : data[n[1]] = data[t]
  BY DEF HasHad
<1>2. n \in pubs /\ n[1] \in Senders /\ n[2] \in Agents /\ n = <<n[1], n[2]>>
  BY SMTT(20) DEF SameName, TypeOK, DiskType, Msgs
<1>3. phase[n[1]] # "idle"
  BY <1>2, SMTT(20) DEF StagedInv, StagedOnly, SenderInv, Consistent, Sending
<1>4. data'[n[1]] = data'[t]
  BY <1>1, <1>2, <1>3, DataStable
<1>5. n \in SameName(<<t, a>>, pubs')
  BY <1>1, <1>2, OtherFiles DEF SameName
<1> QED
  BY <1>4, <1>5 DEF HasHad, SameName

\* The publication itself, or the twin a collision found, gives a recipient the
\* bytes.
LEMMA Published ==
  ASSUME TypeOK, BoxInv, NEW s \in Senders, NEW a \in Agents,
         \/ Publish(s, a)
         \/ /\ Resolve(s) /\ a = at[s]
            /\ \E n \in SameName(<<s, a>>, inew) : data[n[1]] = data[s]
  PROVE  HasHad(s, a)'
<1>1. CASE Publish(s, a)
  <2>1. <<s, a>> \in SameName(<<s, a>>, pubs')
    BY <1>1 DEF Publish, SameName
  <2> QED
    BY <2>1 DEF HasHad, SameName
<1>2. CASE /\ Resolve(s) /\ a = at[s]
           /\ \E n \in SameName(<<s, a>>, inew) : data[n[1]] = data[s]
  <2>1. UNCHANGED <<data, pubs>>
    BY <1>2 DEF Resolve
  <2> QED
    BY <1>2, <2>1 DEF HasHad, SameName, BoxInv
<1> QED
  BY <1>1, <1>2

\* A send that returns publishes no more, and one that goes on has recorded the
\* recipient.
LEMMA SyncNewEffect ==
  ASSUME TypeOK, NEW s \in Senders, NEW a \in Agents
  PROVE  /\ SyncNew(s, a) => \/ phase'[s] = "cleanup"
                             \/ committed'[s] = committed[s] \cup {a}
         /\ \A status \in {"collision", "error"}, k \in BOOLEAN :
              PublishError(s, a, status, k) => phase'[s] = "cleanup"
<1> USE DEF TypeOK, SenderType, Return
<1>1. SyncNew(s, a) => phase'[s] = "cleanup" \/ committed'[s] = committed[s] \cup {a}
  BY DEF SyncNew
<1>2. \A status \in {"collision", "error"}, k \in BOOLEAN :
        PublishError(s, a, status, k) => phase'[s] = "cleanup"
  BY DEF PublishError
<1> QED
  BY <1>1, <1>2

\* Every step keeps committed exact while a send may publish, and truthful.
LEMMA CommittedStep ==
  ASSUME TypeOK, SenderInv, StagedInv, CommittedInv, BoxInv, [Next]_vars
  PROVE  CommittedInv'
<1>1. ASSUME NEW s \in Senders, SenderMove(s) PROVE CommittedInv'
  <2>1. ASSUME NEW t \in Senders \ {s} PROVE CommittedOnly(t)'
    <3>1. phase'[t] = phase[t] /\ committed'[t] = committed[t] /\ committed[t] \subseteq Agents
      BY <1>1, OtherSends DEF TypeOK, SenderType
    <3>2. ASSUME NEW a \in committed[t] PROVE HasHad(t, a)'
      BY <1>1, <3>1, <3>2, HasHadStable DEF CommittedInv, CommittedOnly, SenderInv, Consistent
    <3> QED
      BY <1>1, <3>1, <3>2, OtherFiles DEF CommittedInv, CommittedOnly
  <2>2. phase'[s] \in Sending => \A a \in Agents : <<s, a>> \in pubs' => a \in committed'[s]
    <3> USE DEF TypeOK, SenderType, SenderInv, Consistent, CommittedInv, CommittedOnly, Sending,
               SenderEnded
    <3>1. CASE Send(s) \/ StageWrite(s) \/ CleanupTmp(s) \/ WaitMatched(s) \/ WaitTimeout(s)
      BY <3>1 DEF Send, StageWrite, CleanupTmp, WaitMatched, WaitTimeout
    <3>2. CASE SendFails(s) \/ Record(s) \/ CrashSender(s)
      BY <3>2 DEF SendFails, Record, CrashSender, EndSend
    <3>3. CASE StageFail(s)
      BY <3>3 DEF StageFail, Return
    <3>4. CASE Resolve(s)
      <4>1. at[s] \in Agents /\ phase[s] \in Sending /\ UNCHANGED pubs
        BY <3>4 DEF Resolve
      <4>2. \/ phase'[s] = "cleanup" \/ committed'[s] = committed[s] \cup {at[s]}
        BY <3>4, <4>1, SyncNewEffect DEF Resolve
      <4> QED
        BY <4>1, <4>2
    <3>5. CASE \E a \in Agents : StageOpen(s, a) \/ PublishCollides(s, a) \/ PublishFail(s, a)
      BY <3>5 DEF StageOpen, PublishCollides, PublishFail, PublishError, Return
    <3>6. ASSUME NEW a \in Agents, Publish(s, a), phase'[s] \in Sending
          PROVE  \A b \in Agents : <<s, b>> \in pubs' => b \in committed'[s]
      <4>1. phase[s] \in Sending /\ pubs' = pubs \cup {<<s, a>>}
        BY <3>6 DEF Publish
      <4>2. committed'[s] = committed[s] \cup {a}
        BY <3>6, SyncNewEffect DEF Publish
      <4> QED
        BY <4>1, <4>2
    <3> QED
      BY <1>1, <3>1, <3>2, <3>3, <3>4, <3>5, <3>6 DEF SenderMove, SenderStep
  <2>3. \A a \in committed'[s] : HasHad(s, a)'
    <3>1. ASSUME NEW a \in committed[s] PROVE HasHad(s, a)'
      <4>1. a \in Agents /\ phase[s] # "idle" /\ HasHad(s, a)
        BY DEF TypeOK, SenderType, SenderInv, Consistent, CommittedInv, CommittedOnly
      <4> QED
        BY <1>1, <4>1, HasHadStable
    <3> USE DEF TypeOK, SenderType
    <3>2. CASE \/ Send(s) \/ StageWrite(s) \/ CleanupTmp(s) \/ WaitMatched(s) \/ WaitTimeout(s)
               \/ StageFail(s)
      BY <3>1, <3>2 DEF Send, StageWrite, CleanupTmp, WaitMatched, WaitTimeout, StageFail
    <3>3. CASE SendFails(s) \/ Record(s) \/ CrashSender(s)
      BY <3>3 DEF SendFails, Record, CrashSender, EndSend
    <3>4. CASE Resolve(s)
      <4>1. at[s] \in Agents
        BY <3>4 DEF Resolve, SenderInv, Consistent
      <4>2. CASE UNCHANGED committed
        BY <3>1, <4>2
      <4>3. CASE /\ committed' = [committed EXCEPT ![s] = @ \cup {at[s]}]
                 /\ \E n \in SameName(<<s, at[s]>>, inew) : data[n[1]] = data[s]
        BY <3>1, <3>4, <4>1, <4>3, Published
      <4> QED
        BY <3>4, <4>2, <4>3 DEF Resolve, SyncNew
    <3>5. CASE \E a \in Agents : StageOpen(s, a) \/ PublishCollides(s, a) \/ PublishFail(s, a)
      BY <3>1, <3>5 DEF StageOpen, PublishCollides, PublishFail
    <3>6. ASSUME NEW a \in Agents, Publish(s, a) PROVE \A b \in committed'[s] : HasHad(s, b)'
      <4>1. committed'[s] \subseteq committed[s] \cup {a}
        BY <3>6 DEF Publish, SyncNew
      <4> QED
        BY <3>1, <3>6, <4>1, Published
    <3> QED
      BY <1>1, <3>2, <3>3, <3>4, <3>5, <3>6 DEF SenderMove, SenderStep
  <2> QED
    BY <2>1, <2>2, <2>3 DEF CommittedInv, CommittedOnly
<1>2. ASSUME NEW c \in Consumers, ConsumerMove(c) PROVE CommittedInv'
  <2>1. UNCHANGED <<phase, committed, pubs, data>>
    BY <1>2, ConsumerFrame
  <2> QED
    BY <2>1, HasHadFrame DEF CommittedInv, CommittedOnly
<1>3. ASSUME NEW m \in Msgs, SweepTmp(m) PROVE CommittedInv'
  <2>1. UNCHANGED <<phase, committed, pubs, data>>
    BY <1>3 DEF SweepTmp, senderVars
  <2> QED
    BY <2>1, HasHadFrame DEF CommittedInv, CommittedOnly
<1>4. CASE UNCHANGED vars
  <2>1. UNCHANGED <<phase, committed, pubs, data>>
    BY <1>4 DEF vars, disk, senderVars
  <2> QED
    BY <2>1, HasHadFrame DEF CommittedInv, CommittedOnly
<1> QED
  BY <1>1, <1>2, <1>3, <1>4, Moves

-----------------------------------------------------------------------------
\* The inductive invariant.
IInv ==
  /\ TypeOK /\ SenderInv /\ StagedInv /\ CommittedInv /\ ConsumerInv /\ BoxInv
  /\ NoLoss /\ ReportTruth

-----------------------------------------------------------------------------
(* Consumers and boxes *)

\* A consumer writes no other consumer's memory and removes no envelope.
LEMMA OtherConsumers ==
  ASSUME TypeOK, NEW c \in Consumers, ConsumerMove(c), NEW d \in Consumers \ {c}
  PROVE  /\ pc'[d] = pc[d] /\ hold'[d] = hold[d] /\ items'[d] = items[d] /\ mine'[d] = mine[d]
         /\ dlq \subseteq dlq'
<1> USE DEF TypeOK, ConsumerType, disk
<1>1. CASE Drain(c) \/ Peek(c) \/ Reread(c) \/ PeekedLost(c)
  BY <1>1 DEF Drain, Peek, Reread, PeekedLost
<1>2. CASE PeekedClaim(c) \/ ClaimWins(c)
  BY <1>2, SMTT(20) DEF PeekedClaim, ClaimWins, MoveNewToCur
<1>3. CASE ClaimLost(c) \/ ClaimCollides(c) \/ ClaimFails(c)
  BY <1>3 DEF ClaimLost, ClaimCollides, ClaimFails
<1>4. CASE Ingest(c) \/ IngestFails(c) \/ WriteEnvelope(c) \/ RemoveSource(c)
  BY <1>4 DEF Ingest, IngestFails, WriteEnvelope, RemoveSource
<1>5. CASE Output(c) \/ CrashConsumer(c)
  BY <1>5 DEF Output, CrashConsumer, EndBatch
<1> QED
  BY <1>1, <1>2, <1>3, <1>4, <1>5 DEF ConsumerMove, ConsumerStep

\* Every step keeps what a consumer holds in line with its program counter.
LEMMA ConsumerInvStep ==
  ASSUME TypeOK, ConsumerInv, [Next]_vars
  PROVE  ConsumerInv'
<1>1. ASSUME NEW c \in Consumers, ConsumerMove(c) PROVE ConsumerInv'
  <2>1. ASSUME NEW d \in Consumers \ {c} PROVE Holds(d)'
    BY <1>1, <2>1, OtherConsumers DEF ConsumerInv, Holds
  <2>2. Holds(c)'
    <3> USE DEF TypeOK, DiskType, ConsumerType, ConsumerInv, Holds
    <3>1. CASE Drain(c) \/ Peek(c) \/ Reread(c) \/ PeekedLost(c)
      BY <3>1 DEF Drain, Peek, Reread, PeekedLost, disk
    <3>2. CASE PeekedClaim(c) \/ ClaimWins(c)
      BY <3>2, SMTT(20) DEF PeekedClaim, ClaimWins, MoveNewToCur
    <3>3. CASE ClaimLost(c) \/ ClaimCollides(c) \/ ClaimFails(c)
      BY <3>3 DEF ClaimLost, ClaimCollides, ClaimFails, disk
    <3>4. CASE Ingest(c) \/ IngestFails(c) \/ WriteEnvelope(c) \/ RemoveSource(c)
      BY <3>4 DEF Ingest, IngestFails, WriteEnvelope, RemoveSource
    <3>5. CASE Output(c) \/ CrashConsumer(c)
      BY <3>5 DEF Output, CrashConsumer, EndBatch
    <3> QED
      BY <1>1, <3>1, <3>2, <3>3, <3>4, <3>5 DEF ConsumerMove, ConsumerStep
  <2> QED
    BY <2>1, <2>2 DEF ConsumerInv
<1>2. ASSUME NEW s \in Senders, SenderMove(s) PROVE ConsumerInv'
  BY <1>2, SenderFrame DEF ConsumerInv, Holds
<1>3. ASSUME NEW m \in Msgs, SweepTmp(m) PROVE ConsumerInv'
  BY <1>3 DEF SweepTmp, consumerVars, ConsumerInv, Holds
<1>4. CASE UNCHANGED vars
  BY <1>4 DEF vars, disk, consumerVars, ConsumerInv, Holds
<1> QED
  BY <1>1, <1>2, <1>3, <1>4, Moves

\* How the directories change: a send adds to inbox/new exactly what it adds to
\* pubs, ...
LEMMA SenderDisk ==
  ASSUME NEW s \in Senders, SenderMove(s)
  PROVE  \/ UNCHANGED <<inew, pubs>>
         \/ \E m \in tmp : inew' = inew \cup {m} /\ pubs' = pubs \cup {m} /\ tmp' = tmp \ {m}
<1> USE DEF disk
<1>1. CASE \/ Send(s) \/ StageWrite(s) \/ StageFail(s) \/ CleanupTmp(s) \/ WaitMatched(s)
           \/ WaitTimeout(s) \/ SendFails(s) \/ Record(s) \/ CrashSender(s) \/ Resolve(s)
  BY <1>1 DEF Send, StageWrite, StageFail, CleanupTmp, WaitMatched, WaitTimeout, SendFails,
              Record, CrashSender, Resolve
<1>2. CASE \E a \in Agents : StageOpen(s, a) \/ PublishCollides(s, a) \/ PublishFail(s, a)
  BY <1>2 DEF StageOpen, PublishCollides, PublishFail
<1>3. CASE \E a \in Agents : Publish(s, a)
  BY <1>3 DEF Publish
<1> QED
  BY <1>1, <1>2, <1>3 DEF SenderMove, SenderStep

\* ... and a consumer moves a message from new to cur, writes an envelope, or
\* removes from cur a message it has written an envelope for.
LEMMA ConsumerDisk ==
  ASSUME TypeOK, ConsumerInv, NEW c \in Consumers, ConsumerMove(c)
  PROVE  \/ UNCHANGED <<inew, icur>> /\ dlq \subseteq dlq'
         \/ \E m \in inew : inew' = inew \ {m} /\ icur' = icur \cup {m} /\ UNCHANGED dlq
         \/ \E m \in dlq : UNCHANGED <<inew, dlq>> /\ icur' = icur \ {m}
<1> USE DEF disk
<1>1. CASE Drain(c) \/ Peek(c) \/ Reread(c) \/ PeekedLost(c)
  BY <1>1 DEF Drain, Peek, Reread, PeekedLost
<1>2. CASE PeekedClaim(c)
  BY <1>2 DEF PeekedClaim, MoveNewToCur
<1>3. CASE ClaimWins(c)
  BY <1>3 DEF ClaimWins, MoveNewToCur
<1>4. CASE ClaimLost(c) \/ ClaimCollides(c) \/ ClaimFails(c)
  BY <1>4 DEF ClaimLost, ClaimCollides, ClaimFails
<1>5. CASE Ingest(c) \/ IngestFails(c) \/ WriteEnvelope(c)
  BY <1>5 DEF Ingest, IngestFails, WriteEnvelope
<1>6. CASE RemoveSource(c)
  BY <1>6 DEF RemoveSource, ConsumerInv, Holds
<1>7. CASE Output(c) \/ CrashConsumer(c)
  BY <1>7 DEF Output, CrashConsumer
<1> QED
  BY <1>1, <1>2, <1>3, <1>4, <1>5, <1>6, <1>7 DEF ConsumerMove, ConsumerStep

\* Every step keeps the boxes within what was ever published.
LEMMA BoxStep ==
  ASSUME TypeOK, ConsumerInv, BoxInv, [Next]_vars
  PROVE  BoxInv'
<1>1. ASSUME NEW s \in Senders, SenderMove(s) PROVE BoxInv'
  BY <1>1, SenderFrame, SenderDisk DEF BoxInv
<1>2. ASSUME NEW c \in Consumers, ConsumerMove(c) PROVE BoxInv'
  BY <1>2, ConsumerFrame, ConsumerDisk DEF BoxInv
<1>3. ASSUME NEW m \in Msgs, SweepTmp(m) PROVE BoxInv'
  BY <1>3 DEF SweepTmp, BoxInv
<1>4. CASE UNCHANGED vars
  BY <1>4 DEF vars, disk, BoxInv
<1> QED
  BY <1>1, <1>2, <1>3, <1>4, Moves

\* Partial files are never taken for complete ones: a new attempt is opened
\* only for a recipient that has no complete attempt and no publication yet.
LEMMA PartStep ==
  ASSUME TypeOK, SenderInv, StagedInv, BoxInv, NoLoss, NEW s \in Senders, SenderMove(s)
  PROVE  part' \cap (tmp' \cup inew' \cup icur') = {}
<1> USE DEF NoLoss, disk
<1>0. UNCHANGED icur
  BY SenderFrame
<1>1. CASE \/ Send(s) \/ StageWrite(s) \/ StageFail(s) \/ CleanupTmp(s) \/ WaitMatched(s)
           \/ WaitTimeout(s) \/ SendFails(s) \/ Record(s) \/ CrashSender(s) \/ Resolve(s)
  BY <1>0, <1>1 DEF Send, StageWrite, StageFail, CleanupTmp, WaitMatched, WaitTimeout, SendFails,
              Record, CrashSender, Resolve
<1>2. ASSUME NEW a \in Agents, StageOpen(s, a) PROVE part' \cap (tmp' \cup inew' \cup icur') = {}
  <2>1. <<s, a>> \notin tmp \cup pubs
    BY <1>2 DEF StageOpen, StagedInv, StagedOnly, Sending
  <2> QED
    BY <1>0, <1>2, <2>1 DEF StageOpen, BoxInv
<1>3. CASE \E a \in Agents : PublishCollides(s, a) \/ PublishFail(s, a) \/ Publish(s, a)
  BY <1>0, <1>3 DEF PublishCollides, PublishFail, Publish
<1> QED
  BY <1>1, <1>2, <1>3 DEF SenderMove, SenderStep

\* Every step keeps every published message in a box or an envelope, and keeps
\* partial files out of the boxes.
LEMMA NoLossStep ==
  ASSUME TypeOK, SenderInv, StagedInv, ConsumerInv, BoxInv, NoLoss, [Next]_vars
  PROVE  NoLoss'
<1>1. ASSUME NEW s \in Senders, SenderMove(s) PROVE NoLoss'
  BY <1>1, SenderFrame, SenderDisk, PartStep DEF NoLoss
<1>2. ASSUME NEW c \in Consumers, ConsumerMove(c) PROVE NoLoss'
  BY <1>2, ConsumerFrame, ConsumerDisk DEF NoLoss
<1>3. ASSUME NEW m \in Msgs, SweepTmp(m) PROVE NoLoss'
  BY <1>3 DEF SweepTmp, NoLoss
<1>4. CASE UNCHANGED vars
  BY <1>4 DEF vars, disk, NoLoss
<1> QED
  BY <1>1, <1>2, <1>3, <1>4, Moves

-----------------------------------------------------------------------------
(* Reports *)

\* ReportTruth, for one send.
Truthful(s) ==
  /\ s \in sent => report[s].delivered = Rcpt[s] \/ phase[s] = "crashed"
  /\ \A a \in report[s].failed \cup report[s].pending : <<s, a>> \notin pubs
  /\ \A a \in report[s].delivered : HasHad(s, a)

\* The reports are true when each send's report is.
LEMMA ReportTruthAll == ReportTruth <=> \A s \in Senders : Truthful(s)
  BY DEF ReportTruth, Truthful, HasHad

\* What Return puts into the report.
LEMMA ReturnEffect ==
  ASSUME report \in [Senders -> Reports], NEW s \in Senders,
         NEW status, NEW delivered, NEW failed, NEW pending, NEW cleanup,
         Return(s, status, delivered, failed, pending, cleanup)
  PROVE  /\ report'[s].delivered = delivered
         /\ report'[s].failed = failed
         /\ report'[s].pending = pending
  BY DEF Return

\* A publication error names as delivered recipients that are committed, and as
\* failed or pending the refused recipient and others that are not committed.
LEMMA PublishErrorEffect ==
  ASSUME report \in [Senders -> Reports], NEW s \in Senders, NEW a \in Agents,
         NEW status, NEW keep, PublishError(s, a, status, keep)
  PROVE  /\ report'[s].delivered \subseteq committed[s]
         /\ report'[s].failed \cup report'[s].pending \subseteq {a} \cup (staged[s] \ committed[s])
<1>1. CASE s \in Peer
  <2>1. Return(s, status, {}, {a}, {}, {})
    BY <1>1 DEF PublishError
  <2> QED
    BY <2>1, ReturnEffect
<1>2. CASE s \notin Peer
  <2> DEFINE pending == staged[s] \ (committed[s] \cup {a})
  <2>1. \E drops : Return(s, status, committed[s], {a}, pending, drops)
    BY <1>2 DEF PublishError
  <2> HIDE DEF pending
  <2>2. /\ report'[s].delivered = committed[s]
        /\ report'[s].failed = {a} /\ report'[s].pending = pending
    BY <2>1, ReturnEffect
  <2> QED
    BY <2>2 DEF pending
<1> QED
  BY <1>1, <1>2

\* A visible publication leaves the report alone, or names as delivered the
\* committed recipients and this one, and as pending only others.
LEMMA SyncNewReport ==
  ASSUME report \in [Senders -> Reports], NEW s \in Senders, NEW a \in Agents, SyncNew(s, a)
  PROVE  \/ report' = report
         \/ /\ report'[s].delivered \subseteq committed[s] \cup {a}
            /\ report'[s].failed \cup report'[s].pending \subseteq staged[s] \ (committed[s] \cup {a})
<1> DEFINE pending == staged[s] \ (committed[s] \cup {a})
<1>1. \/ report' = report
      \/ Return(s, "uncertain", {a}, {}, {}, {})
      \/ Return(s, "uncertain", committed[s] \cup {a}, {}, pending, pending)
  BY DEF SyncNew
<1> HIDE DEF pending
<1>2. CASE Return(s, "uncertain", {a}, {}, {}, {})
  BY <1>2, ReturnEffect, SMTT(20)
<1>3. CASE Return(s, "uncertain", committed[s] \cup {a}, {}, pending, pending)
  <2>1. /\ report'[s].delivered = committed[s] \cup {a}
        /\ report'[s].failed = {} /\ report'[s].pending = pending
    BY <1>3, ReturnEffect
  <2> QED
    BY <2>1 DEF pending
<1> QED
  BY <1>1, <1>2, <1>3

\* A send that returns names as failed or pending only recipients outside
\* committed, and as delivered only recipients that have had its bytes.
LEMMA ReturnTruth ==
  ASSUME TypeOK, SenderInv, CommittedInv,
         NEW s \in Senders, NEW a \in Agents, phase[s] \in Sending, s \notin sent',
         \A b \in committed[s] : HasHad(s, b)',
         \/ /\ \E status \in {"collision", "error"}, k \in BOOLEAN : PublishError(s, a, status, k)
            /\ a \notin committed[s] /\ UNCHANGED pubs
         \/ /\ SyncNew(s, a) /\ HasHad(s, a)'
            /\ \A b \in Agents \ {a} : <<s, b>> \in pubs' => <<s, b>> \in pubs
  PROVE  Truthful(s)'
<1>0. report \in [Senders -> Reports] /\ staged[s] \subseteq Agents
  BY DEF TypeOK, SenderType
<1>1. \A b \in Agents \ committed[s] : <<s, b>> \notin pubs
  BY DEF CommittedInv, CommittedOnly
<1>2. CASE /\ \E status \in {"collision", "error"}, k \in BOOLEAN : PublishError(s, a, status, k)
           /\ a \notin committed[s] /\ UNCHANGED pubs
  <2>1. /\ report'[s].delivered \subseteq committed[s]
        /\ report'[s].failed \cup report'[s].pending \subseteq {a} \cup (staged[s] \ committed[s])
    BY <1>0, <1>2, PublishErrorEffect
  <2>2. \A b \in report'[s].failed \cup report'[s].pending : <<s, b>> \notin pubs'
    BY <1>0, <1>1, <1>2, <2>1
  <2>3. \A b \in report'[s].delivered : HasHad(s, b)'
    BY <2>1
  <2> QED
    BY <2>2, <2>3 DEF Truthful
<1>3. CASE /\ SyncNew(s, a) /\ HasHad(s, a)'
           /\ \A b \in Agents \ {a} : <<s, b>> \in pubs' => <<s, b>> \in pubs
  <2>1. report[s] = NoReport
    BY DEF SenderInv, Consistent
  <2>2. CASE report' = report
    <3>1. /\ report'[s].delivered = {}
          /\ report'[s].failed \cup report'[s].pending = {}
      BY <2>1, <2>2, SMTT(20) DEF NoReport
    <3> QED
      BY <3>1 DEF Truthful
  <2>3. CASE /\ report'[s].delivered \subseteq committed[s] \cup {a}
             /\ report'[s].failed \cup report'[s].pending \subseteq staged[s] \ (committed[s] \cup {a})
    <3>1. \A b \in report'[s].delivered : HasHad(s, b)'
      BY <1>3, <2>3
    <3>2. \A b \in report'[s].failed \cup report'[s].pending : <<s, b>> \notin pubs'
      BY <1>0, <1>1, <1>3, <2>3
    <3> QED
      BY <3>1, <3>2 DEF Truthful
  <2> QED
    BY <1>0, <1>3, <2>2, <2>3, SyncNewReport
<1> QED
  BY <1>2, <1>3

\* Every step keeps every report true.
LEMMA ReportStep ==
  ASSUME TypeOK, SenderInv, StagedInv, CommittedInv, BoxInv, ReportTruth, [Next]_vars
  PROVE  ReportTruth'
<1>0. \A s \in Senders : Truthful(s)
  BY ReportTruthAll
<1>1. ASSUME NEW s \in Senders, SenderMove(s) PROVE \A t \in Senders : Truthful(t)'
  <2>0. ASSUME NEW t \in Senders, NEW a \in report[t].delivered PROVE HasHad(t, a)'
    <3>1. a \in Agents /\ phase[t] # "idle" /\ HasHad(t, a)
      BY <1>0, <2>0, SMTT(30) DEF TypeOK, SenderType, Reports, SenderInv, Consistent, Sending, NoReport, Truthful
    <3> QED
      BY <1>1, <3>1, HasHadStable
  <2>1. ASSUME NEW t \in Senders \ {s} PROVE Truthful(t)'
    <3>1. report'[t] = report[t] /\ phase'[t] = phase[t] /\ (t \in sent' <=> t \in sent)
      BY <1>1, OtherSends
    <3>2. report[t].failed \cup report[t].pending \subseteq Agents
      BY DEF TypeOK, SenderType, Reports
    <3> QED
      BY <1>0, <1>1, <2>0, <3>1, <3>2, OtherFiles DEF Truthful
  <2>2. \A a \in committed[s] : HasHad(s, a)'
    <3>1. ASSUME NEW a \in committed[s] PROVE HasHad(s, a)'
      <4>1. a \in Agents /\ phase[s] # "idle" /\ HasHad(s, a)
        BY DEF TypeOK, SenderType, SenderInv, Consistent, CommittedInv, CommittedOnly
      <4> QED
        BY <1>1, <4>1, HasHadStable
    <3> QED
      BY <3>1
  <2>3. CASE \/ Send(s) \/ StageWrite(s) \/ CleanupTmp(s) \/ WaitMatched(s) \/ WaitTimeout(s)
             \/ SendFails(s) \/ \E a \in Agents : StageOpen(s, a) \/ PublishCollides(s, a)
    <3>1. /\ UNCHANGED <<report, pubs, sent>>
          /\ phase[s] # "crashed"
      BY <2>3 DEF Send, StageWrite, CleanupTmp, WaitMatched, WaitTimeout, SendFails, StageOpen,
                  PublishCollides, disk
    <3>2. Truthful(s)'
      BY <1>0, <2>0, <3>1 DEF Truthful
    <3> QED
      BY <2>1, <3>2
  <2>4. CASE StageFail(s)
    <3>1. report'[s].delivered = {} /\ report'[s].failed \cup report'[s].pending = {}
          /\ s \notin sent'
      BY <2>4 DEF StageFail, Return, TypeOK, SenderType, SenderInv, Consistent, Sending
    <3>2. Truthful(s)'
      BY <3>1 DEF Truthful
    <3> QED
      BY <2>1, <3>2
  <2>5. CASE CrashSender(s)
    <3>1. report'[s] = NoReport /\ phase'[s] = "crashed"
      BY <2>5 DEF CrashSender, EndSend, TypeOK, SenderType
    <3>2. Truthful(s)'
      BY <3>1, SMTT(30) DEF Truthful, NoReport
    <3> QED
      BY <2>1, <3>2
  <2>6. CASE Record(s)
    <3>1. report'[s].delivered = Rcpt[s] /\ report'[s].failed \cup report'[s].pending = {}
          /\ committed[s] = Rcpt[s]
      BY <2>6 DEF Record, TypeOK, SenderType, SenderInv, Consistent
    <3>2. Truthful(s)'
      BY <2>2, <3>1 DEF Truthful
    <3> QED
      BY <2>1, <3>2
  <2>7. CASE Resolve(s)
    <3>0. PICK a \in Agents : a = at[s]
      BY <2>7 DEF Resolve, SenderInv, Consistent
    <3>1. phase[s] \in Sending /\ s \notin sent' /\ a \notin committed[s] /\ UNCHANGED pubs
      BY <2>7, <3>0 DEF Resolve, SenderInv, Consistent, Sending
    <3>2. CASE \E status \in {"collision", "error"}, k \in BOOLEAN : PublishError(s, a, status, k)
      BY <2>1, <2>2, <3>1, <3>2, ReturnTruth
    <3>3. CASE SyncNew(s, a) /\ \E n \in SameName(<<s, a>>, inew) : data[n[1]] = data[s]
      <4>1. HasHad(s, a)'
        BY <2>7, <3>0, <3>3, Published
      <4> QED
        BY <2>1, <2>2, <3>1, <3>3, <4>1, ReturnTruth
    <3> QED
      BY <2>7, <3>0, <3>2, <3>3 DEF Resolve
  <2>8. ASSUME NEW a \in Agents, PublishFail(s, a) PROVE \A t \in Senders : Truthful(t)'
    <3>1. phase[s] \in Sending /\ s \notin sent' /\ a \notin committed[s] /\ UNCHANGED pubs
      BY <2>8 DEF PublishFail, SenderInv, Consistent, Sending
    <3>2. PublishError(s, a, "error", FALSE)
      BY <2>8 DEF PublishFail
    <3> QED
      BY <2>1, <2>2, <3>1, <3>2, ReturnTruth
  <2>9. ASSUME NEW a \in Agents, Publish(s, a) PROVE \A t \in Senders : Truthful(t)'
    <3>1. phase[s] \in Sending /\ s \notin sent' /\ SyncNew(s, a) /\ pubs' = pubs \cup {<<s, a>>}
      BY <2>9 DEF Publish, SenderInv, Consistent, Sending
    <3>2. HasHad(s, a)'
      BY <2>9, Published
    <3> QED
      BY <2>1, <2>2, <3>1, <3>2, ReturnTruth
  <2> QED
    BY <1>1, <2>3, <2>4, <2>5, <2>6, <2>7, <2>8, <2>9 DEF SenderMove, SenderStep
<1>2. ASSUME NEW c \in Consumers, ConsumerMove(c) PROVE \A t \in Senders : Truthful(t)'
  <2>1. UNCHANGED <<phase, report, sent, pubs, data>>
    BY <1>2, ConsumerFrame
  <2> QED
    BY <1>0, <2>1, HasHadFrame DEF Truthful
<1>3. ASSUME NEW m \in Msgs, SweepTmp(m) PROVE \A t \in Senders : Truthful(t)'
  <2>1. UNCHANGED <<phase, report, sent, pubs, data>>
    BY <1>3 DEF SweepTmp, senderVars
  <2> QED
    BY <1>0, <2>1, HasHadFrame DEF Truthful
<1>4. CASE UNCHANGED vars
  <2>1. UNCHANGED <<phase, report, sent, pubs, data>>
    BY <1>4 DEF vars, disk, senderVars
  <2>2. \A t \in Senders : Truthful(t)'
    BY <1>0, <2>1, HasHadFrame DEF Truthful
  <2> QED
    BY <2>2 DEF ReportTruth, Truthful, HasHad
<1>5. (\A t \in Senders : Truthful(t)') => ReportTruth'
  BY DEF ReportTruth, Truthful, HasHad
<1> QED
  BY <1>1, <1>2, <1>3, <1>4, <1>5, Moves

-----------------------------------------------------------------------------
(* The theorems *)

\* The inductive invariant holds initially and is preserved by every step.
THEOREM Inductive == Spec => []IInv
<1>1. Init => IInv
  <2> SUFFICES ASSUME Init PROVE IInv
    OBVIOUS
  <2>1. TypeOK
    BY DEF Init, TypeOK, DiskType, SenderType, ConsumerType, Phases, PCs, NoReport, Reports, SenderEnded
  <2>2. SenderInv /\ StagedInv /\ ConsumerInv /\ BoxInv /\ NoLoss
    BY DEF Init, SenderInv, Consistent, StagedInv, StagedOnly, ConsumerInv, Holds, BoxInv, NoLoss
  <2>3. CommittedInv /\ ReportTruth
    BY DEF Init, CommittedInv, CommittedOnly, ReportTruth, NoReport
  <2> QED
    BY <2>1, <2>2, <2>3 DEF IInv
<1>2. IInv /\ [Next]_vars => IInv'
  <2> SUFFICES ASSUME IInv, [Next]_vars PROVE IInv'
    OBVIOUS
  <2> USE DEF IInv
  <2>1. TypeOK' /\ SenderInv' /\ ConsumerInv'
    BY TypeStep, SenderInvStep, ConsumerInvStep
  <2>2. StagedInv' /\ CommittedInv' /\ BoxInv'
    BY StagedStep, CommittedStep, BoxStep
  <2>3. NoLoss' /\ ReportTruth'
    BY NoLossStep, ReportStep
  <2> QED
    BY <2>1, <2>2, <2>3
<1> QED
  BY <1>1, <1>2, PTL DEF Spec

\* Directories, sends and consumers stay within their types.
THEOREM TypeCorrect == Spec => []TypeOK
<1>1. IInv => TypeOK
  BY DEF IInv
<1> QED
  BY <1>1, Inductive, PTL

\* No published message is ever lost and no partial file is ever published,
\* whatever interleaving, crash, failed call, name collision or tmp cleanup
\* happens (DeliverToInboxes, MoveNewToCur, moveInboxMessageToDLQ, cleanup).
THEOREM NothingLost == Spec => []NoLoss
<1>1. IInv => NoLoss
  BY DEF IInv
<1> QED
  BY <1>1, Inductive, PTL

\* What DeliverToInboxes and DeliverToExistingInbox report is true: a failed or
\* pending recipient never gets this send's file, a delivered one had its bytes.
THEOREM ReportsTrue == Spec => []ReportTruth
<1>1. IInv => ReportTruth
  BY DEF IInv
<1> QED
  BY <1>1, Inductive, PTL

-----------------------------------------------------------------------------
(* Collisions *)

\* The cleanup that follows a reported collision leaves the refused attempt out.
Spared(s) == report[s].status = "collision" => report[s].failed \cap drop[s] = {}

CollisionInv == \A s \in Senders : Spared(s)

\* What Return puts into the report's status and leaves for the cleanup.
LEMMA ReturnCleanup ==
  ASSUME TypeOK, NEW s \in Senders,
         NEW status, NEW delivered, NEW failed, NEW pending, NEW cleanup,
         Return(s, status, delivered, failed, pending, cleanup)
  PROVE  /\ report'[s].status = status /\ report'[s].failed = failed
         /\ drop'[s] = cleanup
         /\ \A t \in Senders \ {s} : report'[t] = report[t] /\ drop'[t] = drop[t]
  BY DEF Return, TypeOK, SenderType

\* A publication error reports its status and the recipient that failed ...
LEMMA PublishErrorStatus ==
  ASSUME TypeOK, NEW s \in Senders, NEW a \in Agents, NEW status, NEW keep,
         PublishError(s, a, status, keep)
  PROVE  /\ report'[s].status = status /\ report'[s].failed = {a}
         /\ \A t \in Senders \ {s} : report'[t] = report[t] /\ drop'[t] = drop[t]
<1>1. \E delivered, waiting, drops : Return(s, status, delivered, {a}, waiting, drops)
  BY DEF PublishError
<1> QED
  BY <1>1, ReturnCleanup, SMTT(20)

\* ... and the error that keeps the attempt spares that recipient.
LEMMA CollisionCleanup ==
  ASSUME TypeOK, NEW s \in Senders, NEW a \in Agents, NEW status,
         PublishError(s, a, status, TRUE)
  PROVE  a \notin drop'[s]
<1> DEFINE pending == staged[s] \ (committed[s] \cup {a})
<1>1. \/ Return(s, status, {}, {a}, {}, {})
      \/ Return(s, status, committed[s], {a}, pending, pending)
  BY DEF PublishError
<1>2. a \notin pending
  OBVIOUS
<1> HIDE DEF pending
<1> QED
  BY <1>1, <1>2, ReturnCleanup, SMTT(20)

\* A visible publication reports no collision.
LEMMA SyncNewCleanup ==
  ASSUME TypeOK, NEW s \in Senders, NEW a \in Agents, SyncNew(s, a)
  PROVE  /\ report'[s].status # "collision" \/ UNCHANGED <<report, drop>>
         /\ \A t \in Senders \ {s} : report'[t] = report[t] /\ drop'[t] = drop[t]
<1> DEFINE pending == staged[s] \ (committed[s] \cup {a})
<1>1. \/ UNCHANGED <<report, drop>>
      \/ Return(s, "uncertain", {a}, {}, {}, {})
      \/ Return(s, "uncertain", committed[s] \cup {a}, {}, pending, pending)
  BY DEF SyncNew
<1> HIDE DEF pending
<1>2. CASE Return(s, "uncertain", {a}, {}, {}, {})
  BY <1>2, ReturnCleanup, SMTT(20)
<1>3. CASE Return(s, "uncertain", committed[s] \cup {a}, {}, pending, pending)
  BY <1>3, ReturnCleanup, SMTT(20)
<1> QED
  BY <1>1, <1>2, <1>3

\* Every step of a send spares refused attempts.
LEMMA SparedBySend ==
  ASSUME IInv, CollisionInv, NEW s \in Senders, SenderMove(s)
  PROVE  CollisionInv'
<1> USE DEF IInv, disk
<1>0. TypeOK /\ \A t \in Senders : Spared(t)
  BY DEF CollisionInv
<1>1. CASE \/ Send(s) \/ StageWrite(s) \/ WaitMatched(s) \/ WaitTimeout(s)
           \/ \E a \in Agents : StageOpen(s, a) \/ PublishCollides(s, a)
  <2>1. UNCHANGED <<report, drop>>
    BY <1>1 DEF Send, StageWrite, WaitMatched, WaitTimeout, StageOpen, PublishCollides
  <2> QED
    BY <1>0, <2>1 DEF CollisionInv, Spared
<1>2. CASE CleanupTmp(s) \/ SendFails(s)
  <2>1. report' = report /\ \A t \in Senders : drop'[t] \subseteq drop[t]
    BY <1>0, <1>2 DEF CleanupTmp, SendFails, EndSend, TypeOK, SenderType
  <2> QED
    BY <1>0, <2>1 DEF CollisionInv, Spared
<1>3. CASE Record(s) \/ CrashSender(s)
  <2>1. /\ drop'[s] = {}
        /\ \A t \in Senders \ {s} : report'[t] = report[t] /\ drop'[t] = drop[t]
    BY <1>0, <1>3 DEF Record, CrashSender, EndSend, TypeOK, SenderType
  <2> QED
    BY <1>0, <2>1 DEF CollisionInv, Spared
<1>4. CASE StageFail(s)
  <2>1. /\ report'[s].failed = {}
        /\ \A t \in Senders \ {s} : report'[t] = report[t] /\ drop'[t] = drop[t]
    BY <1>0, <1>4, ReturnCleanup, SMTT(20) DEF StageFail
  <2> QED
    BY <1>0, <2>1 DEF CollisionInv, Spared
<1>5. ASSUME NEW a \in Agents, PublishFail(s, a) PROVE CollisionInv'
  <2>1. \E keep \in BOOLEAN : PublishError(s, a, "error", keep)
    BY <1>5 DEF PublishFail
  <2>2. /\ report'[s].status = "error"
        /\ \A t \in Senders \ {s} : report'[t] = report[t] /\ drop'[t] = drop[t]
    BY <1>0, <2>1, PublishErrorStatus
  <2> QED
    BY <1>0, <2>2 DEF CollisionInv, Spared
<1>6. ASSUME NEW a \in Agents, SyncNew(s, a) PROVE CollisionInv'
  BY <1>0, <1>6, SyncNewCleanup DEF CollisionInv, Spared
<1>7. CASE Resolve(s)
  <2>0. PICK a \in Agents : a = at[s]
    BY <1>7 DEF Resolve, SenderInv, Consistent
  <2>1. CASE PublishError(s, a, "collision", TRUE)
    <3>1. \E keep \in BOOLEAN : PublishError(s, a, "collision", keep)
      BY <2>1
    <3>2. a \notin drop'[s]
      BY <1>0, <2>1, CollisionCleanup
    <3>3. /\ report'[s].failed = {a}
          /\ \A t \in Senders \ {s} : report'[t] = report[t] /\ drop'[t] = drop[t]
      BY <1>0, <3>1, PublishErrorStatus
    <3> QED
      BY <1>0, <3>2, <3>3 DEF CollisionInv, Spared
  <2>2. CASE PublishError(s, a, "error", FALSE)
    <3>1. \E keep \in BOOLEAN : PublishError(s, a, "error", keep)
      BY <2>2
    <3>2. /\ report'[s].status = "error"
          /\ \A t \in Senders \ {s} : report'[t] = report[t] /\ drop'[t] = drop[t]
      BY <1>0, <3>1, PublishErrorStatus
    <3> QED
      BY <1>0, <3>2 DEF CollisionInv, Spared
  <2> QED
    BY <1>6, <1>7, <2>0, <2>1, <2>2 DEF Resolve
<1> QED
  BY <1>1, <1>2, <1>3, <1>4, <1>5, <1>6, <1>7 DEF SenderMove, SenderStep, Publish

\* Every step spares refused attempts.
LEMMA SparedStep ==
  ASSUME IInv, CollisionInv, [Next]_vars
  PROVE  CollisionInv'
<1>1. ASSUME UNCHANGED <<report, drop>> PROVE CollisionInv'
  BY <1>1 DEF CollisionInv, Spared
<1>2. ASSUME NEW c \in Consumers, ConsumerMove(c) PROVE UNCHANGED <<report, drop>>
  BY <1>2, ConsumerFrame
<1>3. CASE (\E m \in Msgs : SweepTmp(m)) \/ UNCHANGED vars
  BY <1>1, <1>3 DEF SweepTmp, vars, senderVars
<1> QED
  BY <1>1, <1>2, <1>3, SparedBySend, Moves

\* A send removes from tmp only files of its own, and none that it has
\* reported as a refused attempt.
LEMMA RefusedStays ==
  ASSUME IInv, CollisionInv, NEW t \in Senders, SenderMove(t),
         NEW s \in Senders, NEW a \in Agents, <<s, a>> \in tmp, <<s, a>> \notin tmp',
         report'[s].status = "collision"
  PROVE  a \notin report'[s].failed
<1> USE DEF IInv, disk
<1>0. TypeOK /\ Consistent(s) /\ Spared(s)
  BY DEF SenderInv, CollisionInv
<1>1. CASE \/ Send(t) \/ StageWrite(t) \/ StageFail(t) \/ WaitMatched(t) \/ WaitTimeout(t)
           \/ SendFails(t) \/ Record(t) \/ CrashSender(t)
           \/ \E b \in Agents : StageOpen(t, b) \/ PublishCollides(t, b)
  BY <1>1 DEF Send, StageWrite, StageFail, WaitMatched, WaitTimeout, SendFails, Record,
              CrashSender, StageOpen, PublishCollides
<1>2. CASE CleanupTmp(t)
  <2>1. s = t /\ a \in drop[s] /\ report' = report
    BY <1>2 DEF CleanupTmp
  <2> QED
    BY <1>0, <2>1 DEF Spared
<1>3. ASSUME NEW b \in Agents, PublishFail(t, b) PROVE FALSE
  <2>1. s = t /\ \E keep \in BOOLEAN : PublishError(s, b, "error", keep)
    BY <1>3 DEF PublishFail
  <2>2. report'[s].status = "error"
    BY <1>0, <2>1, PublishErrorStatus
  <2> QED
    BY <2>2
<1>4. ASSUME NEW b \in Agents, Publish(t, b) PROVE FALSE
  <2>1. s = t /\ SyncNew(s, b) /\ phase[s] = "publish"
    BY <1>4 DEF Publish
  <2>2. phase[s] \in Sending
    BY <2>1 DEF Sending
  <2>3. report[s] = NoReport
    BY <1>0, <2>2 DEF Consistent
  <2>4. report[s].status = "none"
    BY <2>3, SMTT(20) DEF NoReport
  <2> QED
    BY <1>0, <2>1, <2>4, SyncNewCleanup
<1>5. CASE Resolve(t)
  <2>1. s = t /\ SyncNew(s, at[s]) /\ phase[s] = "resolve" /\ at[s] \in Agents
    BY <1>5 DEF Resolve, SenderInv, Consistent
  <2>2. phase[s] \in Sending
    BY <2>1 DEF Sending
  <2>3. report[s] = NoReport
    BY <1>0, <2>2 DEF Consistent
  <2>4. report[s].status = "none"
    BY <2>3, SMTT(20) DEF NoReport
  <2> QED
    BY <1>0, <2>1, <2>4, SyncNewCleanup
<1> QED
  BY <1>1, <1>2, <1>3, <1>4, <1>5 DEF SenderMove, SenderStep

\* Once a send reports a collision, only an operator's cleanup removes the
\* refused attempt (partialDeliveryError, cleanupTmpStages, cleanup).
THEOREM BothCopiesKept == Spec => BothCopiesSurvive
<1>1. Init => CollisionInv
  BY DEF Init, CollisionInv, Spared, NoReport
<1>2. IInv /\ CollisionInv /\ [Next]_vars => CollisionInv'
  BY SparedStep
<1> DEFINE Kept == \A s \in Senders, a \in Agents :
                     (report'[s].status = "collision" /\ a \in report'[s].failed
                        /\ <<s, a>> \in tmp /\ <<s, a>> \notin tmp')
                       => SweepTmp(<<s, a>>)
<1>3. IInv /\ CollisionInv /\ [Next]_vars => [Kept]_vars
  <2> SUFFICES ASSUME IInv, CollisionInv, [Next]_vars, NEW s \in Senders, NEW a \in Agents,
                      report'[s].status = "collision", a \in report'[s].failed,
                      <<s, a>> \in tmp, <<s, a>> \notin tmp'
               PROVE  SweepTmp(<<s, a>>)
    OBVIOUS
  <2>1. ASSUME NEW t \in Senders, SenderMove(t) PROVE FALSE
    BY <2>1, RefusedStays
  <2>2. ASSUME NEW c \in Consumers, ConsumerMove(c) PROVE FALSE
    BY <2>2, ConsumerFrame
  <2>3. ASSUME NEW m \in Msgs, SweepTmp(m) PROVE SweepTmp(<<s, a>>)
    <3>1. m = <<s, a>>
      BY <2>3 DEF SweepTmp
    <3> QED
      BY <2>3, <3>1
  <2>4. CASE UNCHANGED vars
    BY <2>4 DEF vars, disk
  <2> QED
    BY <2>1, <2>2, <2>3, <2>4, Moves
<1> QED
  BY <1>1, <1>2, <1>3, Inductive, PTL DEF Spec, BothCopiesSurvive

-----------------------------------------------------------------------------
\* Each send has a file name of its own (fsq.RandomString in message ids).
OwnNames == \A s, t \in Senders : File[s] = File[t] => s = t

\* The program counters of a consumer that has yet to dispose of its claim.
InHand == {"held", "dlq", "source"}

\* Those of amq read before it has claimed anything.
Reading == {"peeked", "bad", "again", "excuse"}

\* A consumer's batch: what it holds is its own and still in inbox/cur, and
\* what it has claimed is what it will print, but for the message in hand.
Owns(c) ==
  /\ pc[c] \in InHand => hold[c] \in mine[c] \cap icur
  /\ pc[c] \in InHand \cup {"peeked", "bad"} => hold[c][2] = Me[c]
  /\ pc[c] \in Reading \cup {"idle"} => mine[c] = {}
  /\ pc[c] \in Reading => hold[c] \in pubs
  /\ pc[c] = "again" => hold[c] \in icur \cup dlq
  /\ items[c] \subseteq mine[c]
  /\ mine[c] \subseteq items[c] \cup (IF pc[c] \in InHand THEN {hold[c]} ELSE {})
  /\ mine[c] \subseteq icur \cup dlq
  /\ \A m \in mine[c] : shown[m] = 0

OwnersInv == \A c \in Consumers : Owns(c)

\* No message belongs to two batches.
Exclusive == \A c, d \in Consumers : c # d => mine[c] \cap mine[d] = {}

\* A claimed or buried message never is in inbox/new, and only published
\* messages are buried.
Apart == inew \cap (icur \cup dlq) = {} /\ dlq \subseteq pubs

\* A message is printed once, and only after its claim.
ToldInv == \A m \in Msgs : shown[m] = 0 \/ (shown[m] = 1 /\ m \in icur \cup dlq)

\* The message behind a drained receipt is in inbox/cur and in nobody's hand;
\* the one behind a dlq receipt has an envelope.
Backed(r) ==
  /\ r[3] = "drained" =>
       \E m \in Named(r[1], r[2], icur) : \A c \in Consumers : pc[c] \in InHand => hold[c] # m
  /\ r[3] = "dlq" => Named(r[1], r[2], dlq) # {}

\* A wait that matched has seen its receipt.
ReceiptInv ==
  /\ \A r \in receipts : Backed(r)
  /\ \A s \in Senders :
       phase[s] = "matched" => \E a \in Rcpt[s] : <<a, File[s], "drained">> \in receipts

OwnInv == OwnersInv /\ Exclusive /\ Apart /\ ToldInv /\ ReceiptInv

-----------------------------------------------------------------------------
(* What a consumer's step does to the boxes and to its batch *)

\* It claims m: an open batch now has it in hand, or amq read has already
\* parsed it and prints it.
Takes(c, m) ==
  /\ m \in inew /\ m[2] = Me[c] /\ pc[c] \notin Echoing
  /\ inew' = inew \ {m} /\ icur' = icur \cup {m} /\ UNCHANGED <<dlq, shown>>
  /\ mine'[c] = mine[c] \cup {m} /\ hold'[c] = m
  /\ \/ /\ pc[c] \notin InHand /\ pc'[c] \in InHand
        /\ items'[c] = items[c] /\ UNCHANGED receipts
     \/ /\ mine[c] = {} /\ pc'[c] = "out" /\ items'[c] = {m}
        /\ receipts \subseteq receipts'
        /\ receipts' \subseteq receipts \cup {<<m[2], File[m[1]], "drained">>}

\* It moves on without touching a file or its batch.
Turns(c) ==
  /\ UNCHANGED <<inew, icur, dlq, receipts, shown>> /\ pc[c] \notin Echoing
  /\ items'[c] = items[c] /\ mine'[c] = mine[c]
  /\ \/ pc[c] \in InHand /\ pc'[c] \in InHand /\ hold'[c] = hold[c]
     \/ /\ pc[c] \notin InHand /\ pc'[c] \notin InHand
        /\ pc'[c] \in Reading \cup {"idle"} => mine[c] = {}
        /\ pc'[c] \in Reading => hold'[c] \in pubs
        /\ pc'[c] \in {"peeked", "bad"} => hold'[c][2] = Me[c]
        /\ pc'[c] = "again" => hold'[c] \in icur \cup dlq

\* It writes the envelope of the message in hand, which it keeps in hand.
Buries(c) ==
  /\ UNCHANGED <<inew, icur, receipts, shown>>
  /\ dlq' = dlq \cup {hold[c]}
  /\ pc[c] \in InHand /\ pc'[c] \in InHand
  /\ items'[c] = items[c] /\ mine'[c] = mine[c] /\ hold'[c] = hold[c]

\* It disposes of the message in hand, which is left in inbox/cur or in an
\* envelope, and tells so by a receipt.
Settles(c) ==
  /\ UNCHANGED <<inew, shown>>
  /\ dlq' \in {dlq, dlq \cup {hold[c]}}
  /\ icur' \in {icur, icur \ {hold[c]}}
  /\ hold[c] \in icur' \cup dlq'
  /\ \A r \in receipts' \ receipts :
       \/ r = <<Me[c], File[hold[c][1]], "drained">> /\ hold[c] \in icur'
       \/ r = <<Me[c], File[hold[c][1]], "dlq">> /\ hold[c] \in dlq'
  /\ receipts \subseteq receipts'
  /\ pc[c] \in InHand /\ pc'[c] \in {"scan", "out"}
  /\ items'[c] = items[c] \cup {hold[c]} /\ mine'[c] = mine[c] /\ hold'[c] = hold[c]

\* It ends its batch, printing it or not.
Ends(c) ==
  /\ UNCHANGED <<inew, icur, dlq, receipts>>
  /\ pc'[c] = "idle" /\ items'[c] = {} /\ mine'[c] = {}
  /\ \/ UNCHANGED shown
     \/ /\ pc[c] \notin InHand \cup Echoing
        /\ shown' = [m \in Msgs |-> IF m \in items[c] THEN shown[m] + 1 ELSE shown[m]]

\* When names are not shared, the file claimed by name is the one amq read
\* has parsed.
LEMMA PeekedIsClaimed ==
  ASSUME OwnNames, NEW m \in Msgs, NEW box, box \subseteq Msgs, NEW n \in SameName(m, box)
  PROVE  n = m
  BY SMTT(20) DEF OwnNames, SameName, Msgs

\* A receipt is written or it is not.
LEMMA ReceiptEffect ==
  ASSUME NEW a, NEW f, NEW stage, emitReceipt(a, f, stage)
  PROVE  receipts \subseteq receipts' /\ receipts' \subseteq receipts \cup {<<a, f, stage>>}
  BY DEF emitReceipt

\* Every step of a consumer is one of the five.
LEMMA ConsumerEffect ==
  ASSUME IInv, OwnInv, OwnNames, NEW c \in Consumers, ConsumerMove(c)
  PROVE  (\E m \in inew : Takes(c, m)) \/ Turns(c) \/ Buries(c) \/ Settles(c) \/ Ends(c)
<1> USE DEF InHand, Reading, Echoing, disk
<1>0. /\ TypeOK /\ Owns(c) /\ Holds(c) /\ inew \subseteq Msgs
      /\ inew \subseteq pubs /\ icur \subseteq pubs
  BY DEF IInv, OwnInv, OwnersInv, ConsumerInv, BoxInv, TypeOK, DiskType
<1>1. CASE Drain(c)
  BY <1>0, <1>1 DEF Drain, Turns, Owns, TypeOK, ConsumerType
<1>2. CASE Peek(c)
  BY <1>0, <1>2 DEF Peek, Turns, Owns, TypeOK, ConsumerType
<1>13. CASE Reread(c)
  BY <1>0, <1>13 DEF Reread, Turns, Owns, TypeOK, ConsumerType
<1>3. CASE PeekedLost(c)
  BY <1>0, <1>3 DEF PeekedLost, Turns, Owns, TypeOK, ConsumerType
<1>4. CASE ClaimLost(c) \/ ClaimCollides(c) \/ ClaimFails(c)
  BY <1>0, <1>4 DEF ClaimLost, ClaimCollides, ClaimFails, Next_File, Turns, Owns, TypeOK, ConsumerType
<1>5. CASE IngestFails(c)
  BY <1>0, <1>5 DEF IngestFails, Turns, Owns, TypeOK, ConsumerType
<1>6. CASE ClaimWins(c)
  <2>1. PICK f \in todo[c] : Next_File(c, f) /\ \E m \in Named(Me[c], f, inew) : MoveNewToCur(c, m)
    BY <1>6 DEF ClaimWins
  <2>2. PICK m \in Named(Me[c], f, inew) : MoveNewToCur(c, m)
    BY <2>1
  <2>3. m \in inew /\ m[2] = Me[c]
    BY <2>2 DEF Named
  <2>4. pc[c] = "scan" /\ pc'[c] = "held" /\ UNCHANGED <<dlq, receipts, items, shown>>
    BY <1>0, <1>6, <2>1 DEF ClaimWins, Next_File, TypeOK, ConsumerType
  <2>5. Takes(c, m)
    BY <1>0, <2>2, <2>3, <2>4 DEF MoveNewToCur, Takes, TypeOK, ConsumerType
  <2> QED
    BY <2>3, <2>5
<1>7. CASE PeekedClaim(c)
  <2>1. PICK m \in SameName(hold[c], inew) : MoveNewToCur(c, m)
    BY <1>7 DEF PeekedClaim
  <2>2. hold[c] \in Msgs /\ pc[c] \in {"peeked", "bad"} /\ mine[c] = {} /\ hold[c][2] = Me[c]
    BY <1>0, <1>7 DEF PeekedClaim, Holds, Owns
  <2>3. m = hold[c] /\ m \in inew
    BY <1>0, <2>1, <2>2, PeekedIsClaimed DEF SameName
  <2>4. UNCHANGED <<dlq, shown>>
    BY <1>7 DEF PeekedClaim
  <2>5. CASE pc[c] = "bad"
    <3>1. pc'[c] = "dlq" /\ UNCHANGED <<receipts, items>>
      BY <1>0, <1>7, <2>5 DEF PeekedClaim, TypeOK, ConsumerType
    <3>2. Takes(c, m)
      BY <1>0, <2>1, <2>2, <2>3, <2>4, <3>1 DEF MoveNewToCur, Takes, TypeOK, ConsumerType
    <3> QED
      BY <2>3, <3>2
  <2>6. CASE pc[c] = "peeked"
    <3>1. /\ pc'[c] = "out" /\ items'[c] = {hold[c]}
          /\ emitReceipt(Me[c], File[hold[c][1]], "drained")
      BY <1>0, <1>7, <2>6 DEF PeekedClaim, TypeOK, ConsumerType
    <3>2. Takes(c, m)
      BY <1>0, <2>1, <2>2, <2>3, <2>4, <3>1, ReceiptEffect DEF MoveNewToCur, Takes, TypeOK, ConsumerType
    <3> QED
      BY <2>3, <3>2
  <2> QED
    BY <2>2, <2>5, <2>6
<1>8. CASE Ingest(c)
  <2>1. /\ pc[c] = "held" /\ pc'[c] \in {"scan", "out"} /\ hold[c] \in icur
        /\ items'[c] = items[c] \cup {hold[c]}
        /\ UNCHANGED <<inew, icur, dlq, mine, hold, shown>>
        /\ emitReceipt(Me[c], File[hold[c][1]], "drained")
    BY <1>0, <1>8 DEF Ingest, Owns, TypeOK, ConsumerType
  <2> QED
    BY <2>1, ReceiptEffect, SMTT(20) DEF Settles
<1>9. CASE WriteEnvelope(c)
  <2>1. /\ pc[c] = "dlq" /\ hold[c] \in icur
        /\ UNCHANGED <<inew, icur, receipts, mine, hold, shown>>
    BY <1>0, <1>9 DEF WriteEnvelope, Owns
  <2>2. \/ dlq' = dlq \cup {hold[c]} /\ pc'[c] = "source" /\ items'[c] = items[c]
        \/ /\ dlq' \in {dlq, dlq \cup {hold[c]}} /\ pc'[c] = "out"
           /\ items'[c] = items[c] \cup {hold[c]}
    BY <1>0, <1>9 DEF WriteEnvelope, TypeOK, ConsumerType
  <2> QED
    BY <2>1, <2>2 DEF Settles, Buries
<1>10. CASE RemoveSource(c)
  <2>1. /\ pc[c] = "source" /\ hold[c] \in icur /\ hold[c] \in dlq
        /\ UNCHANGED <<inew, dlq, mine, hold, shown>>
        /\ items'[c] = items[c] \cup {hold[c]} /\ pc'[c] \in {"scan", "out"}
    BY <1>0, <1>10 DEF RemoveSource, Owns, Holds, TypeOK, ConsumerType
  <2>2. \/ icur' = icur \ {hold[c]} /\ emitReceipt(Me[c], File[hold[c][1]], "dlq")
        \/ UNCHANGED <<icur, receipts>>
    BY <1>10 DEF RemoveSource
  <2> QED
    BY <2>1, <2>2, ReceiptEffect, SMTT(20) DEF Settles
<1>11. CASE Output(c)
  <2>1. /\ UNCHANGED <<inew, icur, dlq, receipts>> /\ pc[c] \notin InHand
        /\ pc'[c] = "idle" /\ items'[c] = {} /\ mine'[c] = {}
        /\ shown' = [m \in Msgs |-> IF m \in items[c] THEN shown[m] + 1 ELSE shown[m]]
    BY <1>0, <1>11 DEF Output, BatchOver, EndBatch, TypeOK, ConsumerType
  <2>2. CASE pc[c] \in Echoing
    <3>1. items[c] = {} /\ shown \in [Msgs -> Nat]
      BY <1>0, <2>2 DEF Owns, TypeOK, ConsumerType
    <3>2. UNCHANGED shown
      BY <2>1, <3>1
    <3> QED
      BY <2>1, <3>2 DEF Ends
  <2> QED
    BY <2>1, <2>2 DEF Ends
<1>12. CASE CrashConsumer(c)
  BY <1>0, <1>12 DEF CrashConsumer, EndBatch, Ends, TypeOK, ConsumerType
<1> QED
  BY <1>1, <1>2, <1>3, <1>4, <1>5, <1>6, <1>7, <1>8, <1>9, <1>10, <1>11, <1>12, <1>13
     DEF ConsumerMove, ConsumerStep

-----------------------------------------------------------------------------
(* A consumer's step keeps ownership *)

\* It keeps its own batch in order ...
LEMMA OwnBatch ==
  ASSUME IInv, OwnInv, OwnNames, NEW c \in Consumers, ConsumerMove(c)
  PROVE  Owns(c)'
<1> USE DEF InHand, Reading, Echoing
<1>0. /\ Owns(c) /\ Apart /\ ToldInv /\ mine[c] \subseteq Msgs /\ inew \subseteq Msgs
      /\ pubs' = pubs
  BY ConsumerFrame DEF OwnInv, OwnersInv, IInv, TypeOK, ConsumerType, DiskType
<1>1. CASE \E m \in inew : Takes(c, m)
  <2>1. PICK m \in inew : Takes(c, m)
    BY <1>1
  <2>2. shown[m] = 0
    BY <1>0 DEF Apart, ToldInv
  <2> QED
    BY <1>0, <2>1, <2>2 DEF Takes, Owns
<1>2. CASE Turns(c)
  BY <1>0, <1>2 DEF Turns, Owns
<1>3. CASE Buries(c)
  BY <1>0, <1>3 DEF Buries, Owns
<1>4. CASE Settles(c)
  BY <1>0, <1>4 DEF Settles, Owns
<1>5. CASE Ends(c)
  BY <1>0, <1>5 DEF Ends, Owns
<1> QED
  BY <1>1, <1>2, <1>3, <1>4, <1>5, ConsumerEffect

\* ... and every other batch, whose messages it neither removes nor prints ...
LEMMA OtherBatches ==
  ASSUME IInv, OwnInv, OwnNames, NEW c \in Consumers, ConsumerMove(c), NEW d \in Consumers \ {c}
  PROVE  Owns(d)'
<1> USE DEF InHand, Reading, Echoing
<1>0. /\ Owns(c) /\ Owns(d) /\ Apart /\ mine[c] \cap mine[d] = {}
      /\ mine[d] \subseteq Msgs /\ inew \subseteq Msgs /\ pubs' = pubs
  BY ConsumerFrame DEF OwnInv, OwnersInv, Exclusive, IInv, TypeOK, ConsumerType, DiskType
<1>1. pc'[d] = pc[d] /\ hold'[d] = hold[d] /\ items'[d] = items[d] /\ mine'[d] = mine[d]
  BY OtherConsumers DEF IInv
<1>2. \A m \in mine[d] : /\ m \in icur => m \in icur'
                         /\ m \in dlq => m \in dlq'
                         /\ shown'[m] = shown[m]
  <2>1. CASE \E m \in inew : Takes(c, m)
    BY <2>1 DEF Takes
  <2>2. CASE Turns(c) \/ Buries(c)
    BY <2>2 DEF Turns, Buries
  <2>3. CASE Settles(c)
    BY <1>0, <2>3 DEF Settles, Owns
  <2>4. CASE Ends(c)
    BY <1>0, <2>4 DEF Ends, Owns
  <2> QED
    BY <2>1, <2>2, <2>3, <2>4, ConsumerEffect
<1>3. icur \cup dlq \subseteq icur' \cup dlq'
  BY ConsumerEffect DEF Takes, Turns, Buries, Settles, Ends
<1> QED
  BY <1>0, <1>1, <1>2, <1>3 DEF Owns

\* ... gives no message a second owner ...
LEMMA ExclusiveKept ==
  ASSUME IInv, OwnInv, OwnNames, NEW c \in Consumers, ConsumerMove(c)
  PROVE  Exclusive'
<1>1. ASSUME NEW d \in Consumers \ {c} PROVE mine'[d] = mine[d] /\ mine'[c] \cap mine[d] = {}
  <2>0. /\ mine[c] \cap mine[d] = {} /\ Apart /\ mine[d] \subseteq icur \cup dlq
        /\ mine'[d] = mine[d]
    BY OtherConsumers DEF IInv, OwnInv, OwnersInv, Exclusive, Owns
  <2>1. CASE \E m \in inew : Takes(c, m)
    BY <2>0, <2>1, SMTT(20) DEF Takes, Apart
  <2>2. CASE Turns(c) \/ Buries(c) \/ Settles(c) \/ Ends(c)
    BY <2>0, <2>2 DEF Turns, Buries, Settles, Ends
  <2> QED
    BY <2>0, <2>1, <2>2, ConsumerEffect
<1>2. Exclusive
  BY DEF OwnInv
<1> QED
  BY <1>1, <1>2, SMTT(20) DEF Exclusive

\* ... keeps claimed and buried messages out of inbox/new ...
LEMMA ApartKept ==
  ASSUME IInv, OwnInv, OwnNames, NEW c \in Consumers, ConsumerMove(c)
  PROVE  Apart'
<1>0. Apart /\ Owns(c) /\ BoxInv /\ pubs' = pubs
  BY ConsumerFrame DEF OwnInv, OwnersInv, IInv
<1>1. CASE \E m \in inew : Takes(c, m)
  BY <1>0, <1>1 DEF Takes, Apart
<1>2. CASE Turns(c) \/ Ends(c)
  BY <1>0, <1>2 DEF Turns, Ends, Apart
<1>3. CASE Buries(c) \/ Settles(c)
  BY <1>0, <1>3, SMTT(20) DEF Buries, Settles, Apart, Owns, BoxInv
<1> QED
  BY <1>1, <1>2, <1>3, ConsumerEffect

\* ... prints only what nobody has printed ...
LEMMA ToldKept ==
  ASSUME IInv, OwnInv, OwnNames, NEW c \in Consumers, ConsumerMove(c)
  PROVE  ToldInv'
<1>0. ToldInv /\ Owns(c) /\ shown \in [Msgs -> Nat]
  BY DEF OwnInv, OwnersInv, IInv, TypeOK, ConsumerType
<1>1. CASE \E m \in inew : Takes(c, m)
  BY <1>0, <1>1 DEF Takes, ToldInv
<1>2. CASE Turns(c) \/ Buries(c)
  BY <1>0, <1>2 DEF Turns, Buries, ToldInv
<1>3. CASE Settles(c)
  BY <1>0, <1>3 DEF Settles, ToldInv
<1>4. CASE Ends(c)
  <2>1. CASE UNCHANGED shown
    BY <1>0, <1>4, <2>1 DEF Ends, ToldInv
  <2>2. CASE shown' = [m \in Msgs |-> IF m \in items[c] THEN shown[m] + 1 ELSE shown[m]]
    <3>1. ASSUME NEW m \in Msgs PROVE shown'[m] = 0 \/ (shown'[m] = 1 /\ m \in icur' \cup dlq')
      <4>1. CASE m \in items[c]
        BY <1>0, <1>4, <2>2, <4>1, SMTT(20) DEF Ends, Owns
      <4>2. CASE m \notin items[c]
        BY <1>0, <1>4, <2>2, <4>2 DEF Ends, ToldInv
      <4> QED
        BY <4>1, <4>2
    <3> QED
      BY <3>1 DEF ToldInv
  <2> QED
    BY <1>4, <2>1, <2>2 DEF Ends
<1> QED
  BY <1>1, <1>2, <1>3, <1>4, ConsumerEffect

\* ... and takes no file from behind a receipt.
LEMMA BackedKept ==
  ASSUME IInv, OwnInv, OwnNames, NEW c \in Consumers, ConsumerMove(c)
  PROVE  \A r \in receipts' : Backed(r)'
<1> USE DEF InHand, Reading, Echoing
<1>0. /\ Owns(c) /\ Apart /\ icur \subseteq Msgs /\ inew \subseteq Msgs
      /\ \A r \in receipts : Backed(r)
      /\ \A d \in Consumers \ {c} : /\ Owns(d) /\ mine[c] \cap mine[d] = {}
                                    /\ pc'[d] = pc[d] /\ hold'[d] = hold[d]
  BY OtherConsumers DEF OwnInv, OwnersInv, Exclusive, ReceiptInv, IInv, TypeOK, DiskType
<1>1. dlq \subseteq dlq'
  BY ConsumerEffect DEF Takes, Turns, Buries, Settles, Ends
<1>2. ASSUME NEW m \in icur, \A d \in Consumers : pc[d] \in InHand => hold[d] # m
      PROVE  m \in icur' /\ \A d \in Consumers : pc'[d] \in InHand => hold'[d] # m
  <2>1. m \in icur' /\ (pc'[c] \in InHand => hold'[c] # m)
    <3>1. CASE \E n \in inew : Takes(c, n)
      BY <1>0, <3>1 DEF Takes, Apart
    <3>2. CASE Turns(c) \/ Buries(c) \/ Settles(c) \/ Ends(c)
      BY <1>2, <3>2 DEF Turns, Buries, Settles, Ends
    <3> QED
      BY <3>1, <3>2, ConsumerEffect
  <2> QED
    BY <1>0, <1>2, <2>1
<1>3. ASSUME NEW r \in receipts PROVE Backed(r)'
  <2>1. Backed(r)
    BY <1>0
  <2>2. r[3] = "dlq" => Named(r[1], r[2], dlq') # {}
    BY <1>1, <2>1 DEF Backed, Named
  <2>3. ASSUME r[3] = "drained"
        PROVE  \E m \in Named(r[1], r[2], icur') :
                 \A d \in Consumers : pc'[d] \in InHand => hold'[d] # m
    <3>1. PICK m \in Named(r[1], r[2], icur) : \A d \in Consumers : pc[d] \in InHand => hold[d] # m
      BY <2>1, <2>3 DEF Backed
    <3>2. m \in icur /\ m[2] = r[1] /\ File[m[1]] = r[2]
      BY <3>1 DEF Named
    <3> QED
      BY <1>2, <3>1, <3>2 DEF Named
  <2> QED
    BY <2>2, <2>3 DEF Backed
<1>4. ASSUME NEW r \in receipts' \ receipts PROVE Backed(r)'
  <2>1. CASE \E m \in inew : Takes(c, m)
    <3>1. PICK m \in inew : Takes(c, m)
      BY <2>1
    <3>2. r = <<m[2], File[m[1]], "drained">> /\ pc'[c] = "out" /\ m \in icur'
      BY <1>4, <3>1 DEF Takes
    <3>3. \A d \in Consumers : pc'[d] \in InHand => hold'[d] # m
      BY <1>0, <3>2, SMTT(20) DEF Owns, Apart
    <3> QED
      BY <3>2, <3>3 DEF Backed, Named
  <2>2. CASE Settles(c)
    <3>1. /\ \/ r = <<Me[c], File[hold[c][1]], "drained">> /\ hold[c] \in icur'
             \/ r = <<Me[c], File[hold[c][1]], "dlq">> /\ hold[c] \in dlq'
          /\ pc[c] \in InHand /\ pc'[c] \notin InHand
      BY <1>4, <2>2 DEF Settles
    <3>2. hold[c] \in mine[c] /\ hold[c][2] = Me[c]
      BY <1>0, <3>1 DEF Owns
    <3>3. \A d \in Consumers : pc'[d] \in InHand => hold'[d] # hold[c]
      BY <1>0, <3>1, <3>2 DEF Owns
    <3> QED
      BY <3>1, <3>2, <3>3, SMTT(20) DEF Backed, Named
  <2>3. CASE Turns(c) \/ Buries(c) \/ Ends(c)
    BY <1>4, <2>3 DEF Turns, Buries, Ends
  <2> QED
    BY <2>1, <2>2, <2>3, ConsumerEffect
<1> QED
  BY <1>3, <1>4

-----------------------------------------------------------------------------
(* A send's step keeps ownership *)

\* A send publishes a message once, so it never puts a claimed, buried or
\* printed message back into inbox/new.
LEMMA PublishedOnce ==
  ASSUME IInv, NEW s \in Senders, SenderMove(s)
  PROVE  \/ UNCHANGED <<inew, pubs>>
         \/ \E m \in Msgs \ pubs : inew' = inew \cup {m} /\ pubs' = pubs \cup {m}
<1> USE DEF disk
<1>1. CASE \/ Send(s) \/ StageWrite(s) \/ StageFail(s) \/ CleanupTmp(s) \/ WaitMatched(s)
           \/ WaitTimeout(s) \/ SendFails(s) \/ Record(s) \/ CrashSender(s) \/ Resolve(s)
  BY <1>1 DEF Send, StageWrite, StageFail, CleanupTmp, WaitMatched, WaitTimeout, SendFails,
              Record, CrashSender, Resolve
<1>2. CASE \E a \in Agents : StageOpen(s, a) \/ PublishCollides(s, a) \/ PublishFail(s, a)
  BY <1>2 DEF StageOpen, PublishCollides, PublishFail
<1>3. ASSUME NEW a \in Agents, Publish(s, a)
      PROVE  \E m \in Msgs \ pubs : inew' = inew \cup {m} /\ pubs' = pubs \cup {m}
  <2>1. <<s, a>> \in Msgs \ pubs
    BY <1>3 DEF Publish, IInv, CommittedInv, CommittedOnly, Sending, Msgs
  <2> QED
    BY <1>3, <2>1 DEF Publish
<1> QED
  BY <1>1, <1>2, <1>3 DEF SenderMove, SenderStep

\* Only a wait that finds its receipt is matched.
LEMMA MatchedByReceipt ==
  ASSUME IInv, NEW s \in Senders, SenderMove(s), NEW t \in Senders,
         phase'[t] = "matched", phase[t] # "matched"
  PROVE  \E a \in Rcpt[t] : <<a, File[t], "drained">> \in receipts
<1> USE DEF IInv, TypeOK, SenderType
<1>0. t = s
  BY OtherSends
<1>1. CASE WaitMatched(s)
  BY <1>0, <1>1 DEF WaitMatched
<1>2. CASE Send(s) \/ StageWrite(s) \/ StageFail(s) \/ CleanupTmp(s) \/ WaitTimeout(s)
  BY <1>0, <1>2 DEF Send, StageWrite, StageFail, Return, CleanupTmp, WaitTimeout
<1>3. CASE SendFails(s) \/ Record(s) \/ CrashSender(s)
  BY <1>0, <1>3 DEF SendFails, Record, CrashSender, EndSend
<1>4. CASE Resolve(s)
  BY <1>0, <1>4 DEF Resolve, PublishError, SyncNew, Return
<1>5. CASE \E a \in Agents : StageOpen(s, a) \/ PublishCollides(s, a) \/ PublishFail(s, a)
  BY <1>0, <1>5 DEF StageOpen, PublishCollides, PublishFail, PublishError, Return
<1>6. CASE \E a \in Agents : Publish(s, a)
  BY <1>0, <1>6 DEF Publish, SyncNew, Return
<1> QED
  BY <1>1, <1>2, <1>3, <1>4, <1>5, <1>6 DEF SenderMove, SenderStep

\* Every step keeps ownership.
LEMMA OwnStep ==
  ASSUME IInv, OwnInv, OwnNames, [Next]_vars
  PROVE  OwnInv'
<1>1. ASSUME NEW c \in Consumers, ConsumerMove(c) PROVE OwnInv'
  <2>1. OwnersInv'
    BY <1>1, OwnBatch, OtherBatches DEF OwnersInv
  <2>2. receipts \subseteq receipts' /\ UNCHANGED phase
    BY <1>1, ConsumerEffect, ConsumerFrame DEF Takes, Turns, Buries, Settles, Ends
  <2>3. ReceiptInv'
    BY <1>1, <2>2, BackedKept DEF ReceiptInv, OwnInv
  <2> QED
    BY <1>1, <2>1, <2>3, ExclusiveKept, ApartKept, ToldKept DEF OwnInv
<1>2. ASSUME NEW s \in Senders, SenderMove(s) PROVE OwnInv'
  <2>1. UNCHANGED <<icur, dlq, receipts, pc, hold, items, mine, shown>>
    BY <1>2, SenderFrame
  <2>0. pubs \subseteq pubs'
    BY <1>2, SenderDisk
  <2>2. OwnersInv' /\ Exclusive' /\ ToldInv'
    BY <2>0, <2>1 DEF OwnInv, OwnersInv, Owns, Exclusive, ToldInv
  <2>3. Apart'
    BY <1>2, <2>1, PublishedOnce DEF OwnInv, Apart, IInv, BoxInv
  <2>4. ReceiptInv'
    <3>1. \A r \in receipts' : Backed(r)'
      BY <2>1, SMTT(20) DEF OwnInv, ReceiptInv, Backed, Named
    <3>2. ASSUME NEW t \in Senders, phase'[t] = "matched"
          PROVE  \E a \in Rcpt[t] : <<a, File[t], "drained">> \in receipts'
      BY <1>2, <2>1, <3>2, MatchedByReceipt DEF OwnInv, ReceiptInv
    <3> QED
      BY <3>1, <3>2 DEF ReceiptInv
  <2> QED
    BY <2>2, <2>3, <2>4 DEF OwnInv
<1>3. CASE (\E m \in Msgs : SweepTmp(m)) \/ UNCHANGED vars
  <2>1. UNCHANGED <<inew, icur, dlq, receipts, pubs, phase, pc, hold, items, mine, shown>>
    BY <1>3 DEF SweepTmp, vars, disk, senderVars, consumerVars
  <2>2. OwnersInv' /\ Exclusive' /\ Apart' /\ ToldInv'
    BY <2>1 DEF OwnInv, OwnersInv, Owns, Exclusive, Apart, ToldInv
  <2>3. ReceiptInv'
    BY <2>1 DEF OwnInv, ReceiptInv, Backed, Named
  <2> QED
    BY <2>2, <2>3 DEF OwnInv
<1> QED
  BY <1>1, <1>2, <1>3, Moves

-----------------------------------------------------------------------------
(* The theorems *)

\* Ownership holds initially and is kept by every step.
THEOREM Ownership ==
  ASSUME OwnNames
  PROVE  Spec => [](IInv /\ OwnInv)
<1>1. Init => OwnInv
  BY DEF Init, OwnInv, OwnersInv, Owns, InHand, Reading, Exclusive, Apart, ToldInv, ReceiptInv
<1>2. IInv /\ OwnInv /\ [Next]_vars => OwnInv'
  BY OwnStep
<1> QED
  BY <1>1, <1>2, Inductive, PTL DEF Spec

\* Of competing `amq drain` and `amq read` processes one claims a message and
\* prints it as received, once (MoveNewToCur, finishDrainBatch); `amq read` prints
\* without a claim only what is claimed already, or a failure record (runRead,
\* outputReadFailure).
THEOREM PrintedOnce ==
  ASSUME OwnNames
  PROVE  Spec => []AtMostOnce
<1>1. IInv /\ OwnInv => AtMostOnce
  <2> SUFFICES ASSUME IInv, OwnInv PROVE AtMostOnce
    OBVIOUS
  <2>1. \A m \in Msgs : shown[m] <= 1
    BY SMTT(20) DEF OwnInv, ToldInv
  <2>2. ASSUME NEW c \in Consumers, NEW m \in mine[c], NEW d \in Consumers \ {c}
        PROVE  m \notin mine[d] \cup items[d]
    BY DEF OwnInv, OwnersInv, Owns, Exclusive
  <2>3. \A c \in Consumers : \A m \in mine[c] : shown[m] = 0
    BY DEF OwnInv, OwnersInv, Owns
  <2>4. ASSUME NEW c \in Consumers
        PROVE  /\ pc[c] = "again" => hold[c] \in icur \cup dlq
               /\ pc[c] = "excuse" => hold[c] \in pubs /\ items[c] = {}
    BY DEF OwnInv, OwnersInv, Owns, Reading
  <2> QED
    BY <2>1, <2>2, <2>3, <2>4 DEF AtMostOnce
<1> QED
  BY <1>1, Ownership, PTL

\* A batch that ends, for whatever reason, prints every message it claimed
\* (drainInboxItemsPinned, finishDrainBatch).
THEOREM BatchesComplete ==
  ASSUME OwnNames
  PROVE  Spec => []BatchComplete
<1>1. OwnInv => BatchComplete
  BY DEF OwnInv, OwnersInv, Owns, InHand, BatchComplete, BatchOver, Echoing
<1> QED
  BY <1>1, Ownership, PTL

\* Receipts are backed by files that stay, and a matched --wait-for drained
\* speaks of its own message (receipt.EmitDeliveryRoot, WaitForDeliveryRoot).
THEOREM ReceiptsTrue ==
  ASSUME OwnNames
  PROVE  Spec => []ReceiptTruth
<1>1. IInv /\ OwnInv => ReceiptTruth
  <2> SUFFICES ASSUME IInv, OwnInv PROVE ReceiptTruth
    OBVIOUS
  <2>1. icur \subseteq Msgs /\ receipts \subseteq Agents \X Nat \X {"drained", "dlq"}
    BY DEF IInv, TypeOK, DiskType
  <2>2. ASSUME NEW r \in receipts
        PROVE  Named(r[1], r[2], IF r[3] = "drained" THEN icur ELSE dlq) # {}
    <3>1. Backed(r) /\ r[3] \in {"drained", "dlq"}
      BY <2>1 DEF OwnInv, ReceiptInv
    <3> QED
      BY <3>1 DEF Backed
  <2>3. ASSUME NEW s \in Senders, phase[s] = "matched"
        PROVE  \E a \in Rcpt[s] : <<s, a>> \in icur
    <3>1. PICK a \in Rcpt[s] : <<a, File[s], "drained">> \in receipts
      BY <2>3 DEF OwnInv, ReceiptInv
    <3>2. PICK m \in Named(a, File[s], icur) : TRUE
      BY <3>1, <2>2
    <3>3. m \in icur /\ m[2] = a /\ File[m[1]] = File[s] /\ m[1] \in Senders /\ m = <<m[1], m[2]>>
      BY <2>1, <3>2, SMTT(20) DEF Named, Msgs
    <3>4. m = <<s, a>>
      BY <3>3 DEF OwnNames
    <3> QED
      BY <3>3, <3>4
  <2> QED
    BY <2>2, <2>3 DEF ReceiptTruth
<1> QED
  BY <1>1, Ownership, PTL

\* A file name never is in inbox/new and in inbox/cur at once, so that a claim
\* never collides (claim_rename.go).
THEOREM NoClaimCollision ==
  ASSUME OwnNames
  PROVE  Spec => []NeverBothBoxes
<1>1. IInv /\ OwnInv => NeverBothBoxes
  <2> SUFFICES ASSUME IInv, OwnInv, NEW m \in inew, NEW n \in Named(m[2], File[m[1]], icur)
               PROVE  FALSE
    BY DEF NeverBothBoxes
  <2>1. m \in Msgs /\ icur \subseteq Msgs /\ n \in SameName(m, icur)
    BY DEF IInv, TypeOK, DiskType, Named, SameName
  <2>2. n = m
    BY <2>1, PeekedIsClaimed
  <2> QED
    BY <2>2 DEF Named, OwnInv, Apart
<1> QED
  BY <1>1, Ownership, PTL

-----------------------------------------------------------------------------
(* The directories implement the abstract mailbox *)

\* Where every message is.
Places == [m \in Msgs |-> Place(m)]

\* A step that changes the place of one message is that abstract move.
LEMMA OneMove ==
  ASSUME NEW m \in Msgs, NEW from, NEW to, UNCHANGED shown, Echo' = Echo,
         Place(m) = from, Place(m)' = to,
         \A n \in Msgs \ {m} : Place(n)' = Place(n)
  PROVE  Promise!Move(m, from, to)
<1>1. Places' = [Places EXCEPT ![m] = to]
  BY DEF Places
<1> QED
  BY <1>1 DEF Promise!Move, Places

\* A step that changes no place and prints nothing is a stutter.
LEMMA NoMove ==
  ASSUME UNCHANGED shown, Echo' = Echo, \A m \in Msgs : Place(m)' = Place(m)
  PROVE  UNCHANGED Promise!vars
<1>1. Places' = Places
  BY DEF Places
<1> QED
  BY <1>1 DEF Promise!vars, Places

\* Where a message is, from the directories it is in.
LEMMA PlaceOf ==
  ASSUME NEW m \in Msgs
  PROVE  /\ m \in dlq => Place(m) = "dead"
         /\ m \notin dlq /\ m \in icur => Place(m) = "claimed"
         /\ m \notin dlq \cup icur /\ m \in inew => Place(m) = "queued"
         /\ m \notin dlq \cup icur \cup inew => Place(m) = "absent"
         /\ m \in dlq' => Place(m)' = "dead"
         /\ m \notin dlq' /\ m \in icur' => Place(m)' = "claimed"
         /\ m \notin dlq' \cup icur' /\ m \in inew' => Place(m)' = "queued"
         /\ m \notin dlq' \cup icur' \cup inew' => Place(m)' = "absent"
  BY DEF Place

\* A message whose presence in no directory changes keeps its place.
LEMMA SamePlace ==
  ASSUME NEW m \in Msgs, m \in dlq' <=> m \in dlq, m \in icur' <=> m \in icur,
         m \in inew' <=> m \in inew
  PROVE  Place(m)' = Place(m)
  BY DEF Place

\* A publication is a delivery; the other steps of a send are stutters.
LEMMA SenderSimulation ==
  ASSUME IInv, OwnInv, NEW s \in Senders, SenderMove(s)
  PROVE  Promise!Next \/ UNCHANGED Promise!vars
<1>0. UNCHANGED <<icur, dlq, shown>> /\ Echo' = Echo
  BY SenderFrame DEF Echo
<1>1. CASE UNCHANGED <<inew, pubs>>
  BY <1>0, <1>1, SamePlace, NoMove
<1>2. ASSUME NEW m \in Msgs \ pubs, inew' = inew \cup {m}
      PROVE  Promise!Next
  <2>1. m \notin inew \cup icur \cup dlq
    BY DEF IInv, BoxInv, OwnInv, Apart
  <2>2. Place(m) = "absent" /\ Place(m)' = "queued"
    BY <1>0, <1>2, <2>1, PlaceOf
  <2>3. \A n \in Msgs \ {m} : Place(n)' = Place(n)
    BY <1>0, <1>2, SamePlace
  <2>4. Promise!Deliver(m)
    BY <1>0, <2>2, <2>3, OneMove DEF Promise!Deliver
  <2> QED
    BY <2>4 DEF Promise!Next
<1> QED
  BY <1>1, <1>2, PublishedOnce

\* What a step of consumer c does to what is printed without a claim depends on
\* where c was and is.
LEMMA EchoStep ==
  ASSUME IInv, NEW c \in Consumers, ConsumerMove(c)
  PROVE  /\ pc[c] \notin Echoing /\ pc'[c] \notin Echoing => Echo' = Echo
         /\ pc[c] \notin Echoing /\ pc'[c] \in Echoing =>
              Echo' = Echo \cup {<<hold'[c], pc'[c]>>}
         /\ pc[c] \in Echoing /\ pc'[c] \notin Echoing =>
              Echo' \in {Echo, Echo \ {<<hold[c], pc[c]>>}}
<1> DEFINE Others == {<<hold[d], pc[d]>> : d \in {e \in Consumers \ {c} : pc[e] \in Echoing}}
<1>1. \A d \in Consumers \ {c} : pc'[d] = pc[d] /\ hold'[d] = hold[d]
  BY OtherConsumers DEF IInv
<1>2. Others' = Others
  BY <1>1
<1>3. Echo = Others \cup (IF pc[c] \in Echoing THEN {<<hold[c], pc[c]>>} ELSE {})
  BY DEF Echo
<1>4. Echo' = Others' \cup (IF pc'[c] \in Echoing THEN {<<hold'[c], pc'[c]>>} ELSE {})
  BY DEF Echo
<1> QED
  BY <1>2, <1>3, <1>4

\* A consumer's step claims, buries, prints a batch, repeats what is claimed,
\* reports what it cannot read, or is a stutter.
LEMMA ConsumerSimulation ==
  ASSUME IInv, OwnInv, OwnNames, NEW c \in Consumers, ConsumerMove(c)
  PROVE  Promise!Next \/ UNCHANGED Promise!vars
<1> USE DEF InHand, Echoing
<1>0. /\ Owns(c) /\ Apart /\ inew \subseteq Msgs /\ icur \subseteq Msgs /\ mine[c] \subseteq Msgs
      /\ items[c] \subseteq Msgs
  BY DEF OwnInv, OwnersInv, IInv, TypeOK, DiskType, ConsumerType
<1>1. CASE \E m \in inew : Takes(c, m)
  <2>1. PICK m \in inew : Takes(c, m)
    BY <1>1
  <2>2. /\ m \in Msgs /\ m \notin icur \cup dlq
        /\ inew' = inew \ {m} /\ icur' = icur \cup {m} /\ UNCHANGED <<dlq, shown>>
        /\ Echo' = Echo
    BY <1>0, <2>1, EchoStep DEF Takes, Apart
  <2>3. Place(m) = "queued" /\ Place(m)' = "claimed"
    BY <2>2, PlaceOf
  <2>4. \A n \in Msgs \ {m} : Place(n)' = Place(n)
    BY <2>2, SamePlace
  <2>5. Promise!Claim(m)
    BY <2>2, <2>3, <2>4, OneMove DEF Promise!Claim
  <2> QED
    BY <2>2, <2>5 DEF Promise!Next
<1>2. CASE Turns(c)
  <2>1. UNCHANGED shown /\ \A m \in Msgs : Place(m)' = Place(m)
    BY <1>2, SamePlace DEF Turns
  <2>2. CASE pc'[c] \notin Echoing
    BY <1>2, <2>1, <2>2, EchoStep, NoMove DEF Turns
  <2>3. CASE pc'[c] \in Echoing
    <3> DEFINE m == hold'[c]
               why == pc'[c]
    <3>1. m \in pubs /\ (why = "again" => m \in icur \cup dlq) /\ Echo' = Echo \cup {<<m, why>>}
      BY <1>2, <2>3, EchoStep DEF Turns, Reading
    <3>2. m \in Msgs /\ m \in inew \cup icur \cup dlq
      BY <3>1 DEF IInv, NoLoss, TypeOK, DiskType
    <3>3. Places[m] \in IF why = "again" THEN {"claimed", "dead"} ELSE {"queued", "claimed", "dead"}
      BY <3>1, <3>2, PlaceOf DEF Places
    <3>4. Places' = Places
      BY <2>1 DEF Places
    <3>5. Promise!Repeat(m, why)
      BY <2>1, <3>1, <3>3, <3>4 DEF Promise!Repeat, Places
    <3> QED
      BY <2>3, <3>2, <3>5 DEF Promise!Next
  <2> QED
    BY <2>2, <2>3
<1>3. CASE Buries(c) \/ Settles(c)
  <2>0. PICK m \in icur : m = hold[c]
    BY <1>0, <1>3 DEF Buries, Settles, Owns
  <2>1. /\ m \in Msgs /\ UNCHANGED <<inew, shown>>
        /\ dlq' \in {dlq, dlq \cup {m}} /\ icur' \in {icur, icur \ {m}}
        /\ m \in icur' \cup dlq' /\ Echo' = Echo
    BY <1>0, <1>3, <2>0, EchoStep DEF Buries, Settles
  <2>2. \A n \in Msgs \ {m} : Place(n)' = Place(n)
    BY <2>1, SamePlace
  <2>3. CASE m \in dlq \/ m \notin dlq'
    <3>1. Place(m)' = Place(m)
      BY <2>1, <2>3, PlaceOf
    <3> QED
      BY <2>1, <2>2, <3>1, NoMove
  <2>4. CASE m \notin dlq /\ m \in dlq'
    <3>1. Place(m) = "claimed" /\ Place(m)' = "dead"
      BY <2>1, <2>4, PlaceOf
    <3>2. Promise!Bury(m)
      BY <2>1, <2>2, <3>1, OneMove DEF Promise!Bury
    <3> QED
      BY <2>1, <3>2 DEF Promise!Next
  <2> QED
    BY <2>3, <2>4
<1>4. CASE Ends(c)
  <2>1. \A m \in Msgs : Place(m)' = Place(m)
    BY <1>4, SamePlace DEF Ends
  <2>2. CASE UNCHANGED shown
    <3>1. CASE Echo' = Echo
      BY <2>1, <2>2, <3>1, NoMove
    <3>2. CASE pc[c] \in Echoing /\ Echo' = Echo \ {<<hold[c], pc[c]>>}
      <4>1. hold[c] \in Msgs /\ Places' = Places
        BY <1>0, <2>1, <3>2 DEF Owns, Reading, IInv, TypeOK, DiskType, Places
      <4>2. Promise!Repeated(hold[c], pc[c])
        BY <2>2, <3>2, <4>1 DEF Promise!Repeated, Places
      <4> QED
        BY <3>2, <4>1, <4>2 DEF Promise!Next
    <3> QED
      BY <1>4, <3>1, <3>2, EchoStep DEF Ends
  <2>3. CASE pc[c] \notin Echoing /\ shown' = [m \in Msgs |-> IF m \in items[c] THEN shown[m] + 1 ELSE shown[m]]
    <3>1. Places' = Places
      BY <2>1 DEF Places
    <3>2. ASSUME NEW m \in items[c] PROVE shown[m] = 0 /\ Places[m] \in {"claimed", "dead"}
      <4>1. m \in Msgs /\ shown[m] = 0 /\ m \in icur \cup dlq
        BY <1>0 DEF Owns
      <4> QED
        BY <4>1, PlaceOf DEF Places
    <3>3. Echo' = Echo
      BY <1>4, <2>3, EchoStep DEF Ends
    <3>4. Promise!Tell(items[c])
      BY <2>3, <3>1, <3>2, <3>3 DEF Promise!Tell, Places
    <3> QED
      BY <1>0, <3>4 DEF Promise!Next
  <2> QED
    BY <1>4, <2>2, <2>3 DEF Ends
<1> QED
  BY <1>1, <1>2, <1>3, <1>4, ConsumerEffect

\* The directories, claims and batches implement the abstract mailbox: every
\* initial state maps to an initial state, every step to a step or a stutter.
THEOREM MailboxImplemented ==
  ASSUME OwnNames
  PROVE  Spec => ImplementsMailbox
<1>1. Init => Promise!Init
  BY DEF Init, Promise!Init, Place, Echo, Echoing
<1>2. IInv /\ OwnInv /\ [Next]_vars => [Promise!Next]_(Promise!vars)
  <2> SUFFICES ASSUME IInv, OwnInv, [Next]_vars PROVE Promise!Next \/ UNCHANGED Promise!vars
    OBVIOUS
  <2>1. CASE (\E m \in Msgs : SweepTmp(m)) \/ UNCHANGED vars
    <3>1. UNCHANGED <<inew, icur, dlq, shown>> /\ Echo' = Echo
      BY <2>1 DEF SweepTmp, vars, disk, consumerVars, Echo
    <3> QED
      BY <3>1, SamePlace, NoMove
  <2> QED
    BY <2>1, SenderSimulation, ConsumerSimulation, Moves
<1> QED
  BY <1>1, <1>2, Ownership, PTL DEF Spec, ImplementsMailbox, Promise!Spec
=============================================================================
