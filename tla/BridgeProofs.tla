---------------------------- MODULE BridgeProofs ----------------------------
(* What Bridge guarantees for any number of messages, destinations and       *)
(* receiving processes: the source host loses no message, archives only what *)
(* the rendezvous took, and the destination acknowledges only what is in its *)
(* Maildir, publishing each transfer once until it is claimed.               *)
EXTENDS Bridge, FiniteSetTheorems, WellFoundedInduction, TLAPS

\* A leaf that names no prover is Zenon's.
USE ZenonT(60)

\* Spool and archive hold, under an id, a file some enqueue created for that id.
Spooled ==
  \A i \in Ids : \A f \in {spool[i], sent[i]} : f # None => f[1] = i /\ enq[f] # "idle"

\* What the courier has established about its item at each step of the push.
\* There is one courier, so what it read of a receipt stays true until it writes.
Pushing ==
  /\ pc = "dest" => list # {} /\ got # None
  /\ pc \in {"post", "receipt", "archive", "unlink", "unbind"} => items # {}
  /\ pc \in {"post", "receipt"} => accepted[Transfer] = None
  /\ pc = "receipt" => <<Transfer, Item[3]>> \in posted
  /\ pc = "archive" => accepted[Transfer] = Item[3]
  /\ pc = "unlink" => sent[Item[1]] # None

\* No other enqueue has used the id of f.
Sole(f) == \A g \in Files \ {f} : g[1] = f[1] => enq[g] = "idle"

\* The file of a sole enqueue is in the spool or in the archive from its
\* creation on, even when the courier takes it before it is complete.
Kept ==
  \A f \in Files :
    /\ enq[f] \in {"sidecar", "alias", "done"} => f \in full
    /\ Sole(f) /\ enq[f] \in {"write", "sidecar", "alias", "done"}
         => f \in {spool[f[1]], sent[f[1]]}

\* An envelope past its application is in the destination's inbox: a claim moves
\* it to cur and nothing replaces it there.
Applied ==
  \A r \in Receivers :
    /\ rpc[r] \in {"apply", "create", "fill", "ack"} => env[r] \in Envelopes
    /\ rpc[r] \in {"create", "fill", "ack"} => env[r][2] \in {inew[env[r][1]], icur[env[r][1]]}

\* Until a claim, a transfer has been published as often as it is in inbox/new.
Counted ==
  \A t \in Transfers : icur[t] = None => copies[t] = IF inew[t] = None THEN 0 ELSE 1

IInv ==
  /\ TypeOK /\ Spooled /\ Pushing /\ Kept /\ Applied /\ Counted
  /\ ArchivedAccepted /\ CommittedBeforeAck

-----------------------------------------------------------------------------
(* The courier's order *)

\* A set of numbers has a least one.
LEMMA LeastNumber ==
  ASSUME NEW S, S \subseteq Nat, S # {}
  PROVE  \E m \in S : \A n \in S : m <= n
<1>1. \A m, n \in Nat : <<n, m>> \in OpToRel(<, Nat) <=> n < m
  BY DEF OpToRel
<1>2. PICK less : /\ IsWellFoundedOn(less, Nat)
                  /\ \A m, n \in Nat : <<n, m>> \in less <=> n < m
  BY <1>1, NatLessThanWellFounded
<1>3. \E m \in S : \A n \in S : ~(<<n, m>> \in less)
  BY <1>2, WFMin
<1>4. PICK m \in S : \A n \in S : ~(<<n, m>> \in less)
  BY <1>3
<1>5. \A a, b \in Nat : <<b, a>> \in less <=> b < a
  BY <1>2
<1>6. ASSUME NEW n \in S
      PROVE  m <= n
  <2>1. m \in Nat /\ n \in Nat
    OBVIOUS
  <2>2. ~(n < m)
    BY <1>4, <1>5, <2>1
  <2> QED
    BY <2>1, <2>2, SMTT(20)
<1> QED
  BY <1>6

\* The item in hand is one of the items read, with the first of their file names.
LEMMA ItemIsFirst ==
  ASSUME TypeOK, items # {}
  PROVE  /\ Item \in items
         /\ \A y \in items : Item[1] <= y[1]
<1> DEFINE S == {x[1] : x \in items}
<1>1. \A x \in items : x[1] \in Ids /\ x[1] \in Nat
  BY BridgeAssumption DEF TypeOK
<1>2. S # {} /\ S \subseteq Nat
  BY <1>1
<1>3. PICK m \in S : \A n \in S : m <= n
  BY <1>2, LeastNumber
<1>4. PICK x \in items : x[1] = m
  OBVIOUS
<1>5. \A y \in items : x[1] <= y[1]
  BY <1>3, <1>4
<1> QED
  BY <1>5 DEF Item

\* The parts of the item in hand, and of the files.
LEMMA ItemTyped ==
  ASSUME TypeOK, items # {}
  PROVE  /\ Item \in items
         /\ Item[1] \in Ids /\ Item[2] \in Aliases /\ Item[3] \in Contents
         /\ Transfer \in Transfers
<1>1. Item \in items
  BY ItemIsFirst
<1> QED
  BY <1>1 DEF TypeOK, Transfer, Transfers

\* The item in hand depends on nothing but the items read.
LEMMA ItemSame ==
  ASSUME UNCHANGED items
  PROVE  UNCHANGED <<Item, Transfer>>
  BY DEF Item, Transfer

\* The next file of a push pass is one it listed.
LEMMA ListTyped ==
  ASSUME TypeOK, list # {}
  PROVE  Min(list) \in list
<1>1. list \subseteq Nat
  BY BridgeAssumption DEF TypeOK
<1>2. \E m \in list : \A n \in list : m <= n
  BY <1>1, LeastNumber
<1> QED
  BY <1>2 DEF Min

\* A spooled file names a transfer and has a content.
LEMMA FileTyped ==
  ASSUME NEW f \in Files
  PROVE  /\ f[1] \in Ids
         /\ f # None
         /\ Content(f) \in Contents /\ Content(f) # None
  BY BridgeAssumption, SMTT(20) DEF Content, Contents

-----------------------------------------------------------------------------
(* Types *)

\* An enqueue keeps the types.
LEMMA EnqueueTypes ==
  ASSUME TypeOK, NEW f \in Files, Enqueue(f)
  PROVE  TypeOK'
<1> USE FileTyped DEF TypeOK, pushVars, recvVars
<1>1. CASE EnqueueCreate(f)
  BY <1>1, SMTT(20) DEF EnqueueCreate
<1>2. CASE EnqueueWrite(f)
  BY <1>2 DEF EnqueueWrite
<1>3. CASE SidecarCreate(f)
  BY <1>3 DEF SidecarCreate
<1>4. CASE SidecarWrite(f)
  BY <1>4 DEF SidecarWrite
<1>5. CASE EnqueueFail(f)
  BY <1>5 DEF EnqueueFail
<1>6. CASE EnqueueCrash(f)
  BY <1>6 DEF EnqueueCrash
<1> QED
  BY <1>1, <1>2, <1>3, <1>4, <1>5, <1>6 DEF Enqueue

\* A push pass keeps the types.
LEMMA PushTypes ==
  ASSUME TypeOK, Pushing, PushOnce
  PROVE  TypeOK'
<1> USE DEF TypeOK, enqVars, recvVars
<1>1. CASE ListSpool
  BY <1>1 DEF ListSpool
<1>2. CASE ReadFile
  <2>1. list # {}
    BY <1>2 DEF ReadFile
  <2>2. Min(list) \in list
    BY <2>1, ListTyped
  <2>3. spool[Min(list)] \in Files
    BY <1>2, <2>2 DEF ReadFile
  <2> QED
    BY <1>2, <2>3, FileTyped DEF ReadFile
<1>3. CASE ReadDest
  <2>1. Min(list) \in list /\ got \in Contents
    BY <1>3, ListTyped DEF ReadDest, Pushing
  <2>2. (IF side[Min(list)] = None THEN Default ELSE Dest[side[Min(list)]]) \in Aliases
    BY <2>1, BridgeAssumption
  <2> QED
    BY <1>3, <2>1, <2>2, SMTT(20) DEF ReadDest
<1>4. CASE StartPush
  BY <1>4 DEF StartPush
<1>5. CASE CheckReceipt
  BY <1>5 DEF CheckReceipt
<1>6. CASE Post
  <2>1. <<Transfer, Item[3]>> \in Envelopes
    BY <1>6, ItemTyped DEF Post, Pushing, Envelopes
  <2> QED
    BY <1>6, <2>1 DEF Post, PushEnds
<1>7. CASE WriteReceipt
  <2>1. Item[3] \in Digests /\ Broken \in Digests
    BY <1>7, ItemTyped DEF WriteReceipt, Pushing, Digests
  <2> QED
    BY <1>7, <2>1, SMTT(20) DEF WriteReceipt, PushEnds
<1>8. CASE Archive
  BY <1>8, ItemTyped DEF Archive, Pushing
<1>9. CASE Unlink
  BY <1>9 DEF Unlink
<1>10. CASE Unbind
  BY <1>10 DEF Unbind
<1>11. CASE FinishPush \/ PushAborts
  BY <1>11 DEF FinishPush, PushAborts, PushEnds
<1> QED
  BY <1>1, <1>2, <1>3, <1>4, <1>5, <1>6, <1>7, <1>8, <1>9, <1>10, <1>11 DEF PushOnce

\* A poll of a receiver keeps the types.
LEMMA PollTypes ==
  ASSUME TypeOK, Applied, NEW r \in Receivers, PollOnce(r)
  PROVE  TypeOK'
<1> USE DEF TypeOK, sourceVars, enqVars, pushVars
<1>0. rpc[r] \in {"apply", "create", "fill", "ack"} =>
        /\ env[r] \in Envelopes /\ env[r][1] \in Transfers
        /\ env[r][2] \in Contents /\ env[r][2] \in Digests
  BY DEF Applied, Envelopes, Digests
<1>1. CASE Poll(r)
  BY <1>1, SMTT(30) DEF Poll
<1>2. CASE NextEnvelope(r)
  BY <1>2, SMTT(20) DEF NextEnvelope, RecvEnds
<1>3. CASE ApplyFile(r)
  <2>1. PICK e \in Drops : env' = [env EXCEPT ![r] = e]
    BY <1>3 DEF ApplyFile
  <2>2. e \in Envelopes
    BY BridgeAssumption
  <2> QED
    BY <1>3, <2>1, <2>2 DEF ApplyFile
<1>4. CASE Apply(r)
  BY <1>0, <1>4, SMTT(20) DEF Apply, Goto, RecvEnds
<1>5. CASE CreateReceipt(r)
  BY <1>0, <1>5 DEF CreateReceipt, Goto, Digests
<1>6. CASE FillReceipt(r)
  BY <1>0, <1>6 DEF FillReceipt, Goto, RecvEnds, Digests
<1>7. CASE Ack(r)
  BY <1>0, <1>7 DEF Ack, RecvEnds
<1>8. CASE RecvAborts(r)
  BY <1>8 DEF RecvAborts, RecvEnds
<1> QED
  BY <1>1, <1>2, <1>3, <1>4, <1>5, <1>6, <1>7, <1>8 DEF PollOnce

\* A drain of the target inbox keeps the types.
LEMMA ClaimTypes ==
  ASSUME TypeOK, NEW t \in Transfers, Claim(t)
  PROVE  TypeOK'
  BY DEF TypeOK, Claim, sourceVars, enqVars, pushVars
-----------------------------------------------------------------------------
(* The source host *)

\* Enqueues change neither the archive nor anything of the courier, and only
\* create or remove the spool file of their own id.
LEMMA EnqueueStep ==
  ASSUME IInv, NEW g \in Files, Enqueue(g)
  PROVE  Spooled' /\ Pushing' /\ Kept' /\ ArchivedAccepted'
<1> USE FileTyped DEF TypeOK, pushVars
<1>1. /\ UNCHANGED <<sent, accepted, posted, pushVars>>
      /\ enq' \in [Files -> {"idle", "write", "sidecar", "alias", "done", "failed", "crashed"}]
      /\ \A f \in Files \ {g} : enq'[f] = enq[f]
      /\ enq'[g] # "idle" /\ full \subseteq full'
      /\ \/ UNCHANGED spool
         \/ /\ enq[g] = "idle" /\ enq'[g] = "write" /\ spool' = [spool EXCEPT ![g[1]] = g]
         \/ /\ enq[g] # "idle" /\ enq'[g] = "failed" /\ spool' = [spool EXCEPT ![g[1]] = None]
      /\ enq'[g] = "write" => enq[g] = "idle" /\ spool'[g[1]] = g
      /\ enq'[g] \in {"sidecar", "alias", "done"} =>
           /\ g \in full' /\ UNCHANGED spool
           /\ enq[g] \in {"write", "sidecar", "alias", "done"}
  <2> USE DEF IInv
  <2>1. CASE EnqueueCreate(g)
    BY <2>1 DEF EnqueueCreate
  <2>2. CASE EnqueueWrite(g)
    BY <2>2 DEF EnqueueWrite
  <2>3. CASE SidecarCreate(g)
    BY <2>3 DEF SidecarCreate, Kept
  <2>4. CASE SidecarWrite(g)
    BY <2>4 DEF SidecarWrite, Kept
  <2>5. CASE EnqueueFail(g)
    BY <2>5 DEF EnqueueFail
  <2>6. CASE EnqueueCrash(g)
    BY <2>6 DEF EnqueueCrash
  <2> QED
    BY <2>1, <2>2, <2>3, <2>4, <2>5, <2>6 DEF Enqueue
<1>2. Spooled'
  BY <1>1, SMTT(30) DEF IInv, Spooled
<1>3. Pushing'
  BY <1>1, ItemSame DEF IInv, Pushing
<1>4. Kept'
  <2> SUFFICES ASSUME NEW f \in Files
               PROVE  /\ enq'[f] \in {"sidecar", "alias", "done"} => f \in full'
                      /\ Sole(f)' /\ enq'[f] \in {"write", "sidecar", "alias", "done"}
                           => f \in {spool'[f[1]], sent'[f[1]]}
    BY DEF Kept
  <2>1. CASE f = g
    BY <1>1, <2>1 DEF IInv, Kept, Sole
  <2>2. CASE f # g
    <3>1. Sole(f)' => Sole(f) /\ g[1] # f[1]
      BY <1>1, <2>2 DEF Sole
    <3> QED
      BY <1>1, <2>2, <3>1 DEF IInv, Kept
  <2> QED
    BY <2>1, <2>2
<1>5. ArchivedAccepted'
  BY <1>1 DEF IInv, ArchivedAccepted
<1> QED
  BY <1>2, <1>3, <1>4, <1>5

\* The courier archives a file when its receipt is there, and removes it from
\* the spool when it is archived.
LEMMA PushStep ==
  ASSUME IInv, PushOnce
  PROVE  Spooled' /\ Pushing' /\ Kept' /\ ArchivedAccepted'
<1> USE DEF IInv, enqVars
<1>1. CASE ListSpool
  BY <1>1 DEF ListSpool, Spooled, Pushing, Kept, Sole, ArchivedAccepted
<1>2. CASE ReadFile
  <2>1. Min(list) \in list
    BY <1>2, ListTyped DEF ReadFile
  <2>2. spool[Min(list)] \in Files
    BY <1>2, <2>1 DEF ReadFile, TypeOK
  <2>3. got' # None
    BY <1>2, <2>2, FileTyped DEF ReadFile
  <2>4. /\ pc' = "dest" /\ list # {}
        /\ UNCHANGED <<spool, full, enq, sent, accepted, list, posted>>
    BY <1>2 DEF ReadFile
  <2>5. Pushing'
    BY <2>3, <2>4 DEF Pushing
  <2> QED
    BY <2>4, <2>5 DEF Spooled, Kept, Sole, ArchivedAccepted
<1>3. CASE ReadDest \/ StartPush \/ FinishPush \/ PushAborts
  BY <1>3, SMTT(30) DEF ReadDest, StartPush, FinishPush, PushAborts, PushEnds,
              Spooled, Pushing, Kept, Sole, ArchivedAccepted
<1>4. CASE CheckReceipt
  <2>1. UNCHANGED <<Item, Transfer>>
    BY <1>4, ItemSame DEF CheckReceipt
  <2> QED
    BY <1>4, <2>1 DEF CheckReceipt, Spooled, Pushing, Kept, Sole, ArchivedAccepted
<1>5. CASE Post
  <2>1. items' = items => UNCHANGED <<Item, Transfer>>
    BY ItemSame
  <2> QED
    BY <1>5, <2>1, SMTT(30) DEF Post, PushEnds, Spooled, Pushing, Kept, Sole, ArchivedAccepted
<1>6. CASE WriteReceipt
  <2>1. items' = items => UNCHANGED <<Item, Transfer>>
    BY ItemSame
  <2>2. /\ Transfer \in Transfers /\ Item[3] \in Contents
        /\ accepted[Transfer] = None /\ <<Transfer, Item[3]>> \in posted
    BY <1>6, ItemTyped DEF WriteReceipt, Pushing
  <2>3. Spooled' /\ Kept'
    BY <1>6, SMTT(20) DEF WriteReceipt, PushEnds, Spooled, Kept, Sole
  <2>7. Pushing'
    <3>1. CASE pc' = "archive" /\ UNCHANGED items /\ accepted' = [accepted EXCEPT ![Transfer] = Item[3]]
      <4>1. accepted'[Transfer'] = Item'[3] /\ items' # {}
        BY <1>6, <2>1, <2>2, <3>1, SMTT(20) DEF WriteReceipt, Pushing, TypeOK
      <4> QED
        BY <3>1, <4>1 DEF Pushing
    <3>2. CASE PushEnds
      BY <3>2 DEF PushEnds, Pushing
    <3> QED
      BY <1>6, <3>1, <3>2 DEF WriteReceipt
  <2>4. \A t \in Transfers : accepted[t] \in Contents => accepted'[t] = accepted[t]
    BY <1>6, <2>2, BridgeAssumption, SMTT(20) DEF WriteReceipt, TypeOK
  <2>5. \A t \in Transfers : accepted'[t] \in Contents => <<t, accepted'[t]>> \in posted'
    <3>1. /\ UNCHANGED posted
          /\ \A t \in Transfers : t # Transfer => accepted'[t] = accepted[t]
          /\ accepted'[Transfer] \in {Item[3], Broken}
      BY <1>6, <2>2 DEF WriteReceipt, TypeOK
    <3>2. Broken \notin Contents
      BY BridgeAssumption
    <3> QED
      BY <2>2, <3>1, <3>2 DEF ArchivedAccepted
  <2>6. \A i \in Ids : sent'[i] # None => \E a \in Aliases : accepted'[<<i, a>>] \in Contents
    BY <1>6, <2>4 DEF WriteReceipt, ArchivedAccepted, Transfers
  <2> QED
    BY <2>3, <2>5, <2>6, <2>7 DEF ArchivedAccepted
<1>7. CASE Archive
  <2>1. UNCHANGED <<Item, Transfer>>
    BY <1>7, ItemSame DEF Archive
  <2>2. /\ Item[1] \in Ids /\ Item[2] \in Aliases
        /\ accepted[<<Item[1], Item[2]>>] \in Contents
    BY <1>7, ItemTyped DEF Archive, Pushing, Transfer
  <2>3. /\ sent' \in [Ids -> Files \cup {None}]
        /\ sent'[Item[1]] # None
        /\ \A i \in Ids : sent'[i] = sent[i] \/ (sent[i] = None /\ i = Item[1] /\ sent'[i] = spool[i])
    BY <1>7, <2>2 DEF Archive, TypeOK
  <2>4. Spooled' /\ Pushing' /\ ArchivedAccepted'
    BY <1>7, <2>1, <2>2, <2>3, SMTT(30) DEF Archive, Spooled, Pushing, ArchivedAccepted
  <2>5. Kept'
    BY <1>7, <2>3, FileTyped DEF Archive, Kept, Sole
  <2> QED
    BY <2>4, <2>5
<1>8. CASE Unlink
  <2>1. UNCHANGED <<Item, Transfer>>
    BY <1>8, ItemSame DEF Unlink
  <2>2. Item[1] \in Ids /\ sent[Item[1]] # None
    BY <1>8, ItemTyped DEF Unlink, Pushing
  <2>3. Spooled' /\ Pushing' /\ ArchivedAccepted'
    <3>1. /\ spool' = [spool EXCEPT ![Item[1]] = None] /\ pc' = "unbind" /\ items # {}
          /\ UNCHANGED <<side, full, enq, sent, accepted, list, items, got, posted>>
      BY <1>8 DEF Unlink, Pushing
    <3>2. spool \in [Ids -> Files \cup {None}]
      BY DEF TypeOK
    <3>3. \A i \in Ids : spool'[i] = spool[i] \/ spool'[i] = None
      BY <3>1, <3>2
    <3>4. Spooled'
      BY <3>1, <3>3, SMTT(30) DEF Spooled
    <3>5. Pushing'
      BY <3>1 DEF Pushing
    <3>6. ArchivedAccepted'
      BY <3>1 DEF ArchivedAccepted, Content
    <3> QED
      BY <3>4, <3>5, <3>6
  <2>4. ASSUME NEW f \in Files, Sole(f), enq[f] # "idle", f[1] = Item[1]
        PROVE  f = sent[f[1]]
    <3>1. PICK i \in Ids, g \in Files : i = f[1] /\ g = sent[i]
      BY <2>2, <2>4 DEF TypeOK
    <3>2. g # None /\ g[1] = f[1] /\ enq[g] # "idle"
      BY <2>2, <2>4, <3>1 DEF Spooled
    <3> QED
      BY <2>4, <3>1, <3>2 DEF Sole
  <2>5. Kept'
    <3> SUFFICES ASSUME NEW f \in Files, Sole(f), enq[f] \in {"write", "sidecar", "alias", "done"}
                 PROVE  f \in {spool'[f[1]], sent'[f[1]]}
      BY <1>8 DEF Unlink, Kept, Sole
    <3>1. CASE f[1] = Item[1]
      BY <1>8, <2>4, <3>1 DEF Unlink
    <3>2. CASE f[1] # Item[1]
      BY <1>8, <3>2, FileTyped DEF Unlink, Kept, TypeOK
    <3> QED
      BY <3>1, <3>2
  <2> QED
    BY <2>3, <2>5
<1>9. CASE Unbind
  BY <1>9 DEF Unbind, Spooled, Pushing, Kept, Sole, ArchivedAccepted
<1> QED
  BY <1>1, <1>2, <1>3, <1>4, <1>5, <1>6, <1>7, <1>8, <1>9 DEF PushOnce

-----------------------------------------------------------------------------
(* The destination host *)

\* Content that is in an inbox stays there: a publication and a claim write only
\* where nothing is.
LEMMA ContentStays ==
  ASSUME TypeOK, Applied,
         \/ \E r \in Receivers : PollOnce(r)
         \/ \E t \in Transfers : Claim(t),
         NEW t \in Transfers, NEW c \in Contents, c \in {inew[t], icur[t]}
  PROVE  c \in {inew'[t], icur'[t]}
<1>0. c # None
  BY BridgeAssumption
<1>1. ASSUME NEW r \in Receivers, PollOnce(r)
      PROVE  c \in {inew'[t], icur'[t]}
  <2>1. CASE Apply(r)
    <3>1. env[r][1] \in Transfers
      BY <2>1 DEF Apply, Applied, Envelopes
    <3> QED
      BY <1>0, <2>1, <3>1 DEF Apply, TypeOK
  <2>2. CASE ~Apply(r)
    BY <1>1, <2>2 DEF PollOnce, Poll, NextEnvelope, ApplyFile, CreateReceipt, FillReceipt, Ack, RecvAborts
  <2> QED
    BY <2>1, <2>2
<1>2. ASSUME NEW u \in Transfers, Claim(u)
      PROVE  c \in {inew'[t], icur'[t]}
  BY <1>0, <1>2 DEF Claim, TypeOK
<1> QED
  BY <1>1, <1>2

\* A receiver acknowledges and receipts what it has applied.
LEMMA PollStep ==
  ASSUME IInv, NEW r \in Receivers, PollOnce(r)
  PROVE  Applied' /\ Counted' /\ CommittedBeforeAck'
<1> USE DEF IInv
<1>0. \A t \in Transfers, c \in Contents : c \in {inew[t], icur[t]} => c \in {inew'[t], icur'[t]}
  BY ContentStays
<1>1. /\ env[r] \in Envelopes => env[r][1] \in Transfers /\ env[r][2] \in Contents
      /\ \A e \in acked : e[1] \in Transfers /\ e[2] \in Contents
      /\ \A q \in Receivers : env[q] \in Envelopes => env[q][1] \in Transfers /\ env[q][2] \in Contents
  BY DEF TypeOK, Envelopes
<1>2. CASE Poll(r) \/ NextEnvelope(r) \/ ApplyFile(r) \/ RecvAborts(r)
  <2>1. /\ UNCHANGED <<inew, icur, landed, acked, copies>>
        /\ \A q \in Receivers : q # r => rpc'[q] = rpc[q] /\ env'[q] = env[q]
        /\ rpc'[r] \in {"next", "idle", "apply"}
    BY <1>2 DEF Poll, NextEnvelope, ApplyFile, RecvAborts, RecvEnds, TypeOK
  <2>2. rpc'[r] = "apply" => env'[r] \in Envelopes
    <3>1. Drops \subseteq Envelopes /\ batch[r] \subseteq Envelopes
      BY BridgeAssumption DEF TypeOK
    <3> QED
      <4>0. /\ env \in [Receivers -> Envelopes \cup {None}]
            /\ rpc \in [Receivers -> {"idle", "next", "apply", "create", "fill", "ack"}]
        BY DEF TypeOK
      <4>1. CASE Poll(r) \/ RecvAborts(r)
        BY <4>0, <4>1 DEF Poll, RecvAborts, RecvEnds
      <4>2. CASE NextEnvelope(r)
        BY <3>1, <4>0, <4>2 DEF NextEnvelope, RecvEnds
      <4>3. CASE ApplyFile(r)
        BY <3>1, <4>0, <4>3 DEF ApplyFile
      <4> QED
        BY <1>2, <4>1, <4>2, <4>3
  <2>3. Applied'
    BY <2>1, <2>2 DEF Applied
  <2> QED
    BY <2>1, <2>3 DEF Counted, CommittedBeforeAck
<1>3. CASE Apply(r)
  <2>1. env[r] \in Envelopes
    BY <1>3 DEF Apply, Applied
  <2>2. Counted'
    <3>1. PICK t \in Transfers, c \in Contents : t = env[r][1] /\ c = env[r][2]
      BY <1>1, <2>1
    <3>2. c # None /\ copies[t] \in Nat
      BY BridgeAssumption DEF TypeOK
    <3>3. /\ UNCHANGED icur
          /\ \/ UNCHANGED <<inew, copies>>
             \/ /\ inew[t] = None /\ inew' = [inew EXCEPT ![t] = c]
                /\ copies' = [copies EXCEPT ![t] = @ + 1]
      BY <1>3, <3>1 DEF Apply
    <3> QED
      BY <3>2, <3>3, SMTT(20) DEF Counted, TypeOK
  <2>3. Applied'
    <3>1. /\ \A q \in Receivers : q # r => rpc'[q] = rpc[q] /\ env'[q] = env[q]
          /\ \/ rpc'[r] = "idle"
             \/ rpc'[r] = "create" /\ env'[r] = env[r] /\ inew'[env[r][1]] = env[r][2]
      BY <1>1, <1>3, <2>1 DEF Apply, Goto, RecvEnds, TypeOK
    <3> QED
      BY <1>0, <1>1, <2>1, <3>1 DEF Applied
  <2>4. CommittedBeforeAck'
    BY <1>0, <1>1, <1>3 DEF Apply, CommittedBeforeAck
  <2> QED
    BY <2>2, <2>3, <2>4
<1>4. CASE CreateReceipt(r)
  <2>1. /\ UNCHANGED <<inew, icur, acked, copies, env>> /\ rpc[r] = "create"
        /\ \A q \in Receivers : q # r => rpc'[q] = rpc[q]
        /\ rpc'[r] \in {"fill", "ack"}
    BY <1>4 DEF CreateReceipt, Goto, TypeOK
  <2>2. Applied'
    BY <2>1 DEF Applied
  <2>3. \A t \in Transfers : landed'[t] = landed[t] \/ landed'[t] = Broken
    BY <1>4 DEF CreateReceipt, TypeOK
  <2>4. Broken \notin Contents
    BY BridgeAssumption
  <2>5. CommittedBeforeAck'
    BY <2>1, <2>3, <2>4 DEF CommittedBeforeAck
  <2> QED
    BY <2>1, <2>2, <2>5 DEF Counted
<1>5. CASE FillReceipt(r)
  <2>1. /\ UNCHANGED <<inew, icur, acked, copies>>
        /\ \A q \in Receivers : q # r => rpc'[q] = rpc[q] /\ env'[q] = env[q]
        /\ rpc'[r] = "idle" \/ (rpc'[r] = "ack" /\ env'[r] = env[r])
    BY <1>5 DEF FillReceipt, Goto, RecvEnds, TypeOK
  <2>2. /\ rpc[r] = "fill" /\ env[r] \in Envelopes
        /\ env[r][2] \in {inew[env[r][1]], icur[env[r][1]]}
    BY <1>5 DEF FillReceipt, Applied
  <2>3. Applied'
    BY <2>1, <2>2 DEF Applied
  <2>4. \A t \in Transfers : \/ landed'[t] = landed[t]
                             \/ t = env[r][1] /\ landed'[t] \in {env[r][2], None}
    BY <1>1, <1>5, <2>2 DEF FillReceipt, TypeOK
  <2>5. None \notin Contents
    BY BridgeAssumption
  <2>6. CommittedBeforeAck'
    BY <2>1, <2>2, <2>4, <2>5 DEF CommittedBeforeAck
  <2> QED
    BY <2>1, <2>3, <2>6 DEF Counted
<1>6. CASE Ack(r)
  <2>1. /\ UNCHANGED <<inew, icur, landed, copies>> /\ rpc[r] = "ack"
        /\ \A q \in Receivers : q # r => rpc'[q] = rpc[q] /\ env'[q] = env[q]
        /\ rpc'[r] \in {"next", "idle"}
        /\ acked' = acked \cup {env[r]}
    BY <1>6 DEF Ack, RecvEnds, TypeOK
  <2>2. Applied'
    BY <2>1 DEF Applied
  <2>3. env[r][2] \in {inew[env[r][1]], icur[env[r][1]]}
    BY <2>1 DEF Applied
  <2>4. CommittedBeforeAck'
    BY <2>1, <2>3 DEF CommittedBeforeAck
  <2> QED
    BY <2>1, <2>2, <2>4 DEF Counted
<1> QED
  BY <1>2, <1>3, <1>4, <1>5, <1>6 DEF PollOnce

\* A claim loses nothing.
LEMMA ClaimStep ==
  ASSUME IInv, NEW t \in Transfers, Claim(t)
  PROVE  Applied' /\ Counted' /\ CommittedBeforeAck'
<1> USE DEF IInv
<1>1. \A u \in Transfers, c \in Contents : c \in {inew[u], icur[u]} => c \in {inew'[u], icur'[u]}
  BY ContentStays
<1>2. /\ \A e \in acked : e[1] \in Transfers /\ e[2] \in Contents
      /\ \A q \in Receivers : env[q] \in Envelopes => env[q][1] \in Transfers /\ env[q][2] \in Contents
  BY DEF TypeOK, Envelopes
<1>3. Applied' /\ CommittedBeforeAck'
  BY <1>1, <1>2 DEF Claim, Applied, CommittedBeforeAck
<1>4. Counted'
  BY DEF Claim, Counted, TypeOK
<1> QED
  BY <1>3, <1>4

-----------------------------------------------------------------------------
(* The invariant *)

\* The invariant holds at the start.
LEMMA InitEstablishes == Init => IInv
<1> SUFFICES ASSUME Init
             PROVE  IInv
  OBVIOUS
<1>1. TypeOK
  BY BridgeAssumption DEF Init, TypeOK, Digests
<1> QED
  BY <1>1, BridgeAssumption
     DEF Init, IInv, Spooled, Pushing, Kept, Applied, Counted, ArchivedAccepted, CommittedBeforeAck

\* Every step keeps the invariant.
LEMMA NextPreserves == IInv /\ [Next]_vars => IInv'
<1> SUFFICES ASSUME IInv, [Next]_vars
             PROVE  IInv'
  OBVIOUS
<1>1. ASSUME NEW f \in Files, Enqueue(f)
      PROVE  IInv'
  <2>1. UNCHANGED recvVars
    BY <1>1 DEF Enqueue, EnqueueCreate, EnqueueWrite, SidecarCreate, SidecarWrite, EnqueueFail, EnqueueCrash
  <2>2. Applied' /\ Counted' /\ CommittedBeforeAck'
    BY <2>1 DEF IInv, Applied, Counted, CommittedBeforeAck, recvVars
  <2> QED
    BY <1>1, <2>2, EnqueueTypes, EnqueueStep DEF IInv
<1>2. CASE PushOnce
  <2>1. UNCHANGED recvVars
    BY <1>2 DEF PushOnce, ListSpool, ReadFile, ReadDest, StartPush, CheckReceipt, Post, WriteReceipt,
                Archive, Unlink, Unbind, FinishPush, PushAborts
  <2>2. Applied' /\ Counted' /\ CommittedBeforeAck'
    BY <2>1 DEF IInv, Applied, Counted, CommittedBeforeAck, recvVars
  <2> QED
    BY <1>2, <2>2, PushTypes, PushStep DEF IInv
<1>3. ASSUME UNCHANGED sourceVars
      PROVE  Spooled' /\ Pushing' /\ Kept' /\ ArchivedAccepted'
  <2>1. UNCHANGED <<Item, Transfer>>
    BY <1>3, ItemSame DEF sourceVars, pushVars
  <2> QED
    BY <1>3, <2>1 DEF IInv, Spooled, Pushing, Kept, Sole, ArchivedAccepted, sourceVars, enqVars, pushVars
<1>4. ASSUME NEW r \in Receivers, PollOnce(r)
      PROVE  IInv'
  <2>1. UNCHANGED sourceVars
    BY <1>4 DEF PollOnce, Poll, NextEnvelope, ApplyFile, Apply, CreateReceipt, FillReceipt, Ack, RecvAborts
  <2> QED
    BY <1>3, <1>4, <2>1, PollTypes, PollStep DEF IInv
<1>5. ASSUME NEW t \in Transfers, Claim(t)
      PROVE  IInv'
  <2>1. UNCHANGED sourceVars
    BY <1>5 DEF Claim
  <2> QED
    BY <1>3, <1>5, <2>1, ClaimTypes, ClaimStep DEF IInv
<1>6. CASE UNCHANGED vars
  <2>1. UNCHANGED sourceVars
    BY <1>6 DEF vars, sourceVars
  <2>2. UNCHANGED <<recvVars, wire>>
    BY <1>6 DEF vars
  <2>3. TypeOK'
    BY <2>1, <2>2 DEF IInv, TypeOK, sourceVars, enqVars, pushVars, recvVars
  <2>4. Applied' /\ Counted' /\ CommittedBeforeAck'
    BY <2>2 DEF IInv, Applied, Counted, CommittedBeforeAck, recvVars
  <2> QED
    BY <1>3, <2>1, <2>3, <2>4 DEF IInv
<1> QED
  BY <1>1, <1>2, <1>4, <1>5, <1>6 DEF Next

\* The invariant always holds.
LEMMA Invariance == Spec => []IInv
  BY InitEstablishes, NextPreserves, PTL DEF Spec

\* PushOnce archives a spool file only when a transport_accepted receipt is
\* there, and a receipt names an envelope the rendezvous took.
THEOREM ArchiveIsAccepted == Spec => []ArchivedAccepted
<1>1. IInv => ArchivedAccepted
  BY DEF IInv
<1> QED
  BY <1>1, Invariance, PTL

\* Enqueue and PushOnce together never lose a message enqueued once: it is in
\* the spool or in sent/, even when the courier runs while it is being written.
THEOREM NothingEnqueuedLost == Spec => []EnqueuedKept
<1>1. IInv => EnqueuedKept
  BY DEF IInv, EnqueuedKept, Kept, Sole
<1> QED
  BY <1>1, Invariance, PTL

\* PollOnce acknowledges, and writes its receipt for, nothing but what is in
\* the destination's inbox, whatever other receivers and consumers do.
THEOREM AckedIsCommitted == Spec => []CommittedBeforeAck
<1>1. IInv => CommittedBeforeAck
  BY DEF IInv
<1> QED
  BY <1>1, Invariance, PTL

\* ApplyEnvelope publishes a transfer once until a consumer claims it, however
\* often and by however many processes it is applied.
THEOREM ReplaysHarmless == Spec => []ReplayHarmless
<1>1. IInv => ReplayHarmless
  BY SMTT(20) DEF IInv, ReplayHarmless, Counted, TypeOK
<1> QED
  BY <1>1, Invariance, PTL
=============================================================================
