------------------------------- MODULE Bridge -------------------------------
(* The cross-host bridge (internal/bridge, cmd/amq-bridge): one source host  *)
(* whose agents enqueue messages into the outbound spool, its courier, the   *)
(* rendezvous, and the processes of the destination hosts that apply         *)
(* envelopes to a local Maildir.                                             *)
(*   enqueue    - create bridge/outbox/<handle>/new/<id>.md, write it, then  *)
(*                create and write the sidecar <id>.dest;                    *)
(*   PushOnce   - read the spool, post each envelope unless its receipt is   *)
(*                there, write the receipt, archive the spool file;          *)
(*   PollOnce   - fetch envelopes, and for each apply, write the receipt,    *)
(*                acknowledge; apply-file does the same for one dropped file;*)
(*   consumers  - claim new -> cur (fsq.MoveNewToCur).                       *)
(* Processes die anywhere, calls fail, and requests and responses get lost.  *)
(* A file f = <<id, n>> is the n-th file enqueued under a message id.  A     *)
(* transfer is <<id, alias>>, as envelopeForMessage derives transfer_id.     *)
(* Signatures and allowlists always accept here.                             *)
EXTENDS Naturals, FiniteSets, FiniteSetsExt

CONSTANTS Ids,        \* message ids, ordered as file names
          Files,      \* bound: the files that may be enqueued, <<id, n>>
          Aliases,    \* destination aliases
          Default,    \* the courier's --dest-alias
          Dest,       \* [Files -> Aliases], --dest-alias of each enqueue
          Body,       \* [Files -> Payloads], the bytes each enqueue writes
          Payloads,
          Receivers,  \* processes that apply envelopes
          Appliers,   \* those that run apply-file; the others poll
          Of,         \* [Receivers -> Aliases], their --receive-alias
          Drops,      \* envelopes dropped for apply-file
          BatchSize,
          Broken,     \* a receipt whose writer died half way
          None

Transfers == Ids \X Aliases
Contents == Payloads \cup Files       \* a file stands for a truncation of its bytes
Envelopes == Transfers \X Contents

ASSUME BridgeAssumption ==
  /\ Ids \subseteq Nat /\ IsFiniteSet(Ids) /\ Files \subseteq Ids \X Nat /\ BatchSize \in Nat \ {0}
  /\ Default \in Aliases
  /\ Dest \in [Files -> Aliases] /\ Body \in [Files -> Payloads]
  /\ Appliers \subseteq Receivers /\ Of \in [Receivers -> Aliases] /\ Drops \subseteq Envelopes
  /\ None \notin Contents \cup Aliases \cup Envelopes \cup {Broken}
  /\ Broken \notin Contents

VARIABLES
  spool,     \* [Ids -> Files \cup {None}]: <id>.md
  side,      \* [Ids -> Files \cup {None}]: <id>.dest, by the enqueue that made it
  sent,      \* [Ids -> Files \cup {None}]: the archive, hard links of spool files
  full,      \* files whose bytes are complete
  bound,     \* files whose sidecar is complete
  enq,       \* [Files -> program counter of the enqueue]
  wire,      \* the envelopes the rendezvous holds
  accepted,  \* [Transfers -> digest of the transport_accepted receipt]
  pc,        \* the courier: program counter,
  list,      \*   ids still to read,
  items,     \*   envelopes read: <<id, alias, content>>,
  got,       \*   bytes read from the file whose sidecar comes next
  inew, icur,\* [Transfers -> Contents \cup {None}]: destination inboxes
  landed,    \* [Transfers -> digest of the destination_maildir_committed receipt]
  rpc,       \* [Receivers -> program counter]
  batch,     \* [Receivers -> envelopes still to apply]
  env,       \* [Receivers -> the envelope in hand]
  posted,    \* history: envelopes the rendezvous ever accepted
  acked,     \* history: envelopes a receiver acknowledged
  copies     \* history: publications of each transfer

enqVars == <<spool, side, full, bound, enq>>
pushVars == <<pc, list, items, got>>
recvVars == <<inew, icur, landed, rpc, batch, env, acked, copies>>
vars == <<enqVars, sent, wire, accepted, pushVars, recvVars, posted>>

Digests == Contents \cup {None, Broken}

Init ==
  /\ spool = [i \in Ids |-> None] /\ side = [i \in Ids |-> None] /\ sent = [i \in Ids |-> None]
  /\ full = {} /\ bound = {} /\ enq = [f \in Files |-> "idle"]
  /\ wire = {} /\ accepted = [t \in Transfers |-> None]
  /\ pc = "idle" /\ list = {} /\ items = {} /\ got = None
  /\ inew = [t \in Transfers |-> None] /\ icur = [t \in Transfers |-> None]
  /\ landed = [t \in Transfers |-> None]
  /\ rpc = [r \in Receivers |-> "idle"] /\ batch = [r \in Receivers |-> {}]
  /\ env = [r \in Receivers |-> None]
  /\ posted = {} /\ acked = {} /\ copies = [t \in Transfers |-> 0]

\* What a reader of f gets: its bytes, or a truncation of them.
Content(f) == IF f \in full THEN Body[f] ELSE f

-----------------------------------------------------------------------------
(* amq-bridge enqueue *)

\* O_EXCL creates the spool file, under its final name and still empty.
EnqueueCreate(f) ==
  /\ enq[f] = "idle"
  /\ \A g \in Files : g[1] = f[1] /\ g[2] < f[2] => enq[g] # "idle"
  /\ IF spool[f[1]] = None
     THEN /\ spool' = [spool EXCEPT ![f[1]] = f]
          /\ enq' = [enq EXCEPT ![f] = "write"]
     ELSE /\ enq' = [enq EXCEPT ![f] = "failed"]
          /\ UNCHANGED spool
  /\ UNCHANGED <<side, full, bound, sent, wire, accepted, pushVars, recvVars, posted>>

EnqueueWrite(f) ==
  /\ enq[f] = "write"
  /\ full' = full \cup {f}
  /\ enq' = [enq EXCEPT ![f] = "sidecar"]
  /\ UNCHANGED <<spool, side, bound, sent, wire, accepted, pushVars, recvVars, posted>>

\* writeDestSidecar: O_EXCL again ...
SidecarCreate(f) ==
  /\ enq[f] = "sidecar"
  /\ side[f[1]] = None
  /\ side' = [side EXCEPT ![f[1]] = f]
  /\ enq' = [enq EXCEPT ![f] = "alias"]
  /\ UNCHANGED <<spool, full, bound, sent, wire, accepted, pushVars, recvVars, posted>>

\* ... and then the alias.  A failed sync of the spool directory is an error
\* that leaves both files.
SidecarWrite(f) ==
  /\ enq[f] = "alias"
  /\ bound' = bound \cup {f}
  /\ enq' \in {[enq EXCEPT ![f] = "done"], [enq EXCEPT ![f] = "failed"]}
  /\ UNCHANGED <<spool, side, full, sent, wire, accepted, pushVars, recvVars, posted>>

\* Any other failure, an existing sidecar included, removes what was created,
\* by name.
EnqueueFail(f) ==
  /\ enq[f] \in {"write", "sidecar", "alias"}
  /\ spool' = [spool EXCEPT ![f[1]] = None]
  /\ side' = IF enq[f] = "alias" THEN [side EXCEPT ![f[1]] = None] ELSE side
  /\ enq' = [enq EXCEPT ![f] = "failed"]
  /\ UNCHANGED <<full, bound, sent, wire, accepted, pushVars, recvVars, posted>>

EnqueueCrash(f) ==
  /\ enq[f] \in {"write", "sidecar", "alias"}
  /\ enq' = [enq EXCEPT ![f] = "crashed"]
  /\ UNCHANGED <<spool, side, full, bound, sent, wire, accepted, pushVars, recvVars, posted>>

-----------------------------------------------------------------------------
(* PushOnce *)

PushEnds ==
  /\ pc' = "idle" /\ list' = {} /\ items' = {} /\ got' = None

\* The courier dies, or returns an error that leaves the files as they are.
PushAborts ==
  /\ pc # "idle"
  /\ PushEnds
  /\ UNCHANGED <<enqVars, sent, wire, accepted, recvVars, posted>>

\* readSpool lists the directory, ...
ListSpool ==
  /\ pc = "idle"
  /\ list' = {i \in Ids : spool[i] # None}
  /\ list' # {}
  /\ pc' = "read"
  /\ UNCHANGED <<enqVars, sent, wire, accepted, items, got, recvVars, posted>>

\* ... reads each file in order (a truncated one may parse, or abort the push) ...
ReadFile ==
  LET i == Min(list)
  IN /\ pc = "read" /\ list # {}
     /\ spool[i] # None
     /\ got' = Content(spool[i])
     /\ pc' = "dest"
     /\ UNCHANGED <<enqVars, sent, wire, accepted, list, items, recvVars, posted>>

\* ... and its sidecar: destAliasForSpool falls back to the courier's alias.
\* A truncated sidecar aborts the push.
ReadDest ==
  LET i == Min(list)
  IN /\ pc = "dest"
     /\ side[i] # None => side[i] \in bound
     /\ items' = items \cup {<<i, IF side[i] = None THEN Default ELSE Dest[side[i]], got>>}
     /\ list' = list \ {i} /\ got' = None
     /\ pc' = "read"
     /\ UNCHANGED <<enqVars, sent, wire, accepted, recvVars, posted>>

\* The first BatchSize items are pushed.
StartPush ==
  /\ pc = "read" /\ list = {}
  /\ items' = {x \in items : Cardinality({y \in items : y[1] < x[1]}) < BatchSize}
  /\ pc' = "push"
  /\ UNCHANGED <<enqVars, sent, wire, accepted, list, got, recvVars, posted>>

\* The item in hand, its transfer and its content.
Item == CHOOSE x \in items : \A y \in items : x[1] <= y[1]
Transfer == <<Item[1], Item[2]>>

\* Mutant: an item is archived without looking for its receipt.
CheckReceiptSkipped ==
  /\ pc = "push" /\ items # {}
  /\ pc' = "archive"
  /\ UNCHANGED <<enqVars, sent, wire, accepted, list, items, got, recvVars, posted>>

\* existingReceipt: a matching receipt skips the post; a conflicting or broken
\* one aborts the push.
CheckReceipt ==
  /\ pc = "push" /\ items # {}
  /\ accepted[Transfer] \in {None, Item[3]}
  /\ pc' = IF accepted[Transfer] = None THEN "post" ELSE "archive"
  /\ UNCHANGED <<enqVars, sent, wire, accepted, list, items, got, recvVars, posted>>

\* postEnvelope: the rendezvous takes the envelope, but the response may be lost.
Post ==
  LET e == <<Transfer, Item[3]>>
  IN /\ pc = "post"
     /\ wire' = wire \cup {e} /\ posted' = posted \cup {e}
     /\ \/ pc' = "receipt" /\ UNCHANGED <<list, items, got>>
        \/ PushEnds
     /\ UNCHANGED <<enqVars, sent, accepted, recvVars>>

\* writeReceipt, in place: a crash leaves a broken receipt, a failed directory
\* sync a complete one.
WriteReceipt ==
  /\ pc = "receipt"
  /\ \/ /\ accepted' = [accepted EXCEPT ![Transfer] = Item[3]]
        /\ \/ pc' = "archive" /\ UNCHANGED <<list, items, got>>
           \/ PushEnds
     \/ /\ accepted' = [accepted EXCEPT ![Transfer] = Broken]
        /\ PushEnds
  /\ UNCHANGED <<enqVars, sent, wire, recvVars, posted>>

\* Mutant: a link that fails is not noticed.
ArchiveUnnoticed ==
  LET i == Item[1]
  IN /\ pc = "archive" /\ spool[i] # None
     /\ sent' \in {sent, [sent EXCEPT ![i] = spool[i]]}
     /\ pc' = "unlink"
     /\ UNCHANGED <<enqVars, wire, accepted, list, items, got, recvVars, posted>>

\* moveToSent links the file into sent/ unless the same bytes are there, ...
Archive ==
  LET i == Item[1]
  IN /\ pc = "archive" /\ spool[i] # None
     /\ \/ /\ sent[i] = None
           /\ sent' = [sent EXCEPT ![i] = spool[i]]
        \/ /\ sent[i] # None /\ Content(sent[i]) = Item[3]
           /\ UNCHANGED sent
     /\ pc' = "unlink"
     /\ UNCHANGED <<enqVars, wire, accepted, list, items, got, recvVars, posted>>

\* ... removes it from the spool ...
Unlink ==
  /\ pc = "unlink"
  /\ spool' = [spool EXCEPT ![Item[1]] = None]
  /\ pc' = "unbind"
  /\ UNCHANGED <<side, full, bound, enq, sent, wire, accepted, list, items, got, recvVars, posted>>

\* ... and removes its sidecar.
Unbind ==
  /\ pc = "unbind"
  /\ side' = [side EXCEPT ![Item[1]] = None]
  /\ items' = items \ {Item}
  /\ pc' = "push"
  /\ UNCHANGED <<spool, full, bound, enq, sent, wire, accepted, list, got, recvVars, posted>>

FinishPush ==
  /\ pc = "push" /\ items = {}
  /\ PushEnds
  /\ UNCHANGED <<enqVars, sent, wire, accepted, recvVars, posted>>

-----------------------------------------------------------------------------
(* PollOnce and apply-file *)

sourceVars == <<enqVars, sent, accepted, pushVars, posted>>

Goto(r, where) ==
  /\ rpc' = [rpc EXCEPT ![r] = where]
  /\ UNCHANGED <<batch, env>>

RecvEnds(r) ==
  /\ rpc' = [rpc EXCEPT ![r] = "idle"]
  /\ batch' = [batch EXCEPT ![r] = {}]
  /\ env' = [env EXCEPT ![r] = None]

\* The receiver dies, or returns an error that leaves the files as they are, or
\* has nothing to acknowledge.
RecvAborts(r) ==
  /\ rpc[r] # "idle"
  /\ RecvEnds(r)
  /\ UNCHANGED <<sourceVars, wire, inew, icur, landed, acked, copies>>

\* pollEnvelopes: the rendezvous returns any of the envelopes it holds.
Poll(r) ==
  /\ rpc[r] = "idle" /\ r \notin Appliers
  /\ \E b \in SUBSET {e \in wire : e[1][2] = Of[r]} :
       /\ b # {} /\ Cardinality(b) <= BatchSize
       /\ batch' = [batch EXCEPT ![r] = b]
  /\ rpc' = [rpc EXCEPT ![r] = "next"]
  /\ UNCHANGED <<sourceVars, wire, inew, icur, landed, env, acked, copies>>

NextEnvelope(r) ==
  /\ rpc[r] = "next"
  /\ \/ \E e \in batch[r] : /\ env' = [env EXCEPT ![r] = e]
                            /\ batch' = [batch EXCEPT ![r] = @ \ {e}]
                            /\ rpc' = [rpc EXCEPT ![r] = "apply"]
     \/ batch[r] = {} /\ RecvEnds(r)
  /\ UNCHANGED <<sourceVars, wire, inew, icur, landed, acked, copies>>

\* runApplyFile of one dropped envelope, which is not acknowledged.
ApplyFile(r) ==
  /\ rpc[r] = "idle" /\ r \in Appliers
  /\ \E e \in Drops : e[1][2] = Of[r] /\ env' = [env EXCEPT ![r] = e]
  /\ rpc' = [rpc EXCEPT ![r] = "apply"]
  /\ UNCHANGED <<sourceVars, wire, inew, icur, landed, batch, acked, copies>>

\* Mutant: any file of that name in inbox/new counts as a replay.
ApplyBlindly(r) ==
  LET t == env[r][1]
      c == env[r][2]
  IN /\ rpc[r] = "apply"
     /\ inew' = IF inew[t] = None THEN [inew EXCEPT ![t] = c] ELSE inew
     /\ copies' = IF inew[t] = None THEN [copies EXCEPT ![t] = @ + 1] ELSE copies
     /\ Goto(r, "create")
     /\ UNCHANGED <<sourceVars, wire, icur, landed, acked>>

\* ApplyEnvelope over DeliverToExistingInbox: publish without replacing; the
\* same bytes in inbox/new are a replay, other bytes a conflict that aborts.  A
\* publication whose directory does not sync is an error too.
Apply(r) ==
  LET t == env[r][1]
      c == env[r][2]
  IN /\ rpc[r] = "apply"
     /\ \/ /\ inew[t] = None
           /\ inew' = [inew EXCEPT ![t] = c]
           /\ copies' = [copies EXCEPT ![t] = @ + 1]
           /\ Goto(r, "create") \/ RecvEnds(r)
        \/ /\ inew[t] = c
           /\ Goto(r, "create")
           /\ UNCHANGED <<inew, copies>>
     /\ UNCHANGED <<sourceVars, wire, icur, landed, acked>>

\* writeBridgeReceipt creates the receipt in place, or accepts a matching one.
CreateReceipt(r) ==
  LET t == env[r][1]
  IN /\ rpc[r] = "create"
     /\ \/ /\ landed[t] = None
           /\ landed' = [landed EXCEPT ![t] = Broken]
           /\ Goto(r, "fill")
        \/ /\ landed[t] = env[r][2]
           /\ Goto(r, "ack")
           /\ UNCHANGED landed
     /\ UNCHANGED <<sourceVars, wire, inew, icur, acked, copies>>

\* Its bytes are written; or the write fails and the receipt is removed; or the
\* directory does not sync.
FillReceipt(r) ==
  LET t == env[r][1]
  IN /\ rpc[r] = "fill"
     /\ \/ landed' = [landed EXCEPT ![t] = env[r][2]] /\ (Goto(r, "ack") \/ RecvEnds(r))
        \/ landed' = [landed EXCEPT ![t] = None] /\ RecvEnds(r)
     /\ UNCHANGED <<sourceVars, wire, inew, icur, acked, copies>>

\* ackEnvelope: the rendezvous drops the envelope; the response may be lost.
Ack(r) ==
  /\ rpc[r] = "ack" /\ r \notin Appliers
  /\ wire' = wire \ {env[r]}
  /\ acked' = acked \cup {env[r]}
  /\ \/ /\ rpc' = [rpc EXCEPT ![r] = "next"]
        /\ env' = [env EXCEPT ![r] = None]
        /\ UNCHANGED batch
     \/ RecvEnds(r)
  /\ UNCHANGED <<sourceVars, inew, icur, landed, copies>>

\* A consumer claims the message; the claim never replaces.
Claim(t) ==
  /\ inew[t] # None /\ icur[t] = None
  /\ icur' = [icur EXCEPT ![t] = inew[t]]
  /\ inew' = [inew EXCEPT ![t] = None]
  /\ UNCHANGED <<sourceVars, wire, landed, rpc, batch, env, acked, copies>>

-----------------------------------------------------------------------------
Enqueue(f) ==
  \/ EnqueueCreate(f) \/ EnqueueWrite(f) \/ SidecarCreate(f) \/ SidecarWrite(f)
  \/ EnqueueFail(f) \/ EnqueueCrash(f)

PushOnce ==
  \/ ListSpool \/ ReadFile \/ ReadDest \/ StartPush \/ CheckReceipt \/ Post \/ WriteReceipt
  \/ Archive \/ Unlink \/ Unbind \/ FinishPush \/ PushAborts

PollOnce(r) ==
  \/ Poll(r) \/ NextEnvelope(r) \/ ApplyFile(r) \/ Apply(r) \/ CreateReceipt(r)
  \/ FillReceipt(r) \/ Ack(r) \/ RecvAborts(r)

Next ==
  \/ \E f \in Files : Enqueue(f)
  \/ PushOnce
  \/ \E r \in Receivers : PollOnce(r)
  \/ \E t \in Transfers : Claim(t)

Spec == Init /\ [][Next]_vars

-----------------------------------------------------------------------------
(* Properties *)

\* Every variable stays within the values files and processes can have.
TypeOK ==
  /\ spool \in [Ids -> Files \cup {None}] /\ side \in [Ids -> Files \cup {None}]
  /\ sent \in [Ids -> Files \cup {None}]
  /\ full \subseteq Files /\ bound \subseteq Files
  /\ enq \in [Files -> {"idle", "write", "sidecar", "alias", "done", "failed", "crashed"}]
  /\ wire \subseteq Envelopes /\ posted \subseteq Envelopes /\ acked \subseteq Envelopes
  /\ accepted \in [Transfers -> Digests] /\ landed \in [Transfers -> Digests]
  /\ pc \in {"idle", "read", "dest", "push", "post", "receipt", "archive", "unlink", "unbind"}
  /\ list \subseteq Ids /\ items \subseteq Ids \X Aliases \X Contents
  /\ got \in Contents \cup {None}
  /\ inew \in [Transfers -> Contents \cup {None}]
  /\ icur \in [Transfers -> Contents \cup {None}]
  /\ rpc \in [Receivers -> {"idle", "next", "apply", "create", "fill", "ack"}]
  /\ batch \in [Receivers -> SUBSET Envelopes]
  /\ env \in [Receivers -> Envelopes \cup {None}]
  /\ copies \in [Transfers -> Nat]

\* "A source file is moved to sent only after the rendezvous returns a matching
\* transport_accepted receipt" (courier.go): an archived file has such a receipt,
\* and the rendezvous really took the envelope it names.
ArchivedAccepted ==
  /\ \A i \in Ids : sent[i] # None => \E a \in Aliases : accepted[<<i, a>>] \in Contents
  /\ \A t \in Transfers : accepted[t] \in Contents => <<t, accepted[t]>> \in posted

\* A message enqueued once is never lost on the source host: when its enqueue has
\* succeeded its bytes are in the spool or in the archive, whatever pushes and
\* crashes follow.
EnqueuedKept ==
  \A f \in Files :
    enq[f] = "done" /\ (\A g \in Files \ {f} : g[1] = f[1] => enq[g] = "idle")
      => f \in full /\ f \in {spool[f[1]], sent[f[1]]}

\* "ACK only after durable Maildir commit" (adr-bridge-protocol.md): an
\* acknowledged or receipted envelope is in the destination's inbox, byte for byte.
CommittedBeforeAck ==
  /\ \A e \in acked : e[2] \in {inew[e[1]], icur[e[1]]}
  /\ \A t \in Transfers : landed[t] \in Contents => landed[t] \in {inew[t], icur[t]}

\* Replays and conflicting envelopes, whoever applies them, publish a transfer
\* once until a consumer claims it.
ReplayHarmless ==
  \A t \in Transfers : icur[t] = None => copies[t] <= 1

\* "Lost ACK replays the same (source_host, transfer_id, payload_sha256) and must
\* not create a second message" (adr-bridge-protocol.md).
NoSecondMessage ==
  \A t \in Transfers : inew[t] = None \/ inew[t] # icur[t]
=============================================================================
