------------------------------ MODULE MCBridge ------------------------------
(* Small instances of Bridge. *)
EXTENDS Bridge, TLC

CONSTANTS a1, a2, r1, r2, p, q

OneFile == {<<1, 1>>}
TwoFiles == {<<1, 1>>, <<1, 2>>}
\* The first enqueue of an id is for a1; a second one, for a2, has other bytes.
MCDest == [f \in Files |-> IF f[2] = 1 THEN a1 ELSE a2]
MCBody == [f \in Files |-> IF f[2] = 1 THEN p ELSE q]
MCOf == [r \in Receivers |-> a1]
NoDrops == {}
\* The envelope of the first enqueue, and one with the same key and other bytes.
MCDrops == {<<<<1, a1>>, p>>, <<<<1, a1>>, q>>}

\* The two bounded instances of the run, in one: either a second enqueue of
\* the id races the pushes, or the destination receives what was pushed.
SecondIdle == \A f \in Files : f[2] = 2 => enq[f] = "idle"
NothingReceived ==
  /\ \A r \in Receivers : rpc[r] = "idle"
  /\ \A t \in Transfers : inew[t] = None /\ icur[t] = None /\ landed[t] = None

MCNext ==
  \/ \E f \in Files : (f[2] = 1 \/ NothingReceived) /\ Enqueue(f)
  \/ PushOnce
  \/ \E r \in Receivers : SecondIdle /\ PollOnce(r)
  \/ \E t \in Transfers : Claim(t)

MCSpec == Init /\ [][MCNext]_vars
=============================================================================
