----------------------------- MODULE MCDelivery -----------------------------
(* Small instances of Delivery. *)
EXTENDS Delivery, TLC

CONSTANTS a1, a2, s1, s2, c1, c2

\* One agent; two competing consumers.
OneAgentRcpt == [s \in Senders |-> {a1}]
\* s1 sends to both agents, s2 to one.
FanoutRcpt == [s \in Senders |-> IF s = s1 THEN {a1, a2} ELSE {a1}]
OwnFile == [s \in Senders |-> IF s = s1 THEN 1 ELSE 2]
SharedFile == [s \in Senders |-> 1]
Symmetry == Permutations(Consumers)
AllMine == [c \in Consumers |-> a1]
=============================================================================
