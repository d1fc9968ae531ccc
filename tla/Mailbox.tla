------------------------------- MODULE Mailbox -------------------------------
(* What the queue promises for each message addressed to an agent, whatever  *)
(* directories, processes and failures implement it: it is queued at most    *)
(* once, claimed by at most one consumer, buried in the dead-letter queue    *)
(* only after a claim, told to the agent as received at most once and only   *)
(* after a claim, and it never goes back.  Reading it again repeats only what *)
(* is claimed; a failed reading of a message that is there prints an excuse.  *)
EXTENDS Naturals

CONSTANT Msgs

VARIABLES state,   \* where each message is
          told,    \* how often it was printed by the process that claimed it
          echo     \* what is being printed without a claim: <<message, why>>

vars == <<state, told, echo>>

Init ==
  /\ state = [m \in Msgs |-> "absent"]
  /\ told = [m \in Msgs |-> 0]
  /\ echo = {}

Move(m, from, to) ==
  /\ state[m] = from
  /\ state' = [state EXCEPT ![m] = to]
  /\ UNCHANGED <<told, echo>>

Deliver(m) == Move(m, "absent", "queued")
Claim(m) == Move(m, "queued", "claimed")
Bury(m) == Move(m, "claimed", "dead")

\* One batch is printed.
Tell(batch) ==
  /\ \A m \in batch : told[m] = 0 /\ state[m] \in {"claimed", "dead"}
  /\ told' = [m \in Msgs |-> IF m \in batch THEN told[m] + 1 ELSE told[m]]
  /\ UNCHANGED <<state, echo>>

\* A claimed message is printed again; the failure to read one that was
\* delivered is reported.
Repeat(m, why) ==
  /\ state[m] \in IF why = "again" THEN {"claimed", "dead"} ELSE {"queued", "claimed", "dead"}
  /\ echo' = echo \cup {<<m, why>>}
  /\ UNCHANGED <<state, told>>

Repeated(m, why) ==
  /\ echo' = echo \ {<<m, why>>}
  /\ UNCHANGED <<state, told>>

Next ==
  \/ \E batch \in SUBSET Msgs : Tell(batch)
  \/ \E m \in Msgs : Deliver(m) \/ Claim(m) \/ Bury(m)
  \/ \E m \in Msgs, why \in {"again", "excuse"} : Repeat(m, why) \/ Repeated(m, why)

Spec == Init /\ [][Next]_vars
=============================================================================
