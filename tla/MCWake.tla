------------------------------- MODULE MCWake -------------------------------
(* Small instances of a wake's life.  Part "commands": three commands run,   *)
(* in every interleaving, on the processes p, q and r, or on one that cannot *)
(* be identified (x), lost its terminal (d) or shares the caller's (s).      *)
(* Part "restart": a wake, its restarts and its upgrades.                    *)
EXTENDS WakeSystem, WakeUpgrade, TLC

CONSTANTS p, q, r, x, d, s, o1, o2, i1, i2,
          Parts   \* the parts a behaviour may belong to

VARIABLE part

Cmd(kind, inj, owner, accept, strict) ==
  [kind |-> kind, inj |-> inj, owner |-> owner, accept |-> accept,
   strict |-> strict]
raw == Cmd("raw", None, None, FALSE, FALSE)
rawStrict == Cmd("raw", None, None, FALSE, TRUE)
via == Cmd("via", i1, None, FALSE, FALSE)
via2 == Cmd("via", i2, None, FALSE, FALSE)
viaAccept == Cmd("via", i1, None, TRUE, FALSE)
owner1 == Cmd("owner", i1, o1, TRUE, FALSE)
owner2 == Cmd("owner", i1, o2, FALSE, FALSE)
recover == Cmd("recover", None, None, FALSE, FALSE)
recover1 == Cmd("recover", None, o1, FALSE, FALSE)
retire == Cmd("retire", i1, None, FALSE, FALSE)
repair == Cmd("repair", None, None, FALSE, FALSE)
child == Cmd("child", None, None, FALSE, FALSE)
none == Cmd("none", None, None, FALSE, FALSE)

Assign(a, ra, b, rb, c, rc) ==
  [y \in Procs |-> CASE y = a -> ra [] y = b -> rb [] y = c -> rc [] OTHER -> none]

MCRoles ==
  {Assign(p, via, q, repair, r, child), Assign(x, via, q, repair, r, child),
   Assign(p, via, q, via2, r, retire), Assign(p, raw, q, viaAccept, r, viaAccept),
   Assign(p, owner1, q, owner1, r, recover1), Assign(p, owner1, q, owner2, r, recover),
   Assign(x, raw, q, rawStrict, r, via), Assign(d, raw, q, raw, r, none),
   Assign(s, via, q, via, r, none), Assign(p, owner1, q, raw, r, via)}

MCInit ==
  /\ part \in Parts /\ WakeInit /\ UpgradeInit
  /\ part = "commands" => locator = 1
  /\ part = "restart" => role = Assign(p, via, q, repair, r, child)

MCNext ==
  \/ part = "commands" /\ WakeNext /\ UNCHANGED <<upgradeVars, part>>
  \/ part = "restart" /\ UpgradeNext /\ UNCHANGED <<wakeVars, part>>

MCSpec == MCInit /\ [][MCNext]_<<wakeVars, upgradeVars, part>>

CallersAlike == Permutations(Callers)
=============================================================================
