------------------------------ MODULE MCLaunch ------------------------------
(***************************************************************************)
(* Instances of the launch.  Part "session": up to four commands, two      *)
(* handles and three panes, in the worlds below.  Part "apply": two        *)
(* callers prepare and apply, in a project where others act meanwhile.     *)
(***************************************************************************)
EXTENDS LaunchSystem, LaunchApply, TLC

CONSTANTS p1, p2, x1, x2,
          Parts   \* the parts a behaviour may belong to

VARIABLE part

MCCmds == 1..4
Cast(verb, roster, via) ==
  [verb |-> verb, roster |-> roster, via |-> via, keep |-> {}, policy |-> "auto", rebind |-> "no"]
Solo(verb, via) == Cast(verb, {1}, via)
Off == Cast("none", {}, "auto")
World(begun, mode, cast) ==
  [begun |-> begun, mode |-> [h \in Handles |-> mode], prefer |-> "session", cast |-> cast]

\* Two launches that race or follow a crash, on every backend and placement.
Races == {World(FALSE, "mint", <<Solo("launch", k), Solo("launch", k), Off, Off>>) : k \in Kinds}
         \cup {World(FALSE, "mint", <<Solo("apply", k), Solo("launch", k), Off, Off>>) : k \in {"session", "cmux"}}
\* The other ways an agent gets its identity, under each policy.
Policies == {World(FALSE, s[2], <<Solo("launch", s[1]), [Solo("launch", s[1]) EXCEPT !.policy = s[3]], Off, Off>>) :
               s \in {<<"session", "capture", "auto">>, <<"commands", "capture", "fallback">>,
                      <<"session", "prespawn", "fallback">>, <<"window", "prespawn", "auto">>,
                      <<"auto", "mint", "resume">>, <<"session", "mint", "fresh">>}}
\* An operator acts on a launched layout, or on the journal of a launch.
Operated == {World(TRUE, "mint", <<Solo("launch", k), Solo(v, k), Solo("launch", k), Off>>) :
               k \in {"session", "window", "cmux", "ghostty"}, v \in {"close", "focus", "inspect"}}
            \cup {World(FALSE, "mint", <<Solo("launch", "session"), Solo("cleanup", "session"), Solo("launch", "session"), Off>>)}
\* The launch over a bound layout asks for another launcher.
Rebinds == {World(TRUE, "mint", <<Solo("launch", j), [Solo("launch", k) EXCEPT !.rebind = r], Solo("launch", "auto"), Off>>) :
              j \in {"session", "cmux"}, k \in {"session", "ghostty"}, r \in {"no", "close_old", "leave_old"}}
\* Two seats: launches of both, or joins of the second to the first.
Keeping == [Cast("launch", Handles, "auto") EXCEPT !.keep = {1}]
Wide == {World(FALSE, "mint", <<Cast("launch", Handles, "session"), Cast("launch", Handles, "session"), Off, Off>>)}
        \cup {World(TRUE, "mint", <<Solo("launch", "session"), Keeping, Keeping, Keeping>>)}
        \cup {World(TRUE, "mint", <<Solo("launch", k), Keeping, Off, Off>>) : k \in {"window", "cmux"}}
\* A launch into a new tmux window, and the launch after it.
MCWindow == {World(FALSE, "mint", <<Solo("launch", "window"), Solo("launch", "window"), Off, Off>>)}
MCWorlds == Races \cup Policies \cup Operated \cup Rebinds \cup Wide

\* The first call is for agent x1, the second for both.
MCWants == (p1 :> {x1}) @@ (p2 :> {x1, x2})
MCRequests == {(p1 :> k[1]) @@ (p2 :> k[2]) :
                 k \in {<<"runs", "runs">>, <<"legacy", "placed">>, <<"none", "legacy">>}}

\* No call is made: Prepare and Apply do not run.
NoApply ==
  /\ path = Nil /\ tree = Nil /\ spent = {} /\ creation = Nil /\ leases = Nil /\ env = Nil
  /\ call = [p \in Callers |-> NoCall]

MCInit ==
  /\ part \in Parts /\ Init
  /\ part = "session" => NoApply
  /\ part = "apply" => world \in MCWindow /\ ApplyInit

\* Commands with the same arguments are interchangeable, so they start in the
\* order of their numbers.
InTurn ==
  \A p, q \in Cmds :
    p < q /\ world.cast[p] = world.cast[q] /\ pc[p] = "idle" => pc'[q] = "idle"

MCNext ==
  \/ part = "session" /\ Next /\ InTurn /\ UNCHANGED <<applyVars, part>>
  \/ part = "apply" /\ ApplyNext /\ UNCHANGED <<vars, part>>

MCSpec == MCInit /\ [][MCNext]_<<vars, applyVars, part>>
=============================================================================
