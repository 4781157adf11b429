---------------------------- MODULE FleetingView ----------------------------
(***************************************************************************)
(* What fleeting is told of an instance group (Update, src/provider.go):   *)
(* how many instances it still waits for, and the state of each vApp that  *)
(* backs one. Of a vApp that is "none" or "Gone" it is told nothing.       *)
(***************************************************************************)
CONSTANTS
    Intents,    \* requests for an instance
    VApps

VARIABLES
    waiting,    \* requests without a vApp yet, which count towards the size
    shown,      \* the state of each vApp
    run         \* which run of the program it is

viewVars == <<waiting, shown, run>>

ViewInit ==
    /\ waiting = {}
    /\ shown = [v \in VApps |-> "none"]

Ask(i) ==
    /\ i \notin waiting
    /\ waiting' = waiting \cup {i}
    /\ UNCHANGED <<shown, run>>

\* A request is met by a vApp that was nobody's before.
Ready(i, v) ==
    /\ i \in waiting
    /\ shown[v] = "none"
    /\ waiting' = waiting \ {i}
    /\ shown' = [shown EXCEPT ![v] = "Running"]
    /\ UNCHANGED run

\* An instance leaves, is gone, and may be reported as leaving once more, when
\* its delete fails after all; it never comes back into use.
Edges == {<<"Running", "Deleting">>, <<"Running", "Gone">>, <<"Deleting", "Gone">>,
          <<"Gone", "Deleting">>, <<"Gone", "none">>}

Leave ==
    /\ shown' \in [VApps -> {"none", "Running", "Deleting", "Gone"}]
    /\ \A v \in VApps : shown'[v] = shown[v] \/ <<shown[v], shown'[v]>> \in Edges
    /\ UNCHANGED <<waiting, run>>

\* Only a new run of the program knows nothing of what the last one was asked.
Restart ==
    /\ run' # run
    /\ waiting' = {}
    /\ shown' = [v \in VApps |-> "none"]

ViewNext ==
    \/ \E i \in Intents : Ask(i)
    \/ \E i \in Intents, v \in VApps : Ready(i, v)
    \/ Leave
    \/ Restart

ViewSpec == ViewInit /\ [][ViewNext]_viewVars

=============================================================================
