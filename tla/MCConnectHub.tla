---------------------------- MODULE MCConnectHub ----------------------------
(* Instances of ConnectHub for TLC: each budget names the disturbances of a run. *)
EXTENDS ConnectHub, TLC

CONSTANTS MaxState, MaxFault, MaxCommand

MCBudget == ("state" :> MaxState) @@ ("fault" :> MaxFault) @@ ("command" :> MaxCommand)

\* Connections and instances are interchangeable; device ids are ordered.
SafetySymmetry == Permutations(Socket) \cup Permutations(Instance)

\* TLC must not reduce by symmetry when it checks liveness; half of the initial
\* states are the other half with the instances renamed, and are left out.
SomeSocket   == CHOOSE s \in Socket : TRUE
SomeInstance == CHOOSE i \in Instance : TRUE
OneSidedInit     == Init /\ at[SomeSocket] = SomeInstance
OneSidedFairSpec == OneSidedInit /\ [][Next]_vars /\ Fairness
=============================================================================
