------------------------------ MODULE MCMission ------------------------------
(***************************************************************************)
(* Small instances of Mission for TLC.                                     *)
(***************************************************************************)
EXTENDS Mission, TLC

CONSTANTS m1, m2

\* The deployment serves CHEAP and STANDARD: the reviewer's PREMIUM fails.
TwoTiers == {"cheap", "standard"}

\* Two missions.
TwoMissions == {m1, m2}
TwoTeams    == m1 :> <<"scout", "reviewer", "analyst">> @@
               m2 :> <<"reviewer", "scout">>
TwoGiven    == m1 :> <<>> @@ m2 :> << <<m2, 0>> >>
FiveCalls   == {<<m1, 1>>, <<m1, 2>>, <<m1, 3>>, <<m2, 1>>, <<m2, 2>>}
Failing     == {<<m1, 2>>, <<m2, 1>>}

\* The second one runs on the main thread.
OnMainThread == {<<m2, 1>>, <<m2, 2>>}
=============================================================================
