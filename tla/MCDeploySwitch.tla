--------------------------- MODULE MCDeploySwitch ---------------------------
(* Small instances of DeploySwitch for TLC. *)
EXTENDS DeploySwitch

\* The home board stages a new revision; after it either board stages either revision.
TwoBoards == <<{}, {<<"home", "s2">>}, {"home", "lab"} \X {"s1", "s2"}>>
=============================================================================
