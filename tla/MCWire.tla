-------------------------------- MODULE MCWire --------------------------------
(* Sequential algorithms for TLC: the datagram budget moves, the inputs of the  *)
(* others are enumerated by the initial states.                                 *)
EXTENDS FlowPacing

MCMTUs == {100, 575} \cup 576..700 \cup {1280, 1499, 1500, 9000, 65535, 65536}

WireInit == BudgetInit /\ PacingInit

\* The budget moves from one of the initial states only.
AnyProbe == CHOOSE p \in Probes : TRUE
WireNext == probe = AnyProbe /\ BudgetNext /\ UNCHANGED probe

WireSpec == WireInit /\ [][WireNext]_<<linkMTU, probe>>
===============================================================================
