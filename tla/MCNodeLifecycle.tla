-------------------------- MODULE MCNodeLifecycle --------------------------
(***************************************************************************)
(* Small instances of NodeLifecycle for TLC.                               *)
(***************************************************************************)
EXTENDS NodeLifecycle, TLC

OneZone == [m \in Machine |-> CHOOSE z \in Zone : TRUE]
=============================================================================
