------------------------ MODULE MCRefreshCoordinator ------------------------
(***************************************************************************)
(* Small instances of RefreshCoordinator for TLC.                          *)
(***************************************************************************)
EXTENDS RefreshCoordinator, TLC

\* The slots are interchangeable: no definition names one.
ServiceSymmetry == Permutations(Service)
=============================================================================
