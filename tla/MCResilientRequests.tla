------------------------- MODULE MCResilientRequests -------------------------
(***************************************************************************)
(* Instances of ResilientRequests for TLC.                                 *)
(***************************************************************************)
EXTENDS ResilientRequests

=============================================================================
