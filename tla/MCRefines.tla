------------------------------ MODULE MCRefines ------------------------------
(***************************************************************************)
(* The instances of MCRemediator with the refinement of RemediatorRefines.  *)
(***************************************************************************)
EXTENDS MCRemediator, RemediatorRefines
=============================================================================
