-------------------------- MODULE MCReleaseWorkflow --------------------------
(***************************************************************************)
(* Instance of ReleaseWorkflow: two guests, builds that come out in two    *)
(* ways, two re-runs, and enough days for artifacts to expire between      *)
(* them.                                                                   *)
(***************************************************************************)
EXTENDS ReleaseWorkflow
=============================================================================
