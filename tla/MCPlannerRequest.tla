--------------------------- MODULE MCPlannerRequest ---------------------------
(* Small instances of PlannerRequest for TLC. *)
EXTENDS PlannerRequest
=============================================================================
