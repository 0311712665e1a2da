--------------------------- MODULE MCAppRequests ----------------------------
(***************************************************************************)
(* AppRequests with the forms of AppForms.                                 *)
(***************************************************************************)
EXTENDS AppRequests, AppForms
=============================================================================
