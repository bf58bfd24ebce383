-------------------------- MODULE MCDecisionService -------------------------
(* The v1 API with two requests.                                           *)
EXTENDS DecisionService

=============================================================================
