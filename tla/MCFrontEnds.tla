------------------------------ MODULE MCFrontEnds ------------------------------
(* Constants for model-checking FrontEnds.                                     *)
EXTENDS FrontEnds

MCLegacyStates == {"initial", "tool_call", "handoff"}
===============================================================================
