--------------------------- MODULE MCMemberRecords ---------------------------
(* MemberRecords with two requests at once, and the configuration with three. *)
EXTENDS MemberRecords

MCDates == 1..3
=============================================================================
