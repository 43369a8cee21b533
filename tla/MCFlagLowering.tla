--------------------------- MODULE MCFlagLowering ---------------------------
(***************************************************************************)
(* FlagLowering over programs that do not keep to what its scans look at.  *)
(***************************************************************************)
EXTENDS FlagLowering, FlagPrograms
=============================================================================
