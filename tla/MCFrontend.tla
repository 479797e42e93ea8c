----------------------------- MODULE MCFrontend -----------------------------
(***************************************************************************)
(* The instance of Frontend for TLC.  The capture ids are numbers, as the  *)
(* client assigns them in order.                                           *)
(***************************************************************************)
EXTENDS Frontend

AnyPolicy == {"noop", "signal", "join"}

=============================================================================
