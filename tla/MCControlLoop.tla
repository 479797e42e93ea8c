--------------------------- MODULE MCControlLoop ---------------------------
(***************************************************************************)
(* Instances of ControlLoop for TLC: the plugin's reset waits for the      *)
(* acquisition it abandons, or is the default of the trait.                *)
(***************************************************************************)
EXTENDS ControlLoop

JoinOnly == {"join"}
NoopOnly == {"noop"}

=============================================================================
