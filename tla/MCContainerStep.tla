---------------------------- MODULE MCContainerStep ----------------------------
(* ContainerStep needs no model values: TLC takes the sets of its .cfg files. *)
EXTENDS ContainerStep, TLC
================================================================================
