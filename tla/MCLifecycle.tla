----------------------------- MODULE MCLifecycle ----------------------------
(* Instances of the processor's lifecycle for TLC: the .cfg files give every *)
(* constant its value.                                                       *)
EXTENDS ProcessorLifecycle
=============================================================================
