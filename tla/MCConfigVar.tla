----------------------------- MODULE MCConfigVar -----------------------------
(***************************************************************************)
(* Three clients of one variable; those whose listener does not throw are  *)
(* interchangeable.                                                        *)
(***************************************************************************)
EXTENDS ConfigVar, TLC

Symmetry == Permutations(Clients \ Throwing)
=============================================================================
