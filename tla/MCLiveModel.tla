----------------------------- MODULE MCLiveModel -----------------------------
(* A small instance of LiveModel: a class with two methods.                  *)
EXTENDS LiveModel, TLC

CONSTANTS methods, a, b

TwoMethods == methods :> <<a, b>>

Symmetry == Permutations(Handles) \cup Permutations(Models \ {Outer}) \cup Permutations(Pipelines)
=============================================================================
