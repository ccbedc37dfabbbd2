---------------------------- MODULE MCFulfilment ----------------------------
(* A line of two units, which one fulfilment may buy or two may share. *)
EXTENDS Fulfilment, TLC

CONSTANT a

MCQuantity == a :> 2
MCSupplier == a :> "supplier"

Symmetry == Permutations(Requests) \cup Permutations(Fulfilments)

=============================================================================
