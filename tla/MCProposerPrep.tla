--------------------------- MODULE MCProposerPrep ---------------------------
(* Two slots per epoch and a fork at A:                                    *)
(*   G(0) <- A(1) <- B(2) <- C(4)                                          *)
(*           A(1) <- D(3)                                                  *)
(* Epoch 2's proposers are decided by B on C's chain and by D on D's, so   *)
(* a head swap between C and D (or B and D) changes them; epoch 1's are    *)
(* decided by A on both.  The execution engine has data for the proposers  *)
(* of even slots.                                                          *)
EXTENDS ProposerPrep, TLC

CONSTANTS G, A, B, C, D

MCBlocks == {G, A, B, C, D}

MCParent == (G :> G) @@ (A :> G) @@ (B :> A) @@ (C :> B) @@ (D :> A)

MCSlot == (G :> 0) @@ (A :> 1) @@ (B :> 2) @@ (C :> 4) @@ (D :> 3)

MCConnected == {p \in Proposers : p.idx = 0}

\* Preparer threads are interchangeable.
PreparerSymmetry == Permutations(Preparers)
=============================================================================
