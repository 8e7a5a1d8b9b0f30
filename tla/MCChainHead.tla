---------------------------- MODULE MCChainHead ----------------------------
(***************************************************************************)
(* Instances of ChainHead for TLC.  Up to six blocks over three epochs of  *)
(* two slots:                                                              *)
(*                                                                         *)
(*      G(0) <- A(1) <- B(2) <- C(3) <- E(4)                               *)
(*                   \- D(2)                                               *)
(*                                                                         *)
(* C's and E's states justify B at epoch 1; the runs choose whether they   *)
(* also finalize it, whether E exists, and which payloads the execution    *)
(* engine rejects.                                                         *)
(***************************************************************************)
EXTENDS ChainHead

CONSTANTS G, A, B, C, D, E

MCBlocks == {G, A, B, C, D}

MCBlocksE == MCBlocks \cup {E}

\* the fork without C: no justification beyond genesis
MCBlocksFork == {G, A, B, D}

MCParent == (A :> G) @@ (B :> A) @@ (C :> B) @@ (D :> A) @@ (E :> C)

MCSlot == (G :> 0) @@ (A :> 1) @@ (B :> 2) @@ (C :> 3) @@ (D :> 2) @@ (E :> 4)

CpB == [epoch |-> 1, root |-> B]

\* C and E justify B
MCJustCp == [b \in {G, A, B, C, D, E} |-> IF b \in {C, E} THEN CpB ELSE GenesisCp]

\* C and E finalize B
MCFinCp == MCJustCp

\* nothing beyond genesis is finalized
MCFinCpNone == [b \in {G, A, B, C, D, E} |-> GenesisCp]

\* Runners are interchangeable threads running the same routine.
RunnerSymmetry == Permutations(Runners)

=============================================================================
