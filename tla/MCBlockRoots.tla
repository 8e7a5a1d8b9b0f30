---------------------------- MODULE MCBlockRoots ----------------------------
(* Block tree with skipped slots and two forks:                            *)
(*   G(0) <- A(1) <- B(3) <- C(5) <- D(6)                                  *)
(*           A(1) <- E(2) <- F(5)                                          *)
(*                   B(3) <- K(5)                                          *)
(*   D(6) <- H(8)    F(5) <- J(8)                                          *)
(* D's state finalizes epoch 1 (slot 2, root A); H's and J's epoch 2      *)
(* (slot 4: B on H's chain, E on J's); the others epoch 0.                 *)
(* Fork choice is pruned to A and its descendants; the canonical head      *)
(* with_committee_cache meets is D or F.                                   *)
EXTENDS BlockRoots, TLC

CONSTANTS G, A, B, C, D, E, F, K, H, J

MCBlocks == {G, A, B, C, D, E, F, K, H, J}

MCParent == (G :> G) @@ (A :> G) @@ (B :> A) @@ (C :> B) @@ (D :> C)
            @@ (E :> A) @@ (F :> E) @@ (K :> B) @@ (H :> D) @@ (J :> F)

MCSlot == (G :> 0) @@ (A :> 1) @@ (B :> 3) @@ (C :> 5) @@ (D :> 6)
          @@ (E :> 2) @@ (F :> 5) @@ (K :> 5) @@ (H :> 8) @@ (J :> 8)

MCFinEpoch == [b \in MCBlocks |-> IF b = D THEN 1 ELSE IF b \in {H, J} THEN 2 ELSE 0]
=============================================================================
