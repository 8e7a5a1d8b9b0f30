--------------------------- MODULE MCChainSegment ---------------------------
(* Block tree G(0) <- A(1) <- B(2) <- C(3) <- D(4) <- X(5) <- Y(6), with   *)
(* a fork A <- F(2) <- H(3); two slots per epoch; the clock at slot 4, so  *)
(* X and Y are from the future.                                           *)
EXTENDS ChainSegment, Functions

CONSTANTS G, A, B, C, D, F, H, X, Y

MCBlocks == {G, A, B, C, D, F, H, X, Y}

MCParent == (G :> G) @@ (A :> G) @@ (B :> A) @@ (C :> B) @@ (D :> C)
            @@ (X :> D) @@ (Y :> X) @@ (F :> A) @@ (H :> F)

MCSlot == (G :> 0) @@ (A :> 1) @@ (B :> 2) @@ (C :> 3) @@ (D :> 4)
          @@ (X :> 5) @@ (Y :> 6) @@ (F :> 2) @@ (H :> 3)

(* Every segment of up to three distinct blocks, and one that is linear   *)
(* up to two future blocks and then breaks.                               *)
MCSegments ==
    {s \in SeqOf({A, B, C, D, F, H, X}, 3) : Len(s) > 0 /\ IsInjective(s)}
    \cup {<<B, C, D, X, Y, A>>}

MCChainsEarly == {{G}, {G, A}}
MCChainsFinal == {{G, A, B}, {G, A, B, C}}
=============================================================================
