----------------------------- MODULE HeadChain -----------------------------
(***************************************************************************)
(* What the beacon chain promises of its block store and canonical head,   *)
(* with no locks, threads, fork-choice store or execution engine:          *)
(*   - the store only grows, and a block enters it only after its parent   *)
(*     (the database is a tree rooted at genesis);                         *)
(*   - the canonical head is always a stored block, and it moves only to a *)
(*     block whose finalized epoch is at least that of the head it         *)
(*     replaces (spec.md: a decrease of the finalized epoch is fatal),     *)
(*     within one incarnation of the process; a restart resumes at any     *)
(*     stored block.                                                       *)
(* ChainHead is shown to implement it with the store as the hot database   *)
(* and the head as the canonical head snapshot's block.                    *)
(***************************************************************************)
EXTENDS Naturals

CONSTANTS
    Blocks, Genesis,
    Parent,        \* Parent[b]: the parent of block b
    FinEpoch       \* FinEpoch[b]: the finalized epoch of b's post-state

VARIABLES stored, head, incarnation

vars == <<stored, head, incarnation>>

Init == stored = {Genesis} /\ head = Genesis /\ incarnation = 0

\* A block whose parent is already stored is stored.
Store(b) ==
    /\ b \notin stored /\ Parent[b] \in stored
    /\ stored' = stored \cup {b}
    /\ UNCHANGED <<head, incarnation>>

\* The head moves to another stored block without lowering its finalized
\* epoch.
SetHead(h) ==
    /\ h \in stored /\ h # head
    /\ FinEpoch[h] >= FinEpoch[head]
    /\ head' = h
    /\ UNCHANGED <<stored, incarnation>>

\* The process restarts and resumes at a stored block.
Resume(h) ==
    /\ h \in stored
    /\ head' = h /\ incarnation' = incarnation + 1
    /\ UNCHANGED stored

Next == \E b \in Blocks : Store(b) \/ SetHead(b) \/ Resume(b)

Spec == Init /\ [][Next]_vars

=============================================================================
