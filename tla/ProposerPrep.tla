---------------------------- MODULE ProposerPrep ----------------------------
(***************************************************************************)
(* prepare_beacon_proposer_async (beacon_chain.rs l. 3792-3992): find the  *)
(* proposer of the next slot, from the beacon proposer cache or from the   *)
(* head's state, and, if the execution engine has registration data for    *)
(* it, register payload attributes for (next slot, head root) and push a   *)
(* forkchoiceUpdated when the slot is close or the head is recent.         *)
(*                                                                         *)
(* Several preparations run at once (the per-slot timer and the one each   *)
(* head change spawns), while fork choice moves the canonical head and the *)
(* wall clock advances.  A preparation reads the head twice: head_info,    *)
(* and again inside compute_proposer_duties_from_head.                     *)
(*                                                                         *)
(* The proposers of epoch e on a chain are fixed by the chain's block at   *)
(* the last slot before e (the proposer shuffling decision root); a        *)
(* proposer is named by that root, the epoch and its index in the epoch.   *)
(***************************************************************************)
EXTENDS Naturals, FiniteSets

CONSTANTS
    Blocks, Genesis, Parent, Slot,
    SlotsPerEpoch,
    HistoricEpochs,   \* PREPARE_PROPOSER_HISTORIC_EPOCHS
    Connected,        \* proposers the execution engine has preparation data for
    Preparers,        \* threads running the routine
    MaxSlot,          \* the last wall-clock slot
    MaxStarts,        \* preparations started in a behaviour
    MaxHeadChanges,   \* head swaps by fork choice in a behaviour
    NoBlock

ASSUME /\ Genesis \in Blocks /\ Slot[Genesis] = 0
       /\ \A b \in Blocks \ {Genesis} : Parent[b] \in Blocks /\ Slot[Parent[b]] < Slot[b]
       /\ SlotsPerEpoch \in Nat \ {0} /\ NoBlock \notin Blocks

RECURSIVE RootAt(_, _)
RootAt(b, x) == IF Slot[b] <= x THEN b ELSE RootAt(Parent[b], x)

EpochOf(x) == x \div SlotsPerEpoch
StartSlot(e) == e * SlotsPerEpoch
SatSub(a, b) == IF a > b THEN a - b ELSE 0

\* BeaconState::proposer_shuffling_decision_root for epoch e of b's chain:
\* the root at the slot before e's start (the block itself at genesis).
DecisionRoot(b, e) == RootAt(b, SatSub(StartSlot(e), 1))

\* The proposer of slot s under decision root d (get_beacon_proposer_indices
\* indexed by s % SLOTS_PER_EPOCH).
ProposerOf(d, s) == [dec |-> d, epoch |-> EpochOf(s), idx |-> s % SlotsPerEpoch]

Proposers == {ProposerOf(d, s) : d \in Blocks, s \in 0..MaxSlot + 1}

ASSUME Connected \subseteq Proposers

VARIABLES
    clock,      \* the wall-clock slot
    late,       \* past the last quarter mark of the slot
    head,       \* the canonical head block
    cache,      \* beacon_proposer_cache keys: [epoch, root]
    registered, \* insert_proposer calls: [slot, root, proposer]
    pushed,     \* forkchoiceUpdated calls: [slot (prepare slot), root]
    pc,
    prepSlot,   \* prepare_slot
    hd,         \* the head read by head_info
    sdr,        \* shuffling_decision_root
    prop,       \* the proposer found
    moved,      \* history: the head changed since the thread's head_info
    abandons,   \* history: for each abandoned run, whether the head had moved
    starts, headChanges

vars == <<clock, late, head, cache, registered, pushed, pc, prepSlot, hd, sdr,
          prop, moved, abandons, starts, headChanges>>

threadVars == <<pc, prepSlot, hd, sdr, prop, moved>>

TypeOK ==
    /\ clock \in 0..MaxSlot /\ late \in BOOLEAN /\ head \in Blocks
    /\ cache \subseteq [epoch : Nat, root : Blocks]
    /\ registered \subseteq [slot : Nat, root : Blocks, proposer : Proposers]
    /\ pushed \subseteq [slot : Nat, root : Blocks]
    /\ pc \in [Preparers -> {"idle", "readHead", "compute", "register", "push"}]
    /\ prepSlot \in [Preparers -> Nat]
    /\ hd \in [Preparers -> Blocks \cup {NoBlock}]
    /\ sdr \in [Preparers -> Blocks \cup {NoBlock}]
    /\ prop \in [Preparers -> Proposers \cup {NoBlock}]
    /\ moved \in [Preparers -> BOOLEAN] /\ abandons \subseteq BOOLEAN

Init ==
    /\ clock = 0 /\ late = FALSE /\ head = Genesis
    /\ cache = {} /\ registered = {} /\ pushed = {}
    /\ pc = [t \in Preparers |-> "idle"] /\ prepSlot = [t \in Preparers |-> 0]
    /\ hd = [t \in Preparers |-> NoBlock] /\ sdr = [t \in Preparers |-> NoBlock]
    /\ prop = [t \in Preparers |-> NoBlock] /\ moved = [t \in Preparers |-> FALSE]
    /\ abandons = {} /\ starts = 0 /\ headChanges = 0

\* Return from the routine with Ok(()).
Finish(t) ==
    /\ pc' = [pc EXCEPT ![t] = "idle"]
    /\ hd' = [hd EXCEPT ![t] = NoBlock] /\ sdr' = [sdr EXCEPT ![t] = NoBlock]
    /\ prop' = [prop EXCEPT ![t] = NoBlock] /\ moved' = [moved EXCEPT ![t] = FALSE]

(***************************************************************************)
(* The environment: time and fork choice.                                  *)
(***************************************************************************)
\* The slot clock passes the quarter mark, then the next slot starts.
Tick ==
    /\ \/ ~late /\ late' = TRUE /\ UNCHANGED clock
       \/ late /\ clock < MaxSlot /\ clock' = clock + 1 /\ late' = FALSE
    /\ UNCHANGED <<head, cache, registered, pushed, threadVars, abandons, starts, headChanges>>

\* fork_choice swaps the canonical head to a known block (gossip rejects
\* blocks from future slots).
HeadChange(b) ==
    /\ headChanges < MaxHeadChanges /\ b # head /\ Slot[b] <= clock
    /\ head' = b /\ headChanges' = headChanges + 1
    /\ moved' = [t \in Preparers |-> moved[t] \/ pc[t] # "idle"]
    /\ UNCHANGED <<clock, late, cache, registered, pushed, pc, prepSlot, hd, sdr, prop,
                   abandons, starts>>

(***************************************************************************)
(* prepare_beacon_proposer_async(current_slot).                            *)
(***************************************************************************)
\* Called with the current slot, from the per-slot timer or after a head
\* change; the node is past the Bellatrix fork with an execution layer.
Start(t) ==
    /\ pc[t] = "idle" /\ starts < MaxStarts
    /\ starts' = starts + 1
    /\ prepSlot' = [prepSlot EXCEPT ![t] = clock + 1]
    /\ pc' = [pc EXCEPT ![t] = "readHead"]
    /\ UNCHANGED <<clock, late, head, cache, registered, pushed, hd, sdr, prop, moved,
                   abandons, headChanges>>

\* head_info's proposer_shuffling_decision_root: the decision root of the
\* head state's own epoch.
HeadInfoDecisionRoot(h) == DecisionRoot(h, EpochOf(Slot[h]))

\* Mutant: the cache key is always the head's block root.
ShufflingDecisionRootOfBlock(h, pe) == h

\* shuffling_decision_root: the head's own proposer decision root when the
\* head is in the prepare epoch, else the head block (every slot between
\* it and the prepare epoch is skipped).
ShufflingDecisionRoot(h, pe) ==
    IF EpochOf(Slot[h]) = pe THEN HeadInfoDecisionRoot(h) ELSE h

\* head_info; return if no proposer is registered with the execution
\* layer or the head is more than HistoricEpochs behind; read the proposer
\* cache; on a miss, return if the head is more than two epochs behind the
\* prepare epoch, else compute the duties.
ReadHead(t) ==
    LET ps == prepSlot[t]
        pe == EpochOf(ps)
        s == ShufflingDecisionRoot(head, pe)
        hit == [epoch |-> pe, root |-> s] \in cache
    IN /\ pc[t] = "readHead"
       /\ IF \/ Connected = {}
             \/ Slot[head] + SlotsPerEpoch * HistoricEpochs < ps - 1
             \/ ~hit /\ EpochOf(Slot[head]) + 2 < pe
          THEN Finish(t)
          ELSE /\ hd' = [hd EXCEPT ![t] = head] /\ sdr' = [sdr EXCEPT ![t] = s]
               /\ moved' = [moved EXCEPT ![t] = FALSE]
               /\ IF hit
                  THEN /\ prop' = [prop EXCEPT ![t] = ProposerOf(s, ps)]
                       /\ pc' = [pc EXCEPT ![t] = "register"]
                  ELSE pc' = [pc EXCEPT ![t] = "compute"] /\ UNCHANGED prop
       /\ UNCHANGED <<clock, late, head, cache, registered, pushed, prepSlot, abandons,
                      starts, headChanges>>

\* Mutant: the run goes on with the computed proposer when the decision
\* root differs.
ComputeNoAbandon(t) ==
    LET pe == EpochOf(prepSlot[t])
        d == DecisionRoot(head, pe)
    IN /\ pc[t] = "compute"
       /\ IF EpochOf(Slot[head]) > pe
          THEN Finish(t) /\ UNCHANGED <<cache, abandons>>
          ELSE /\ cache' = cache \cup {[epoch |-> pe, root |-> d]}
               /\ prop' = [prop EXCEPT ![t] = ProposerOf(d, prepSlot[t])]
               /\ pc' = [pc EXCEPT ![t] = "register"]
               /\ UNCHANGED <<hd, sdr, moved, abandons>>
       /\ UNCHANGED <<clock, late, head, registered, pushed, prepSlot, starts, headChanges>>

\* compute_proposer_duties_from_head(prepare_epoch): the head read again,
\* its state advanced into the prepare epoch (an error if it is already
\* past it); the proposers go into the cache under the state's decision
\* root; the run is abandoned if that root is not the one looked up.
Compute(t) ==
    LET pe == EpochOf(prepSlot[t])
        d == DecisionRoot(head, pe)
    IN /\ pc[t] = "compute"
       /\ IF EpochOf(Slot[head]) > pe
          THEN Finish(t) /\ UNCHANGED <<cache, abandons>>
          ELSE /\ cache' = cache \cup {[epoch |-> pe, root |-> d]}
               /\ IF d # sdr[t]
                  THEN Finish(t) /\ abandons' = abandons \cup {moved[t]}
                  ELSE /\ prop' = [prop EXCEPT ![t] = ProposerOf(d, prepSlot[t])]
                       /\ pc' = [pc EXCEPT ![t] = "register"]
                       /\ UNCHANGED <<hd, sdr, moved, abandons>>
       /\ UNCHANGED <<clock, late, head, registered, pushed, prepSlot, starts, headChanges>>

\* Return unless the execution layer has data for the proposer; else
\* insert_proposer(prepare_slot, head root, proposer, attributes).
Register(t) ==
    /\ pc[t] = "register"
    /\ IF prop[t] \notin Connected
       THEN Finish(t) /\ UNCHANGED registered
       ELSE /\ registered' = registered \cup
                   {[slot |-> prepSlot[t], root |-> hd[t], proposer |-> prop[t]]}
            /\ pc' = [pc EXCEPT ![t] = "push"]
            /\ UNCHANGED <<hd, sdr, prop, moved>>
    /\ UNCHANGED <<clock, late, head, cache, pushed, prepSlot, abandons, starts, headChanges>>

\* Too late once the prepare slot has started; otherwise push a
\* forkchoiceUpdated in the slot's last quarter or when the head is at
\* most one slot behind the prepare slot.
Push(t) ==
    /\ pc[t] = "push"
    /\ pushed' = IF clock < prepSlot[t] /\ (late \/ Slot[hd[t]] + 1 >= prepSlot[t])
                 THEN pushed \cup {[slot |-> prepSlot[t], root |-> hd[t]]}
                 ELSE pushed
    /\ Finish(t)
    /\ UNCHANGED <<clock, late, head, cache, registered, prepSlot, abandons, starts, headChanges>>

\* Every bound is used up and every run has returned.
Done ==
    /\ \A t \in Preparers : pc[t] = "idle"
    /\ clock = MaxSlot /\ late
    /\ UNCHANGED vars

Next ==
    \/ Tick
    \/ \E b \in Blocks : HeadChange(b)
    \/ \E t \in Preparers : Start(t) \/ ReadHead(t) \/ Compute(t) \/ Register(t) \/ Push(t)
    \/ Done

Spec == Init /\ [][Next]_vars

-----------------------------------------------------------------------------
(* Every proposer registered with the execution engine for (slot, head     *)
(* root) is the proposer of that slot on that head's chain, whether it     *)
(* came from the cache or from duties computed on a head that fork choice  *)
(* may have moved meanwhile.                                               *)
PreparedProposerCorrect ==
    \A r \in registered :
        r.proposer = ProposerOf(DecisionRoot(r.root, EpochOf(r.slot)), r.slot)

(* A run abandons after computing duties only when the head has changed    *)
(* since its head_info (the code's comment: the head change spawned        *)
(* another run); with a head that stays put the key it looked up is the    *)
(* key the computation fills.                                              *)
AbandonOnlyOnHeadChange == FALSE \notin abandons

=============================================================================
