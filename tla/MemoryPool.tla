----------------------------- MODULE MemoryPool -----------------------------
(***************************************************************************)
(* backtest::MemoryPool: blocks of slots handed out one after another, and *)
(* a list of returned slots, threaded through the slots themselves, that   *)
(* is used first.  Slots are numbered through the blocks; zero is null.    *)
(***************************************************************************)
EXTENDS Integers

CONSTANTS BlockSize, MaxBlocks     \* slots of a block; bound on the blocks

VARIABLES
    free_slots,    \* head of the list of returned slots
    link,          \* Slot::next of each slot
    current_slot,  \* the first slot never handed out
    blocks         \* how many blocks there are

poolVars == <<free_slots, link, current_slot, blocks>>

Null == 0
Slots == 1..(BlockSize * MaxBlocks)
LastSlot == blocks * BlockSize + 1

\* The constructor allocates the first block.
Init ==
    /\ free_slots = Null
    /\ link = [s \in Slots |-> Null]
    /\ current_slot = 1
    /\ blocks = 1

\* What allocate would return.
Allocated == IF free_slots # Null THEN free_slots ELSE current_slot

Reuse == 
    /\ free_slots # Null
    /\ free_slots' = link[free_slots]
    /\ UNCHANGED <<link, current_slot, blocks>>

Bump ==
    /\ free_slots = Null
    /\ blocks' = IF current_slot >= LastSlot THEN blocks + 1 ELSE blocks
    /\ current_slot' = current_slot + 1
    /\ UNCHANGED <<free_slots, link>>

Allocate == Reuse \/ Bump

\* Variants named ..._ are plausible slips in the definition that follows them;
\* no specification uses them, the mutation checks do.
Deallocate_LosesList(s) ==
    /\ free_slots' = s
    /\ UNCHANGED <<link, current_slot, blocks>>

Deallocate(s) ==
    /\ link' = [link EXCEPT ![s] = free_slots]
    /\ free_slots' = s
    /\ UNCHANGED <<current_slot, blocks>>

-----------------------------------------------------------------------------
\* The list of returned slots from its head, as far as n steps go.
Follow(n) ==
    LET at[i \in 0..n] == IF i = 0 THEN free_slots
                          ELSE IF at[i - 1] = Null THEN Null ELSE link[at[i - 1]]
    IN  [i \in 1..(n + 1) |-> at[i - 1]]

\* The list ends and repeats nothing, and it holds exactly the slots that were
\* handed out and are not in use.
Consistent(inUse) ==
    LET list == Follow(BlockSize * MaxBlocks)
        returned == { list[i] : i \in DOMAIN list } \ {Null}
    IN  /\ blocks \in 1..MaxBlocks /\ current_slot \in 1..LastSlot
        /\ link \in [Slots -> Slots \cup {Null}]
        /\ \A i, j \in DOMAIN list : list[i] = list[j] => i = j \/ list[i] = Null
        /\ returned \cap inUse = {}
        /\ returned \cup inUse = 1..(current_slot - 1)
=============================================================================
