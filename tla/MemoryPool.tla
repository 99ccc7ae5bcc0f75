----------------------------- MODULE MemoryPool -----------------------------
(***************************************************************************)
(* class MemoryPool: simple segregated storage behind FixedSizeAllocator.  *)
(*                                                                         *)
(* A block is named by its index, so addr_from_index and index_from_addr   *)
(* are the identity; an address one past the pool is block_count_.  The    *)
(* first word of every block is in memory: the pool keeps the index of the *)
(* next free block there while the block is free, and the owner of a block *)
(* in use may write anything there.                                        *)
(***************************************************************************)
EXTENDS Integers, FiniteSets

CONSTANTS
  block_count_,
  Null           \* nullptr

ASSUME CountAssumption == block_count_ \in Nat \ {0}

Index == 0 .. block_count_ - 1

ASSUME NullAssumption == Null \notin 0 .. block_count_

VARIABLES
  free_blocks_,
  initialized_blocks_,  \* the blocks whose first word has been set up
  next_free_block_,     \* head of the list of free blocks
  memory,               \* the first word of every block
  used,                 \* the blocks the callers hold
  returned              \* the last allocate: did the size fit, what came back

poolVars == <<free_blocks_, initialized_blocks_, next_free_block_, memory>>
vars == <<poolVars, used, returned>>

\* What a first word may hold, as far as the pool can tell.
Word == 0 .. block_count_

\* The constructor; the pool comes from aligned_alloc with any contents.
Init ==
  /\ free_blocks_ = block_count_
  /\ initialized_blocks_ = 0
  /\ next_free_block_ = 0
  /\ memory \in [Index -> Word]
  /\ used = {}
  /\ returned = <<TRUE, Null>>

\* Mutant: the word names the block itself.
Initialized_Self ==
  IF initialized_blocks_ < block_count_
  THEN [memory EXCEPT ![initialized_blocks_] = initialized_blocks_]
  ELSE memory

\* allocate sets up one more block before anything else.
Initialized ==
  IF initialized_blocks_ < block_count_
  THEN [memory EXCEPT ![initialized_blocks_] = initialized_blocks_ + 1]
  ELSE memory

\* The head of the list once its first block is taken.
NextFree ==
  IF free_blocks_ > 1 THEN Initialized[next_free_block_] ELSE Null

\* allocate of a size that fits into a block.
Allocate ==
  /\ memory' = Initialized
  /\ initialized_blocks_' =
       initialized_blocks_ + (IF initialized_blocks_ < block_count_ THEN 1 ELSE 0)
  /\ \/ /\ free_blocks_ > 0
        /\ returned' = <<TRUE, next_free_block_>>
        /\ used' = used \cup {next_free_block_}
        /\ free_blocks_' = free_blocks_ - 1
        /\ next_free_block_' = NextFree
     \/ /\ free_blocks_ = 0
        /\ returned' = <<TRUE, Null>>
        /\ UNCHANGED <<used, free_blocks_, next_free_block_>>

\* allocate of a larger size.
AllocateTooLarge ==
  /\ returned' = <<FALSE, Null>>
  /\ UNCHANGED <<poolVars, used>>

\* Mutant: the former head of the list is lost.
Deallocate_HeadLost(ptr) ==
  /\ ptr \in used
  /\ memory' = [memory EXCEPT ![ptr] = block_count_]
  /\ next_free_block_' = ptr
  /\ free_blocks_' = free_blocks_ + 1
  /\ used' = used \ {ptr}
  /\ UNCHANGED <<initialized_blocks_, returned>>

\* deallocate of a block that is in use; nullptr is ignored.
Deallocate(ptr) ==
  /\ ptr \in used
  /\ memory' = [memory EXCEPT ![ptr] = IF next_free_block_ # Null
                                       THEN next_free_block_ ELSE block_count_]
  /\ next_free_block_' = ptr
  /\ free_blocks_' = free_blocks_ + 1
  /\ used' = used \ {ptr}
  /\ UNCHANGED <<initialized_blocks_, returned>>

\* The owner of a block writes to it.
OwnerWrites(ptr, word) ==
  /\ ptr \in used
  /\ memory' = [memory EXCEPT ![ptr] = word]
  /\ UNCHANGED <<free_blocks_, initialized_blocks_, next_free_block_, used,
                 returned>>

Next ==
  \/ Allocate
  \/ AllocateTooLarge
  \/ \E ptr \in Index : Deallocate(ptr)
  \/ \E ptr \in Index, word \in Word : OwnerWrites(ptr, word)

Spec == Init /\ [][Next]_vars
-----------------------------------------------------------------------------
(* Properties *)

\* The counters stay in range and the pool never dereferences an address
\* outside itself: the head of the list is a block, or null when none is free.
TypeOK ==
  /\ free_blocks_ \in 0 .. block_count_
  /\ initialized_blocks_ \in 0 .. block_count_
  /\ next_free_block_ \in Index \cup {Null}
  /\ next_free_block_ = Null <=> free_blocks_ = 0
  /\ memory \in [Index -> Word]
  /\ used \in SUBSET Index
  /\ returned \in BOOLEAN \X (Index \cup {Null})

\* The successor of a free block: the word in it, or the next index for a
\* block that has not been set up.
Link(b) == IF b < initialized_blocks_ THEN memory[b] ELSE b + 1

\* f lists the free blocks in the order in which allocate hands them out.
IsFreeList(f) ==
  /\ \A i \in 0 .. free_blocks_ - 1 : f[i] \notin used
  /\ \A b \in Index \ used : \E i \in 0 .. free_blocks_ - 1 : f[i] = b
  /\ \A i, j \in 0 .. free_blocks_ - 1 : f[i] = f[j] => i = j
  /\ free_blocks_ > 0 => next_free_block_ = f[0]
  /\ \A i \in 1 .. free_blocks_ - 1 : f[i] = Link(f[i - 1])

FreeLists == [0 .. free_blocks_ - 1 -> Index]

\* Through every order of allocations, deallocations and writes by the owners,
\* the words in the free blocks link every free block once and no other.
FreeListComplete == \E f \in FreeLists : IsFreeList(f)

Abstract == INSTANCE Allocator WITH Blocks <- Index

\* No block is handed out twice, and allocate of a size that fits returns
\* nullptr only when all blocks are in use.
ImplementsAllocator == Abstract!Spec
=============================================================================
