-------------------------- MODULE MemoryPoolProofs --------------------------
(***************************************************************************)
(* MemoryPool for every number of blocks.                                  *)
(***************************************************************************)
EXTENDS MemoryPool, FiniteSetTheorems, TLAPS

\* The blocks that were never set up come in the order of their indices, each
\* after the one before it; so the head is at most initialized_blocks_, which
\* is the block that allocate sets up before it reads the head.
FreshInOrder(f) ==
  \A i \in 0 .. free_blocks_ - 1 :
    f[i] > initialized_blocks_ => i > 0 /\ f[i - 1] = f[i] - 1

\* Blocks in use have been set up, and free_blocks_ counts the others.
UsedSetUp == \A b \in used : b < initialized_blocks_
FreeCounted == free_blocks_ = block_count_ - Cardinality(used)

\* The inductive invariant.
PoolInv ==
  /\ TypeOK
  /\ UsedSetUp
  /\ FreeCounted
  /\ \E f \in FreeLists : IsFreeList(f) /\ FreshInOrder(f)

\* The constructor establishes it: the list is 0, 1, ..., block_count_ - 1.
LEMMA PoolInvInit == Init => PoolInv
<1> SUFFICES ASSUME Init PROVE PoolInv
  OBVIOUS
<1> USE CountAssumption, NullAssumption
<1>1. TypeOK
  <2>1. next_free_block_ \in Index \cup {Null} /\ next_free_block_ # Null
    BY DEF Init, Index
  <2>2. returned \in BOOLEAN \X (Index \cup {Null})
    BY DEF Init
  <2>3. free_blocks_ \in 0 .. block_count_ /\ free_blocks_ # 0
        /\ initialized_blocks_ \in 0 .. block_count_
    BY DEF Init
  <2> QED BY <2>1, <2>2, <2>3 DEF Init, TypeOK
<1> DEFINE f == [i \in 0 .. block_count_ - 1 |-> i]
<1>2. f \in FreeLists
  BY DEF Init, FreeLists, Index
<1>3. IsFreeList(f)
  BY DEF Init, IsFreeList, Link, Index
<1>4. FreshInOrder(f)
  BY DEF Init, FreshInOrder
<1>5. UsedSetUp /\ FreeCounted
  BY FS_EmptySet DEF Init, UsedSetUp, FreeCounted
<1> QED BY <1>1, <1>2, <1>3, <1>4, <1>5 DEF PoolInv

\* The blocks in use form a finite set.
LEMMA UsedFinite ==
  ASSUME TypeOK
  PROVE  IsFiniteSet(used) /\ Cardinality(used) \in Nat
<1>1. IsFiniteSet(Index)
  BY FS_Interval, CountAssumption DEF Index
<1> QED BY <1>1, FS_Subset, FS_CardinalityType DEF TypeOK

\* Setting up one more block changes no successor.
LEMMA InitializedKeepsLinks ==
  ASSUME TypeOK, memory' = Initialized,
         initialized_blocks_' = initialized_blocks_ +
           (IF initialized_blocks_ < block_count_ THEN 1 ELSE 0)
  PROVE  /\ memory' \in [Index -> Word]
         /\ initialized_blocks_' \in 0 .. block_count_
         /\ \A b \in Index : Link(b)' = Link(b)
<1> USE CountAssumption
<1>1. memory' \in [Index -> Word] /\ initialized_blocks_' \in 0 .. block_count_
  BY DEF TypeOK, Initialized, Index, Word
<1>2. ASSUME NEW b \in Index
      PROVE  Link(b)' = Link(b)
  <2>1. CASE initialized_blocks_ < block_count_
    <3>1. /\ initialized_blocks_ \in Index
          /\ memory' = [memory EXCEPT ![initialized_blocks_] =
                                        initialized_blocks_ + 1]
          /\ initialized_blocks_' = initialized_blocks_ + 1
          /\ memory \in [Index -> Word]
      BY <2>1 DEF TypeOK, Initialized, Index
    <3>2. CASE b = initialized_blocks_
      BY <3>1, <3>2 DEF Link, Index
    <3>3. CASE b # initialized_blocks_
      BY <3>1, <3>3 DEF Link, Index
    <3> QED BY <3>2, <3>3
  <2>2. CASE ~ initialized_blocks_ < block_count_
    BY <2>2 DEF TypeOK, Initialized, Link, Index
  <2> QED BY <2>1, <2>2
<1> QED BY <1>1, <1>2

\* allocate takes the head off the list, or finds no free block.
LEMMA AllocateStep ==
  ASSUME PoolInv, Allocate
  PROVE  /\ PoolInv'
         /\ free_blocks_ > 0 => next_free_block_ \in Index \ used
         /\ free_blocks_ = 0 => used = Index
<1> USE CountAssumption, NullAssumption
<1>1. PICK f \in FreeLists : IsFreeList(f) /\ FreshInOrder(f)
  BY DEF PoolInv
<1>2. TypeOK /\ free_blocks_ \in Nat /\ initialized_blocks_ \in Nat
      /\ free_blocks_ <= block_count_ /\ block_count_ \in Nat
      /\ used \in SUBSET Index
  BY DEF PoolInv, TypeOK
<1>3. /\ memory' \in [Index -> Word]
      /\ initialized_blocks_' \in 0 .. block_count_
      /\ \A b \in Index : Link(b)' = Link(b)
  BY <1>2, InitializedKeepsLinks DEF Allocate
<1>4. f \in [0 .. free_blocks_ - 1 -> Index]
  BY DEF FreeLists
<1>5. CASE free_blocks_ = 0
  <2>1. UNCHANGED <<used, free_blocks_, next_free_block_>>
        /\ returned' = <<TRUE, Null>>
    <3>1. ~ (free_blocks_ > 0)
      BY <1>5
    <3> QED BY <3>1, Zenon DEF Allocate
  <2>2. used = Index
    BY <1>1, <1>2, <1>5 DEF IsFreeList
  <2>3. TypeOK'
    BY <1>2, <1>3, <2>1 DEF TypeOK
  <2>4. f \in FreeLists'
    BY <1>4, <2>1 DEF FreeLists
  <2>5. IsFreeList(f)'
    BY <1>1, <1>5, <2>1 DEF IsFreeList
  <2>6. FreshInOrder(f)'
    BY <1>5, <2>1 DEF FreshInOrder
  <2>7. UsedSetUp' /\ FreeCounted'
    BY <1>2, <2>1 DEF PoolInv, UsedSetUp, FreeCounted, Allocate, TypeOK, Index
  <2> QED BY <1>5, <2>2, <2>3, <2>4, <2>5, <2>6, <2>7 DEF PoolInv
<1>6. CASE free_blocks_ > 0
  <2>1. /\ free_blocks_' = free_blocks_ - 1
        /\ used' = used \cup {next_free_block_}
        /\ returned' = <<TRUE, next_free_block_>>
        /\ next_free_block_' = NextFree
    <3>1. free_blocks_ # 0
      BY <1>2, <1>6
    <3> QED BY <3>1, Zenon DEF Allocate
  <2>2. /\ next_free_block_ = f[0] /\ f[0] \in Index /\ f[0] \notin used
        /\ f[0] <= initialized_blocks_
    BY <1>1, <1>2, <1>4, <1>6 DEF IsFreeList, FreshInOrder, Index
  <2>3. f[0] < initialized_blocks_'
    BY <1>2, <2>2 DEF Allocate, Index
  <2>4. Initialized[f[0]] = Link(f[0])
    <3>1. Link(f[0])' = memory'[f[0]]
      BY <2>3 DEF Link
    <3>2. Link(f[0])' = Link(f[0]) /\ memory' = Initialized
      BY <1>3, <2>2 DEF Allocate
    <3> QED BY <3>1, <3>2
  <2>5. free_blocks_ > 1 => next_free_block_' = f[1]
    BY <1>1, <1>2, <2>1, <2>2, <2>4 DEF NextFree, IsFreeList
  <2>6. free_blocks_ = 1 => next_free_block_' = Null
    BY <2>1 DEF NextFree
  <2>7. TypeOK'
    <3>1. next_free_block_' \in Index \cup {Null}
          /\ (next_free_block_' = Null <=> free_blocks_' = 0)
      BY <1>2, <1>4, <1>6, <2>1, <2>5, <2>6 DEF Index
    <3>2. used' \in SUBSET Index
          /\ returned' \in BOOLEAN \X (Index \cup {Null})
      BY <1>2, <2>1, <2>2
    <3>3. free_blocks_' \in 0 .. block_count_
      BY <1>2, <1>6, <2>1
    <3> QED BY <1>3, <3>1, <3>2, <3>3 DEF TypeOK
  <2>0. 0 .. free_blocks_' - 1 = 0 .. free_blocks_ - 2
        /\ \A i \in 0 .. free_blocks_ - 2 :
             i + 1 \in 0 .. free_blocks_ - 1 /\ f[i + 1] \in Index
    BY <1>2, <1>4, <2>1
  <2>8. PICK g \in [0 .. free_blocks_ - 2 -> Index] :
          \A i \in 0 .. free_blocks_ - 2 :
            /\ i + 1 \in 0 .. free_blocks_ - 1
            /\ g[i] = f[i + 1] /\ f[i + 1] \in Index
    <3> DEFINE g == [i \in 0 .. free_blocks_ - 2 |-> f[i + 1]]
    <3>1. g \in [0 .. free_blocks_ - 2 -> Index]
          /\ \A i \in 0 .. free_blocks_ - 2 : g[i] = f[i + 1]
      BY <2>0
    <3> HIDE DEF g
    <3> QED BY <2>0, <3>1
  <2>9. g \in FreeLists'
    BY <2>0, <2>8 DEF FreeLists, Index
  <2>10. IsFreeList(g)'
    <3>1. ASSUME NEW i \in 0 .. free_blocks_ - 2
          PROVE  g[i] \notin used'
      <4>1. f[i + 1] \notin used /\ (f[i + 1] = f[0] => i + 1 = 0)
        BY <1>1, <1>2, <1>6, <2>8 DEF IsFreeList
      <4>2. g[i] # f[0] /\ g[i] \notin used
        BY <2>8, <4>1
      <4> QED BY <2>1, <2>2, <4>2
    <3>2. ASSUME NEW b \in Index \ used'
          PROVE  \E i \in 0 .. free_blocks_ - 2 : g[i] = b
      <4>1. b \in Index \ used /\ b # f[0]
        BY <2>1, <2>2
      <4>2. PICK i \in 0 .. free_blocks_ - 1 : f[i] = b
        BY <1>1, <4>1 DEF IsFreeList
      <4>3. i - 1 \in 0 .. free_blocks_ - 2 /\ g[i - 1] = b
        BY <1>2, <2>8, <4>1, <4>2
      <4> QED BY <4>3
    <3>3. ASSUME NEW i \in 0 .. free_blocks_ - 2,
                 NEW j \in 0 .. free_blocks_ - 2, g[i] = g[j]
          PROVE  i = j
      <4>1. i + 1 = j + 1
        BY <1>1, <2>8, <3>3 DEF IsFreeList
      <4> QED BY <4>1
    <3>4. free_blocks_' > 0 => next_free_block_' = g[0]
      BY <1>2, <2>1, <2>5, <2>8
    <3>5. ASSUME NEW i \in 1 .. free_blocks_ - 2
          PROVE  g[i] = Link(g[i - 1])'
      <4>1. i + 1 \in 1 .. free_blocks_ - 1 /\ i \in 0 .. free_blocks_ - 2
            /\ i - 1 \in 0 .. free_blocks_ - 2 /\ (i - 1) + 1 = i
            /\ (i + 1) - 1 = i
        BY <1>2
      <4>2. g[i] = f[i + 1] /\ g[i - 1] = f[i] /\ f[i] \in Index
        BY <2>8, <4>1
      <4>3. f[i + 1] = Link(f[i])
        BY <1>1, <4>1 DEF IsFreeList
      <4>4. Link(f[i])' = Link(f[i])
        BY <1>3, <4>2
      <4>5. Link(g[i - 1])' = Link(f[i])'
        BY <4>2 DEF Link
      <4> QED BY <4>2, <4>3, <4>4, <4>5
    <3> QED BY <1>2, <2>0, <2>1, <3>1, <3>2, <3>3, <3>4, <3>5 DEF IsFreeList
  <2>11. FreshInOrder(g)'
    <3> SUFFICES ASSUME NEW i \in 0 .. free_blocks_ - 2,
                        g[i] > initialized_blocks_'
                 PROVE  i > 0 /\ g[i - 1] = g[i] - 1
      BY <2>0, <2>8 DEF FreshInOrder
    <3>1. /\ initialized_blocks_' >= initialized_blocks_
          /\ initialized_blocks_' \in Nat
          /\ f[0] < initialized_blocks_'
      BY <1>2, <1>3, <2>3 DEF Allocate
    <3>2. g[i] = f[i + 1] /\ i + 1 \in 0 .. free_blocks_ - 1
          /\ f[i + 1] \in Nat
      BY <2>8 DEF Index
    <3>3. f[i + 1] > initialized_blocks_
      BY <1>2, <3>1, <3>2
    <3>4. f[i] = f[i + 1] - 1
      BY <1>1, <3>2, <3>3 DEF FreshInOrder
    <3>5. i # 0
      BY <3>1, <3>2, <3>4
    <3>6. g[i - 1] = f[i]
      BY <1>2, <2>8, <3>5
    <3> QED BY <3>2, <3>4, <3>5, <3>6
  <2>12. UsedSetUp'
    <3>1. initialized_blocks_' >= initialized_blocks_
      BY <1>2 DEF Allocate
    <3> QED BY <1>2, <1>3, <2>1, <2>2, <2>3, <3>1
            DEF PoolInv, UsedSetUp, Index
  <2>13. FreeCounted'
    <3>1. Cardinality(used') = Cardinality(used) + 1
      BY <1>2, <2>1, <2>2, UsedFinite, FS_AddElement
    <3> QED BY <1>2, <2>1, <3>1, UsedFinite DEF PoolInv, FreeCounted
  <2> QED BY <1>6, <2>2, <2>7, <2>9, <2>10, <2>11, <2>12, <2>13 DEF PoolInv
<1> QED BY <1>2, <1>5, <1>6

\* deallocate puts the block at the head of the list.
LEMMA DeallocateStep ==
  ASSUME PoolInv, NEW ptr \in Index, Deallocate(ptr)
  PROVE  PoolInv'
<1> USE CountAssumption, NullAssumption
<1>1. PICK f \in FreeLists : IsFreeList(f) /\ FreshInOrder(f)
  BY DEF PoolInv
<1>2. /\ free_blocks_ \in Nat /\ initialized_blocks_ \in Nat
      /\ memory \in [Index -> Word] /\ used \in SUBSET Index
      /\ next_free_block_ \in Index \cup {Null}
      /\ next_free_block_ = Null <=> free_blocks_ = 0
      /\ initialized_blocks_ \in 0 .. block_count_
      /\ returned \in BOOLEAN \X (Index \cup {Null})
  BY DEF PoolInv, TypeOK
<1>3. /\ ptr \in used
      /\ memory' = [memory EXCEPT ![ptr] = IF next_free_block_ # Null
                                           THEN next_free_block_
                                           ELSE block_count_]
      /\ next_free_block_' = ptr
      /\ free_blocks_' = free_blocks_ + 1
      /\ used' = used \ {ptr}
      /\ initialized_blocks_' = initialized_blocks_ /\ returned' = returned
  BY DEF Deallocate
<1>4. f \in [0 .. free_blocks_ - 1 -> Index]
  BY DEF FreeLists
<1>5. 0 .. free_blocks_' - 1 = 0 .. free_blocks_
  BY <1>2, <1>3
<1>6. PICK g \in [0 .. free_blocks_ -> Index] :
        /\ g[0] = ptr
        /\ \A i \in 1 .. free_blocks_ :
             /\ i - 1 \in 0 .. free_blocks_ - 1
             /\ g[i] = f[i - 1] /\ f[i - 1] \in Index
  <2> DEFINE g == [i \in 0 .. free_blocks_ |-> IF i = 0 THEN ptr ELSE f[i - 1]]
  <2>1. \A i \in 1 .. free_blocks_ :
          i - 1 \in 0 .. free_blocks_ - 1 /\ f[i - 1] \in Index
    BY <1>2, <1>4
  <2>2. g \in [0 .. free_blocks_ -> Index]
    BY <1>2, <2>1
  <2>3. g[0] = ptr /\ \A i \in 1 .. free_blocks_ : g[i] = f[i - 1]
    BY <1>2
  <2> HIDE DEF g
  <2> QED BY <2>1, <2>2, <2>3
\* A block that was never set up is free, so the block given back was.
<1>7. ptr < initialized_blocks_
  BY <1>3 DEF PoolInv, UsedSetUp
<1>8. TypeOK'
  <2>1. memory' \in [Index -> Word]
    BY <1>2, <1>3 DEF Index, Word
  <2>2. free_blocks_' \in 0 .. block_count_ /\ free_blocks_' # 0
    <3>1. Cardinality(used) # 0
      BY <1>2, <1>3, UsedFinite, FS_EmptySet DEF PoolInv
    <3>2. free_blocks_ < block_count_
      BY <3>1, UsedFinite DEF PoolInv, FreeCounted
    <3> QED BY <1>2, <1>3, <3>2
  <2>3. next_free_block_' \in Index \cup {Null} /\ next_free_block_' # Null
    BY <1>3 DEF Index
  <2>4. used' \in SUBSET Index
    BY <1>2, <1>3
  <2> QED BY <1>2, <1>3, <2>1, <2>2, <2>3, <2>4 DEF TypeOK
<1>9. g \in FreeLists'
  BY <1>5 DEF FreeLists, Index
<1>10. ASSUME NEW b \in Index, b # ptr
       PROVE  Link(b)' = Link(b)
  BY <1>2, <1>3, <1>10 DEF Link
<1>11. ASSUME NEW i \in 1 .. free_blocks_
       PROVE  g[i] \notin used /\ g[i] # ptr
  BY <1>1, <1>3, <1>6 DEF IsFreeList
<1>12. IsFreeList(g)'
  <2>1. ASSUME NEW i \in 0 .. free_blocks_
        PROVE  g[i] \notin used'
    BY <1>2, <1>3, <1>6, <1>11
  <2>2. ASSUME NEW b \in Index \ used'
        PROVE  \E i \in 0 .. free_blocks_ : g[i] = b
    <3>1. CASE b = ptr
      BY <1>2, <1>6, <3>1
    <3>2. CASE b # ptr
      <4>1. PICK i \in 0 .. free_blocks_ - 1 : f[i] = b
        BY <1>1, <1>3, <3>2 DEF IsFreeList
      <4>2. i + 1 \in 1 .. free_blocks_ /\ (i + 1) - 1 = i
        BY <1>2
      <4>3. g[i + 1] = b
        BY <1>6, <4>1, <4>2
      <4>4. i + 1 \in 0 .. free_blocks_
        BY <4>2
      <4> QED BY <4>3, <4>4
    <3> QED BY <3>1, <3>2
  <2>3. ASSUME NEW i \in 0 .. free_blocks_, NEW j \in 0 .. free_blocks_,
               g[i] = g[j]
        PROVE  i = j
    <3>1. CASE i = 0
      BY <1>2, <1>6, <1>11, <2>3, <3>1
    <3>2. CASE j = 0
      BY <1>2, <1>6, <1>11, <2>3, <3>2
    <3>3. CASE i # 0 /\ j # 0
      <4>1. i \in 1 .. free_blocks_ /\ j \in 1 .. free_blocks_
        BY <1>2, <3>3
      <4>2. i - 1 = j - 1
        BY <1>1, <1>6, <2>3, <4>1 DEF IsFreeList
      <4> QED BY <4>1, <4>2
    <3> QED BY <3>1, <3>2, <3>3
  <2>4. next_free_block_' = g[0]
    BY <1>3, <1>6
  <2>5. ASSUME NEW i \in 1 .. free_blocks_
        PROVE  g[i] = Link(g[i - 1])'
    <3>1. CASE i = 1
      <4>1. Link(ptr)' = next_free_block_
        BY <1>2, <1>3, <1>7, <3>1 DEF Link
      <4>2. g[1] = f[0] /\ next_free_block_ = f[0]
        BY <1>1, <1>2, <1>6, <3>1 DEF IsFreeList
      <4>3. g[i - 1] = ptr
        BY <1>6, <3>1
      <4>4. Link(g[i - 1])' = Link(ptr)'
        BY <4>3 DEF Link
      <4> QED BY <3>1, <4>1, <4>2, <4>4
    <3>2. CASE i > 1
      <4>1. /\ i - 1 \in 1 .. free_blocks_ - 1 /\ i - 1 \in 1 .. free_blocks_
            /\ (i - 1) - 1 = i - 2
        BY <1>2, <3>2
      <4>2. g[i] = f[i - 1] /\ g[i - 1] = f[i - 2] /\ g[i - 1] \in Index
            /\ g[i - 1] # ptr
        BY <1>6, <1>11, <4>1
      <4>3. f[i - 1] = Link(f[i - 2])
        BY <1>1, <4>1 DEF IsFreeList
      <4>4. Link(g[i - 1])' = Link(g[i - 1])
        BY <1>10, <4>2
      <4>5. Link(g[i - 1]) = Link(f[i - 2])
        BY <4>2
      <4> QED BY <4>2, <4>3, <4>4, <4>5
    <3> QED BY <3>1, <3>2
  <2>6. 1 .. free_blocks_' - 1 = 1 .. free_blocks_
    BY <1>2, <1>3
  <2> QED BY <1>5, <2>1, <2>2, <2>3, <2>4, <2>5, <2>6 DEF IsFreeList
<1>13. FreshInOrder(g)'
  <2> SUFFICES ASSUME NEW i \in 0 .. free_blocks_, g[i] > initialized_blocks_
               PROVE  i > 0 /\ g[i - 1] = g[i] - 1
    BY <1>3, <1>5 DEF FreshInOrder
  <2>1. i # 0
    BY <1>2, <1>6, <1>7 DEF Index
  <2>2. i \in 1 .. free_blocks_
    BY <2>1
  <2>3. g[i] = f[i - 1] /\ i - 1 \in 0 .. free_blocks_ - 1
    BY <1>6, <2>2
  <2>4. i - 1 > 0 /\ f[(i - 1) - 1] = f[i - 1] - 1
    BY <1>1, <2>3 DEF FreshInOrder
  <2>5. i - 1 \in 1 .. free_blocks_
    BY <1>2, <2>3, <2>4
  <2>6. g[i - 1] = f[(i - 1) - 1]
    BY <1>6, <2>5
  <2> QED BY <2>2, <2>3, <2>4, <2>6
<1>14. UsedSetUp'
  BY <1>3 DEF PoolInv, UsedSetUp
<1>15. FreeCounted'
  <2>1. Cardinality(used') = Cardinality(used) - 1
    BY <1>3, UsedFinite, FS_RemoveElement DEF PoolInv
  <2> QED BY <1>2, <1>3, <2>1, UsedFinite DEF PoolInv, FreeCounted
<1> QED BY <1>8, <1>9, <1>12, <1>13, <1>14, <1>15 DEF PoolInv

\* The owner of a block writes to no free block.
LEMMA OwnerStep ==
  ASSUME PoolInv, NEW ptr \in Index, NEW word \in Word, OwnerWrites(ptr, word)
  PROVE  PoolInv'
<1>1. PICK f \in FreeLists : IsFreeList(f) /\ FreshInOrder(f)
  BY DEF PoolInv
<1>2. /\ ptr \in used
      /\ memory' = [memory EXCEPT ![ptr] = word]
      /\ UNCHANGED <<free_blocks_, initialized_blocks_, next_free_block_, used,
                     returned>>
  BY DEF OwnerWrites
<1>3. TypeOK'
  <2>1. memory' \in [Index -> Word]
    BY <1>2 DEF PoolInv, TypeOK
  <2> QED BY <1>2, <2>1 DEF PoolInv, TypeOK
<1>4. ASSUME NEW b \in Index, b # ptr
      PROVE  Link(b)' = Link(b)
  BY <1>2, <1>4 DEF Link, PoolInv, TypeOK
<1>5. ASSUME NEW i \in 1 .. free_blocks_ - 1
      PROVE  f[i] = Link(f[i - 1])'
  <2>1. i - 1 \in 0 .. free_blocks_ - 1
    BY DEF PoolInv, TypeOK
  <2>2. f[i - 1] \in Index /\ f[i - 1] # ptr
    BY <1>1, <1>2, <2>1 DEF FreeLists, IsFreeList
  <2>3. f[i] = Link(f[i - 1])
    BY <1>1 DEF IsFreeList
  <2> QED BY <1>4, <2>2, <2>3
<1>6. IsFreeList(f)' /\ FreshInOrder(f)' /\ f \in FreeLists'
  BY <1>1, <1>2, <1>5 DEF IsFreeList, FreshInOrder, FreeLists
<1>7. UsedSetUp' /\ FreeCounted'
  BY <1>2 DEF PoolInv, UsedSetUp, FreeCounted
<1> QED BY <1>3, <1>6, <1>7 DEF PoolInv

\* A step that leaves the pool and the blocks in use alone.
LEMMA IdleStep ==
  ASSUME PoolInv, UNCHANGED <<poolVars, used>>,
         returned' \in BOOLEAN \X (Index \cup {Null})
  PROVE  PoolInv'
<1>1. PICK f \in FreeLists : IsFreeList(f) /\ FreshInOrder(f)
  BY DEF PoolInv
<1>2. TypeOK'
  BY DEF PoolInv, TypeOK, poolVars
<1>3. IsFreeList(f)' /\ FreshInOrder(f)' /\ f \in FreeLists'
  BY <1>1 DEF IsFreeList, FreshInOrder, FreeLists, Link, poolVars
<1>4. UsedSetUp' /\ FreeCounted'
  BY DEF PoolInv, UsedSetUp, FreeCounted, poolVars
<1> QED BY <1>2, <1>3, <1>4 DEF PoolInv

\* Every step keeps the invariant.
LEMMA PoolInvStep == PoolInv /\ [Next]_vars => PoolInv'
<1> SUFFICES ASSUME PoolInv, [Next]_vars PROVE PoolInv'
  OBVIOUS
<1>1. CASE AllocateTooLarge
  BY <1>1, IdleStep DEF AllocateTooLarge
<1>2. CASE UNCHANGED vars
  BY <1>2, IdleStep DEF vars, PoolInv, TypeOK
<1> QED BY <1>1, <1>2, AllocateStep, DeallocateStep, OwnerStep DEF Next

\* The invariant holds after every sequence of calls.
LEMMA PoolInvAlways == Spec => []PoolInv
BY PoolInvInit, PoolInvStep, PTL DEF Spec

\* Every address that the pool dereferences lies in the pool.
THEOREM PoolTypeCorrect == Spec => []TypeOK
<1>1. PoolInv => TypeOK
  BY DEF PoolInv
<1> QED BY <1>1, PoolInvAlways, PTL

\* The free blocks are linked completely and in a line, for any number of
\* blocks and whatever the owners of blocks write.
THEOREM FreeListAlwaysComplete == Spec => []FreeListComplete
<1>1. PoolInv => FreeListComplete
  BY DEF PoolInv, FreeListComplete
<1> QED BY <1>1, PoolInvAlways, PTL

\* The pool never hands out a block twice, and fails only when it is empty.
THEOREM PoolRefinesAllocator == Spec => ImplementsAllocator
<1>1. Init => Abstract!Init
  BY DEF Init, Abstract!Init
<1>2. PoolInv /\ [Next]_vars => [Abstract!Next]_(Abstract!vars)
  <2> SUFFICES ASSUME PoolInv, [Next]_vars
               PROVE  Abstract!Next \/ UNCHANGED Abstract!vars
    OBVIOUS
  <2> USE DEF Abstract!Next, Abstract!vars
  <2>1. CASE Allocate
    <3>1. CASE free_blocks_ > 0
      <4>1. next_free_block_ \in Index \ used
        BY <2>1, <3>1, AllocateStep
      <4>2. free_blocks_ # 0
        BY <3>1
      <4>3. Abstract!Allocate(next_free_block_)
        BY <2>1, <4>1, <4>2, Zenon DEF Allocate, Abstract!Allocate
      <4> QED BY <4>1, <4>3
    <3>2. CASE free_blocks_ = 0
      <4>1. used = Index
        BY <2>1, <3>2, AllocateStep
      <4>2. ~ (free_blocks_ > 0)
        BY <3>2
      <4>3. Abstract!Fail
        BY <2>1, <4>1, <4>2, Zenon DEF Allocate, Abstract!Fail
      <4> QED BY <4>3
    <3>3. free_blocks_ \in Nat
      BY DEF PoolInv, TypeOK
    <3> QED BY <3>1, <3>2, <3>3
  <2>2. CASE AllocateTooLarge
    BY <2>2 DEF AllocateTooLarge, Abstract!Refuse
  <2>3. ASSUME NEW ptr \in Index, Deallocate(ptr)
        PROVE  Abstract!Next
    BY <2>3 DEF Deallocate, Abstract!Deallocate
  <2>4. ASSUME NEW ptr \in Index, NEW word \in Word, OwnerWrites(ptr, word)
        PROVE  UNCHANGED Abstract!vars
    BY <2>4 DEF OwnerWrites
  <2>5. CASE UNCHANGED vars
    BY <2>5 DEF vars
  <2> QED BY <2>1, <2>2, <2>3, <2>4, <2>5 DEF Next
<1> QED BY <1>1, <1>2, PoolInvAlways, PTL
     DEF Spec, ImplementsAllocator, Abstract!Spec
=============================================================================
