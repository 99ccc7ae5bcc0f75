\* Four blocks: lists of every order, with blocks that were never set up.
CONSTANTS
  block_count_ = 4
  Null = Null
SPECIFICATION Spec
INVARIANTS
  FreeListComplete
PROPERTY
  ImplementsAllocator
