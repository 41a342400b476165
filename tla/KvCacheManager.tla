--------------------------- MODULE KvCacheManager ---------------------------
(***************************************************************************)
(* model/kv_cache.rs: the pool of fixed-size KV-cache blocks.  The manager *)
(* is a record kv of the counter free_blocks and the map allocated from    *)
(* request to blocks held, and the operators below are its methods.        *)
(* KvCacheCalls.tla calls them in any order, Simulator.tla as the          *)
(* simulator does.                                                         *)
(***************************************************************************)
EXTENDS Tally

CONSTANTS RequestId,   \* ids that callers pass
          TotalBlocks, \* blocks of the pool
          BlockSize    \* tokens per block

ASSUME KvAssumption ==
  /\ IsFiniteSet(RequestId)
  /\ TotalBlocks \in Nat
  /\ BlockSize \in Nat \ {0}

\* KvCacheManager::new
NewKvCache == [free_blocks |-> TotalBlocks, allocated |-> Empty]

\* Mutant of BlocksFor: rounds down.
BlocksFor_Down(n_tokens) == n_tokens \div BlockSize

\* blocks_for
BlocksFor(n_tokens) == CeilDiv(n_tokens, BlockSize)

\* Mutant of CanFit: off by one.
CanFit_OffByOne(k, n_tokens) == BlocksFor(n_tokens) <= k.free_blocks + 1

\* can_fit
CanFit(k, n_tokens) == BlocksFor(n_tokens) <= k.free_blocks

Held(k, r) == IF r \in DOMAIN k.allocated THEN k.allocated[r] ELSE 0

Take(k, r, n_blocks) ==
  [free_blocks |-> k.free_blocks - n_blocks,
   allocated   |-> With(k.allocated, r, Held(k, r) + n_blocks)]

\* allocate: the manager after the call, unchanged when it returns OutOfMemory.
Allocate(k, r, n_tokens) ==
  IF CanFit(k, n_tokens) THEN Take(k, r, BlocksFor(n_tokens)) ELSE k

\* grow: the tokens held are taken to be those that fill the blocks held.
GrowthBlocks(k, r, n_new_tokens) ==
  SatSub(BlocksFor(Held(k, r) * BlockSize + n_new_tokens), Held(k, r))

Grow(k, r, n_new_tokens) ==
  LET extra == GrowthBlocks(k, r, n_new_tokens)
  IN  IF extra <= k.free_blocks THEN Take(k, r, extra) ELSE k

\* Mutant of Free: gives back one block per request.
Free_OneBlock(k, S) ==
  LET held == S \cap DOMAIN k.allocated
  IN  [free_blocks |-> k.free_blocks + Cardinality(held),
       allocated   |-> [r \in DOMAIN k.allocated \ S |-> k.allocated[r]]]

\* free, called for each member of S.
Free(k, S) ==
  LET held == S \cap DOMAIN k.allocated
  IN  [free_blocks |-> k.free_blocks + Total(held, k.allocated),
       allocated   |-> [r \in DOMAIN k.allocated \ S |-> k.allocated[r]]]

=============================================================================
