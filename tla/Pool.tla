-------------------------------- MODULE Pool --------------------------------
(***************************************************************************)
(* What the cache layer of DiskFilter3 relies on from the replacement      *)
(* policy it is built with (Cache_OCP.c, Cache_SLRU.c or Cache_LRU.c): a   *)
(* block that enters the pool costs it nothing while there is room, and    *)
(* otherwise one block that is not marked Modified.                        *)
(***************************************************************************)
EXTENDS Integers, FiniteSets

CONSTANT
  PoolSize     \* CACHE_POOL_NUM_BLOCKS

ASSUME PoolAssumption == PoolSize \in Nat \ {0}

\* Slip: modified blocks are given up too.
EvictionsAny(c, m) == {e \in {{}} : Cardinality(c) < PoolSize} \cup {{v} : v \in c}

\* What a pool holding the blocks c, those in m modified, may give up for one more.
Evictions(c, m) == {e \in {{}} : Cardinality(c) < PoolSize} \cup {{v} : v \in c \ m}
=============================================================================
