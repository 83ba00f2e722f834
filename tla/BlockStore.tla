----------------------------- MODULE BlockStore -----------------------------
(***************************************************************************)
(* What the block cache promises its callers (easy-fs block_cache.rs): a   *)
(* store of whole blocks, one current content per block index.  Every      *)
(* write through a cache entry replaces the content of its block by a new  *)
(* value and nothing else ever changes a block: loading, eviction and      *)
(* write-back are invisible.  Values are write stamps: the n-th write of   *)
(* the whole run stores the value n, so a resurrected old content is       *)
(* never equal to a legal new one.                                         *)
(***************************************************************************)
EXTENDS Naturals

CONSTANTS Blocks,      \* block indices of the device
          MaxWrites    \* bound on the number of writes in a behaviour

VARIABLES store,       \* store[b]: the current content of block b
          nextVal      \* the stamp the next write stores

Init == /\ store = [b \in Blocks |-> 0]
        /\ nextVal = 1

\* A caller overwrites block b (BlockCache::modify on b's entry).
Write(b) == /\ nextVal <= MaxWrites
            /\ store' = [store EXCEPT ![b] = nextVal]
            /\ nextVal' = nextVal + 1

Next == \E b \in Blocks : Write(b)

Spec == Init /\ [][Next]_<<store, nextVal>>
=============================================================================
