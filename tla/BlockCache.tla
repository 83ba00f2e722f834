----------------------------- MODULE BlockCache -----------------------------
(***************************************************************************)
(* The block cache of easy-fs (src/easy-fs/src/block_cache.rs): the global *)
(* BlockCacheManager, a FIFO queue of at most BLOCK_CACHE_SIZE entries     *)
(* Arc<Mutex<BlockCache>>, and the callers that hold clones of those Arcs. *)
(*                                                                         *)
(* A cache entry is an object, not a block: after an eviction the same     *)
(* block may be loaded again into a new object while the old one is still *)
(* alive.  An entry is therefore named <<b, c>>, block b and copy index c; *)
(* a new entry takes the least copy index of b that is not alive, and a    *)
(* dead entry is reset, so the naming is canonical.                        *)
(*                                                                         *)
(* Block contents are write stamps (see BlockStore).  A caller's clone of  *)
(* an Arc is a pin; callers release pins in LIFO order, as the temporaries *)
(* of nested get_block_cache(..).lock().modify(..) calls are dropped.      *)
(* Every function that holds the manager lock is one atomic step, and so   *)
(* is one read or modify under an entry's Mutex.                           *)
(***************************************************************************)
EXTENDS Naturals, Sequences, SequencesExt, FiniteSetsExt, Functions

CONSTANTS Threads,           \* callers of get_block_cache
          Blocks,            \* block indices of the device
          BLOCK_CACHE_SIZE,  \* capacity of the manager's queue
          MaxPins,           \* deepest nesting of pins one caller holds
          MaxCopies,         \* bound on live objects of one block
          MaxWrites          \* bound on the number of writes

ASSUME BLOCK_CACHE_SIZE \in Nat \ {0} /\ MaxPins \in Nat \ {0}

VARIABLES queue,     \* BlockCacheManager.queue, front first
          buf,       \* buf[e]: BlockCache.cache of entry e
          modified,  \* modified[e]: BlockCache.modified of entry e
          pins,      \* pins[t]: the Arcs caller t holds, innermost last
          disk,      \* disk[b]: content of block b on the device
          nextVal,   \* stamp of the next write
          panicked   \* "Run out of BlockCache!" was raised

vars == <<queue, buf, modified, pins, disk, nextVal, panicked>>

Copies  == 1..MaxCopies
Entries == Blocks \X Copies
Blk(e)  == e[1]

\* Number of Arcs of entry e held by callers.
PinCount(e) ==
    SumFunction([t \in Threads |-> Len(SelectSeq(pins[t], LAMBDA x : x = e))])

\* Arc::strong_count: the queue's Arc plus every caller's clone.
StrongCount(e) == (IF Contains(queue, e) THEN 1 ELSE 0) + PinCount(e)

Live(e) == StrongCount(e) > 0

\* Mutant: an entry dropped without syncing (a Drop that forgets sync).
WriteBackLost(d, e) == d

\* BlockCache::sync applied to disk d: written back only if modified.
WriteBack(d, e) == IF modified[e] THEN [d EXCEPT ![Blk(e)] = buf[e]] ELSE d

\* Index in the queue of the entry of block b (the hit test), 0 on a miss.
HitIdx(b) == SelectInSeq(queue, LAMBDA e : Blk(e) = b)

\* Mutant: the eviction scan ignores strong_count and takes the front.
EvictionVictimIgnoringPins == SelectInSeq(queue, LAMBDA e : StrongCount(e) >= 1)

\* First entry from the front whose only reference is the queue's.
EvictionVictim == SelectInSeq(queue, LAMBDA e : StrongCount(e) = 1)

\* The object BlockCache::new creates for a miss on block b.
NewEntry(b) == <<b, Min({c \in Copies : ~Live(<<b, c>>)})>>

CanAcquire(t, b) ==
    /\ ~panicked
    /\ Len(pins[t]) < MaxPins
    /\ HitIdx(b) = 0 => \E c \in Copies : ~Live(<<b, c>>)

Init == /\ queue = <<>>
        /\ buf = [e \in Entries |-> 0]
        /\ modified = [e \in Entries |-> FALSE]
        /\ pins = [t \in Threads |-> <<>>]
        /\ disk = [b \in Blocks |-> 0]
        /\ nextVal = 1
        /\ panicked = FALSE

(* get_block_cache, hit: clone the Arc of the resident entry.              *)
GetHit(t, b) ==
    /\ CanAcquire(t, b)
    /\ HitIdx(b) # 0
    /\ pins' = [pins EXCEPT ![t] = Append(@, queue[HitIdx(b)])]
    /\ UNCHANGED <<queue, buf, modified, disk, nextVal, panicked>>

\* Mutant: the capacity test admits one entry too many.
GetMissLoadOverfill(t, b) ==
    /\ CanAcquire(t, b)
    /\ HitIdx(b) = 0
    /\ Len(queue) <= BLOCK_CACHE_SIZE
    /\ LET e == NewEntry(b) IN
       /\ queue' = Append(queue, e)
       /\ buf' = [buf EXCEPT ![e] = disk[b]]
       /\ pins' = [pins EXCEPT ![t] = Append(@, e)]
    /\ UNCHANGED <<modified, disk, nextVal, panicked>>

(* get_block_cache, miss with room: read the block from the device into a *)
(* new entry pushed at the back.                                           *)
GetMissLoad(t, b) ==
    /\ CanAcquire(t, b)
    /\ HitIdx(b) = 0
    /\ Len(queue) # BLOCK_CACHE_SIZE
    /\ LET e == NewEntry(b) IN
       /\ queue' = Append(queue, e)
       /\ buf' = [buf EXCEPT ![e] = disk[b]]
       /\ pins' = [pins EXCEPT ![t] = Append(@, e)]
    /\ UNCHANGED <<modified, disk, nextVal, panicked>>

(* get_block_cache, miss on a full queue: drain the victim (its Drop syncs *)
(* it once no Arc of it is left), then load as above.                      *)
GetMissEvict(t, b) ==
    /\ CanAcquire(t, b)
    /\ HitIdx(b) = 0
    /\ Len(queue) = BLOCK_CACHE_SIZE
    /\ EvictionVictim # 0
    /\ LET v    == queue[EvictionVictim]
           gone == PinCount(v) = 0
           d    == IF gone THEN WriteBack(disk, v) ELSE disk
           e    == NewEntry(b)
       IN /\ queue' = Append(RemoveAt(queue, EvictionVictim), e)
          /\ disk' = d
          /\ buf' = [x \in Entries |->
                       IF x = e THEN d[b] ELSE IF x = v /\ gone THEN 0 ELSE buf[x]]
          /\ modified' = [modified EXCEPT ![v] = IF gone THEN FALSE ELSE @]
          /\ pins' = [pins EXCEPT ![t] = Append(@, e)]
    /\ UNCHANGED <<nextVal, panicked>>

(* get_block_cache, miss on a full queue whose entries are all pinned.     *)
GetExhausted(t, b) ==
    /\ CanAcquire(t, b)
    /\ HitIdx(b) = 0
    /\ Len(queue) = BLOCK_CACHE_SIZE
    /\ EvictionVictim = 0
    /\ panicked' = TRUE
    /\ UNCHANGED <<queue, buf, modified, pins, disk, nextVal>>

(* BlockCache::modify through one of the caller's pins (get_mut sets the   *)
(* modified flag).                                                         *)
Modify(t) ==
    /\ ~panicked
    /\ nextVal <= MaxWrites
    /\ \E e \in ToSet(pins[t]) :
          /\ buf' = [buf EXCEPT ![e] = nextVal]
          /\ modified' = [modified EXCEPT ![e] = TRUE]
    /\ nextVal' = nextVal + 1
    /\ UNCHANGED <<queue, pins, disk, panicked>>

(* A caller drops its innermost Arc; the last Arc of an entry that is no   *)
(* longer queued runs BlockCache::drop, which syncs.                       *)
Release(t) ==
    /\ ~panicked
    /\ pins[t] # <<>>
    /\ LET e    == Last(pins[t])
           gone == ~Contains(queue, e) /\ PinCount(e) = 1
       IN /\ pins' = [pins EXCEPT ![t] = Front(@)]
          /\ disk' = IF gone THEN WriteBack(disk, e) ELSE disk
          /\ buf' = IF gone THEN [buf EXCEPT ![e] = 0] ELSE buf
          /\ modified' = IF gone THEN [modified EXCEPT ![e] = FALSE] ELSE modified
    /\ UNCHANGED <<queue, nextVal, panicked>>

(* block_cache_sync_all: sync every queued entry, front to back.           *)
SyncAll ==
    /\ ~panicked
    /\ disk' = FoldLeft(WriteBack, disk, queue)
    /\ modified' = [e \in Entries |-> IF Contains(queue, e) THEN FALSE ELSE modified[e]]
    /\ UNCHANGED <<queue, buf, pins, nextVal, panicked>>

Next ==
    \/ \E t \in Threads, b \in Blocks :
          \/ GetHit(t, b) \/ GetMissLoad(t, b) \/ GetMissEvict(t, b)
          \/ GetExhausted(t, b)
    \/ \E t \in Threads : Modify(t) \/ Release(t)
    \/ SyncAll

Spec == Init /\ [][Next]_vars

-----------------------------------------------------------------------------
TypeOK ==
    /\ queue \in Seq(Entries) /\ Len(queue) <= BLOCK_CACHE_SIZE
    /\ buf \in [Entries -> 0..MaxWrites]
    /\ modified \in [Entries -> BOOLEAN]
    /\ pins \in [Threads -> Seq(Entries)]
    /\ disk \in [Blocks -> 0..MaxWrites]
    /\ nextVal \in 1..MaxWrites + 1
    /\ panicked \in BOOLEAN

(* At most one live BlockCache object per block index (spec, section 3):   *)
(* the hit test and the strong_count = 1 eviction rule together never let  *)
(* a second copy of a block come to life while an old one is still held.   *)
AtMostOneLiveCopy ==
    \A b \in Blocks : Cardinality({c \in Copies : Live(<<b, c>>)}) <= 1

(* The content every caller sees for block b: its queued entry, else the   *)
(* device.                                                                 *)
View == [b \in Blocks |->
           IF HitIdx(b) # 0 THEN buf[queue[HitIdx(b)]] ELSE disk[b]]

BS == INSTANCE BlockStore WITH store <- View

(* The cache implements the abstract block store: loads, evictions and     *)
(* write-backs never change what a block reads as, and every modify        *)
(* through a pin is a write of the current content of its block (no write *)
(* lands in an orphaned copy, no eviction loses a dirty block).            *)
BlockStoreRefinement == BS!Spec
=============================================================================
