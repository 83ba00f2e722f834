------------------------------- MODULE Bitmap -------------------------------
(***************************************************************************)
(* The bitmap allocator of easy-fs (src/easy-fs/src/bitmap.rs).  A region  *)
(* of BLOCKS blocks, each an array of WORDS words of BITS bits (64 and 64  *)
(* in the code, shrunk here).  Words are integers; setting and clearing a  *)
(* bit are the code's |= and -= on them, modulo 2^BITS as a release build  *)
(* computes.  Every call runs under the EasyFileSystem Mutex (it is        *)
(* reached through &mut EasyFileSystem), so each call is one step.         *)
(*                                                                         *)
(* owned is a history variable: the units alloc has handed out and no     *)
(* dealloc has taken back.  Callers may pass any unit to dealloc; an      *)
(* already clear bit trips the assert and panics the kernel.              *)
(***************************************************************************)
EXTENDS Naturals, FiniteSetsExt

CONSTANTS BLOCKS,  \* Bitmap.blocks
          WORDS,   \* u64 words per bitmap block (64)
          BITS,    \* bits per word (64)
          None     \* Option::None returned by alloc

ASSUME BLOCKS \in Nat \ {0} /\ WORDS \in Nat \ {0} /\ BITS \in Nat \ {0}

VARIABLES bm,        \* bm[k][w]: word w of bitmap block k
          owned,     \* units handed out by alloc and not deallocated
          ret,       \* the value the last alloc returned
          panicked   \* the dealloc assert failed

vars == <<bm, owned, ret, panicked>>

BLOCK_BITS == WORDS * BITS
Units      == 0..(BLOCKS * BLOCK_BITS - 1)
FULL       == 2^BITS - 1          \* u64::MAX
BlockIds   == 0..(BLOCKS - 1)
WordIds    == 0..(WORDS - 1)

\* u64::trailing_ones
RECURSIVE TrailingOnes(_)
TrailingOnes(x) == IF x % 2 = 1 THEN 1 + TrailingOnes(x \div 2) ELSE 0

\* Mutant: word index and in-word position swapped.
DecompositionSwapped(bit) ==
    <<bit \div BLOCK_BITS, bit % BITS, (bit % BLOCK_BITS) \div BITS>>

\* decomposition: bit -> (block_pos, bits64_pos, inner_pos)
Decomposition(bit) ==
    <<bit \div BLOCK_BITS, (bit % BLOCK_BITS) \div BITS, bit % BITS>>

\* Blocks that have a word that is not all ones; alloc takes the first.
AllocBlocks == {k \in BlockIds : \E w \in WordIds : bm[k][w] # FULL}

\* Mutant: the highest clear bit of the word instead of the lowest.
FreeBitHighest(x) ==
    Max({p \in 0..(BITS - 1) : (x \div 2^p) % 2 = 0})

\* Position of the bit alloc sets in word x: the count of trailing ones.
FreeBit(x) == TrailingOnes(x)

\* Mutant: the returned index is one-based.
UnitIndexOneBased(k, w, p) == k * BLOCK_BITS + w * BITS + p + 1

\* The unit alloc returns for bit p of word w of block k.
UnitIndex(k, w, p) == k * BLOCK_BITS + w * BITS + p

Init == /\ bm = [k \in BlockIds |-> [w \in WordIds |-> 0]]
        /\ owned = {}
        /\ ret = None
        /\ panicked = FALSE

(* Bitmap::alloc: first block with a non-full word, first such word, its  *)
(* lowest clear bit; None when every block is full.                        *)
Alloc ==
    /\ ~panicked
    /\ IF AllocBlocks = {}
         THEN /\ ret' = None
              /\ UNCHANGED <<bm, owned>>
         ELSE LET k   == Min(AllocBlocks)
                  w   == Min({i \in WordIds : bm[k][i] # FULL})
                  p   == FreeBit(bm[k][w])
                  pos == UnitIndex(k, w, p)
              IN /\ bm' = [bm EXCEPT ![k][w] = (@ + 2^p) % 2^BITS]
                 /\ ret' = pos
                 /\ owned' = owned \cup {pos}
    /\ UNCHANGED panicked

(* Bitmap::dealloc: assert the bit is set, then subtract it.               *)
Dealloc(bit) ==
    /\ ~panicked
    /\ LET d == Decomposition(bit)
           x == bm[d[1]][d[2]]
       IN IF (x \div 2^d[3]) % 2 = 1
            THEN /\ bm' = [bm EXCEPT ![d[1]][d[2]] = (x - 2^d[3]) % 2^BITS]
                 /\ owned' = owned \ {bit}
                 /\ UNCHANGED panicked
            ELSE /\ panicked' = TRUE
                 /\ UNCHANGED <<bm, owned>>
    /\ UNCHANGED ret

Next == Alloc \/ \E u \in Units : Dealloc(u)

Spec == Init /\ [][Next]_vars

-----------------------------------------------------------------------------
TypeOK ==
    /\ bm \in [BlockIds -> [WordIds -> 0..FULL]]
    /\ owned \subseteq Units
    /\ ret \in Units \cup {None}
    /\ panicked \in BOOLEAN

\* Bit u of the region, read directly from the block-major layout.
UnitBit(u) ==
    (bm[u \div BLOCK_BITS][(u % BLOCK_BITS) \div BITS] \div 2^(u % BITS)) % 2 = 1

(* Exactly-once accounting: the set bits are exactly the units handed out *)
(* and not yet freed, whatever sequence of alloc and dealloc (double      *)
(* frees included) the callers issue.                                      *)
Accounting == {u \in Units : UnitBit(u)} = owned

(* alloc is first-fit: it returns the least free unit (spec, section 4.2), *)
(* and None only when no unit is free.                                     *)
AllocFirstFit ==
    [][Alloc => LET free == {u \in Units : ~UnitBit(u)}
                IN ret' = IF free = {} THEN None ELSE Min(free)]_vars
=============================================================================
