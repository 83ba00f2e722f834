----------------------------- MODULE PageTable -----------------------------
(***************************************************************************)
(* The SV39 page table of the kernel (src/os/src/mm/page_table.rs): a      *)
(* three-level tree of page-table frames, each an array of IDX entries     *)
(* (512 in the code).  An entry is the usize the code stores,              *)
(* ppn << 10 | flags, kept as that integer.                                *)
(*                                                                         *)
(* Page-table frames come from frame_alloc (mm/frame_allocator.rs, not in  *)
(* this repository's sources): it hands out a zeroed frame, the least free *)
(* one here; a FrameTracker that is dropped gives its frame back.  A       *)
(* PageTable keeps the trackers of its frames in `frames`, so its frames   *)
(* are given back only when the whole table is dropped.                    *)
(*                                                                         *)
(* VirtPageNum::indexes (mm/address.rs, not in the sources) is taken to    *)
(* split a page number into its three base-IDX digits, highest first.      *)
(* The memory set that calls map and unmap is not in the sources either:   *)
(* callers may pass any page, and the asserts panic on a misuse.           *)
(***************************************************************************)
EXTENDS Naturals, Sequences, SequencesExt, FiniteSetsExt

CONSTANTS IDX,        \* entries per page-table frame (512)
          PTFrames,   \* frames frame_alloc can hand out for page tables
          DataPPNs,   \* physical pages callers map
          Perms,      \* flag bits callers pass (R|W|X|U combinations)
          PAGE_SIZE,  \* bytes per page
          MaxLen,     \* longest user buffer translated
          None,       \* Option::None
          Unmapped    \* translation of an absent page, for the refinement

ASSUME PTFrames \cap DataPPNs = {} /\ 0 \notin PTFrames \cup DataPPNs

VARIABLES mem,       \* mem[f][i]: the bits of entry i of page-table frame f
          root,      \* PageTable.root_ppn
          frames,    \* PageTable.frames: the frames the table owns
          free,      \* frames frame_alloc has not handed out
          panicked   \* an unwrap or assert failed

vars == <<mem, root, frames, free, panicked>>

Idx      == 0..(IDX - 1)
VPNs     == 0..(IDX^3 - 1)
VAs      == 0..(IDX^3 * PAGE_SIZE - 1)
V        == 1                      \* PTEFlags::V
ZeroPage == [i \in Idx |-> 0]

\* VirtPageNum::indexes: three digits, the root's index first.
Indexes(vpn) == <<(vpn \div (IDX * IDX)) % IDX, (vpn \div IDX) % IDX, vpn % IDX>>

\* Mutant: the ppn shifted by the page-offset width, 12, instead of 10.
NewPteShift12(ppn, flags) == ppn * 2^12 + flags

\* PageTableEntry::new, ppn, flags and is_valid on the stored bits: the
\* | of ppn << 10 with 8 flag bits is their sum, the 44-bit ppn mask is
\* the identity on every ppn below 2^44, and & V tests bit 0.
NewPte(ppn, flags) == ppn * 2^10 + flags
PPN(bits)          == bits \div 2^10
Flags(bits)        == bits % 2^8
IsValid(bits)      == Flags(bits) % 2 = 1
WithV(flags)       == IF flags % 2 = 1 THEN flags ELSE flags + V   \* flags | V

\* frame_alloc: the least free frame, zeroed; None when none is left.
FrameAlloc(fr) == IF fr = {} THEN None ELSE Min(fr)

\* find_pte: walk the two upper levels, None at an invalid entry; the
\* result is the <<frame, index>> of the leaf entry.
RECURSIVE FindWalk(_, _, _)
FindWalk(idxs, ppn, i) ==
    IF i = 3 THEN <<ppn, idxs[3]>>
    ELSE LET pte == mem[ppn][idxs[i]]
         IN IF ~IsValid(pte) THEN None ELSE FindWalk(idxs, PPN(pte), i + 1)

FindPte(vpn) == FindWalk(Indexes(vpn), root, 1)

\* translate: a copy of the leaf entry, valid or not, if the walk reaches it.
Translate(vpn) == LET l == FindPte(vpn) IN IF l = None THEN None ELSE mem[l[1]][l[2]]

\* Mutant: the new frame's tracker is not pushed, so it is dropped at once
\* and its frame goes back to the allocator while the entry points to it.
RECURSIVE CreateWalkNoPush(_, _, _, _)
CreateWalkNoPush(idxs, st, ppn, i) ==
    IF i = 3 THEN [st EXCEPT !.leaf = <<ppn, idxs[3]>>]
    ELSE LET pte == st.mem[ppn][idxs[i]]
             f   == FrameAlloc(st.free)
         IN IF IsValid(pte) THEN CreateWalkNoPush(idxs, st, PPN(pte), i + 1)
            ELSE IF f = None THEN [st EXCEPT !.oom = TRUE]
            ELSE CreateWalkNoPush(idxs,
                   [st EXCEPT !.mem = [@ EXCEPT ![f] = ZeroPage,
                                                ![ppn][idxs[i]] = NewPte(f, V)]],
                   f, i + 1)

\* Mutant: the is_valid test of an upper entry is dropped, so every walk
\* allocates fresh frames over the existing ones.
RECURSIVE CreateWalkAlwaysAlloc(_, _, _, _)
CreateWalkAlwaysAlloc(idxs, st, ppn, i) ==
    IF i = 3 THEN [st EXCEPT !.leaf = <<ppn, idxs[3]>>]
    ELSE LET f == FrameAlloc(st.free)
         IN IF f = None THEN [st EXCEPT !.oom = TRUE]
            ELSE CreateWalkAlwaysAlloc(idxs,
                   [st EXCEPT !.mem = [@ EXCEPT ![f] = ZeroPage,
                                                ![ppn][idxs[i]] = NewPte(f, V)],
                              !.frames = @ \cup {f},
                              !.free = @ \ {f}],
                   f, i + 1)

\* find_pte_create: as find_pte, but an invalid upper entry gets a fresh
\* frame (frame_alloc().unwrap()), marked V and pushed to self.frames.
RECURSIVE CreateWalk(_, _, _, _)
CreateWalk(idxs, st, ppn, i) ==
    IF i = 3 THEN [st EXCEPT !.leaf = <<ppn, idxs[3]>>]
    ELSE LET pte == st.mem[ppn][idxs[i]]
             f   == FrameAlloc(st.free)
         IN IF IsValid(pte) THEN CreateWalk(idxs, st, PPN(pte), i + 1)
            ELSE IF f = None THEN [st EXCEPT !.oom = TRUE]
            ELSE CreateWalk(idxs,
                   [st EXCEPT !.mem = [@ EXCEPT ![f] = ZeroPage,
                                                ![ppn][idxs[i]] = NewPte(f, V)],
                              !.frames = @ \cup {f},
                              !.free = @ \ {f}],
                   f, i + 1)

FindPteCreate(vpn) ==
    CreateWalk(Indexes(vpn),
               [mem |-> mem, frames |-> frames, free |-> free, oom |-> FALSE,
                leaf |-> None],
               root, 1)

Init == /\ root = Min(PTFrames)           \* PageTable::new
        /\ frames = {Min(PTFrames)}
        /\ free = PTFrames \ {Min(PTFrames)}
        /\ mem = [f \in PTFrames |-> ZeroPage]
        /\ panicked = FALSE

(* map: find_pte_create, then assert the leaf is not valid, then write     *)
(* new(ppn, flags | V).  Frames allocated by the walk stay with the table  *)
(* even when the assert then fails.                                        *)
Map(vpn, ppn, flags) ==
    /\ ~panicked
    /\ LET st == FindPteCreate(vpn)
           bad == st.oom \/ IsValid(st.mem[st.leaf[1]][st.leaf[2]])
       IN /\ mem' = IF bad THEN st.mem
                    ELSE [st.mem EXCEPT ![st.leaf[1]][st.leaf[2]] = NewPte(ppn, WithV(flags))]
          /\ frames' = st.frames
          /\ free' = st.free
          /\ panicked' = bad
    /\ UNCHANGED root

(* unmap: find_pte(vpn).unwrap(), assert the leaf is valid, clear it.      *)
Unmap(vpn) ==
    /\ ~panicked
    /\ LET l == FindPte(vpn)
       IN IF l = None \/ ~IsValid(mem[l[1]][l[2]])
            THEN /\ panicked' = TRUE
                 /\ UNCHANGED mem
            ELSE /\ mem' = [mem EXCEPT ![l[1]][l[2]] = 0]
                 /\ UNCHANGED panicked
    /\ UNCHANGED <<root, frames, free>>

Next == \E v \in VPNs : Unmap(v) \/ \E p \in DataPPNs, f \in Perms : Map(v, p, f)

Spec == Init /\ [][Next]_vars

(***************************************************************************)
(* User buffers.  translated_byte_buffer cuts [ptr, ptr + len) at page     *)
(* boundaries and returns, for each piece, a slice <<ppn, lo, hi>> of the  *)
(* physical page that translate gives for it.  translated_struct_ptr       *)
(* translates only the page of the first byte.                             *)
(***************************************************************************)
PageOffset(va) == va % PAGE_SIZE
Floor(va)      == va \div PAGE_SIZE
PpnOf(va)      == PPN(Translate(Floor(va)))

\* Mutant: a piece ending on a page boundary is cut with its end offset, 0.
RECURSIVE ByteBufferNoBoundary(_, _)
ByteBufferNoBoundary(start, end) ==
    IF start >= end THEN <<>>
    ELSE LET endVa == Min({(Floor(start) + 1) * PAGE_SIZE, end})
         IN << <<PpnOf(start), PageOffset(start), PageOffset(endVa)>> >>
              \o ByteBufferNoBoundary(endVa, end)

\* translated_byte_buffer: the slices, in order.
RECURSIVE TranslatedByteBuffer(_, _)
TranslatedByteBuffer(start, end) ==
    IF start >= end THEN <<>>
    ELSE LET endVa == Min({(Floor(start) + 1) * PAGE_SIZE, end})
             hi    == IF PageOffset(endVa) = 0 THEN PAGE_SIZE ELSE PageOffset(endVa)
         IN << <<PpnOf(start), PageOffset(start), hi>> >>
              \o TranslatedByteBuffer(endVa, end)

\* translated_struct_ptr: physical address of the first byte, the rest
\* of the struct taken to follow it in physical memory.
TranslatedStructPtr(va) == PpnOf(va) * PAGE_SIZE + PageOffset(va)

-----------------------------------------------------------------------------
TypeOK ==
    /\ mem \in [PTFrames -> [Idx -> 0..(Max(PTFrames \cup DataPPNs) * 2^10 + 2^8 - 1)]]
    /\ root \in PTFrames
    /\ frames \subseteq PTFrames /\ free \subseteq PTFrames
    /\ panicked \in BOOLEAN

\* The frames of the two upper levels, and their valid entries.
UpperFrames == {root} \cup {PPN(mem[root][i]) : i \in {j \in Idx : IsValid(mem[root][j])}}
Pointers    == {p \in UpperFrames \X Idx : IsValid(mem[p[1]][p[2]])}

(* The frames form a tree owned by the table: every frame the table owns  *)
(* is the root or the target of exactly one valid upper-level entry, no   *)
(* entry points at a frame the allocator may hand out again, and the      *)
(* allocator's free frames are exactly those the table does not own.      *)
FramesOwned ==
    /\ free = PTFrames \ frames
    /\ \A f \in frames \ {root} :
          Cardinality({p \in Pointers : PPN(mem[p[1]][p[2]]) = f}) = 1
    /\ \A p \in Pointers : PPN(mem[p[1]][p[2]]) \in frames \ {root}

\* What each page translates to: its ppn and permissions when the leaf is
\* valid.
View == [v \in VPNs |->
           LET t == Translate(v)
           IN IF t # None /\ IsValid(t) THEN <<PPN(t), Flags(t) - V>> ELSE Unmapped]

PM == INSTANCE PageMap WITH VPNs <- VPNs, PPNs <- DataPPNs, pmap <- View

(* The three-level table implements a flat page map: map of an absent     *)
(* page makes it translate to what was mapped, unmap of a present page     *)
(* makes it absent, and no map, unmap or frame allocation ever changes the *)
(* translation of another page.                                            *)
PageMapRefinement == PM!Spec

\* The user range [va, va + len) lies in valid pages.
RangeMapped(va, len) ==
    \A a \in va..(va + len - 1) :
        Translate(Floor(a)) # None /\ IsValid(Translate(Floor(a)))

(* translated_byte_buffer gives exactly the physical bytes of the user     *)
(* range, in order: byte k of the slices is the byte that translating      *)
(* va + k on its own gives, for every range in valid pages, including      *)
(* ranges that end on a page boundary or cross one.                        *)
ByteBufferExact ==
    \A va \in VAs, len \in 0..MaxLen :
        va + len <= Cardinality(VAs) /\ RangeMapped(va, len) =>
          FlattenSeq([s \in 1..Len(TranslatedByteBuffer(va, va + len)) |->
                        LET sl == TranslatedByteBuffer(va, va + len)[s]
                        IN [k \in 1..(sl[3] - sl[2]) |-> <<sl[1], sl[2] + k - 1>>]])
            = [k \in 1..len |-> <<PpnOf(va + k - 1), PageOffset(va + k - 1)>>]

(* A struct of MaxLen bytes written through translated_struct_ptr lands    *)
(* where its bytes are mapped: byte k goes to the physical address that    *)
(* translating va + k gives (the question the hints of sys_get_time and    *)
(* sys_task_info ask about a struct split by two pages).                   *)
StructPtrInPlace ==
    \A va \in VAs :
        va + MaxLen <= Cardinality(VAs) /\ RangeMapped(va, MaxLen) =>
          \A k \in 0..(MaxLen - 1) :
             TranslatedStructPtr(va) + k = PpnOf(va + k) * PAGE_SIZE + PageOffset(va + k)

(* translated_byte_buffer unwraps translate for every page of the range,   *)
(* so a user range with a page that is not mapped makes the kernel stop    *)
(* there rather than hand out slices of some other physical page: some     *)
(* page of such a range has no translation.                               *)
UnwrapCatchesUnmapped ==
    \A va \in VAs, len \in 1..MaxLen :
        va + len <= Cardinality(VAs) /\ ~RangeMapped(va, len) =>
          \E a \in va..(va + len - 1) : Translate(Floor(a)) = None
=============================================================================
