-------------------------------- MODULE Vfs ---------------------------------
(***************************************************************************)
(* The virtual inode layer of easy-fs (src/easy-fs/src/vfs.rs) over the    *)
(* root directory, with the on-disk inode format (DiskInode) and the      *)
(* allocation authority (EasyFileSystem) it calls.  Those two live in     *)
(* layout.rs and efs.rs, which are not in this repository's sources: they *)
(* are modelled from the spec (sections 4.3 and 4.4).                      *)
(*                                                                         *)
(* Every Inode method takes the EasyFileSystem Mutex for its whole body,  *)
(* so each call is one step.  Sizes are in units of one directory entry   *)
(* (DIRENT_SZ = 1); a block holds BLOCK_SZ units.  Block contents are     *)
(* abstracted away except for directory entries, kept as the sequence of  *)
(* <<name, inode id>> records the root's first size units hold.  A fatal  *)
(* panic halts the kernel: "exhausted" for an alloc unwrap on a full      *)
(* bitmap, "corrupt" for an assert or a missing block id.                 *)
(***************************************************************************)
EXTENDS Integers, Sequences, SequencesExt, FiniteSetsExt, Bags

CONSTANTS Names,        \* file names
          NINODES,      \* inode slots of the inode bitmap
          NDATA,        \* data blocks of the data bitmap, ids 1..NDATA
          BLOCK_SZ,     \* units per block
          DIRECT,       \* INODE_DIRECT_COUNT
          INDIRECT1,    \* INODE_INDIRECT1_COUNT
          MaxFileSize,  \* largest offset + len a write_at asks for
          INODES_PER_BLOCK  \* DiskInodes in one block of the inode area

ASSUME DIRECT \in Nat \ {0} /\ INDIRECT1 \in Nat \ {0} /\ BLOCK_SZ \in Nat \ {0}

VARIABLES inodes,     \* inodes[i]: the DiskInode of inode id i
          inodeUsed,  \* inode bitmap: ids allocated
          dataUsed,   \* data bitmap: block ids allocated
          dirents,    \* the root directory's live entries, in storage order
          fatal       \* "none", "exhausted" or "corrupt"

vars == <<inodes, inodeUsed, dataUsed, dirents, fatal>>

InodeIds == 0..(NINODES - 1)
ROOT     == 0
DataIds  == 1..NDATA
NULL     == 0                       \* an unset block id in a DiskInode
MAXB     == DIRECT + INDIRECT1      \* data blocks one inode can address
Slots    == 1..MAXB
NoInode  == NINODES                 \* None of find_inode_id

EmptyInode(isDir) ==
    [size |-> 0, dir |-> isDir, slot |-> [k \in Slots |-> NULL], ind1 |-> NULL]

(*************************** DiskInode (spec) ******************************)
DataBlocks(size)  == (size + BLOCK_SZ - 1) \div BLOCK_SZ
TotalBlocks(size) ==
    DataBlocks(size) + (IF DataBlocks(size) > DIRECT THEN 1 ELSE 0)
BlocksNumNeeded(di, newSize) == TotalBlocks(newSize) - TotalBlocks(di.size)

\* DiskInode::increase_size: the ids fill the direct slots after the
\* current ones, then indirect1 if it is first needed, then its entries.
IncreaseSize(di, newSize, ids) ==
    LET cur    == DataBlocks(di.size)
        tot    == DataBlocks(newSize)
        newInd == cur <= DIRECT /\ tot > DIRECT
        at(k)  == IF k <= DIRECT THEN k - cur ELSE k - cur + (IF newInd THEN 1 ELSE 0)
    IN [di EXCEPT !.size = newSize,
                  !.slot = [k \in Slots |-> IF cur < k /\ k <= tot THEN ids[at(k)] ELSE @[k]],
                  !.ind1 = IF newInd THEN ids[DIRECT - cur + 1] ELSE @]

\* DiskInode::clear_size: the data blocks addressed and indirect1 if used,
\* with the direct slots and indirect1 reset; size becomes 0.
ClearedBlocks(di) ==
    [k \in 1..DataBlocks(di.size) |-> di.slot[k]]
      \o (IF DataBlocks(di.size) > DIRECT THEN <<di.ind1>> ELSE <<>>)
ClearSize(di) ==
    LET d == DataBlocks(di.size) IN
    [di EXCEPT !.size = 0,
               !.slot = [k \in Slots |-> IF k <= d \/ (k > DIRECT /\ d > DIRECT) THEN NULL ELSE @[k]],
               !.ind1 = IF d > DIRECT THEN NULL ELSE @]

(************************ EasyFileSystem (spec) ****************************)
\* n successive alloc_data calls: the n least free ids, in order.
AllocData(n) == SetToSortSeq(
    CHOOSE S \in SUBSET (DataIds \ dataUsed) :
        Cardinality(S) = n /\ \A x \in S, y \in (DataIds \ dataUsed) \ S : x < y,
    LAMBDA x, y : x < y)
CanAllocData(n) == Cardinality(DataIds \ dataUsed) >= n
AllocInode == Min(InodeIds \ inodeUsed)
\* get_disk_inode_pos: the (block id, offset) of inode id in the inode
\* area (offsets in units of one DiskInode; the area starts at block 1).
DiskInodePos(id) == <<1 + id \div INODES_PER_BLOCK, id % INODES_PER_BLOCK>>

(******************************* vfs.rs ************************************)
\* Mutant: the loop index of the match is returned, not its inode id.
FindInodeIdPosition(name) == SelectInSeq(dirents, LAMBDA e : e[1] = name)

\* find_inode_id: the inode id of the first entry named name.
FindInodeId(name) ==
    LET i == SelectInSeq(dirents, LAMBDA e : e[1] = name)
    IN IF i = 0 THEN NoInode ELSE dirents[i][2]

\* The ids Inode::increase_size allocates to grow di to newSize, and
\* whether the data bitmap can serve them.
GrowIds(di, newSize) == AllocData(BlocksNumNeeded(di, newSize))
GrowFits(di, newSize) == CanAllocData(BlocksNumNeeded(di, newSize))

\* Mutant: unlink shrinks the directory without moving the last entry.
UnlinkDirentsNoSwap(d, i) == SubSeq(d, 1, Len(d) - 1)

\* Unlink's loop body at the first match i: copy the last record over it,
\* then shrink by one record.
UnlinkDirents(d, i) == SubSeq(ReplaceAt(d, i, d[Len(d)]), 1, Len(d) - 1)

\* Mutant: only the block ids are compared, not the offsets.
GetLinkNumBlockOnly(pos) ==
    Cardinality({k \in 1..Len(dirents) : DiskInodePos(dirents[k][2])[1] = pos[1]})

\* get_link_num(block_id, block_offset): the root's entries whose inode
\* lies at that position, recounted on each call.
GetLinkNum(pos) ==
    Cardinality({k \in 1..Len(dirents) : DiskInodePos(dirents[k][2]) = pos})

Init == /\ inodes = [i \in InodeIds |-> EmptyInode(i = ROOT)]
        /\ inodeUsed = {ROOT}
        /\ dataUsed = {}
        /\ dirents = <<>>
        /\ fatal = "none"

\* Append entry <<name, id>> to the root (the common tail of create and
\* link): grow the root by one record, allocating its blocks, write it.
AppendDirent(name, id, inos) ==
    LET root == inodes[ROOT]
        ns   == Len(dirents) + 1
        ids  == GrowIds(root, ns)
    IN /\ inodes' = [inos EXCEPT ![ROOT] = IncreaseSize(root, ns, ids)]
       /\ dataUsed' = dataUsed \cup ToSet(ids)
       /\ dirents' = Append(dirents, <<name, id>>)

(* Inode::create on a name not in the root: allocate and initialise an   *)
(* inode, append its entry, block_cache_sync_all.                          *)
Create(name) ==
    /\ fatal = "none"
    /\ FindInodeId(name) = NoInode
    /\ inodeUsed # InodeIds
    /\ GrowFits(inodes[ROOT], Len(dirents) + 1)
    /\ LET new == AllocInode IN
       /\ inodeUsed' = inodeUsed \cup {new}
       /\ AppendDirent(name, new, [inodes EXCEPT ![new] = EmptyInode(FALSE)])
    /\ UNCHANGED fatal

(* Inode::link on an existing old name: append an entry binding new to    *)
(* old's inode id.  No check on new; no block_cache_sync_all.              *)
Link(old, new) ==
    /\ fatal = "none"
    /\ FindInodeId(old) # NoInode
    /\ GrowFits(inodes[ROOT], Len(dirents) + 1)
    /\ AppendDirent(new, FindInodeId(old), inodes)
    /\ UNCHANGED <<inodeUsed, fatal>>

(* Inode::unlink on an existing name: swap-with-last-then-shrink of the   *)
(* first matching entry.  The root's blocks and the target inode are left *)
(* as they are; no block_cache_sync_all.                                   *)
Unlink(name) ==
    /\ fatal = "none"
    /\ FindInodeId(name) # NoInode
    /\ LET i == SelectInSeq(dirents, LAMBDA e : e[1] = name) IN
       dirents' = UnlinkDirents(dirents, i)
    /\ inodes' = [inodes EXCEPT ![ROOT].size = @ - 1]
    /\ UNCHANGED <<inodeUsed, dataUsed, fatal>>

(* Inode::write_at on a file handle with offset + len = newSize: grow it  *)
(* if needed, write, block_cache_sync_all.                                 *)
WriteAt(ino, newSize) ==
    /\ fatal = "none"
    /\ ino \in inodeUsed /\ ~inodes[ino].dir
    /\ LET di == inodes[ino] IN
       IF newSize < di.size
         THEN UNCHANGED <<inodes, dataUsed>>
         ELSE /\ GrowFits(di, newSize)
              /\ inodes' = [inodes EXCEPT ![ino] =
                               IncreaseSize(di, newSize, GrowIds(di, newSize))]
              /\ dataUsed' = dataUsed \cup ToSet(GrowIds(di, newSize))
    /\ UNCHANGED <<inodeUsed, dirents, fatal>>

\* Mutant: clear frees the blocks but leaves the inode's size and slots.
ClearKeepingSize(ino) ==
    /\ fatal = "none"
    /\ ino \in inodeUsed /\ ~inodes[ino].dir
    /\ LET freed == ClearedBlocks(inodes[ino]) IN
       IF ToSet(freed) \subseteq dataUsed
         THEN /\ dataUsed' = dataUsed \ ToSet(freed)
              /\ UNCHANGED fatal
         ELSE /\ fatal' = "corrupt"
              /\ UNCHANGED dataUsed
    /\ UNCHANGED <<inodes, inodeUsed, dirents>>

(* Inode::clear on a file handle: clear_size, assert the count matches    *)
(* total_blocks(size), dealloc_data each block (the bitmap asserts it was *)
(* set), block_cache_sync_all.                                             *)
Clear(ino) ==
    /\ fatal = "none"
    /\ ino \in inodeUsed /\ ~inodes[ino].dir
    /\ LET di    == inodes[ino]
           freed == ClearedBlocks(di)
       IN IF /\ Len(freed) = TotalBlocks(di.size)
             /\ ToSet(freed) \subseteq dataUsed
             /\ Cardinality(ToSet(freed)) = Len(freed)
            THEN /\ inodes' = [inodes EXCEPT ![ino] = ClearSize(di)]
                 /\ dataUsed' = dataUsed \ ToSet(freed)
                 /\ UNCHANGED fatal
            ELSE /\ fatal' = "corrupt"
                 /\ UNCHANGED <<inodes, dataUsed>>
    /\ UNCHANGED <<inodeUsed, dirents>>

(* An allocation the bitmaps cannot serve: alloc_inode or alloc_data      *)
(* unwraps None inside create, link or write_at.                           *)
Exhausted ==
    /\ fatal = "none"
    /\ \/ \E n \in Names :
             /\ FindInodeId(n) = NoInode
             /\ inodeUsed = InodeIds \/ ~GrowFits(inodes[ROOT], Len(dirents) + 1)
       \/ \E o \in Names :
             FindInodeId(o) # NoInode /\ ~GrowFits(inodes[ROOT], Len(dirents) + 1)
       \/ \E i \in inodeUsed, s \in 1..MaxFileSize :
             ~inodes[i].dir /\ s >= inodes[i].size /\ ~GrowFits(inodes[i], s)
    /\ fatal' = "exhausted"
    /\ UNCHANGED <<inodes, inodeUsed, dataUsed, dirents>>

Next ==
    \/ \E n \in Names : Create(n) \/ Unlink(n)
    \/ \E o, n \in Names : Link(o, n)
    \/ \E i \in InodeIds, s \in 1..MaxFileSize : WriteAt(i, s)
    \/ \E i \in InodeIds : Clear(i)
    \/ Exhausted

Spec == Init /\ [][Next]_vars

-----------------------------------------------------------------------------
TypeOK ==
    /\ inodes \in [InodeIds -> [size : Nat, dir : BOOLEAN,
                                slot : [Slots -> {NULL} \cup DataIds],
                                ind1 : {NULL} \cup DataIds]]
    /\ inodeUsed \subseteq InodeIds /\ ROOT \in inodeUsed
    /\ dataUsed \subseteq DataIds
    /\ dirents \in Seq(Names \X InodeIds)
    /\ fatal \in {"none", "exhausted", "corrupt"}

\* Positions through which inode i addresses a block within its size:
\* k > 0 the k-th data block, 0 the indirect1 block.
Addressed(i) ==
    1..DataBlocks(inodes[i].size)
      \cup (IF DataBlocks(inodes[i].size) > DIRECT THEN {0} ELSE {})
BlockAt(p) == IF p[2] = 0 THEN inodes[p[1]].ind1 ELSE inodes[p[1]].slot[p[2]]

(* Exactly-once ownership of data blocks across create, link, unlink,     *)
(* write_at and clear, through hard links and stale handles: every block  *)
(* an inode addresses is allocated in the data bitmap and addressed from  *)
(* no other position of any inode.                                         *)
BlocksAddressedOnce ==
    LET P == {<<i, k>> : i \in inodeUsed, k \in 0..MAXB}
        A == {p \in P : p[2] \in Addressed(p[1])}
    IN \A p \in A : /\ BlockAt(p) \in dataUsed
                    /\ \A q \in A : BlockAt(p) = BlockAt(q) => p = q

(* unlink(name) removes exactly one record, the first one named name, and *)
(* every other record (duplicates included) is still in the directory,    *)
(* in whatever order the swap leaves them (spec, section 8).               *)
UnlinkRemovesFirstMatch ==
    [][\A n \in Names :
         Unlink(n) =>
           LET i == SelectInSeq(dirents, LAMBDA e : e[1] = n)
           IN ToBag(dirents') = ToBag(dirents) (-) SetToBag({dirents[i]})]_vars

(* Names are unique among a directory's live entries (spec, section 3).   *)
UniqueNames ==
    \A i, j \in 1..Len(dirents) : dirents[i][1] = dirents[j][1] => i = j

(* No allocated data block is lost: each one is recorded in some block    *)
(* slot of some allocated inode, so a later clear could free it.           *)
NoLeak ==
    \A b \in dataUsed : \E i \in inodeUsed :
        b \in Range(inodes[i].slot) \cup {inodes[i].ind1}

(* get_link_num follows the names: a link(old, new) raises the count at   *)
(* old's inode position by one, an unlink(name) lowers the count at       *)
(* name's inode position by one, and neither changes the count of any     *)
(* other inode (spec, section 8, link accounting).                         *)
\* The count get_link_num reports for inode i.
LinkCount(i) == GetLinkNum(DiskInodePos(i))

\* A step that moves the count of inode i by d (1 up, -1 down) and no other.
CountMoves(i, d) ==
    /\ LinkCount(i)' = LinkCount(i) + d
    /\ \A j \in InodeIds \ {i} : LinkCount(j)' = LinkCount(j)

LinkNumFollowsNames ==
    [][\A i \in InodeIds :
         /\ (\E o, n \in Names : Link(o, n) /\ FindInodeId(o) = i) => CountMoves(i, 1)
         /\ (\E n \in Names : Unlink(n) /\ FindInodeId(n) = i) => CountMoves(i, -1)]_vars
=============================================================================
