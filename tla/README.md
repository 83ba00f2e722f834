# TLA+ models of easy-fs and the rCore kernel services around it

These modules model the file-system stack of this repository
(`src/easy-fs/src`) and the kernel's page table (`src/os/src/mm/page_table.rs`),
and check them with TLC. They cover the block cache, the bitmap allocator,
the virtual inode layer, and the page table with its user-buffer
translation, and the process syscalls of `os/src/syscall/process.rs` (fork,
spawn, exec, exit, waitpid, set_priority, mmap, munmap) over the process tree
and each task's mmap areas.

## 1. Inventory

### Components and how they interact

| Component | Source | State | Operations that change state |
|---|---|---|---|
| Block device | `block_dev.rs` | the blocks on the device | `read_block`, `write_block` (whole blocks) |
| Block cache | `block_cache.rs` | the global `BlockCacheManager.queue` (FIFO of at most 16 `Arc<Mutex<BlockCache>>`); each entry's `cache` and `modified`; the callers' Arc clones | `get_block_cache` (hit / load / evict / panic), `modify` (via `get_mut`), Drop of the last Arc (`sync`), `block_cache_sync_all` |
| Bitmap | `bitmap.rs` | the u64 words of the bitmap blocks, reached through the cache | `alloc`, `dealloc` |
| EasyFileSystem | `efs.rs` (not in the sources) | the inode and data bitmaps | `alloc_inode`, `alloc_data`, `dealloc_data` |
| DiskInode | `layout.rs` (not in the sources) | size, direct slots, indirect1 and indirect2 | `increase_size`, `clear_size`, `write_at` |
| Inode (VFS) | `vfs.rs` | none of its own beyond a handle (block id and offset); it changes the root DiskInode, the directory entries and the bitmaps | `create`, `link`, `unlink`, `write_at`, `clear`; the reads `find`, `ls`, `read_at`, `get_link_num` |
| Kernel fs / stdio | `os/src/fs` | the console's input queue and output; the tasks blocked in `Stdin::read` | `Stdin::read` (poll, suspend, retry), `Stdout::write` |
| Process syscalls | `os/src/syscall/process.rs` | each task's status, parent, children list, exit code, priority and mmap areas | `sys_fork`, `sys_spawn`, `sys_exec`, `sys_exit`, `sys_waitpid`, `sys_set_priority`, `sys_mmap`, `sys_munmap`; the reads `sys_get_time`, `sys_task_info`, `sys_getpid`, and `sys_yield`, `sys_sbrk` |
| Page table | `os/src/mm/page_table.rs` | the 3-level page table and its frames | `map`, `unmap`, `translate`, `translated_byte_buffer` |

Every `Inode` method takes the `EasyFileSystem` Mutex for its whole body and
calls into DiskInode, EasyFileSystem and Bitmap. All of these read and write
blocks only through `get_block_cache(..).lock().modify/read(..)`, and they
flush with `block_cache_sync_all`. The cache manager has its own global lock,
and each entry has its own Mutex.

### Hard behaviours

- An entry is evicted only when `Arc::strong_count == 1`, so the queue's Arc
  is the last one and `drain` drops it, writing a dirty entry back before the
  block can be loaded again. Evicting a pinned entry instead would leave a
  second live copy of the block, whose writes are lost or overwritten.
- Nested `get_block_cache` calls inside `modify` closures accumulate pins, and
  a miss on a fully pinned queue panics.
- Bitmap index arithmetic (`block*BLOCK_BITS + word*64 + bit`) must invert
  `decomposition`. `dealloc` relies on an assert to avoid a borrow into
  neighbouring bits.
- `unlink` swaps the last entry in and shrinks the size, but keeps the blocks.
  `link` appends without a uniqueness check. Neither syncs.
- Handles outlive their names, so `write_at` or `clear` can run on an unlinked
  inode.

The hazards, each at its line, are in `PROJECT.json` ("hazards").

## 2. Modules

| Module | Models | Composes |
|---|---|---|
| `BlockStore` | the abstract promise of the cache: one current content per block; writes are the only change | — |
| `BlockCache` | `block_cache.rs`: manager queue, entries as objects `<<block, copy>>`, per-caller pin stacks, disk | instantiates `BlockStore` through the refinement mapping `View` |
| `Bitmap` | `bitmap.rs`: alloc/dealloc on words modulo 2^BITS | — |
| `Vfs` | `vfs.rs` over the root directory, with DiskInode and EasyFileSystem modelled from the spec | — |
| `PageMap` | the abstract promise of a page table: a partial map from pages to <<ppn, permissions>> | — |
| `PageTable` | `page_table.rs`: frames of entries stored as `ppn << 10 \| flags`, recursive walks, map/unmap, and the user-buffer translations | instantiates `PageMap` through the refinement mapping `View` |
| `Stdio` | `stdio.rs`: Stdin's poll-and-suspend loop for several reader tasks, and Stdout's per-slice UTF-8 check over page-split buffers | — |
| `ProcessSyscalls` | `process.rs`: the process tree through fork/spawn/exit/waitpid, priorities, and mmap/munmap over a wrapping VA space | — |
| `MCBlockCache`, `MCBitmap`, `MCVfs`, `MCPageTable`, `MCStdio`, `MCProcessSyscalls` | TLC entry points (extend the module; constants are given in the .cfg files) | |

### How the state and actions map to the code

**BlockCache.**
- `queue` is `BlockCacheManager.queue`. `buf[e]` and `modified[e]` are the fields
  of entry object `e`.
- `pins[t]` is the stack of Arc clones that caller `t` holds. Nested
  temporaries are dropped innermost first.
- `StrongCount` is the queue's Arc plus the pins.
- Actions:
  - `GetHit`, `GetMissLoad`, `GetMissEvict` and `GetExhausted` are the four
    paths of `get_block_cache`.
  - `Modify` is `modify`/`get_mut`.
  - `Release` is dropping an Arc. The Drop of the last one syncs.
  - `SyncAll` is `block_cache_sync_all`, a fold of `sync` over the queue.
- Block contents are write stamps, so a lost or resurrected write shows up as
  a wrong value.

**Bitmap.**
- `bm[k][w]` is word `w` of bitmap block `k`.
- `owned` is a history variable holding the units handed out and not freed.
- `Alloc` is first block → first non-full word → `trailing_ones`.
  `Dealloc(u)` is `decomposition`, the assert, and the subtraction. A failed
  assert sets `panicked`.

**Vfs.**
- `inodes[i]` is the DiskInode: size, direct and indirect1 slots, and
  `ind1`.
- `inodeUsed` and `dataUsed` are the two bitmaps.
- `dirents` is the content of the root directory.
- `fatal` records a kernel panic: "exhausted" for an `unwrap` on a full
  bitmap, "corrupt" for an assert.
- Actions:
  - `Create`, `Link`, `Unlink`, `WriteAt` and `Clear` are the Inode methods,
    each taken whole. `WriteAt` and `Clear` may act on any allocated inode,
    including unlinked ones.
  - `Exhausted` is a create, link or write whose allocation panics.
- `GetLinkNum(pos)` is `get_link_num`: it recounts the entries whose inode
  lies at `pos`. `DiskInodePos` stands for `get_disk_inode_pos` (efs.rs, from
  the spec), with `INODES_PER_BLOCK` DiskInodes in each block, so several
  inodes share a block.

**PageTable.**
- `mem[f][i]` is the usize of entry `i` of page-table frame `f`.
  `NewPte`, `PPN`, `Flags` and `IsValid` are the code's shifts and masks,
  written as arithmetic.
- `root` and `frames` are the fields of `PageTable`. `free` stands for
  `frame_alloc` (not in the sources); it is taken to hand out the least free
  frame, zeroed.
- `FindWalk` is `find_pte` and `CreateWalk` is `find_pte_create`. Both are
  RECURSIVE over the three levels.
- `Map` and `Unmap` are the methods as whole steps, including their
  `unwrap` and assert panics. `VirtPageNum::indexes` (not in the sources) is
  taken to give the three base-IDX digits of the page number.
- `TranslatedByteBuffer` and `TranslatedStructPtr` are the two user-pointer
  helpers. They are checked against a per-byte reference: translate each
  byte's page on its own.

**Stdio.**
- `input` is the console's queue of typed bytes. `ntyped` counts the keys
  typed, against the bound `MaxTyped`, and `got` holds the bytes the reads
  stored, in return order.
- `pc[r]` says where reader task `r` is in `Stdin::read`: "idle", "polling"
  (about to call `console_getchar`) or "suspended" (inside
  `suspend_current_and_run_next`).
- Actions:
  - `ReadStart` is the `assert_eq!` on the buffer length.
  - `Poll` is one turn of the loop. A 0 suspends the task; any other byte is
    stored and the read returns 1. `GetChar` is `console_getchar`, which gives
    0 when nothing is queued.
  - `Resume` is the scheduler running the task again (`continue`).
  - `Write` is `Stdout::write`. `Pieces` cuts the string's bytes where
    `translated_byte_buffer` cuts them, at page ends. Each piece goes through
    `from_utf8`, modelled over byte classes (ascii, lead, continuation) by
    `IsUtf8`. The first invalid piece panics, after the earlier pieces have
    been printed.
  - `Type` is the user pressing a key.

**ProcessSyscalls.**
- `status[p]` is "unused" (free pid slot), "alive" or "zombie". `parent`,
  `children` (the `Vec`, in order), `code` (exit code) and `prio`
  (`pro_lev`) are the task control block's fields. `mapped[p][v]` is the
  `MapPermission` bits of page `v` in task `p`'s mmap areas, or `NoPerm`.
- Each syscall runs on the current task without preemption, so it is one
  step, taken by any live task.
- Actions:
  - `Fork` and `Spawn` put a child in the least free slot (`NewChild`);
    fork copies the memory set, spawn starts with none.
  - `Exec` replaces the memory set. `Exit` is `exit_current_and_run_next`:
    the task becomes a zombie, its children go to initproc (pid 0), its
    pages are freed.
  - `Waitpid` is the success path of `sys_waitpid`: `WaitpidIdx` is the
    `find` for the first zombie child matching `pid`; the child is removed
    and, its last Arc gone, the slot is free. The -1 and -2 returns change
    nothing and are stutters.
  - `SetPriority` refuses priorities below 2.
  - `Mmap` is `sys_mmap`: `MmapResult` is its checks in order (zero
    length, port bits, alignment, `check_maparea` conflict), and a 0 maps
    `AreaPages(VA(start), VA(start + len))` with `MapPermOf(port)`.
    `Munmap` is `sys_munmap` with `remove_maparea`'s all-mapped test.
- The task manager, `TaskControlBlock::fork`/`spawn`, `exit_current_and_run_next`
  and the memory-set helpers are not in the sources. The module header lists
  the behaviour taken for each, from the rCore code these syscalls call.
- `VirtAddr::from` keeps the low `VA_WIDTH` bits, and `start + len` wraps at
  `USIZE_BITS` (release build). With `USIZE_BITS` 3 and `VA_WIDTH` 2, both
  wraps are reached with one-digit addresses.

## 3. Runs

| Run | cfg | Bounds | Checks |
|---|---|---|---|
| `cache_concurrent` | `BlockCache.cfg` | 2 callers, 3 blocks, queue of 2, 2 nested pins each, 2 copies, 3 writes | `TypeOK`, `AtMostOneLiveCopy`, `BlockStoreRefinement` |
| `bitmap` | `Bitmap.cfg` | 2 blocks × 2 words × 2 bits | `TypeOK`, `Accounting`, `AllocFirstFit` |
| `vfs_ops` | `Vfs.cfg` | 2 names, 3 inodes (2 per inode block), 4 data blocks, 2 entries per block, 1 direct + 2 indirect1 slots, files up to 3 units | `TypeOK`, `BlocksAddressedOnce`, `UnlinkRemovesFirstMatch`, `LinkNumFollowsNames` |
| `page_table` | `PageTable.cfg` | 2 entries per frame (8 pages, 3 levels), 5 page-table frames, 2 data frames, 2-byte pages, buffers up to 3 bytes | `TypeOK`, `FramesOwned`, `ByteBufferExact`, `PageMapRefinement` |
| `page_table_unmapped_leaf` | `PageTableUnmapped.cfg` | as `page_table`, buffers up to 2 bytes | `UnwrapCatchesUnmapped`, violated |
| `vfs_dir_block_leak` | `VfsLeak.cfg` | as `vfs_ops` | `NoLeak`, violated |
| `vfs_link_duplicate_name` | `VfsLinkDup.cfg` | as `vfs_ops` | `UniqueNames`, violated |
| `stdio` | `Stdio.cfg` | 2 readers, 3 keys from {97, 98}, 1 write of up to 2 characters (one- or two-byte) at each offset of a 2-byte page | `TypeOK` |
| `stdout_utf8_page_split` | `StdioUtf8.cfg` | as `stdio` | `WriteNeverPanics`, violated |
| `process_syscalls` | `ProcessSyscalls.cfg` | 3 pid slots, 1 exit code, priorities {1, 3}, 4 pages of 2 bytes, 3-bit usize, starts {0, 1, 2, 6}, lengths {0, 1, 3}, ports {1, 3, 8} | `TypeOK`, `TreeConsistent` |
| `mmap_wraps` | `ProcessMmapWrap.cfg` | as `process_syscalls` | `MmapMapsRequestedRange`, violated |

**Why the bounds are enough.**

The cache:
- A queue of 2 with 3 blocks forces evictions.
- Two callers with up to 2 nested pins each hold entries the eviction scan
  must skip, so the victim is not always the front entry. Two copy slots per
  block leave room for the second live copy that evicting a pinned entry
  would create; the code's `strong_count == 1` rule never uses it, and
  `AtMostOneLiveCopy` checks that.
- Up to 4 pins exceed the 2 slots, so the exhaustion panic is reached.

The bitmap:
- 2 bits per word and 2 words per block exercise every boundary of
  `decomposition`: a bit inside a word, a word inside a block, and a block.

The page table:
- A full tree of 8 pages needs 7 frames. With 5, both the frame-exhaustion
  panic and tables shared by neighbouring pages are reached.
- 2-byte pages and 3-byte buffers produce buffers that end on a boundary,
  cross one, and cross two leaf tables.

The VFS:
- With 2 entries per block, the root crosses from a direct block into
  indirect1 at its third entry.
- With 3 inodes, two files can be created and both linked.
- With 4 data blocks, a file or the root can exhaust the data bitmap.
- With 2 inodes per inode block, inodes 0 and 1 share a block. A recount that
  matched block ids alone would then count a neighbour's names.

The process syscalls:
- 3 pid slots give initproc a child and a grandchild, so exit hands a live
  child to initproc and waitpid has a choice of children to match.
- 4 pages of 2 bytes, starts {0, 1, 2, 6} and lengths {0, 1, 3} give an
  aligned and an unaligned start, areas of one and of two pages, overlapping
  areas, an end past the VA space (6 + 3 wraps to 1) and a start beyond it
  (6 is truncated to 2). Ports {1, 3, 8} give a valid read-only and
  read-write port and one with a reserved bit.

Stdio:
- Two readers let one task take the key another was polling for, and then
  suspend again. Three keys let a key wait while both readers are suspended.
- 2-byte pages and 2-character strings put a two-byte character across a page
  end at offset 1.

**Fairness.** No run assumes fairness, and none checks liveness. The
candidates are not justified by the sources:
- A dirty cache entry reaches the device only through the Drop of its last
  Arc or `block_cache_sync_all`. `link` and `unlink` never call sync-all,
  and nothing in the sources calls it periodically, so "every write is
  eventually durable" would hold only under a fairness the code does not
  give.
- A reader suspended in `Stdin::read` runs again only if the scheduler
  requeues it. `suspend_current_and_run_next` is not in the sources, so a
  liveness property there would restate the fairness assumed for it.

The runs with `CHECK_DEADLOCK FALSE` halt on a panic, or stop when their write
bound is used up. Those are terminal states the code really reaches, not
deadlocks.

### Findings

Finding 3 is in the page table, 4 in stdio and 5 in the process syscalls.

1. **Directory block leak** (`vfs.rs:244`). `unlink` lowers the root's size
   but keeps its block ids. The next `create` or `link` grows the root again,
   and `increase_size` allocates fresh blocks into the same slots. The old
   blocks stay allocated in the bitmap with no inode recording them. TLC's
   shortest trace is create(n1), unlink(n1), create(n1).
2. **Duplicate names via link** (`vfs.rs:204`). `link` never checks that
   `new` is absent. The spec requires names to be unique among a directory's
   entries.
3. **Unmapped page read as page 0** (`page_table.rs:171`, `:191`). `translate`
   returns `Some` of an invalid leaf entry whenever the leaf table exists, so
   `translated_byte_buffer`'s `unwrap` does not stop at an unmapped user page
   next to a mapped one. The slice it returns is physical page 0.
4. **UTF-8 split at a page boundary** (`stdio.rs:62`). `Stdout::write` runs
   `from_utf8(..).unwrap()` on each page-sized slice. A valid two-byte
   character that straddles two pages panics the kernel. TLC's trace is a
   single write of that character at the last byte of a page.
5. **mmap maps a range other than the one asked for** (`process.rs:190`).
   `sys_mmap` builds its area from `VirtAddr::from(start)` and
   `VirtAddr::from(start + len)`. Both keep only the VA bits, and the sum
   wraps in a release build. A start beyond the VA space is silently moved
   down, and an area whose end wraps has its end below its start, so
   `add_maparea` maps nothing or the wrong pages. The call still returns 0.
   TLC's shortest trace is a single `mmap(6, 1, 1)`: `VirtAddr::from`
   truncates 6 to 2, page 1 is mapped and 0 is returned, while address 6 is
   outside the VA space. The overflow of `start + len` is the same failure
   reached from the end of the area; the trace does not need it.

A further edge in the page table is not a run. `translated_struct_ptr`
(`page_table.rs:215`) translates only the first byte's page, so a struct
that crosses a page boundary lands partly in the physical page after that
one. `StructPtrInPlace` in `PageTable.tla` states the in-place property; it
is violated with a 2-byte struct at the last byte of a page. The function is
unused in these sources, so the bug is latent.
A further edge in stdio is not a run. `console_getchar` returns 0 for "no
character" (`stdio.rs:29`), and a typed NUL byte is also 0, so `Poll`
consumes a NUL and suspends instead of delivering it. Whether the SBI console
can deliver a 0 key depends on `sbi.rs`, which is not in the sources.

An observation no run checks: `link` and `unlink` (`vfs.rs:210`, `:250`)
return without `block_cache_sync_all`, so the root's changes stay dirty in
the cache until a later create, write_at or clear syncs. Spec §7 asks for
structural changes to be flushed. `Vfs` does not compose the block cache, so
it has no state that tells a synced change from an unsynced one, and a flag
set by hand would only restate the missing call.


## 4. Not modelled, and why

- **The block device** is only the `disk` variable. It has no logic.
- **DirEntry encoding, byte contents of files, DiskInode read/write_at** are
  data and formatting. File content is abstracted away. A later sitting adds
  a write/read round-trip property.
- **indirect2** is out of reach of small bounds and is left out of the model.
  Sizes are not kept at u32 width, so the truncation at `vfs.rs:170` is not
  checked. It bites only past 4 GiB, far beyond what one DiskInode can
  address. A reduced width would put the wrap below the capacity, which is a
  case the code cannot reach.
- **The per-entry Mutex** is folded into atomic steps, so the lock-order
  inversion between `block_cache_sync_all` and a nested `get_block_cache`
  inside `modify` is not checked. `block_cache_sync_all` takes the manager
  lock, then entry locks. The nested call holds an entry lock, then takes the
  manager lock. Three things keep the inversion from mattering here:
  - the kernel runs on one hart without preemption in kernel mode;
  - every vfs call takes the EasyFileSystem Mutex first;
  - the nested acquisitions touch disjoint regions.

  A lock model would only explore orderings no caller in these sources
  produces.
- **The rest of the process syscalls**: `sys_get_time`, `sys_task_info` and
  `sys_getpid` only read (the first two write a struct through
  `translated_refmut`, which is not in the sources). `sys_yield` is the
  scheduler's choice, which the model already makes by letting any live task
  take the next step. `sys_sbrk` is a call to `change_program_brk`, which is
  not in the sources. The failure paths of fork and spawn (no free pid,
  `open_file` returning None) return an error and change nothing.
- **`Stdin::write`, `Stdout::read` and the File trait** (`os/src/fs`): the
  first two only panic, and the syscall layer that would call them despite
  `readable()`/`writable()` is not in the sources. The trait and `Stat` hold
  no state.
- **`PageTable::token`/`from_token`**: they convert the root ppn to and from
  `satp`, with numbers beyond TLC's integer range. Nothing else in the model
  depends on them.

## 5. Plan for later work

1. An abstract directory specification (a map from names to inodes), with
   `Vfs` refining it where the code agrees.
2. File contents: write_at/read_at round trip (DiskInode::read_at/write_at
   are not in the sources, so this would be modelled from the spec).
3. Larger page-table instances (more levels' worth of sharing, several data
   permissions) if TLC time allows.
4. Process syscalls: a liveness check that a zombie is eventually reaped
   under a fair parent, and an abstract memory-set specification (a map
   from pages to permissions) that `Mmap`/`Munmap` refine.
