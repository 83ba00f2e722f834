\* Two concurrent callers, each nesting up to two pins (as vfs does: the
\* inode block, then a data block inside the closure), against a two-slot
\* queue and three blocks: every miss on a full queue needs an eviction,
\* pinned entries block eviction, and the pins can outnumber the slots, so
\* "Run out of BlockCache!" is reached.  Two copy slots per block leave
\* room for the second live copy an eviction of a pinned entry would make;
\* the strong_count == 1 rule never uses it.  The panic halts the kernel,
\* so a stop there is not a deadlock.
CONSTANTS
    Threads = {t1, t2}
    Blocks = {b1, b2, b3}
    BLOCK_CACHE_SIZE = 2
    MaxPins = 2
    MaxCopies = 2
    MaxWrites = 3
SPECIFICATION Spec
INVARIANT TypeOK
INVARIANT AtMostOneLiveCopy
PROPERTY BlockStoreRefinement
CHECK_DEADLOCK FALSE
