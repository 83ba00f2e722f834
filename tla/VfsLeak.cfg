\* Same bounds as Vfs.cfg.  unlink shrinks the root without giving back the
\* block it no longer addresses; the next create or link that grows the root
\* allocates a fresh block over that slot, and the old one is lost.
CONSTANTS
    Names = {n1, n2}
    NINODES = 3
    NDATA = 4
    BLOCK_SZ = 2
    DIRECT = 1
    INDIRECT1 = 2
    MaxFileSize = 3
    INODES_PER_BLOCK = 2
SPECIFICATION Spec
CHECK_DEADLOCK FALSE
INVARIANT NoLeak
