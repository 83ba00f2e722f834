\* Two names, the root and two file inodes, blocks of two entries, one
\* direct slot and two indirect entries: the root and a file both grow
\* through indirect1, clear frees an indirect block, link binds a name
\* twice, and the data bitmap runs out.  Out of space is a kernel panic,
\* so a stop there is not a deadlock.
CONSTANTS
    Names = {n1, n2}
    NINODES = 3
    NDATA = 4
    BLOCK_SZ = 2
    DIRECT = 1
    INDIRECT1 = 2
    MaxFileSize = 3
    INODES_PER_BLOCK = 2
SPECIFICATION Spec
INVARIANT TypeOK
INVARIANT BlocksAddressedOnce
PROPERTY UnlinkRemovesFirstMatch
PROPERTY LinkNumFollowsNames
CHECK_DEADLOCK FALSE
