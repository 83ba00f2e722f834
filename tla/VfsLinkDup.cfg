\* Same bounds as Vfs.cfg.  link appends an entry for the new name without
\* looking it up first, so a name already in the directory is bound twice.
CONSTANTS
    Names = {n1, n2}
    NINODES = 3
    NDATA = 4
    BLOCK_SZ = 2
    DIRECT = 1
    INDIRECT1 = 2
    MaxFileSize = 3
    INODES_PER_BLOCK = 2
SPECIFICATION Spec
CHECK_DEADLOCK FALSE
INVARIANT UniqueNames
