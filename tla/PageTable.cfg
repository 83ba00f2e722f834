\* A page table with 2 entries per frame (8 pages, 3 levels) and 2-byte
\* pages, so that a 3-byte buffer crosses a page boundary.
CONSTANTS
    IDX = 2
    PTFrames <- MCPTFrames
    DataPPNs <- MCDataPPNs
    Perms <- MCPerms
    PAGE_SIZE = 2
    MaxLen = 3
    None = None
    Unmapped = Unmapped
SPECIFICATION Spec
INVARIANT TypeOK
INVARIANT FramesOwned
INVARIANT ByteBufferExact
PROPERTY PageMapRefinement
\* map and unmap panic on a misuse, and a panicked kernel takes no step.
CHECK_DEADLOCK FALSE
