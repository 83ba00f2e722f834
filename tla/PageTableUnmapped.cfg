\* A user buffer over a page whose leaf entry is present but not valid.
CONSTANTS
    IDX = 2
    PTFrames <- MCPTFrames
    DataPPNs <- MCDataPPNs
    Perms <- MCPerms
    PAGE_SIZE = 2
    MaxLen = 2
    None = None
    Unmapped = Unmapped
SPECIFICATION Spec
INVARIANT UnwrapCatchesUnmapped
\* map and unmap panic on a misuse, and a panicked kernel takes no step.
CHECK_DEADLOCK FALSE
