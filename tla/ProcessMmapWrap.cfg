\* mmap calls whose start is truncated to the VA space or whose end wraps.
\* initproc and two more task slots, so a child can fork a grandchild that
\* is handed to initproc when its parent exits; a 4-address VA space of two
\* 2-byte pages under a 3-bit usize; starts that are aligned (0, 2),
\* unaligned (1) and truncated (6 is address 2), and lengths that end
\* inside the space, round up, or wrap (2 + 3 ends at address 1); ports that
\* are valid (1, 3) and refused (8).
CONSTANTS
    Pids <- MCPids
    ExitCodes = {1}
    Prios = {1, 3}
    PAGE_SIZE = 2
    VA_WIDTH = 2
    USIZE_BITS = 3
    Ports <- MCPorts
    Starts = {0, 1, 2, 6}
    Lens = {0, 1, 3}
SPECIFICATION Spec
PROPERTY MmapMapsRequestedRange
