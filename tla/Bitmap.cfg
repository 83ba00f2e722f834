\* Two bitmap blocks of two 2-bit words: 8 units, so the scan crosses words
\* and blocks, fills the region and returns None.  Callers free any unit,
\* double frees included; the assert's panic halts the kernel, so a stop
\* there is not a deadlock of the allocator.
CONSTANTS
    BLOCKS = 2
    WORDS = 2
    BITS = 2
    None = None
SPECIFICATION Spec
INVARIANT TypeOK
INVARIANT Accounting
PROPERTY AllocFirstFit
CHECK_DEADLOCK FALSE
