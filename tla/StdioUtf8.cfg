\* Writes of one- and two-byte characters at every page offset.
CONSTANTS Readers = {r1, r2}
          Keys <- MCKeys
          MaxTyped = 3
          Ascii = {a}
          Wide = {w}
          MaxChars = 2
          PAGE_SIZE = 2
          MaxWrites = 1
SPECIFICATION Spec
INVARIANT WriteNeverPanics
\* A panic stops the kernel; every other state can still type or poll.
CHECK_DEADLOCK FALSE
