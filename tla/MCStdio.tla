------------------------------ MODULE MCStdio -------------------------------
EXTENDS Stdio
-----------------------------------------------------------------------------
\* Two readers and three keystrokes: a reader can lose the race for a key
\* to the other and suspend again.
MCKeys == {97, 98}
=============================================================================
