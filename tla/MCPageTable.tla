---------------------------- MODULE MCPageTable ----------------------------
EXTENDS PageTable

\* Page-table frames 1..5: the root and four more, two short of a full tree.
MCPTFrames == 1..5
\* Two data pages, numbered apart from the page-table frames.
MCDataPPNs == {8, 9}
\* R | W | U (PTEFlags bits 1, 2 and 4).
MCPerms == {22}
=============================================================================
