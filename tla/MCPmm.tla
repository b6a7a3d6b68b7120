------------------------------- MODULE MCPmm -------------------------------
(***************************************************************************)
(* A bitmap of 7 words of 4 bits, a region of frames 2 .. 8, a heap of 5   *)
(* frames (more than a word has bits, as in the code), and four clients.   *)
(* A frame has two bytes; the bitmap lies at the region's start, 4, and    *)
(* ends at 11.                                                             *)
(***************************************************************************)
EXTENDS Pmm

(* On the fresh bitmap the heap's range is free: the start that            *)
(* FirstFreeBySize overshoots to leaves room for HeapBlocks frames.        *)
ASSUME HeapFits ==
    LET s == FirstFreeBySize(Touched(MaxBlocks), HeapBlocks)
    IN  s # None => Frames(s, HeapBlocks) \subseteq Touched(MaxBlocks)
=============================================================================
