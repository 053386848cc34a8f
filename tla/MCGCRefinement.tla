--------------------------- MODULE MCGCRefinement ---------------------------
(* Constants of GC for TLC.                                                *)
EXTENDS GCRefinement, GCInvariant

\* The chunks are far enough apart for the largest heap of the runs.
MCBases == {100, 200}
MCCWords == {0}
\* BOX(104): an unboxed word whose own value lies in the second chunk, and
\* whose UNBOX is the first content pointer of the first chunk.
MCUnboxed == {209}
\* Bytes of a string that look like the same content pointer.
MCStrings == {<<104>>}
==============================================================================
