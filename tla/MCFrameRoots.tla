----------------------------- MODULE MCFrameRoots -----------------------------
EXTENDS FrameRoots

\* One that fits the first chunk, and one that does not.
SmallTables == {<<1>>, <<1, 0, 0>>}

\* Four collections in the constructor: the second chunk lies where the fourth will.
LargeTable == {<<1, 0, 0, 2, 4, 0, 0, 0>>}
================================================================================
