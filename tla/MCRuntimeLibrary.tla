---------------------------- MODULE MCRuntimeLibrary ----------------------------
EXTENDS RuntimeLibrary

SmallInts == {-16, -1}
\* The characters of a tag are 0 to 2, with 0 for '_'.
SmallNames == {<<1>>, <<0, 1>>, <<1, 0>>, <<1, 0, 2>>}
SmallTexts == {<<1>>}
==============================================================================
