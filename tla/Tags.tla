---------------------------------- MODULE Tags ----------------------------------
(* The tags of s-expressions and the bytes of strings, in runtime/runtime.c.    *)
EXTENDS Integers, SequencesExt

CONSTANTS
  TAGLEN, RADIX          \* MAX_SEXP_TAGLEN, the number of characters of a tag

ASSUME TagsAssumption == TAGLEN \in Nat /\ RADIX \in Nat \ {0, 1}

FirstOf(s, n) == SubSeq(s, 1, IF Len(s) < n THEN Len(s) ELSE n)

\* Mutant: the limit is checked after the character is taken.
TagHashTooLong(name) == FoldLeft(LAMBDA h, c : RADIX * h + c, 0, FirstOf(name, TAGLEN + 1))

\* A tag is a sequence of indices into chars; LtagHash packs the first of them.
TagHash(name) == FoldLeft(LAMBDA h, c : RADIX * h + c, 0, FirstOf(name, TAGLEN))

\* de_hash: the digits of a hash, of which the leading zeros are gone.
DeHash[h \in Nat] == IF h = 0 THEN <<>> ELSE Append(DeHash[h \div RADIX], h % RADIX)

\* LtagHash fails on a tag that de_hash does not give back.
Hashable(name) == FirstOf(DeHash[TagHash(name)], TAGLEN) = FirstOf(name, TAGLEN)

cons == TagHash(<<1>>)

\* What a C function sees of a string's bytes, and what strncpy copies of them.
Text(bytes) == SubSeq(bytes, 1, SelectInSeq(Append(bytes, 0), LAMBDA b : b = 0) - 1)
Zeros(n, zero) == [k \in 1..n |-> zero]
Padded(bytes) == Text(bytes) \o Zeros(Len(bytes) - Len(Text(bytes)), 0)

\* The two messages of stringcat, each as a byte of its own.
NonList == <<10>>
InvalidHeader == <<11>>
==============================================================================
