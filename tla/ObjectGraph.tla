----------------------------- MODULE ObjectGraph -----------------------------
(***************************************************************************)
(* What the heap promises its client, the stack machine: a graph of        *)
(* objects that only the client changes.  There are no addresses here, no  *)
(* free space and no collection: an object is named by an identity it      *)
(* keeps for life (the `id' that gc.c numbers objects with in its debug    *)
(* build), and the graph holds exactly the objects the client's stack      *)
(* reaches.  Module GC implements it: allocating, marking, moving and      *)
(* reclaiming must all be invisible, so that a step of the collector is a  *)
(* stuttering step of this specification.                                  *)
(***************************************************************************)
EXTENDS Naturals, Sequences

CONSTANTS
  Words,    \* the plain words a stack slot or a field may hold
  Strings,  \* the contents of strings: sequences of plain words
  Ids       \* object identities

VARIABLES
  roots,    \* the client's stack, its top first
  graph     \* the reachable objects: identity -> [tag, body]

vars == <<roots, graph>>

Word(w) == [ref |-> FALSE, v |-> w]
Ref(id) == [ref |-> TRUE, v |-> id]

RefsIn(s) == {x.v : x \in {s[i] : i \in {j \in DOMAIN s : s[j].ref}}}

\* S holds the objects that r refers to, and all that the objects of S refer to.
Closed(S, r, g) == /\ RefsIn(r) \subseteq S
                   /\ \A id \in S : RefsIn(g[id].body) \subseteq S

\* What r reaches in g is the least such set.
Reachable(r, g) ==
  {id \in DOMAIN g : \A S \in SUBSET DOMAIN g : Closed(S, r, g) => id \in S}

\* The client's step to stack r and graph g: what r does not reach is dropped.
Becomes(r, g) == /\ roots' = r
                 /\ \E r1 \in {r}, g1 \in {g} :
                      graph' = [id \in Reachable(r1, g1) |-> g1[id]]

Take(n)    == SubSeq(roots, 1, n)
Drop(s, n) == SubSeq(s, n + 1, Len(s))
ReverseTop(s, n) == [i \in 1..Len(s) |-> IF i <= n THEN s[n + 1 - i] ELSE s[i]]

Init == /\ roots = <<>>
        /\ graph = <<>>
------------------------------------------------------------------------------
\* The client pushes a plain word, or a value it can read.
Readable == {roots[i] : i \in DOMAIN roots} \cup
            UNION {{graph[id].body[k] : k \in DOMAIN graph[id].body} : id \in DOMAIN graph}

Push == \E x \in {Word(w) : w \in Words} \cup Readable :
          /\ roots' = <<x>> \o roots
          /\ UNCHANGED graph

Pop == /\ roots # <<>>
       /\ Becomes(Tail(roots), graph)

Reverse == \E n \in 2..Len(roots) :
             /\ roots' = ReverseTop(roots, n)
             /\ UNCHANGED graph

\* The client stores one of its values into a field of an object it has: any
\* word of an array, an argument of an s-expression, a capture of a closure.
Fields(o) == CASE o.tag = "string" -> {}
               [] o.tag = "array" -> DOMAIN o.body
               [] OTHER -> DOMAIN o.body \ {1}

Store == \E i, j \in DOMAIN roots :
           /\ roots[i].ref
           /\ \E k \in Fields(graph[roots[i].v]) :
                Becomes(roots, [graph EXCEPT ![roots[i].v].body[k] = roots[j]])

\* Characters of a string are overwritten.
StoreString == \E i \in DOMAIN roots, s \in Strings :
                 /\ roots[i].ref
                 /\ graph[roots[i].v].tag = "string"
                 /\ graph' = [graph EXCEPT ![roots[i].v].body = s]
                 /\ UNCHANGED roots

\* The client takes n values off its stack and gets a new object for them;
\* what the object holds is what the values were, whatever was moved or
\* reclaimed to make room for it.
NewObject(tag, n, body) ==
  \E id \in Ids \ DOMAIN graph :
    Becomes(<<Ref(id)>> \o Drop(roots, n),
            [x \in DOMAIN graph \cup {id} |->
               IF x = id THEN [tag |-> tag, body |-> body] ELSE graph[x]])

NewArray   == \E n \in 0..Len(roots) : NewObject("array", n, Take(n))
NewClosure == \E n \in 1..Len(roots) : NewObject("closure", n, Take(n))
\* The last field of an s-expression is nearest the top of the stack, below its tag.
NewSexp    == \E n \in 1..Len(roots), w \in Words :
                NewObject("sexp", n, <<Word(w)>> \o SubSeq(ReverseTop(Take(n), n), 1, n - 1))
NewString  == \E n \in 0..1, s \in Strings : n <= Len(roots) /\ NewObject("string", n, s)

New == NewArray \/ NewClosure \/ NewSexp \/ NewString

Next == Push \/ Pop \/ Reverse \/ Store \/ StoreString \/ New

Spec == Init /\ [][Next]_vars
==============================================================================
