-------------------------------- MODULE Paths --------------------------------
(***************************************************************************)
(* Paths below the root of a file tree, as sequences of names.             *)
(***************************************************************************)
EXTENDS Naturals, Sequences

CONSTANT Path   \* the paths in use: non-empty sequences, closed under Parent

\* The parent of p; <<>> is the root of the tree.
Parent(p) == SubSeq(p, 1, Len(p) - 1)

ASSUME PathsAreSequences == Path \subseteq Seq(STRING)

ASSUME PathsClosed == \A p \in Path : p # <<>> /\ Parent(p) \in Path \cup {<<>>}

\* p lies strictly below q.
Under(p, q) == Len(q) < Len(p) /\ \A i \in 1..Len(q) : p[i] = q[i]

above == [p \in Path |-> {q \in Path : Under(p, q)}]
Above(p) == above[p]

below == [q \in Path \cup {<<>>} |-> {p \in Path : Under(p, q)}]
Below(q) == below[q]

children == [q \in Path \cup {<<>>} |-> {p \in Path : Parent(p) = q}]
Children(q) == children[q]

\* Where p ends up when the subtree at `from' is moved to `to'.
Moved(p, from, to) == to \o SubSeq(p, Len(from) + 1, Len(p))
=============================================================================
