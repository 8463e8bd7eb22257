--------------------------- MODULE MCScopedDrive ---------------------------
(* Small instances of ScopedDrive: the root with two folders, one document. *)
EXTENDS ScopedDrive, TLC

CONSTANTS root, a, b, doc, here, away

In(p) == [id |-> root, parents |-> {p}, location |-> here, trashed |-> FALSE]
Outside == [id |-> root, parents |-> {}, location |-> here, trashed |-> FALSE]
TwoParents == [id |-> root, parents |-> {root, a}, location |-> here, trashed |-> FALSE]
Trashed(m) == [m EXCEPT !.trashed = TRUE]
Away(m) == [m EXCEPT !.location = away]
Of(i, m) == [m EXCEPT !.id = i]

\* root > a > b > doc, with b inside the corpus or still outside it.
Corpus(bPlace) == [i \in {root, a, b, doc} |->
  Of(i, CASE i = root -> Outside [] i = a -> In(root) [] i = b -> bPlace [] OTHER -> In(b))]
MCStarts == {Corpus(In(a)), Corpus(Outside)}

\* Folders move out, back in and under each other; the document leaves.
MCMoves == {<<a, Of(a, Outside)>>, <<a, Of(a, In(root))>>, <<b, Of(b, In(a))>>,
            <<b, Of(b, Outside)>>, <<doc, Of(doc, In(a))>>}

\* A corpus of one folder, and everything else that can become of an item: a
\* second parent, the trash, another drive, or an answer for something else.
SmallStarts == {[i \in {root, a, doc} |->
                   Of(i, CASE i = root -> Outside [] i = a -> In(root) [] OTHER -> In(a))]}
OddMoves == {<<a, Of(a, Outside)>>, <<a, Of(a, Trashed(In(root)))>>, <<a, Of(a, Away(In(root)))>>,
             <<doc, Of(doc, TwoParents)>>, <<doc, Of(doc, Trashed(In(a)))>>,
             <<root, Of(root, Away(Outside))>>, <<root, Of(doc, Outside)>>}

TaskSymmetry == Permutations(Tasks)
============================================================================
