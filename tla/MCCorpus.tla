------------------------------ MODULE MCCorpus ------------------------------
(* Three folders in batches of two; six documents of three types, of which    *)
(* one type has no extractor and the others have two documents each that can *)
(* be read, one a scan as well; one document has no keyword, and one a name  *)
(* that contains another's.                                                  *)
EXTENDS Corpus, TLC

CONSTANTS scan, notes, notesZip, sheet, budget, unnamed, f, g, h, pdf, xlsx, zip, word, other

MCType == scan :> pdf @@ notes :> pdf @@ unnamed :> pdf @@ notesZip :> zip
          @@ sheet :> xlsx @@ budget :> xlsx
MCSize == scan :> 4 @@ notes :> 2 @@ unnamed :> 6 @@ notesZip :> 5 @@ sheet :> 1 @@ budget :> 3
MCKeyword == scan :> word @@ notes :> word @@ notesZip :> word @@ unnamed :> Nothing
             @@ sheet :> other @@ budget :> other
MCFolderIds == <<f, g, h>>

\* The folder f is the root: the path of a document in it is its name, and every
\* path that ends in that name, or goes on behind it, contains it.
MCPath == [i \in Items |-> [d \in ToSet(MCFolderIds) |-> <<i, d>>]]
MCLonger == {<<i, i>> : i \in Items} \cup {<<notes, notesZip>>}
MCWithin == {q \in (Items \X Folders) \X (Items \X Folders) :
               <<q[1][1], q[2][1]>> \in MCLonger /\ q[1][2] \in {f, q[2][2]}}
MCPlaces == {<<f>>, <<h>>, <<Elsewhere, h>>}
MCHomes == scan :> {<<f>>} @@ notes :> {<<f>>, <<h, f>>} @@ notesZip :> {<<Elsewhere>>}
           @@ unnamed :> {<<h>>} @@ sheet :> {<<g>>} @@ budget :> {<<h>>}
MCRankings == {<<notes, scan, notesZip, budget, sheet>>, <<notesZip, notes, scan, sheet, budget>>}
=============================================================================
