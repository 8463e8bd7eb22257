-------------------------- MODULE MCDocumentReads --------------------------
(* Two reads in flight over a cache of one text.  The first document is read *)
(* in up to two chunks, shrinks and grows; the other is a scan without text, *)
(* then too large, then an ordinary document.                                *)
EXTENDS DocumentReads, TLC

CONSTANTS long, scan

MCLength == [k \in Texts |-> IF k[1] = long THEN 2 - (k[2] % 2) ELSE k[2] \div 2]
MCOversized == {<<scan, 1>>}

TaskSymmetry == Permutations(Tasks)
============================================================================
