--------------------------- MODULE MCDriveListing ---------------------------
(* Three items, pages of two, three pages at most, three attempts at each. *)
(* No symmetry: the run has a liveness property.                           *)
EXTENDS DriveListing
=============================================================================
