----------------------------- MODULE MCHtmlText -----------------------------
(* Elements of every kind, and a page of up to seven tags and texts. *)
EXTENDS HtmlText
=============================================================================
