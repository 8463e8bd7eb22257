----------------------------- MODULE ReadChunks -----------------------------
(***************************************************************************)
(* _read_chunk and the cursors: a reader asks for a document chunk after    *)
(* chunk, passing back the cursor of the one before.  A character is the    *)
(* number of bytes UTF-8 gives it; a document is a sequence of blocks, a    *)
(* block a sequence of characters.  The loop that gives way to the byte     *)
(* ceiling goes round once a step.                                          *)
(***************************************************************************)
EXTENDS Naturals, Sequences, SequencesExt

CONSTANTS
  Documents,  \* the documents read: sequences of sequences of widths
  MaxChars,   \* the values of max_chars callers pass
  MaxBytes,   \* max_read_bytes
  MaxReads,   \* bound on the reads of a run
  None        \* the start of a document: no cursor

ASSUME ChunkAssumption ==
  /\ Documents \subseteq Seq(Seq(1..4)) /\ MaxChars \subseteq Nat \ {0}
  /\ MaxBytes \in Nat \ {0} /\ MaxReads \in Nat
  /\ None \notin Nat

VARIABLES
  doc,     \* document.blocks
  cursor,  \* the cursor the reader holds: an offset, or None
  pc,      \* "idle", "cutting", or "over" once a read came without a cursor
  start, end, max_chars,  \* the locals
  chunks   \* the reads so far: what each returned

vars == <<doc, cursor, pc, start, end, max_chars, chunks>>

---------------------------------------------------------------------------
(* The document.                                                           *)

Separator == <<1, 1>>  \* the blank line ExtractedDocument.text joins blocks with

TextOf(d) == FlattenSeq([b \in DOMAIN d |-> IF b = 1 THEN d[b] ELSE Separator \o d[b]])

BytesOf(d, from, to) ==
  LET text == TextOf(d)
      bytes[n \in 0..to - from] == IF n = 0 THEN 0 ELSE bytes[n - 1] + text[from + n]
  IN  bytes[to - from]

\* Where block b begins in the text.
Offset(d, b) == Len(FlattenSeq(SubSeq(d, 1, b - 1))) + 2 * (b - 1)

\* _block_boundaries: where every block but the first begins.
BoundariesOf(d) == {Offset(d, b) : b \in 2..Len(d)}

Text == TextOf(doc)
Bytes(from, to) == BytesOf(doc, from, to)
Boundaries == BoundariesOf(doc)

\* read_document raises EmptyDocument where nothing is to be read.
ASSUME TextsAssumption == \A d \in Documents : TextOf(d) # <<>>

---------------------------------------------------------------------------

\* Move the end back to the last block boundary inside the window, if any.
Inside(from, to) == {b \in Boundaries : from < b /\ b <= to}
CutAnywhere(from, to) == to
Cut(from, to) == IF Inside(from, to) = {} THEN to ELSE Max(Inside(from, to))

Lower(m, n) == IF m < n THEN m ELSE n
Higher(m, n) == IF m < n THEN n ELSE m

Init ==
  /\ doc \in Documents /\ cursor = None /\ pc = "idle" /\ chunks = <<>>
  /\ start = 0 /\ end = 0 /\ max_chars = 0

\* A read begins: the cursor decoded, the end cut by characters.
Read(m) ==
  /\ pc = "idle" /\ Len(chunks) < MaxReads
  /\ max_chars' = m /\ start' = (IF cursor = None THEN 0 ELSE cursor)
  /\ start' <= Len(Text)
  /\ end' = Cut(start', Lower(start' + m, Len(Text)))
  /\ pc' = "cutting" /\ UNCHANGED <<doc, cursor, chunks>>

Oversized == end > start + 1 /\ Bytes(start, end) > MaxBytes

Quarter(bytes) == (bytes - MaxBytes) \div 4
Overshoot(bytes) == Higher(1, (bytes - MaxBytes) \div 4)

\* Characters have four bytes at most: a quarter of the overshoot can go.
Shrink ==
  /\ pc = "cutting" /\ Oversized
  /\ end' = Cut(start, Higher(start + 1, end - Overshoot(Bytes(start, end))))
  /\ UNCHANGED <<doc, cursor, pc, start, max_chars, chunks>>

AlwaysMore(to) == to
OneFurther(to) == IF to < Len(Text) THEN to + 1 ELSE None
NextCursor(to) == IF to < Len(Text) THEN to ELSE None

\* The chunk is returned.
Return ==
  /\ pc = "cutting" /\ ~Oversized
  /\ cursor' = NextCursor(end)
  /\ chunks' = Append(chunks, [from |-> start, to |-> end, max_chars |-> max_chars])
  /\ pc' = IF cursor' = None THEN "over" ELSE "idle"
  /\ UNCHANGED <<doc, start, end, max_chars>>

Next == (\E m \in MaxChars : Read(m)) \/ Shrink \/ Return

Spec == Init /\ [][Next]_vars
FairSpec == Spec /\ WF_vars(Shrink \/ Return)

---------------------------------------------------------------------------
(* Properties.                                                             *)

Chunk == [from : Nat, to : Nat, max_chars : MaxChars]

TypeOK ==
  /\ doc \in Documents /\ cursor \in 1..Len(Text) - 1 \cup {None}
  /\ pc \in {"idle", "cutting", "over"}
  /\ start <= end /\ end <= Len(Text) /\ max_chars \in MaxChars \cup {0}
  /\ chunks \in Seq(Chunk) /\ Len(chunks) <= MaxReads

\* documents.py:251-270: whatever sizes a reader asks for, the chunks it gets
\* by following the cursors are the text as TextStream promises it: no chunk
\* empty, none overlapping another, nothing between them, and the end exactly
\* when there is no cursor.
Places(c) == [k \in 1..c.to - c.from |-> c.from + k]
Given == FlattenSeq([k \in DOMAIN chunks |-> Places(chunks[k])])
Over == pc = "over"
Stream == INSTANCE TextStream WITH length <- Len(Text), given <- Given, over <- Over
StreamsTheText == Stream!Spec

\* documents.py:256-262, docs/api.md:46-49: the two limits and the preference
\* for block boundaries pull the end in different directions, and the loop
\* finds the best of them: the last boundary within both limits, or the last
\* character within both; one character goes through whatever it weighs.
Fits(c, to) == to - c.from <= c.max_chars /\ (Bytes(c.from, to) <= MaxBytes \/ to = c.from + 1)
CutIsBest ==
  \A k \in DOMAIN chunks :
    LET c == chunks[k]
        fitting == {to \in c.from + 1..Len(Text) : Fits(c, to)}
    IN  c.to = Max(IF fitting \cap Boundaries = {} THEN fitting ELSE fitting \cap Boundaries)

\* documents.py:257-262: giving way to the byte ceiling comes to an end.
EveryReadReturns == pc = "cutting" ~> pc # "cutting"
=============================================================================
