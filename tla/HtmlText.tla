------------------------------ MODULE HtmlText ------------------------------
(***************************************************************************)
(* extract_html: a page, tag after tag, through _TextCollector.  HTMLParser *)
(* is external: it calls handle_starttag, handle_endtag and handle_data as  *)
(* it meets tags and text, both of the first two for <tag/>, and takes all  *)
(* that is in a script or a style for text.  Beside the collector runs what *)
(* the page means: the elements open at each point.  Elements nest: how      *)
(* browsers mend a page whose elements overlap is left out.                 *)
(***************************************************************************)
EXTENDS Integers, Sequences, Filtering, SequencesExt

CONSTANTS
  Silent,    \* _SILENT
  Breaks,    \* _BREAKS
  Inline,    \* other elements
  Raw,       \* elements whose content HTMLParser does not look into
  Implied,   \* elements whose end tag may be left out, as HTML allows
  Void,      \* elements without content or end tag, written <tag>
  Slashed,   \* elements without content, written <tag/>
  MaxTokens  \* bound on the length of the page

\* A break whose end tag is left out ends where another break does, and is not
\* among those of Implied.
ASSUME PageAssumption ==
  MaxTokens \in Nat /\ Silent \cap Breaks = {} /\ Implied \cap Breaks = {}

VARIABLES
  open,    \* the elements open here, outermost first
  tokens,  \* tags and texts so far
  depth,   \* _silent_depth
  parts,   \* _parts
  seen,    \* history: the lines a reader sees, by the tags that break them
  astray   \* history: since the page last showed, the end tag of a silent
           \* element has come that is not open

vars == <<open, tokens, depth, parts, seen, astray>>

Init == /\ open = <<>> /\ tokens = 0 /\ depth = 0 /\ parts = <<>>
        /\ seen = <<0>> /\ astray = FALSE

---------------------------------------------------------------------------
(* Text is a word, a blank or a line feed; "hidden" is a word that no        *)
(* browser shows.  A line of the reader is the number of its words.         *)

Newline == "\n"
Blank == " "
Words == {"shown", "hidden"}

Shows(elements) == ToSet(elements) \cap Silent = {}
Visible == Shows(open)

BreakLine(lines, tag) == IF tag \in Breaks /\ Visible THEN Append(lines, 0) ELSE lines

---------------------------------------------------------------------------
(* The collector.                                                          *)

\* handle_starttag and handle_endtag, on the depth and on the parts.
Entered(d, tag) == IF tag \in Silent THEN d + 1 ELSE d
NeverLeft(d, tag) == d
AllLeft(d, tag) == IF tag \in Silent THEN 0 ELSE d
Floorless(d, tag) == IF tag \in Silent THEN d - 1 ELSE d
Left(d, tag) == IF tag \in Silent /\ d > 0 THEN d - 1 ELSE d

Unbroken(p, tag) == p
Broken(p, tag) == IF tag \in Breaks \ Silent THEN Append(p, Newline) ELSE p

Token == tokens < MaxTokens /\ tokens' = tokens + 1
InRaw == open # <<>> /\ Last(open) \in Raw

StartTag(tag) ==
  /\ Token /\ ~InRaw /\ UNCHANGED astray
  /\ open' = Append(open, tag) /\ seen' = BreakLine(seen, tag)
  /\ depth' = Entered(depth, tag) /\ parts' = Broken(parts, tag)

Close == open # <<>> /\ open' = Front(open) /\ astray' = (astray /\ ~Shows(Front(open)))

EndTag ==
  /\ Token /\ Close
  /\ seen' = BreakLine(seen, Last(open))
  /\ depth' = Left(depth, Last(open)) /\ parts' = Broken(parts, Last(open))

\* An element ends where the page says so without an end tag, as <body> ends a
\* head: the collector is not called.
ImpliedEnd == Close /\ Last(open) \in Implied /\ UNCHANGED <<tokens, seen, depth, parts>>

\* An end tag without its element: browsers pass it over, but for the line it
\* breaks where the page shows.
StrayEndTag(tag) ==
  /\ Token /\ ~InRaw /\ tag \notin ToSet(open) /\ UNCHANGED open
  /\ seen' = BreakLine(seen, tag) /\ astray' = (astray \/ (tag \in Silent /\ ~Visible))
  /\ depth' = Left(depth, tag) /\ parts' = Broken(parts, tag)

VoidTag(tag) ==
  /\ Token /\ ~InRaw /\ UNCHANGED <<open, astray>>
  /\ seen' = BreakLine(seen, tag)
  /\ depth' = Entered(depth, tag) /\ parts' = Broken(parts, tag)

SlashedTag(tag) ==
  /\ Token /\ ~InRaw /\ UNCHANGED <<open, astray>>
  /\ seen' = BreakLine(seen, tag)
  /\ depth' = Left(Entered(depth, tag), tag) /\ parts' = Broken(Broken(parts, tag), tag)

Word == IF Visible THEN "shown" ELSE "hidden"

Data(d) ==
  /\ Token /\ UNCHANGED <<open, depth, astray>>
  /\ parts' = IF depth = 0 THEN Append(parts, d) ELSE parts
  /\ seen' = IF d = "shown" THEN Append(Front(seen), Last(seen) + 1) ELSE seen

Next ==
  \/ \E tag \in (Silent \cup Breaks \cup Inline) \ (Void \cup Slashed) : StartTag(tag)
  \/ EndTag
  \/ ImpliedEnd
  \/ \E tag \in Silent \cup Breaks : StrayEndTag(tag)
  \/ \E tag \in Void : VoidTag(tag)
  \/ \E tag \in Slashed : SlashedTag(tag)
  \/ \E d \in {Word, Blank, Newline} : Data(d)

Spec == Init /\ [][Next]_vars

---------------------------------------------------------------------------
(* text(): what the extractor makes of the parts, at any point.             *)

Filled(line) == line # <<>>

\* splitlines, of the parts joined, and strip of every line.
Typed(lines, d) == IF d = Newline THEN Append(lines, <<>>)
                   ELSE Append(Front(lines), Append(Last(lines), d))
Split(p) ==
  LET lines[n \in 0..Len(p)] == IF n = 0 THEN << <<>> >> ELSE Typed(lines[n - 1], p[n])
  IN  lines[Len(p)]

Strip(line) ==
  LET words == {n \in DOMAIN line : line[n] \in Words}
  IN  IF words = {} THEN <<>>
      ELSE SubSeq(line, CHOOSE n \in words : \A m \in words : n <= m,
                        CHOOSE n \in words : \A m \in words : m <= n)

\* A blank line is kept behind one that is not.
Collapse(kept, line) ==
  IF Filled(line) \/ (kept # <<>> /\ Filled(Last(kept))) THEN Append(kept, line) ELSE kept
Collapsed(lines) ==
  LET kept[n \in 0..Len(lines)] == IF n = 0 THEN <<>> ELSE Collapse(kept[n - 1], lines[n])
  IN  kept[Len(lines)]

\* The final strip: a blank line can be left at the end, never two.
Trimmed(lines) == IF lines # <<>> /\ ~Filled(Last(lines)) THEN Front(lines) ELSE lines

Text(p) ==
  LET lines == Split(p)
  IN  Trimmed(Collapsed([n \in DOMAIN lines |-> Strip(lines[n])]))

---------------------------------------------------------------------------
(* Properties.                                                             *)

\* The words of a line that a reader is to see.
ReaderWords == {"shown"}
WordsIn(line) == Len(Filtered(line, ReaderWords))
WordsOf(lines) == [n \in DOMAIN lines |-> WordsIn(lines[n])]
Count(counts) ==
  LET sum[n \in 0..Len(counts)] == IF n = 0 THEN 0 ELSE sum[n - 1] + counts[n]
  IN  sum[Len(counts)]

TypeOK ==
  /\ open \in Seq(Silent \cup Breaks \cup Inline) /\ tokens \in 0..MaxTokens
  /\ depth \in 0..MaxTokens /\ parts \in Seq({"shown", "hidden", Blank, Newline})
  /\ Len(parts) <= 2 * tokens /\ astray \in BOOLEAN

\* markup.py:15-16: what is for the browser does not reach a reader, however the
\* silent elements are nested, void or left open: it is taken only where the end
\* tag of a silent element that is not open has come since the page last showed,
\* as in <head></style>hidden</head>, where handle_endtag (:55-57) lowers the
\* depth for whatever silent element ends.
New(p, q) == {q[n] : n \in Len(p) + 1..Len(q)}
BrowserTextIsDropped == [][~astray => "hidden" \notin New(parts, parts')]_vars

\* markup.py:1, "HTML to readable text", and the test
\* test_html_is_reduced_to_its_text: no word a reader sees is lost.
ReaderTextIsKept == Count(WordsOf(Text(parts))) = Count(seen)

\* markup.py:18 and test_html_keeps_block_boundaries_as_paragraph_breaks: words
\* of different blocks are never on one line: wherever a reader's line ends, a
\* line of the text ends.  And (:66-73) blocks are one blank line apart at most,
\* whatever breaks and line feeds the page has between them, and the text begins
\* and ends with a word.
LineEnds(counts) == {Count(SubSeq(counts, 1, n)) : n \in DOMAIN counts}
BlocksStayApart ==
  LET text == Text(parts)
  IN  /\ LineEnds(seen) \subseteq LineEnds(WordsOf(text)) \cup {0}
      /\ \A n \in 1..Len(text) - 1 : Filled(text[n]) \/ Filled(text[n + 1])
      /\ text # <<>> => Filled(Head(text)) /\ Filled(Last(text))
=============================================================================
