----------------------------- MODULE TextSplitting -----------------------------
(***************************************************************************)
(* The nodes that split text: the text chunker (windows of tokens), the    *)
(* recursive splitter (a hierarchy of separators) and the HTML splitter    *)
(* (sections at priority tags).                                            *)
(*                                                                         *)
(* A text is a sequence of units.  A positive unit is content and stands   *)
(* for itself, a negative one is a separator: -1 is two characters wide,   *)
(* -2 is one.                                                              *)
(***************************************************************************)
EXTENDS Integers, Sequences, FiniteSets, SequencesExt

CONSTANTS
  MaxText,      \* bound on the units of a text and the events of a page
  MaxSize,      \* bound on chunk sizes
  Node          \* "text_chunker", "recursive_splitter" or "html_splitter"

SplittingAssumption == MaxText \in Nat /\ MaxSize \in Nat

VARIABLES input, output

vars == <<input, output>>

Width(u) == IF u = -1 THEN 2 ELSE 1
Length(text) == FoldLeft(LAMBDA n, u : n + Width(u), 0, text)
Content(text) == SelectSeq(text, LAMBDA u : u > 0)

-------------------------------------------------------------------------------
(* _create_chunks: windows of size tokens, each overlap tokens into the    *)
(* one before it; as pairs of first and last token.                        *)
MutantStride(size, overlap) == size + overlap
Stride(size, overlap) == size - overlap
CreateChunks(n, size, overlap) ==
  LET from[i \in Nat] ==
        IF i >= n THEN <<>>
        ELSE <<<<i + 1, IF i + size < n THEN i + size ELSE n>>>> \o from[i + Stride(size, overlap)]
  IN  from[0]

-------------------------------------------------------------------------------
(* str.split *)
Pieces(text, sep) ==
  LET step(acc, u) ==
        IF u = sep THEN Append(acc, <<>>)
        ELSE [acc EXCEPT ![Len(acc)] = Append(@, u)]
  IN  FoldLeft(step, <<<<>>>>, text)

(* _split_by_char: no separator is left in the text. *)
SplitByChar(text, size) ==
  [i \in 1..((Len(text) + size - 1) \div size) |->
     SubSeq(text, (i - 1) * size + 1, IF i * size < Len(text) THEN i * size ELSE Len(text))]

(* _recursive_split: pieces are joined while they fit; one that is too     *)
(* long by itself is split at the remaining separators.                    *)
MutantFits(current, sep, piece, size) == Length(current) + Length(piece) <= size
Fits(current, sep, piece, size) == Length(current) + Width(sep) + Length(piece) <= size
Flushed(acc) == IF acc.current = <<>> THEN acc.chunks ELSE Append(acc.chunks, acc.current)
RECURSIVE RecursiveSplit(_, _, _)
RecursiveSplit(text, seps, size) ==
  IF text = <<>> THEN <<>>
  ELSE IF Length(text) <= size THEN <<text>>
  ELSE IF seps = <<>> THEN SplitByChar(text, size)
  ELSE LET sep == Head(seps)
           step(acc, piece) ==
             IF Length(piece) > size
             THEN [chunks |-> Flushed(acc) \o RecursiveSplit(piece, Tail(seps), size),
                   current |-> <<>>]
             ELSE IF acc.current = <<>> THEN [acc EXCEPT !.current = piece]
             ELSE IF Fits(acc.current, sep, piece, size)
             THEN [acc EXCEPT !.current = @ \o <<sep>> \o piece]
             ELSE [chunks |-> Flushed(acc), current |-> piece]
       IN  Flushed(FoldLeft(step, [chunks |-> <<>>, current |-> <<>>], Pieces(text, sep)))

(* _add_overlap: a chunk is followed by the first characters of the next;  *)
(* half a separator counts as the whole of it.                             *)
FirstChars(text, k) == SubSeq(text, 1, IF k < Len(text) THEN k ELSE Len(text))
AddOverlap(chunks, k) ==
  [i \in DOMAIN chunks |->
     IF i < Len(chunks) THEN chunks[i] \o FirstChars(chunks[i + 1], k) ELSE chunks[i]]

-------------------------------------------------------------------------------
(* The HTML splitter.  An event is a start tag, an end tag or a character. *)
Tags == {"p", "b", "script"}
Priority == {"p"}
Start(t) == [kind |-> "start", tag |-> t]
EndOf(t) == [kind |-> "end", tag |-> t]
Text == [kind |-> "data", tag |-> "none"]

(* _flush_section: blank sections are dropped.  The tag hierarchy, which    *)
(* is metadata only, is left out.                                          *)
FlushSection(s) ==
  [s EXCEPT !.parts = <<>>, !.sections = IF s.parts = <<>> THEN @ ELSE Append(@, s.parts)]

(* handle_starttag, handle_endtag, handle_data; the i-th event. *)
Started(s, t) ==
  IF t = "script" THEN [s EXCEPT !.skip = TRUE]
  ELSE IF t \in Priority THEN FlushSection(s) ELSE s
Ended(s, t) ==
  IF t = "script" THEN [s EXCEPT !.skip = FALSE]
  ELSE IF t \in Priority THEN FlushSection(s) ELSE s
Handled(s, i) == IF s.skip THEN s ELSE [s EXCEPT !.parts = Append(@, i)]
Sections(events) ==
  LET step(s, i) ==
        CASE events[i].kind = "start" -> Started(s, events[i].tag)
          [] events[i].kind = "end"   -> Ended(s, events[i].tag)
          [] events[i].kind = "data"  -> Handled(s, i)
  IN  FlushSection(FoldLeft(step, [sections |-> <<>>, parts |-> <<>>, skip |-> FALSE],
                            [i \in DOMAIN events |-> i])).sections

(* _merge_sections: the two characters between them are not counted. *)
MergeSections(sections, size) ==
  LET step(acc, x) ==
        IF acc # <<>> /\ Length(Last(acc)) + Length(x) <= size
        THEN [acc EXCEPT ![Len(acc)] = @ \o <<-1>> \o x]
        ELSE Append(acc, x)
  IN  FoldLeft(step, <<>>, sections)

(* What is still too long is split by characters, a separator being two.   *)
Chars(text) ==
  FoldLeft(LAMBDA a, u : a \o (IF u = -1 THEN <<-2, -2>> ELSE <<u>>), <<>>, text)
MutantHtmlChunks(sections, size) == MergeSections(sections, size)
HtmlChunks(sections, size) ==
  FoldLeft(LAMBDA a, t : a \o (IF Length(t) <= size THEN <<t>> ELSE SplitByChar(Chars(t), size)),
           <<>>, MergeSections(sections, size))

-------------------------------------------------------------------------------
(* Inputs.  A page is well nested and a script holds text only; "p" splits,*)
(* "b" does not.                                                           *)
Texts == UNION {[1..n -> {0, -1, -2}] : n \in 1..MaxText}
Numbered(text) == [i \in DOMAIN text |-> IF text[i] = 0 THEN i ELSE text[i]]
Nesting(events) ==
  FoldLeft(LAMBDA s, e :
             IF e.kind = "start"
             THEN (IF s # <<>> /\ Last(s) = "script" THEN <<"bad", "bad">> ELSE Append(s, e.tag))
             ELSE IF e.kind = "end"
             THEN (IF s # <<>> /\ Last(s) = e.tag THEN Front(s) ELSE <<"bad", "bad">>)
             ELSE s, <<>>, events)
Events == {Text} \cup {Start(t) : t \in Tags} \cup {EndOf(t) : t \in Tags}
Pages == {es \in UNION {[1..n -> Events] : n \in 1..MaxText} : Nesting(es) = <<>>}

Init ==
  /\ output = <<>>
  /\ \/ /\ Node = "text_chunker"
        /\ input \in [n : 0..MaxText, size : 1..MaxSize, overlap : 0..(MaxSize - 1)]
        /\ input.overlap < input.size
     \/ /\ Node = "recursive_splitter"
        /\ input \in [text : {Numbered(t) : t \in Texts}, size : 1..MaxSize, overlap : {0, 1}]
        /\ input.overlap < input.size
     \/ /\ Node = "html_splitter"
        /\ input \in [events : Pages, size : 1..MaxSize]

(* The execute methods. *)
ChunkTokens ==
  Node = "text_chunker" /\ output' = <<CreateChunks(input.n, input.size, input.overlap)>>
SplitText ==
  /\ Node = "recursive_splitter"
  /\ LET raw == RecursiveSplit(input.text, <<-1, -2>>, input.size)
     IN  output' = <<raw, AddOverlap(raw, input.overlap)>>
SplitPage ==
  /\ Node = "html_splitter"
  /\ LET sections == Sections(input.events)
         raw == <<[i \in DOMAIN input.events |-> i]>>
     IN  output' = <<HtmlChunks(IF sections = <<>> THEN raw ELSE sections, input.size)>>
Next == output = <<>> /\ (ChunkTokens \/ SplitText \/ SplitPage) /\ UNCHANGED input
Spec == Init /\ [][Next]_vars

-------------------------------------------------------------------------------
(* Windows cover the tokens without a gap: each starts overlap tokens      *)
(* before the end of a full one before it, none is longer than the size,   *)
(* and the last ends with the last token.                                  *)
WindowsCover ==
  Node = "text_chunker" /\ output # <<>> =>
    LET w == output[1]
    IN  /\ input.n = 0 <=> w = <<>>
        /\ \A i \in DOMAIN w : w[i][1] <= w[i][2] /\ w[i][2] - w[i][1] < input.size
        /\ \A i \in 1..(Len(w) - 1) :
             w[i + 1][1] = w[i][1] + input.size - input.overlap /\ w[i + 1][1] <= w[i][2] + 1
        /\ w # <<>> => w[1][1] = 1 /\ Last(w)[2] = input.n

(* Splitting loses no content and keeps its order, whichever separators    *)
(* the text was split at; no raw chunk is longer than the size, and the    *)
(* overlap is added to a chunk and replaces none of it.                    *)
NoTextIsLost ==
  Node = "recursive_splitter" /\ output # <<>> =>
    /\ Content(FlattenSeq(output[1])) = Content(input.text)
    /\ \A i \in DOMAIN output[1] :
         /\ output[1][i] # <<>> /\ Length(output[1][i]) <= input.size
         /\ IsPrefix(output[1][i], output[2][i])

(* Every character of a page outside scripts is in a chunk, once and in    *)
(* order, and nothing else is unless there is no such character; no chunk  *)
(* is longer than the size.                                                *)
InScript(es, i) ==
  \E j \in 1..(i - 1) : /\ es[j] = Start("script")
                        /\ \A k \in j..i : es[k] # EndOf("script")
PageTextSurvives ==
  Node = "html_splitter" /\ output # <<>> =>
    LET es == input.events
        visible == SelectSeq([i \in DOMAIN es |-> i],
                             LAMBDA i : es[i] = Text /\ ~InScript(es, i))
    IN  /\ visible # <<>> => Content(FlattenSeq(output[1])) = visible
        /\ \A c \in DOMAIN output[1] : Length(output[1][c]) <= input.size
===============================================================================
