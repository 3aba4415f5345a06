---------------------------- MODULE SemanticChunker ----------------------------
(***************************************************************************)
(* The semantic chunker node: documents are cut into sentences, sentences  *)
(* are embedded in batches by a remote service, and chunks end where the   *)
(* topic changes.  When embeddings are missing the node falls back to      *)
(* groups of sentences.                                                    *)
(*                                                                         *)
(* A document is the lengths of its sentences and the places where the     *)
(* similarity of neighbours is below the threshold.                        *)
(***************************************************************************)
EXTENDS Integers, Sequences, SequencesExt

CONSTANTS
  Documents,     \* number of documents
  MaxSentences,  \* bound on the sentences of a document
  Lengths,       \* lengths of sentences
  MinSize, MaxSize,
  BatchSize,
  MayRaise       \* whether the embedding service may raise

ChunkerAssumption ==
  /\ Documents \in Nat /\ MaxSentences \in Nat /\ BatchSize \in Nat \ {0}
  /\ MaxSize \in Nat \ {0} /\ MinSize \in Nat /\ MayRaise \in BOOLEAN

VARIABLES
  docs,      \* per document: [size: lengths of its sentences, topics: set of indices]
  doc,       \* the document being worked on
  offset,    \* sentences sent for embedding
  embedded,  \* embeddings received
  chunks     \* chunks put out: [doc, index, sentences]

vars == <<docs, doc, offset, embedded, chunks>>

Sentences == docs[doc].size
N == Len(Sentences)

(* The length of sentences joined by spaces. *)
TextLength(size, ss) ==
  FoldLeft(LAMBDA a, s : a + size[s], 0, ss) + (IF ss = <<>> THEN 0 ELSE Len(ss) - 1)

(* A cut list of sentences: the finished groups, then the open one.        *)
MutantClosed(cut) == cut.done
Closed(cut) == IF cut.open = <<>> THEN cut.done ELSE Append(cut.done, cut.open)
Cut(before(_, _), n) ==
  LET step(acc, s) ==
        IF acc.open # <<>> /\ before(acc.open, s)
        THEN [done |-> Append(acc.done, acc.open), open |-> <<s>>]
        ELSE [acc EXCEPT !.open = Append(@, s)]
  IN  Closed(FoldLeft(step, [done |-> <<>>, open |-> <<>>], [i \in 1..n |-> i]))

(* _group_sentences: a group ends when the next sentence does not fit.     *)
TooLong(open, s) == TextLength(Sentences, Append(open, s)) > MaxSize
GroupSentences == Cut(TooLong, N)

(* _split_at_boundaries: or where the topic changes, unless the chunk is   *)
(* too short.                                                              *)
MutantTopicEnds(open, s) == s \in docs[doc].topics
TopicEnds(open, s) == s \in docs[doc].topics /\ TextLength(Sentences, open) >= MinSize
ShouldSplit(open, s) == TopicEnds(open, s) \/ TooLong(open, s)
SplitAtBoundaries == Cut(ShouldSplit, N)

(* Chunks are numbered through all documents. *)
MutantPutOut(groups) ==
  chunks \o [i \in DOMAIN groups |-> [doc |-> doc, index |-> i - 1, sentences |-> groups[i]]]
PutOut(groups) ==
  chunks \o [i \in DOMAIN groups |->
               [doc |-> doc, index |-> Len(chunks) + i - 1, sentences |-> groups[i]]]

-------------------------------------------------------------------------------
NextDocument == doc' = doc + 1 /\ offset' = 0 /\ embedded' = 0

(* One batch is embedded; the service may return fewer embeddings. *)
Batch == IF N - offset < BatchSize THEN N - offset ELSE BatchSize
Embed ==
  /\ doc <= Documents /\ offset < N
  /\ \E short \in {0, 1} : embedded' = embedded + Batch - short
  /\ offset' = offset + Batch
  /\ UNCHANGED <<docs, doc, chunks>>

(* The call raises: the groups are put out, and the loop over the batches  *)
(* goes on.                                                                *)
EmbedRaises ==
  /\ MayRaise /\ doc <= Documents /\ offset < N
  /\ chunks' = PutOut(GroupSentences)
  /\ offset' = offset + Batch
  /\ UNCHANGED <<docs, doc, embedded>>

(* After the last batch: with an embedding per sentence the document is    *)
(* split at the topics, otherwise the groups are put out.                  *)
Complete == embedded = N
Finish ==
  /\ doc <= Documents /\ offset >= N
  /\ chunks' = IF Complete THEN PutOut(SplitAtBoundaries) ELSE PutOut(GroupSentences)
  /\ NextDocument
  /\ UNCHANGED docs

Init ==
  /\ docs \in [1..Documents ->
       UNION {[size : [1..n -> Lengths], topics : SUBSET (2..n)] : n \in 0..MaxSentences}]
  /\ doc = 1 /\ offset = 0 /\ embedded = 0 /\ chunks = <<>>
Next == Embed \/ EmbedRaises \/ Finish
Spec == Init /\ [][Next]_vars

-------------------------------------------------------------------------------
(* Every sentence of a finished document is in exactly one chunk, in order,*)
(* whichever batches came back short and whichever way it was split.       *)
EverySentenceOnce ==
  \A d \in 1..(doc - 1) :
    FoldLeft(LAMBDA a, c : IF c.doc = d THEN a \o c.sentences ELSE a, <<>>, chunks)
      = [i \in 1..Len(docs[d].size) |-> i]

(* A chunk is at most the maximal size unless it is a single sentence, and *)
(* the last one aside it is at least the minimal size or the next sentence *)
(* would not have fitted.                                                  *)
SizesAreRespected ==
  \A c \in DOMAIN chunks :
    LET x == chunks[c]
        size == docs[x.doc].size
        text(ss) ==
          FoldLeft(LAMBDA a, s : a + size[s], 0, ss) + Len(ss) - 1
    IN  /\ Len(x.sentences) > 1 => text(x.sentences) <= MaxSize
        /\ Last(x.sentences) < Len(size) =>
             \/ text(x.sentences) >= MinSize
             \/ text(Append(x.sentences, Last(x.sentences) + 1)) > MaxSize

(* The chunks of a run are numbered consecutively from zero across its     *)
(* documents.                                                              *)
IndexesAreConsecutive == \A i \in DOMAIN chunks : chunks[i].index = i - 1
===============================================================================
