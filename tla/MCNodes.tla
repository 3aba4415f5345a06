------------------------------- MODULE MCNodes --------------------------------
(***************************************************************************)
(* Nodes that split text, for TLC.  A behaviour belongs to one             *)
(* scenario: one of the splitting nodes, in a setting.  Variables it does  *)
(* not have are NotUsed.  Nodes with a state of their own are in           *)
(* GraphScenarios.                                                         *)
(***************************************************************************)
EXTENDS Integers

CONSTANTS
  Scenarios,       \* the scenarios of this run of TLC
  NotUsed

VARIABLES
  scenario,   \* the scenario this behaviour belongs to
  docs, offset, embedded, chunks,
  input, output,
  doc

\* Two documents of up to three sentences whose embedding batches come back
\* short or raise; all texts up to a length.

Raising == INSTANCE SemanticChunker WITH
  Documents <- 2, MaxSentences <- 3, Lengths <- {1, 3}, MinSize <- 3,
  MaxSize <- 6, BatchSize <- 2, MayRaise <- TRUE

Short == INSTANCE SemanticChunker WITH
  Documents <- 2, MaxSentences <- 3, Lengths <- {1, 3}, MinSize <- 3,
  MaxSize <- 6, BatchSize <- 2, MayRaise <- FALSE

Windows == INSTANCE TextSplitting WITH
  MaxText <- 12, MaxSize <- 6, Node <- "text_chunker"

Separators == INSTANCE TextSplitting WITH
  MaxText <- 6, MaxSize <- 4, Node <- "recursive_splitter"

PageText == INSTANCE TextSplitting WITH
  MaxText <- 6, MaxSize <- 4, Node <- "html_splitter"

-------------------------------------------------------------------------------
\* Variables of one module only.
semanticVars == <<docs, offset, embedded, chunks, doc>>
textVars == <<input, output>>
vars == <<scenario, semanticVars, textVars>>

SemanticOff ==
  /\ docs = NotUsed /\ offset = NotUsed /\ embedded = NotUsed
  /\ chunks = NotUsed /\ doc = NotUsed
TextOff ==
  /\ input = NotUsed /\ output = NotUsed

SemanticInit ==
  /\ \/ scenario = "semantic" /\ Raising!Init
     \/ scenario = "semantic_short" /\ Short!Init
  /\ TextOff
SemanticNext ==
  /\ \/ scenario = "semantic" /\ Raising!Next
     \/ scenario = "semantic_short" /\ Short!Next
  /\ UNCHANGED <<scenario, textVars>>

TextInit ==
  /\ \/ scenario = "windows" /\ Windows!Init
     \/ scenario = "separators" /\ Separators!Init
     \/ scenario = "page_text" /\ PageText!Init
  /\ SemanticOff
TextNext ==
  /\ \/ scenario = "windows" /\ Windows!Next
     \/ scenario = "separators" /\ Separators!Next
     \/ scenario = "page_text" /\ PageText!Next
  /\ UNCHANGED <<scenario, semanticVars>>

Init == /\ scenario \in Scenarios
        /\ SemanticInit \/ TextInit
Next == SemanticNext \/ TextNext

Spec == Init /\ [][Next]_vars

-------------------------------------------------------------------------------
ASSUME ConstantsAreSound ==
  /\ Raising!ChunkerAssumption /\ Short!ChunkerAssumption
  /\ Windows!SplittingAssumption /\ Separators!SplittingAssumption /\ PageText!SplittingAssumption

(* Splitting keeps the text.  The semantic chunker puts every sentence of  *)
(* a document in exactly one chunk, in order, whichever embedding batches  *)
(* came back short; its chunks are numbered consecutively and keep their   *)
(* sizes, in the fallback as well.  The text chunker's windows cover the   *)
(* tokens without a gap and with the overlap asked for; the recursive and  *)
(* the HTML splitter put out the content once and in order, in chunks that *)
(* are no longer than the size.                                            *)
TextIsKept ==
  /\ scenario = "semantic_short" => Short!EverySentenceOnce
  /\ scenario = "semantic" => Raising!SizesAreRespected /\ Raising!IndexesAreConsecutive
  /\ scenario = "windows" => Windows!WindowsCover
  /\ scenario = "separators" => Separators!NoTextIsLost
  /\ scenario = "page_text" => PageText!PageTextSurvives
===============================================================================
