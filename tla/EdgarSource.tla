------------------------------- MODULE EdgarSource -------------------------------
(***************************************************************************)
(* The SEC EDGAR source node: one search per ticker, then two requests per *)
(* filing, the index page and the primary document, up to max_filings      *)
(* documents in all.                                                       *)
(*                                                                         *)
(* What the service answers is fixed at the start: per ticker whether the  *)
(* search succeeds, fails or is not JSON, and per hit what comes of it.    *)
(***************************************************************************)
EXTENDS Integers, Sequences, FiniteSets

CONSTANTS
  NumTickers,
  MaxFilings,    \* max_filings
  MaxHits        \* bound on the hits of a search

EdgarAssumption == NumTickers \in Nat /\ MaxFilings \in Nat \ {0} /\ MaxHits \in Nat

Tickers == 1..NumTickers
Outcomes == {"ok", "empty", "unusable", "no_index", "no_document"}

VARIABLES
  search,     \* per ticker: "ok", "http_error" or "not_json"
  hits,       \* per ticker: the outcomes of its hits
  pc,         \* "search", "index", "document", "success", "failure"
  ticker,     \* the ticker at work
  queue,      \* its filings still to download, in order: indexes of hits[ticker]
  total,      \* total_downloaded
  documents,  \* <<ticker, index>> of the documents, in order
  rested,     \* whether the node slept since its last request
  crowded     \* whether it ever made a request without having slept

vars == <<search, hits, pc, ticker, queue, total, documents, rested, crowded>>

(* A request to the service. *)
Request == crowded' = (crowded \/ ~rested)

-------------------------------------------------------------------------------
(* The loop over tickers ends after the last one or at the cap. *)
NextTicker(at, count) ==
  /\ ticker' = at
  /\ pc' = IF at > NumTickers \/ count >= MaxFilings THEN "success" ELSE "search"

(* The hits a search may use: the first of the remaining quota that carry  *)
(* an accession number and a CIK.                                          *)
Filings(t) ==
  {i \in DOMAIN hits[t] : i <= MaxFilings - total /\ hits[t][i] # "unusable"}
Filing == CHOOSE i \in queue : \A j \in queue : i <= j

SearchOk ==
  /\ pc = "search" /\ search[ticker] = "ok" /\ hits[ticker] # <<>>
  /\ Request
  /\ queue' = Filings(ticker)
  /\ IF Filings(ticker) # {}
     THEN pc' = "index" /\ UNCHANGED ticker /\ rested' = FALSE
     ELSE NextTicker(ticker + 1, total) /\ rested' = TRUE
  /\ UNCHANGED <<search, hits, total, documents>>

(* A failed search or one without hits goes on to the next ticker at once. *)
SearchSkipped ==
  /\ pc = "search"
  /\ search[ticker] = "http_error" \/ (search[ticker] = "ok" /\ hits[ticker] = <<>>)
  /\ Request /\ rested' = FALSE
  /\ NextTicker(ticker + 1, total)
  /\ UNCHANGED <<search, hits, queue, total, documents>>

(* An answer that is no JSON ends the node with what it has.               *)
SearchRaises ==
  /\ pc = "search" /\ search[ticker] = "not_json"
  /\ Request /\ rested' = FALSE
  /\ pc' = "failure"
  /\ UNCHANGED <<search, hits, ticker, queue, total, documents>>

(* After a filing: the next one, or the pause and the next ticker.         *)
MutantAfterFiling(count, slept) ==
  /\ queue' = {}
  /\ NextTicker(ticker + 1, count) /\ rested' = (slept \/ count < MaxFilings)
AfterFiling(count, slept) ==
  /\ queue' = queue \ {Filing}
  /\ IF queue' # {} /\ count < MaxFilings
     THEN pc' = "index" /\ UNCHANGED ticker /\ rested' = slept
     ELSE NextTicker(ticker + 1, count) /\ rested' = (slept \/ count < MaxFilings)

(* The index page, which may fail or hold no link to a primary document.   *)
Index ==
  LET outcome == hits[ticker][Filing]
  IN  /\ pc = "index" /\ Request
      /\ IF outcome = "no_index"
         THEN AfterFiling(total, FALSE)
         ELSE pc' = "document" /\ rested' = FALSE /\ UNCHANGED <<ticker, queue>>
      /\ UNCHANGED <<search, hits, total, documents>>

(* The document; one without text is not kept, and a failed request skips  *)
(* the pause.                                                              *)
MutantCounted(outcome) == total
Counted(outcome) == IF outcome = "ok" THEN total + 1 ELSE total
Document ==
  LET outcome == hits[ticker][Filing]
  IN  /\ pc = "document" /\ Request
      /\ total' = Counted(outcome)
      /\ documents' = IF outcome = "ok" THEN Append(documents, <<ticker, Filing>>)
                      ELSE documents
      /\ AfterFiling(total', outcome # "no_document" /\ total' < MaxFilings)
      /\ UNCHANGED <<search, hits>>

-------------------------------------------------------------------------------
Init ==
  /\ search \in [Tickers -> {"ok", "http_error", "not_json"}]
  /\ hits \in [Tickers -> UNION {[1..n -> Outcomes] : n \in 0..MaxHits}]
  /\ pc = (IF NumTickers = 0 THEN "failure" ELSE "search")
  /\ ticker = 1 /\ queue = {} /\ total = 0 /\ documents = <<>>
  /\ rested = TRUE /\ crowded = FALSE

Next == SearchOk \/ SearchSkipped \/ SearchRaises \/ Index \/ Document
Spec == Init /\ [][Next]_vars

-------------------------------------------------------------------------------
(* The node returns at most max_filings documents over all tickers, each   *)
(* once.                                                                   *)
CapHolds ==
  /\ Len(documents) <= MaxFilings
  /\ \A i, j \in DOMAIN documents : documents[i] = documents[j] => i = j

(* A ticker or filing that fails costs only itself: whatever else the node *)
(* may fetch within the quota its ticker had left is in a result.          *)
FailuresAreContained ==
  LET got == {documents[i] : i \in DOMAIN documents}
      before(t) == Cardinality({d \in got : d[1] < t})
  IN  pc = "success" /\ Len(documents) < MaxFilings =>
        \A t \in Tickers : search[t] = "ok" =>
          \A i \in DOMAIN hits[t] :
            hits[t][i] = "ok" /\ i <= MaxFilings - before(t) => <<t, i>> \in got

(* "SEC rate limiting: sleep between requests" *)
RequestsAreSpaced == ~crowded
===============================================================================
