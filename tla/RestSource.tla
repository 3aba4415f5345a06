------------------------------- MODULE RestSource -------------------------------
(***************************************************************************)
(* A pipeline that reads a paginated JSON API with RestSource.             *)
(*                                                                         *)
(* A checkpoint names the next request; when max_records stops a run       *)
(* inside a page it names that page, its fingerprint and the first         *)
(* uncommitted record.  The API may change between any two requests, asks  *)
(* for retries, and the run may die anywhere.                              *)
(***************************************************************************)
EXTENDS Integers, Sequences, FiniteSets

CONSTANTS
  U,               \* request URLs are 1..U; 1 is the configured endpoint
  PerPage,         \* at most so many records per page
  Values, Types,   \* record contents; JSON types of the key and the fields
  Foreign,         \* URLs of another origin
  AllowCrossOrigin,
  MaxPages, MaxRecords, MaxRetries,
  NoType, NoPage,
  MaxChanges, MaxCycle, MaxFaults   \* bounds: API changes, cycles, crashes

Urls == 1..U
NoNext == 0        \* no next page
NextInChain(u) == IF u + 1 \in Urls \ Foreign THEN u + 1 ELSE NoNext

Page == [n : 0..PerPage, val : Values, type : Types, next : Urls \cup {NoNext}]

RestAssumption ==
  /\ U \in Nat \ {0} /\ PerPage \in Nat \ {0}
  /\ MaxPages \in Nat \ {0} /\ MaxRecords \in Nat \ {0} /\ MaxRetries \in Nat
  /\ Foreign \subseteq 2..U /\ \A u \in Foreign : u..U \subseteq Foreign
  /\ AllowCrossOrigin \in BOOLEAN
  /\ NoType \notin Types /\ NoPage \notin Page

VARIABLES
  api,       \* [Urls -> [n, val, type, next]]: what a request would return now
  saved,     \* checkpoint [url, offset, page, cycle, type, done]
  pc,        \* "idle", "request", "write", "save"
  at,        \* locals of read(), in the form of a checkpoint
  attempts, npages, emitted,
  page,      \* the page just fetched
  pending,   \* events emitted since the last StateMessage
  next, last,    \* the StateMessage to save; read() returns behind it
  delivered, \* events the destination has stored
  passed,    \* [Urls -> Nat]: checkpoints that moved past a URL in this cycle (history)
  changed,   \* the API changed since this cycle began (history)
  changes, faults

env == <<api, changed, changes>>
locals == <<at, attempts, npages, emitted, page, pending, next, last>>
vars == <<api, saved, pc, at, attempts, npages, emitted, page, pending, next, last,
          delivered, passed, changed, changes, faults>>

Checkpoint(url, cycle, type, done) ==
  [url |-> url, offset |-> 0, page |-> NoPage, cycle |-> cycle, type |-> type, done |-> done]
Beginning(cycle, type) == Checkpoint(1, cycle, type, {})

-------------------------------------------------------------------------------
(* The API changes one page: its records, or where it continues. *)
Change ==
  /\ changes < MaxChanges
  /\ \E u \in Urls, p \in Page :
       /\ p # api[u]
       /\ api' = [api EXCEPT ![u] = p]
  /\ changed' = TRUE /\ changes' = changes + 1
  /\ UNCHANGED <<saved, pc, locals, delivered, passed, faults>>

-------------------------------------------------------------------------------
(* RestSource.read *)

Idle == /\ pc' = "idle" /\ at' = Beginning(0, NoType) /\ attempts' = 0
        /\ npages' = 0 /\ emitted' = 0 /\ page' = NoPage
        /\ pending' = <<>> /\ next' = Beginning(0, NoType) /\ last' = FALSE

Resumed == saved

Start ==
  /\ pc = "idle" /\ saved.cycle < MaxCycle
  /\ pc' = "request" /\ at' = Resumed
  /\ UNCHANGED <<env, saved, attempts, npages, emitted, page, pending, next, last,
                 delivered, passed, faults>>

(* _request: 429 and 5xx answers are retried within the budget. *)
Retry ==
  /\ pc = "request" /\ attempts < MaxRetries
  /\ attempts' = attempts + 1
  /\ UNCHANGED <<env, saved, pc, at, npages, emitted, page, pending, next, last,
                 delivered, passed, faults>>

Response == api[at.url]

ValidNext(u) == u = NoNext \/ AllowCrossOrigin \/ u \notin Foreign

SameTypes(p) == p.n > 0 => at.type \in {NoType, p.type}

(* A page that read() refuses: a next link to another origin, a key type   *)
(* that differs from the one seen before, a page that changed under a      *)
(* partial checkpoint, a next request that this cycle has completed.       *)
MutantSamePage(p) == at.page = NoPage \/ at.offset < p.n
MutantLastRecord(p) == at.page = NoPage \/ (at.page = p /\ at.offset + 1 < p.n)
SamePage(p) == at.page = NoPage \/ (at.page = p /\ at.offset < p.n)

MutantCompleted == {at.url}
Completed == at.done \cup {at.url}
NoLoop(p) == p.next \notin Completed

Stop(p) == LET left == MaxRecords - emitted
           IN  IF left < p.n - at.offset THEN at.offset + left ELSE p.n

Acceptable(p) ==
  /\ at.url \notin at.done
  /\ ValidNext(p.next)
  /\ SameTypes(p)
  /\ SamePage(p)
  /\ Stop(p) = p.n => NoLoop(p)

KeyType(p) == IF at.type = NoType /\ p.n > 0 THEN p.type ELSE at.type

Event(u, i, p, cycle) == [url |-> u, rec |-> i, val |-> p.val, cycle |-> cycle]

(* The StateMessage behind the page's records. *)
MutantAfterPage(p) ==
  IF p.next = NoNext THEN Beginning(at.cycle + 1, KeyType(p))
  ELSE Checkpoint(p.next, at.cycle, KeyType(p), Completed)
AfterPage(p) ==
  IF Stop(p) < p.n
    THEN [at EXCEPT !.offset = Stop(p), !.page = p, !.type = KeyType(p)]
  ELSE IF p.next = NoNext THEN Beginning(at.cycle + 1, KeyType(p))
  ELSE Checkpoint(p.next, at.cycle, KeyType(p), Completed)

Returns(p) == \/ Stop(p) < p.n \/ p.next = NoNext
              \/ emitted + (Stop(p) - at.offset) >= MaxRecords
              \/ npages + 1 = MaxPages

FetchPage ==
  /\ pc = "request"
  /\ LET p == Response
     IN  /\ Acceptable(p)
         /\ page' = p
         /\ pending' = [i \in 1..(Stop(p) - at.offset) |->
                          Event(at.url, at.offset + i, p, at.cycle)]
         /\ emitted' = emitted + (Stop(p) - at.offset)
         /\ next' = AfterPage(p) /\ last' = Returns(p)
         /\ pc' = IF Stop(p) > at.offset THEN "write" ELSE "save"
  /\ npages' = npages + 1 /\ attempts' = 0
  /\ UNCHANGED <<env, saved, at, delivered, passed, faults>>

(* The page is refused, the answer is final, or the retries are used up:   *)
(* the run fails, records without a checkpoint are not written.            *)
Refuse ==
  /\ pc = "request" /\ ~Acceptable(Response)
  /\ Idle /\ UNCHANGED <<env, saved, delivered, passed, faults>>

-------------------------------------------------------------------------------
(* Pipeline.run: write the page, then save its checkpoint. *)

Write ==
  /\ pc = "write"
  /\ delivered' = delivered \cup {pending[i] : i \in DOMAIN pending}
  /\ pc' = "save"
  /\ UNCHANGED <<env, saved, locals, passed, faults>>

Save ==
  /\ pc = "save" /\ saved' = next
  /\ IF next.cycle > at.cycle
       THEN passed' = [u \in Urls |-> 0] /\ changed' = FALSE
       ELSE /\ passed' = IF next.url # at.url THEN [passed EXCEPT ![at.url] = @ + 1] ELSE passed
            /\ UNCHANGED changed
  /\ IF last THEN Idle
     ELSE /\ pc' = "request" /\ at' = next /\ pending' = <<>> /\ page' = NoPage
          /\ UNCHANGED <<attempts, npages, emitted, next, last>>
  /\ UNCHANGED <<api, changes, delivered, faults>>

(* The process dies, or a request fails for good. *)
Crash ==
  /\ pc # "idle" /\ faults < MaxFaults
  /\ Idle /\ faults' = faults + 1
  /\ UNCHANGED <<env, saved, delivered, passed>>

-------------------------------------------------------------------------------
Init ==
  /\ api \in {[u \in Urls |-> [n |-> PerPage, val |-> v, type |-> t,
                               next |-> NextInChain(u)]] :
                v \in Values, t \in Types}
  /\ saved = Beginning(0, NoType)
  /\ pc = "idle" /\ at = Beginning(0, NoType) /\ attempts = 0 /\ npages = 0
  /\ emitted = 0 /\ page = NoPage /\ pending = <<>>
  /\ next = Beginning(0, NoType) /\ last = FALSE
  /\ delivered = {} /\ passed = [u \in Urls |-> 0]
  /\ changed = FALSE /\ changes = 0 /\ faults = 0

Run == Start \/ FetchPage \/ Refuse \/ Write \/ Save
Next == Change \/ Run \/ Retry \/ Crash

Spec == Init /\ [][Next]_vars

(* Runs are started again and again and requests are answered in the end.  *)
FairSpec == Spec /\ WF_vars(Start) /\ WF_vars(FetchPage) /\ WF_vars(Refuse)
                 /\ WF_vars(Write) /\ WF_vars(Save)

-------------------------------------------------------------------------------
(* A checkpoint that moves past a page leaves nothing of it behind: every  *)
(* record of the page as it was last fetched has been stored in this       *)
(* cycle, the ones skipped on a mid-page resume included.  A page that     *)
(* changed meanwhile fails the run instead.                                *)
PassedPageIsDelivered ==
  saved'.url # saved.url \/ saved'.cycle # saved.cycle =>
    \A i \in 1..page.n : Event(at.url, i, page, at.cycle) \in delivered

(* The API leads from the endpoint through all pages. *)
Chained == \A u \in Urls : api[u].next = NextInChain(u)

(* A full-refresh cycle over an API that did not change stores every       *)
(* record of every page before the next cycle begins, whatever crashes,    *)
(* per-run bounds and redeliveries cut it into pieces.                     *)
CycleIsComplete ==
  saved'.cycle > saved.cycle /\ ~changed /\ Chained =>
    \A u \in Urls \ Foreign : \A i \in 1..api[u].n :
      Event(u, i, api[u], saved.cycle) \in delivered

(* Pagination always progresses: within one cycle no request is completed  *)
(* twice, over any number of runs (completed_request_hashes).              *)
NoPageTwiceInCycle == \A u \in Urls : passed[u] <= 1

(* A full-refresh cycle has ended. *)
CycleHasEnded == saved.cycle >= 1
===============================================================================
