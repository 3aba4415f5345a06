---------------------------- MODULE PageExtraction ----------------------------
(***************************************************************************)
(* DocumentSource._parse_file_with_document_ai: the pages of a PDF are     *)
(* extracted in windows of concurrent tasks.  A page is rendered, perhaps  *)
(* recognised (its result is cached), split, and searched for tables; each *)
(* component serves one page at a time under a lock of this call.  The     *)
(* work itself runs outside the event loop, in a child process or a        *)
(* thread, which cancelling the task does not stop.  A page times out, a   *)
(* component fails, the caller cancels: the window's other tasks are       *)
(* cancelled and awaited, the call raises, and a best-effort source goes   *)
(* on to the next document with the same components and new locks.  A page *)
(* that is cancelled again while its component is being stopped is not     *)
(* waited for: its process or thread is left behind.                       *)
(***************************************************************************)
EXTENDS Integers, Sequences, FiniteSets

CONSTANTS
  PageCount,      \* pages of every document
  Concurrency,    \* max_page_concurrency
  OcrMode,        \* "off", "auto", "always"
  Tables,         \* a local table extractor is configured
  None,
  Documents,      \* bound: documents read one after the other
  MaxFaults       \* bound: timeouts, failures, cancellations

ExtractionAssumption ==
  /\ PageCount \in Nat \ {0} /\ Concurrency \in Nat \ {0}
  /\ OcrMode \in {"off", "auto", "always"} /\ Tables \in BOOLEAN
  /\ Documents \in Nat /\ MaxFaults \in Nat
  /\ None \notin 1..PageCount

Pages == 1..PageCount
Components == {"renderer", "ocr", "tables"}

VARIABLES
  doc,       \* documents begun
  phase,     \* "idle", "pages", "failing" (gather raised), "raised", "done"
  first,     \* first page of the window
  task,      \* [Pages -> [stage, status]]; stage None: "none", "begin", "done", "failed"
  lock,      \* [Components -> Pages or None]: this call's component locks
  workers,   \* [Components -> SUBSET (documents \X Pages)]: threads and processes
  cached,    \* pages of the document whose OCR result is in the cache
  elements,  \* pages whose elements the call has collected
  again,     \* (documents \X Pages): cancelled while a component was being stopped
  faults

vars == <<doc, phase, first, task, lock, workers, cached, elements, again, faults>>

-------------------------------------------------------------------------------
(* The stages of a page, in order; a status "wait" waits for the lock,     *)
(* "work" for the component, "stop" for the component after a cancellation. *)
Outside(status) == [stage |-> None, status |-> status]
At(p, c, s) == task[p] = [stage |-> c, status |-> s]
Running(p) == \E c \in Components, s \in {"wait", "work", "stop"} : At(p, c, s)
Ended(p) == task[p].status \in {"done", "failed"}
Uses(p, c) == At(p, c, "work") \/ At(p, c, "stop")
Goto(p, c) == [task EXCEPT ![p] = [stage |-> c, status |-> "wait"]]

Window == {p \in Pages : first <= p /\ p < first + Concurrency}

StartDocument ==
  /\ phase \in {"idle", "raised", "done"} /\ doc < Documents
  /\ doc' = doc + 1 /\ phase' = "pages" /\ first' = 1
  /\ task' = [p \in Pages |-> IF p <= Concurrency THEN Outside("begin") ELSE Outside("none")]
  /\ lock' = [c \in Components |-> None]
  /\ cached' \in SUBSET Pages     \* an earlier run may have filled the cache
  /\ elements' = <<>>
  /\ UNCHANGED <<workers, again, faults>>

(* run_page: a page that needs no image goes straight through. *)
BeginPage ==
  /\ \E p \in Pages :
       /\ task[p] = Outside("begin")
       /\ \/ task' = Goto(p, "renderer")
          \/ OcrMode # "always" /\ ~Tables /\ task' = [task EXCEPT ![p] = Outside("done")]
  /\ UNCHANGED <<doc, phase, first, lock, workers, cached, elements, again, faults>>

(* The table extractor has a lock of its own, over all calls.              *)
MutantFree(c) == lock[c] = None
Free(c) == lock[c] = None /\ (c = "tables" => workers[c] = {})
Acquire ==
  /\ \E p \in Pages, c \in Components :
       /\ At(p, c, "wait") /\ Free(c)
       /\ lock' = [lock EXCEPT ![c] = p]
       /\ task' = [task EXCEPT ![p].status = "work"]
       /\ workers' = [workers EXCEPT ![c] = @ \cup {<<doc, p>>}]
  /\ UNCHANGED <<doc, phase, first, cached, elements, again, faults>>

(* async with component_lock(...): left on every way out. *)
MutantRelease(c) == lock
Release(c) == [lock EXCEPT ![c] = None]

AfterOcr(p) == IF Tables THEN Goto(p, "tables") ELSE [task EXCEPT ![p] = Outside("done")]
(* process_image: OCR when asked for or when the native text is poor,      *)
(* unless the result of this image is cached.                              *)
AfterRender(p) ==
  {Goto(p, "ocr") : x \in IF OcrMode # "off" /\ p \notin cached THEN {p} ELSE {}}
    \cup {AfterOcr(p) : x \in IF OcrMode # "always" \/ p \in cached THEN {p} ELSE {}}

WorkDone ==
  /\ \E p \in Pages, c \in Components :
       /\ At(p, c, "work")
       /\ lock' = Release(c)
       /\ workers' = [workers EXCEPT ![c] = @ \ {<<doc, p>>}]
       /\ cached' = IF c = "ocr" THEN cached \cup {p} ELSE cached
       /\ task' \in CASE c = "renderer" -> AfterRender(p)
                      [] c = "ocr" -> {AfterOcr(p)}
                      [] c = "tables" -> {[task EXCEPT ![p] = Outside("done")]}
  /\ UNCHANGED <<doc, phase, first, elements, again, faults>>

(* The component raises, and the task with it. *)
WorkFails ==
  /\ faults < MaxFaults /\ faults' = faults + 1
  /\ \E p \in Pages, c \in Components :
       /\ At(p, c, "work")
       /\ lock' = Release(c)
       /\ workers' = [workers EXCEPT ![c] = @ \ {<<doc, p>>}]
       /\ task' = [task EXCEPT ![p] = Outside("failed")]
  /\ UNCHANGED <<doc, phase, first, cached, elements, again>>

(* CancelledError reaches a task.  While its component works, the adapter  *)
(* first stops the child process (run_bounded_process, _terminate_process) *)
(* or drains the thread (_drain_blocking), still under the lock.  A second *)
(* one meanwhile ends the page: the renderer and the OCR engine await the  *)
(* process unshielded.  The table extractor is shielded, but not the page  *)
(* when asyncio.wait_for runs it in an inner task (Python 3.11), which the *)
(* second one abandons with all its locks.                                 *)
MutantCancelled(p, inner) == Outside("failed")
Cancelled(p, inner) ==
  IF \E c \in Components : At(p, c, "work") THEN [task[p] EXCEPT !.status = "stop"]
  ELSE IF At(p, "tables", "stop") /\ ~inner THEN task[p] ELSE Outside("failed")

Stopping(p) == \E c \in Components : At(p, c, "stop")
Abandons(S, c, inner) == ~inner /\ c # "tables" /\ \E p \in S : lock[c] = p /\ At(p, c, "stop")
Cancel(S) ==
  /\ \E inner \in BOOLEAN :
       /\ task' = [p \in Pages |-> IF p \in S THEN Cancelled(p, inner) ELSE task[p]]
       /\ lock' = [c \in Components |-> IF Abandons(S, c, inner) THEN None ELSE lock[c]]
  /\ again' = again \cup {<<doc, p>> : p \in {q \in S : Stopping(q)}}
  /\ UNCHANGED <<doc, first, workers, cached, elements>>

Timeout ==
  /\ faults < MaxFaults /\ faults' = faults + 1
  /\ \E p \in Pages : Running(p) /\ ~Stopping(p) /\ Cancel({p})
  /\ UNCHANGED phase

Stopped ==
  /\ \E p \in Pages, c \in Components :
       /\ At(p, c, "stop")
       /\ workers' = [workers EXCEPT ![c] = @ \ {<<doc, p>>}]
       /\ lock' = Release(c)
       /\ task' = [task EXCEPT ![p] = Outside("failed")]
  /\ UNCHANGED <<doc, phase, first, cached, elements, again, faults>>

(* What was left behind exits: it was sent SIGTERM or SIGKILL, or returns. *)
LeftBehind(c) == {w \in workers[c] : w[1] = doc => ~Uses(w[2], c)}
Exit ==
  /\ \E c \in Components : \E w \in LeftBehind(c) :
       /\ workers' = [workers EXCEPT ![c] = @ \ {w}]
       /\ lock' = IF w = <<doc, lock[c]>> THEN Release(c) ELSE lock
  /\ UNCHANGED <<doc, phase, first, task, cached, elements, again, faults>>

(* gather raises the first failure: the window's tasks that are not done   *)
(* are cancelled.                                                          *)
Unfinished == {p \in Window : ~Ended(p)}
GatherFails ==
  /\ phase = "pages" /\ \E p \in Window : task[p].status = "failed"
  /\ Cancel(Unfinished)
  /\ phase' = "failing" /\ UNCHANGED faults
(* The caller cancels, also while the tasks are awaited: gather hands it   *)
(* on to them, and raises when the first has ended.                        *)
CallerCancels ==
  /\ phase \in {"pages", "failing"} /\ faults < MaxFaults /\ faults' = faults + 1
  /\ Cancel(Unfinished)
  /\ phase' = IF Unfinished = {} THEN "failing" ELSE phase

(* gather(..., return_exceptions=True), then raise. *)
MutantSettled == TRUE
Settled == \A p \in Window : Ended(p)
Raise ==
  /\ phase = "failing" /\ Settled
  /\ phase' = "raised"
  /\ UNCHANGED <<doc, first, task, lock, workers, cached, elements, again, faults>>

(* The window is complete: its elements in page order, then the next one. *)
MutantNextFirst == first + Concurrency + 1
NextFirst == first + Concurrency
Collected == [i \in 1..Cardinality(Window) |-> first + i - 1]
EndWindow ==
  /\ phase = "pages" /\ \A p \in Window : task[p].status = "done"
  /\ elements' = elements \o Collected
  /\ first' = NextFirst
  /\ phase' = IF NextFirst > PageCount THEN "done" ELSE "pages"
  /\ task' = [p \in Pages |->
       IF NextFirst <= p /\ p < NextFirst + Concurrency THEN Outside("begin") ELSE task[p]]
  /\ UNCHANGED <<doc, lock, workers, cached, again, faults>>

-------------------------------------------------------------------------------
Init ==
  /\ doc = 0 /\ phase = "idle" /\ first = 1
  /\ task = [p \in Pages |-> Outside("none")]
  /\ lock = [c \in Components |-> None] /\ workers = [c \in Components |-> {}]
  /\ cached = {} /\ elements = <<>> /\ again = {} /\ faults = 0

Work == \/ BeginPage \/ Acquire \/ WorkDone \/ Stopped \/ Exit
        \/ GatherFails \/ Raise \/ EndWindow
Next == StartDocument \/ Work \/ WorkFails \/ Timeout \/ CallerCancels

(* Children exit, threads return and the event loop runs its tasks. *)
Spec == Init /\ [][Next]_vars /\ WF_vars(Work)

-------------------------------------------------------------------------------
(* A component never serves two pages of one document at once, and pages   *)
(* of two documents only when one was cancelled again while its component  *)
(* was being stopped; the table extractor serves one page at a time even   *)
(* then.  Nothing else is still at work when the next call acquires it,    *)
(* whose locks are new ones.                                               *)
OneUserPerComponent ==
  \A c \in Components : \A v, w \in workers[c] :
    v # w => v[1] # w[1] /\ (v \in again \/ w \in again) /\ c # "tables"

(* When the call has returned or raised, no page of it is under way, and   *)
(* no process, thread or held lock is left but those of pages cancelled    *)
(* again while they were being stopped; none at all when it has returned.  *)
Remains(c) == workers[c] \cup {<<doc, p>> : p \in {lock[c]} \ {None}}
NothingRunsOn ==
  phase \in {"raised", "done"} =>
    /\ \A p \in Pages : ~Running(p) /\ task[p] # Outside("begin")
    /\ \A c \in Components : /\ Remains(c) \subseteq again
                             /\ phase = "done" => \A w \in Remains(c) : w[1] # doc

(* A call that returns has the elements of every page once, in page order, *)
(* whatever order the concurrent pages finished in.                        *)
PagesInOrder == phase = "done" => elements = [i \in Pages |-> i]

(* A call is under way; it has returned or raised. *)
CallUnderWay == phase = "pages"
CallEnded == phase \in {"raised", "done"}
===============================================================================
