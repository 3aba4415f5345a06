----------------------------- MODULE DiscordSource -----------------------------
(***************************************************************************)
(* A pipeline whose source is a DiscordSource reading one channel.         *)
(*                                                                         *)
(* Discord returns messages newest first.  A read walks back page by page  *)
(* from the newest message to the floor, the highest message of the last   *)
(* complete read, and checkpoints how far it has come, the floor, and the  *)
(* newest message it saw at the start, which becomes the next floor.       *)
(* Messages arrive and are deleted between the requests; requests are      *)
(* rate limited or fail, and runs die between any two steps.               *)
(***************************************************************************)
EXTENDS Integers, FiniteSets

CONSTANTS
  PageSize, MaxRetries,
  None,
  MaxId,        \* bound: snowflakes are 1..MaxId
  MaxDeletes, MaxFaults    \* bounds

DiscordAssumption ==
  /\ PageSize \in Nat \ {0} /\ MaxRetries \in Nat
  /\ MaxId \in Nat /\ MaxDeletes \in Nat /\ MaxFaults \in Nat

Ids == 1..MaxId

VARIABLES
  channel,   \* messages in the channel
  newest,    \* last snowflake given out
  deletes,
  state,     \* saved checkpoint [last, before, floor, high]; 0 or None: not there
  pc,        \* "idle", "request", "write", "save", "log"
  at,        \* locals of read: [before, floor, high]
  attempt,   \* of _request
  page,      \* eligible messages yielded and not yet written
  message,   \* the StateMessage that follows them
  returns,   \* read() returns behind it
  dest, faults

api == <<channel, newest, deletes>>
vars == <<channel, newest, deletes, state, pc, at, attempt, page, message, returns,
          dest, faults>>

-------------------------------------------------------------------------------
(* The channel *)

Post ==
  /\ newest < MaxId
  /\ newest' = newest + 1 /\ channel' = channel \cup {newest + 1}
  /\ UNCHANGED <<deletes, state, pc, at, attempt, page, message, returns, dest, faults>>

Delete ==
  /\ deletes < MaxDeletes /\ deletes' = deletes + 1
  /\ \E m \in channel : channel' = channel \ {m}
  /\ UNCHANGED <<newest, state, pc, at, attempt, page, message, returns, dest, faults>>

(* GET /channels/{id}/messages: the newest messages below before. *)
Response ==
  LET below == {m \in channel : at.before # None => m < at.before}
  IN  {m \in below : Cardinality({n \in below : n > m}) < PageSize}

-------------------------------------------------------------------------------
(* DiscordSource.read *)

Start ==
  /\ pc = "idle"
  /\ pc' = "request" /\ attempt' = 0
  /\ at' = [before |-> state.before,
            floor |-> IF state.floor # 0 THEN state.floor ELSE state.last,
            high |-> state.high]
  /\ UNCHANGED <<api, state, page, message, returns, dest, faults>>

(* _request: 429 and 5xx are retried until the budget is spent. *)
Retry ==
  /\ pc = "request" /\ faults < MaxFaults /\ faults' = faults + 1
  /\ IF attempt < MaxRetries
     THEN attempt' = attempt + 1 /\ UNCHANGED pc
     ELSE attempt' = 0 /\ pc' = "idle"
  /\ UNCHANGED <<api, state, at, page, message, returns, dest>>

(* The checkpoint of a complete read: the newest message seen at its start. *)
MutantCompleted(high) == [last |-> newest, before |-> None, floor |-> 0, high |-> None]
Completed(high) ==
  [last |-> IF high = None THEN at.floor ELSE high, before |-> None, floor |-> 0,
   high |-> None]

\* As in FiniteSetsExt, of which the proofs need no more.
Max(S) == CHOOSE x \in S : \A y \in S : x >= y
Min(S) == CHOOSE x \in S : \A y \in S : x =< y

(* The walk is over: at the floor, or at the channel's first message. *)
MutantReached(ids) == Cardinality(ids) <= PageSize
Reached(ids) ==
  \/ at.floor # 0 /\ Min(ids) <= at.floor
  \/ Cardinality(ids) < PageSize

(* The next page is the one below the oldest message of this one. *)
MutantBefore(ids) == Min(ids) - 1
Before(ids) == Min(ids)

Page ==
  /\ pc = "request"
  /\ pc' = "write" /\ attempt' = 0
  /\ LET ids == Response
         high == IF at.high # None THEN at.high ELSE IF ids = {} THEN None ELSE Max(ids)
     IN  /\ page' = {m \in ids : m > at.floor}
         /\ IF ids = {}
            THEN returns' = TRUE /\ message' = Completed(high) /\ UNCHANGED at
            ELSE IF Reached(ids)
            THEN /\ returns' = TRUE /\ message' = Completed(high)
                 /\ at' = [at EXCEPT !.high = high]
            ELSE /\ returns' = FALSE
                 /\ at' = [at EXCEPT !.before = Before(ids), !.high = high]
                 /\ message' = [last |-> 0, before |-> Before(ids), floor |-> at.floor,
                                high |-> high]
  /\ UNCHANGED <<api, state, dest, faults>>

(* Pipeline.run *)
Write ==
  /\ pc = "write"
  /\ pc' = "save" /\ dest' = dest \cup page /\ page' = {}
  /\ UNCHANGED <<api, state, at, attempt, message, returns, faults>>
Save ==
  /\ pc = "save"
  /\ state' = message /\ message' = None
  /\ pc' = IF returns THEN "idle" ELSE "request"
  /\ UNCHANGED <<api, at, attempt, page, returns, dest, faults>>
Crash ==
  /\ pc # "idle" /\ faults < MaxFaults /\ faults' = faults + 1
  /\ pc' = "idle" /\ page' = {} /\ message' = None /\ attempt' = 0
  /\ UNCHANGED <<api, state, at, returns, dest>>

-------------------------------------------------------------------------------
Init ==
  /\ newest \in 0..MaxId /\ channel = 1..newest /\ deletes = 0
  /\ state = [last |-> 0, before |-> None, floor |-> 0, high |-> None]
  /\ pc = "idle" /\ at = [before |-> None, floor |-> 0, high |-> None]
  /\ attempt = 0 /\ page = {} /\ message = None /\ returns = FALSE
  /\ dest = {} /\ faults = 0

Read == Start \/ Page \/ Write \/ Save
Next == Post \/ Delete \/ Retry \/ Read \/ Crash

(* The pipeline is started again and again, and a run that does not die    *)
(* goes on; faults and posts are finitely many.                            *)
Spec == Init /\ [][Next]_vars /\ WF_vars(Read)

-------------------------------------------------------------------------------
(* A saved watermark is complete: every message up to it that is still in  *)
(* the channel has been delivered, although messages arrived, vanished and *)
(* runs died while the read walked back.                                   *)
WatermarkIsComplete == \A m \in channel : m <= state.last => m \in dest

(* A half-finished walk has left nothing behind it: between its position   *)
(* and the watermark it will promote, and up to its floor, all is there.   *)
WalkIsComplete ==
  state.before # None =>
    \A m \in channel :
      \/ m > state.high
      \/ m < state.before /\ m > state.floor
      \/ m \in dest

(* A message is delivered, or was deleted before. *)
Settled(m) == m \in dest \/ m \notin channel
===============================================================================
