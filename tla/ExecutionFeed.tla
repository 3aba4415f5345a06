----------------------------- MODULE ExecutionFeed -----------------------------
(***************************************************************************)
(* The WebSocket manager: connections that watch one run, and the          *)
(* broadcasts of its executor.                                             *)
(*                                                                         *)
(* All of it runs on one event loop, and an await is where another         *)
(* coroutine may step in.  A broadcast walks the list of connections       *)
(* itself, not a copy, and awaits every send; meanwhile connections are    *)
(* added and removed.  Parallel nodes broadcast at the same time.  A       *)
(* client that comes back is another connection.                           *)
(***************************************************************************)
EXTENDS Integers, Sequences, FiniteSets

CONSTANTS
  Connections,
  Senders,       \* coroutines that broadcast, one event each
  Nobody

VARIABLES
  list,      \* active_connections[run_id]; a sequence of connections
  epoch,     \* which list object that is: a list that has run empty is dropped
  socket,    \* "new", "accepted", "open", "closing", "gone", "stale"
  cast,      \* per sender: [stage, epoch, index, sending, dead]
  told,      \* per connection and sender: sends that succeeded, 2 for more
  due        \* per sender: connections open since before its broadcast

vars == <<list, epoch, socket, cast, told, due>>

Resting == [stage |-> "none", epoch |-> 0, index |-> 1, sending |-> Nobody, dead |-> {}]

(* A sequence without the elements of a set. *)
Without(q, cs) ==
  LET rest[i \in 0..Len(q)] ==
        IF i = 0 THEN <<>>
        ELSE IF q[i] \in cs THEN rest[i - 1] ELSE Append(rest[i - 1], q[i])
  IN  rest[Len(q)]

(* disconnect: the connections are removed, an empty list dropped.         *)
MutantDisconnect(cs) == UNCHANGED <<list, epoch>>
Disconnect(cs) ==
  LET rest == Without(list, cs)
  IN  list' = rest /\ epoch' = IF list # <<>> /\ rest = <<>> THEN epoch + 1 ELSE epoch

-------------------------------------------------------------------------------
(* handle_connection: without a valid access token of the run's owner or   *)
(* an administrator the socket is closed; otherwise it is accepted, and    *)
(* after that await the connection is registered.                          *)
Accept(c) ==
  /\ socket[c] = "new"
  /\ \E allowed \in BOOLEAN :
       socket' = [socket EXCEPT ![c] = IF allowed THEN "accepted" ELSE "gone"]
  /\ UNCHANGED <<list, epoch, cast, told, due>>
Register(c) ==
  /\ socket[c] = "accepted"
  /\ socket' = [socket EXCEPT ![c] = "open"]
  /\ list' = Append(list, c)
  /\ UNCHANGED <<epoch, cast, told, due>>

(* The client goes away; its handler has yet to notice. *)
Close(c) ==
  /\ socket[c] = "open"
  /\ socket' = [socket EXCEPT ![c] = "closing"]
  /\ due' = [s \in Senders |-> due[s] \ {c}]
  /\ UNCHANGED <<list, epoch, cast, told>>

(* receive_text raises WebSocketDisconnect: the handler ends in order.     *)
Unregister(c) ==
  /\ socket[c] = "closing"
  /\ socket' = [socket EXCEPT ![c] = "gone"]
  /\ Disconnect({c})
  /\ UNCHANGED <<cast, told, due>>

(* The handler ends by another exception: accept fails, receive_text meets *)
(* a binary frame, the task is cancelled.  Nobody calls disconnect.        *)
Fail(c) ==
  /\ socket[c] \in {"accepted", "open", "closing"}
  /\ socket' = [socket EXCEPT ![c] = IF @ = "accepted" THEN "gone" ELSE "stale"]
  /\ due' = [s \in Senders |-> due[s] \ {c}]
  /\ UNCHANGED <<list, epoch, cast, told>>

-------------------------------------------------------------------------------
(* broadcast *)

Begin(s) ==
  /\ cast[s].stage = "none"
  /\ cast' = [cast EXCEPT ![s].stage = "next", ![s].epoch = epoch]
  /\ due' = [due EXCEPT ![s] = {c \in Connections : socket[c] = "open"}]
  /\ UNCHANGED <<list, epoch, socket, told>>

(* The list the sender walks: a dropped one is empty. *)
Walked(s) == IF cast[s].epoch = epoch THEN list ELSE <<>>

(* The iterator's next element, and the send that is awaited. *)
MutantNextIndex(i) == i
NextIndex(i) == i + 1
Send(s) ==
  /\ cast[s].stage = "next" /\ cast[s].index <= Len(Walked(s))
  /\ cast' = [cast EXCEPT ![s].stage = "sending", ![s].sending = Walked(s)[cast[s].index],
                          ![s].index = NextIndex(@)]
  /\ UNCHANGED <<list, epoch, socket, told, due>>

(* The send returns; to a client that has gone it may raise instead. *)
Sent(s) ==
  LET c == cast[s].sending
  IN  /\ cast[s].stage = "sending"
      /\ \E raises \in {FALSE} \cup {x \in {TRUE} : socket[c] # "open"} :
           cast' = [cast EXCEPT ![s].stage = "next", ![s].sending = Nobody,
                                ![s].dead = IF raises THEN @ \cup {c} ELSE @]
      /\ told' = IF socket[c] = "open" /\ told[c][s] < 2
                 THEN [told EXCEPT ![c][s] = @ + 1] ELSE told
      /\ UNCHANGED <<list, epoch, socket, due>>

(* The end of the walk: connections whose send raised are removed.         *)
End(s) ==
  /\ cast[s].stage = "next" /\ cast[s].index > Len(Walked(s))
  /\ Disconnect(cast[s].dead)
  /\ cast' = [cast EXCEPT ![s] = [Resting EXCEPT !.stage = "done", !.dead = cast[s].dead]]
  /\ UNCHANGED <<socket, told, due>>

-------------------------------------------------------------------------------
Init ==
  /\ list = <<>> /\ epoch = 0
  /\ socket = [c \in Connections |-> "new"]
  /\ cast = [s \in Senders |-> Resting]
  /\ told = [c \in Connections |-> [s \in Senders |-> 0]]
  /\ due = [s \in Senders |-> {}]

Next ==
  \/ \E c \in Connections : Accept(c) \/ Register(c) \/ Close(c) \/ Unregister(c) \/ Fail(c)
  \/ \E s \in Senders : Begin(s) \/ Send(s) \/ Sent(s) \/ End(s)
Spec == Init /\ [][Next]_vars /\ \A s \in Senders : WF_vars(Send(s) \/ Sent(s) \/ End(s))

-------------------------------------------------------------------------------
(* The list holds each open connection once, and none whose handler ended  *)
(* in order, although handlers and broadcasts both remove the dead.  One   *)
(* whose handler ended by another exception may stay, but no longer than   *)
(* until the end of the first broadcast whose send to it raises.           *)
RegistryIsExact ==
  /\ \A c \in Connections : socket[c] = "open" =>
       Cardinality({i \in DOMAIN list : list[i] = c}) = 1
  /\ \A i \in DOMAIN list :
       /\ socket[list[i]] \in {"open", "closing", "stale"}
       /\ \A s \in Senders : cast[s].stage = "done" => list[i] \notin cast[s].dead

(* No connection is sent an event twice, although the list a broadcast     *)
(* walks by index is changed under it.                                     *)
ToldAtMostOnce == \A c \in Connections, s \in Senders : told[c][s] <= 1

(* A broadcast is under way. *)
Broadcasting(s) == cast[s].stage \in {"next", "sending"}

(* "Send an event to all WebSocket connections watching a run": a client   *)
(* that watches throughout a broadcast is told.                            *)
EveryWatcherIsTold ==
  \A s \in Senders : cast[s].stage = "done" => \A c \in due[s] : told[c][s] = 1

-------------------------------------------------------------------------------
(* Why the registry is exact and nobody is told twice *)

TypeInv ==
  /\ list \in Seq(Connections) /\ epoch \in Nat
  /\ socket \in [Connections -> {"new", "accepted", "open", "closing", "gone", "stale"}]
  /\ cast \in [Senders -> [stage : {"none", "next", "sending", "done"}, epoch : Nat,
                           index : Nat \ {0}, sending : Connections \cup {Nobody},
                           dead : SUBSET Connections]]
  /\ told \in [Connections -> [Senders -> Nat]]

(* Positions of a list hold different connections, each open one and none  *)
(* that was never registered or whose handler ended in order.              *)
ListIsExact ==
  /\ \A i, j \in DOMAIN list : list[i] = list[j] => i = j
  /\ \A i \in DOMAIN list : socket[list[i]] \in {"open", "closing", "stale"}
  /\ \A c \in Connections : socket[c] = "open" => \E i \in DOMAIN list : list[i] = c

(* A connection to which a send raised does not open again. *)
DeadAreClosed ==
  \A s \in Senders : \A c \in cast[s].dead :
    /\ socket[c] \in {"closing", "gone", "stale"}
    /\ cast[s].stage = "done" => \A i \in DOMAIN list : list[i] # c

(* Whom a sender may still reach it has not told: those never registered,  *)
(* the one it is sending to and, in the list it walks, all from its index. *)
Ahead(s) ==
  {list[i] : i \in {j \in DOMAIN list : cast[s].epoch = epoch /\ j >= cast[s].index}}
UntoldAhead ==
  \A s \in Senders :
    /\ cast[s].epoch <= epoch
    /\ cast[s].stage = "none" => \A c \in Connections : told[c][s] = 0
    /\ \A c \in Connections : socket[c] \in {"new", "accepted"} => told[c][s] = 0
    /\ Broadcasting(s) => \A c \in Ahead(s) : told[c][s] = 0
    /\ cast[s].stage = "sending" =>
         /\ cast[s].sending \in Connections \ Ahead(s) /\ told[cast[s].sending][s] = 0
         /\ socket[cast[s].sending] \notin {"new", "accepted"}

IInv == TypeInv /\ ListIsExact /\ DeadAreClosed /\ UntoldAhead /\ ToldAtMostOnce
===============================================================================
