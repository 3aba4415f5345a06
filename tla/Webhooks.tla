------------------------------- MODULE Webhooks --------------------------------
(***************************************************************************)
(* One webhook trigger: signed deliveries, the replay ledger, the rolling  *)
(* rate limit, and the pruning of the ledger.                              *)
(*                                                                         *)
(* A sender signs a message with the secret it knows and its own clock;    *)
(* the network may delay and copy it.  A receiving process checks the      *)
(* timestamp, reads the body, notes its clock, and then waits for the      *)
(* trigger's row lock under which it checks secret, ledger and rate and    *)
(* commits the ledger row with the run.                                    *)
(***************************************************************************)
EXTENDS Integers, FiniteSets, FiniteSetsExt

CONSTANTS
  Deliveries,    \* delivery ids
  Requests,      \* HTTP requests the receivers may get
  Skew,          \* webhook_timestamp_skew_seconds
  Window,        \* the minute of the rate limit
  Retention,     \* webhook_delivery_retention_hours
  Drift,         \* clocks are within Drift of the time
  Stall,         \* longest time between a request's timestamp check and its commit
  Limits,        \* rate limits the owner sets
  MaxTime, MaxEdits    \* bounds

WebhooksAssumption ==
  /\ {Skew, Window, Retention, Drift, Stall, MaxTime, MaxEdits} \subseteq Nat
  /\ Limits \subseteq Nat \ {0}

VARIABLES
  now,
  trigger,    \* the row: [exists, enabled, secret, limit]
  edits,
  sent,       \* signed messages: [delivery, stamp, key]
  request,    \* per request: [stage, msg, began, received]
  ledger,     \* webhook_deliveries: [delivery, received]
  runs,       \* runs created: [msg, received, n], n counting the copies
  highest     \* highest limit there ever was

vars == <<now, trigger, edits, sent, request, ledger, runs, highest>>

Clocks == {c \in (now - Drift)..(now + Drift) : c >= 0}
NoMsg == [delivery |-> 0, stamp |-> 0, key |-> 0]
Idle == [stage |-> "none", msg |-> NoMsg, began |-> 0, received |-> 0]

-------------------------------------------------------------------------------
(* The sender: it may know an old secret, and its clock is its own.        *)
Send ==
  /\ \E d \in Deliveries, c \in 0..MaxTime, k \in 0..trigger.secret :
       /\ \A m \in sent : m.delivery # d
       /\ sent' = sent \cup {[delivery |-> d, stamp |-> c, key |-> k]}
  /\ UNCHANGED <<now, trigger, edits, request, ledger, runs, highest>>

-------------------------------------------------------------------------------
(* receive_webhook *)

(* parse_timestamp: the stamp is within Skew of the receiver's clock.      *)
Timely(stamp, clock) == stamp - clock <= Skew /\ clock - stamp <= Skew

(* A copy of a message arrives; parse_delivery_id and parse_signature      *)
(* refuse what is not well formed, which no sent message is.               *)
Arrive(q) ==
  /\ request[q].stage = "none"
  /\ \E m \in sent, c \in Clocks :
       request' = [request EXCEPT ![q] =
         IF Timely(m.stamp, c)
         THEN [stage |-> "body", msg |-> m, began |-> now, received |-> 0]
         ELSE [Idle EXCEPT !.stage = "refused"]]
  /\ UNCHANGED <<now, trigger, edits, sent, ledger, runs, highest>>

(* read_limited_body gives up on a body that is too long. *)
TooLong(q) ==
  /\ request[q].stage = "body"
  /\ request' = [request EXCEPT ![q] = [Idle EXCEPT !.stage = "refused"]]
  /\ UNCHANGED <<now, trigger, edits, sent, ledger, runs, highest>>

(* accept_webhook_delivery notes the time, then waits for the row lock.    *)
Receive(q) ==
  /\ request[q].stage = "body"
  /\ \E c \in Clocks :
       request' = [request EXCEPT ![q].stage = "waiting", ![q].received = c]
  /\ UNCHANGED <<now, trigger, edits, sent, ledger, runs, highest>>

Authentic(m) == trigger.exists /\ trigger.enabled /\ m.key = trigger.secret
Replayed(m) == \E row \in ledger : row.delivery = m.delivery
MutantWithinRate(received) ==
  Cardinality({row \in ledger : row.received >= received - Window /\ row.received <= received})
    < trigger.limit
WithinRate(received) ==
  Cardinality({row \in ledger : row.received >= received - Window}) < trigger.limit

(* Under the row lock: 404, 401, 400, 409 and 429, or one commit of the    *)
(* ledger row, the run and its job.                                        *)
Acceptable(q) ==
  LET m == request[q].msg
  IN  Authentic(m) /\ ~Replayed(m) /\ WithinRate(request[q].received)
Accept(q) ==
  /\ request[q].stage = "waiting" /\ Acceptable(q)
  /\ LET m == request[q].msg
         copies == {r \in runs : r.msg = m}
     IN  /\ ledger' = ledger \cup {[delivery |-> m.delivery, received |-> request[q].received]}
         /\ runs' = runs \cup {[msg |-> m, received |-> request[q].received,
                                n |-> Cardinality(copies) + 1]}
  /\ request' = [request EXCEPT ![q] = [Idle EXCEPT !.stage = "accepted"]]
  /\ UNCHANGED <<now, trigger, edits, sent, highest>>
Refuse(q) ==
  /\ request[q].stage = "waiting"
  /\ ~Acceptable(q)
  /\ request' = [request EXCEPT ![q] = [Idle EXCEPT !.stage = "refused"]]
  /\ UNCHANGED <<now, trigger, edits, sent, ledger, runs, highest>>

(* The process dies, the client hangs up, or the body is no JSON object:   *)
(* nothing is committed.                                                   *)
Lose(q) ==
  /\ request[q].stage \in {"body", "waiting"}
  /\ request' = [request EXCEPT ![q] = [Idle EXCEPT !.stage = "lost"]]
  /\ UNCHANGED <<now, trigger, edits, sent, ledger, runs, highest>>

-------------------------------------------------------------------------------
(* The scheduler and the owner *)

(* prune_webhook_deliveries *)
MutantExpired(clock) == {row \in ledger : row.received < clock - Window}
Expired(clock) == {row \in ledger : row.received < clock - Retention}
Prune ==
  /\ \E c \in Clocks :
       /\ Expired(c) # {}
       /\ ledger' = ledger \ Expired(c)
  /\ UNCHANGED <<now, trigger, edits, sent, request, runs, highest>>

(* rotate_webhook_secret *)
Rotate ==
  /\ edits < MaxEdits /\ edits' = edits + 1 /\ trigger.exists
  /\ trigger' = [trigger EXCEPT !.secret = @ + 1]
  /\ UNCHANGED <<now, sent, request, ledger, runs, highest>>
(* update_trigger of a webhook trigger *)
Update ==
  /\ edits < MaxEdits /\ edits' = edits + 1 /\ trigger.exists
  /\ \E on \in BOOLEAN, limit \in Limits :
       /\ trigger' = [trigger EXCEPT !.enabled = on, !.limit = limit]
       /\ highest' = IF limit > highest THEN limit ELSE highest
  /\ UNCHANGED <<now, sent, request, ledger, runs>>
(* delete_trigger; the ledger goes with the trigger. *)
Delete ==
  /\ edits < MaxEdits /\ edits' = edits + 1 /\ trigger.exists
  /\ trigger' = [trigger EXCEPT !.exists = FALSE] /\ ledger' = {}
  /\ UNCHANGED <<now, sent, request, runs, highest>>

(* A request is cut off by the server before it has stalled longer.        *)
Tick ==
  /\ now < MaxTime /\ now' = now + 1
  /\ \A q \in Requests :
       request[q].stage \in {"body", "waiting"} => now < request[q].began + Stall
  /\ UNCHANGED <<trigger, edits, sent, request, ledger, runs, highest>>

-------------------------------------------------------------------------------
(* create_trigger *)
Init ==
  /\ now = 0 /\ edits = 0 /\ sent = {} /\ ledger = {} /\ runs = {}
  /\ \E limit \in Limits :
       trigger = [exists |-> TRUE, enabled |-> TRUE, secret |-> 0, limit |-> limit]
  /\ highest = trigger.limit
  /\ request = [q \in Requests |-> Idle]

Next ==
  \/ Tick \/ Send \/ Prune \/ Rotate \/ Update \/ Delete
  \/ \E q \in Requests :
       Arrive(q) \/ TooLong(q) \/ Receive(q) \/ Accept(q) \/ Refuse(q) \/ Lose(q)
Spec == Init /\ [][Next]_vars

-------------------------------------------------------------------------------
(* A signed message makes at most one run, however often and wherever its  *)
(* copies arrive, as long as the ledger keeps a row longer than a message  *)
(* can stay valid: Retention >= 2 * Skew + 4 * Drift + Stall.              *)
OneRunPerMessage ==
  \A r, s \in runs : r.msg = s.msg => r = s

(* No Window holds more accepted deliveries than the highest rate limit,   *)
(* although receivers note their time before they queue for the row lock   *)
(* and so commit out of its order.                                         *)
RateIsLimited ==
  \A r \in runs :
    Cardinality({s \in runs : s.received \in r.received..(r.received + Window)}) <= highest

(* While the trigger stands, a run of the last Retention has its ledger    *)
(* row: an accepted delivery is never without its replay guard.            *)
RunsAreGuarded ==
  trigger.exists =>
    \A r \in runs : r.received + Retention >= now + Drift =>
      [delivery |-> r.msg.delivery, received |-> r.received] \in ledger
===============================================================================
