---------------------------- MODULE WebhooksProofs ----------------------------
(***************************************************************************)
(* Proofs about Webhooks: how long the replay ledger has to be kept, for   *)
(* replays to be refused and for the rate limit to be one.                 *)
(* They hold for any number of requests and deliveries, any clock drift,   *)
(* any skew and any edits of the trigger.                                  *)
(***************************************************************************)
EXTENDS Webhooks, FiniteSetTheorems, TLAPS

Msg == [delivery : Deliveries \cup {0}, stamp : Nat, key : Nat]
Request == [stage : {"none", "body", "waiting", "accepted", "refused", "lost"},
            msg : Msg, began : Nat, received : Nat]

\* Every variable that the argument is about has its type.
Typed ==
  /\ now \in Nat
  /\ trigger \in [exists : BOOLEAN, enabled : BOOLEAN, secret : Nat, limit : Nat]
  /\ sent \subseteq Msg
  /\ request \in [Requests -> Request]
  /\ ledger \subseteq [delivery : Deliveries \cup {0}, received : Nat]
  /\ \A r \in runs : r.msg \in Msg /\ r.received \in Nat

\* The constants are numbers.
LEMMA ConstantsType ==
  ASSUME WebhooksAssumption
  PROVE  /\ Skew \in Nat /\ Window \in Nat /\ Retention \in Nat /\ Drift \in Nat /\ Stall \in Nat
         /\ MaxTime \in Nat /\ Limits \subseteq Nat
  BY DEF WebhooksAssumption

\* The initial state is well typed.
LEMMA TypedInit == ASSUME WebhooksAssumption, Init PROVE Typed
  BY ConstantsType DEF Init, Typed, Request, Msg, Idle, NoMsg

\* Every step keeps the types.
LEMMA TypedStep == ASSUME WebhooksAssumption, Typed, [Next]_vars PROVE Typed'
<1> USE DEF Typed
<1>1. Idle \in Request
  BY DEF Idle, NoMsg, Msg, Request
<1>2. Clocks \subseteq Nat
  BY ConstantsType DEF Clocks
<1>3. CASE Tick
  BY <1>3 DEF Tick
<1>4. CASE Send
  BY <1>4, ConstantsType DEF Send, Msg
<1>5. CASE Prune
  BY <1>5 DEF Prune
<1>6. CASE Rotate
  BY <1>6 DEF Rotate
<1>12. CASE Update
  BY <1>12, ConstantsType DEF Update
<1>13. CASE Delete
  BY <1>13 DEF Delete
<1>7. ASSUME NEW q \in Requests, Arrive(q) PROVE Typed'
  BY <1>1, <1>2, <1>7 DEF Arrive, Request
<1>8. ASSUME NEW q \in Requests, TooLong(q) \/ Refuse(q) \/ Lose(q) PROVE Typed'
  BY <1>1, <1>8 DEF TooLong, Refuse, Lose, Request
<1>9. ASSUME NEW q \in Requests, Receive(q) PROVE Typed'
  <2>1. PICK c \in Clocks :
          request' = [request EXCEPT ![q] = [request[q] EXCEPT !.stage = "waiting", !.received = c]]
    BY <1>9 DEF Receive, Request
  <2>2. [request[q] EXCEPT !.stage = "waiting", !.received = c] \in Request
    BY <1>2, <2>1 DEF Request
  <2> QED
    BY <1>9, <2>1, <2>2 DEF Receive
<1>10. ASSUME NEW q \in Requests, Accept(q) PROVE Typed'
  BY <1>1, <1>10 DEF Accept, Request, Msg
<1>11. CASE UNCHANGED vars
  BY <1>11 DEF vars
<1> QED
  BY <1>3, <1>4, <1>5, <1>6, <1>7, <1>8, <1>9, <1>10, <1>11, <1>12, <1>13 DEF Next

-------------------------------------------------------------------------------
(* A request in flight is no older than Stall, its message was timely when *)
(* it arrived, and the time it notes is no earlier than its arrival but    *)
(* for the drift of its clock.                                             *)
InTime ==
  \A q \in Requests : request[q].stage \in {"body", "waiting"} =>
    /\ request[q].began \in Nat /\ request[q].began <= now
    /\ now <= request[q].began + Stall
    /\ request[q].msg.stamp - request[q].began <= Skew + Drift
    /\ request[q].began - request[q].msg.stamp <= Skew + Drift
    /\ request[q].stage = "waiting" => request[q].received >= request[q].began - Drift

(* So a run notes a time not far before the stamp of its message. *)
RunsAreTimely ==
  \A r \in runs : r.received >= r.msg.stamp - Skew - 2 * Drift

GuardInv == Typed /\ InTime /\ RunsAreTimely /\ RunsAreGuarded

\* Nothing is in flight at the start.
LEMMA GuardInit == ASSUME WebhooksAssumption, Init PROVE GuardInv
  BY TypedInit DEF Init, GuardInv, InTime, RunsAreTimely, RunsAreGuarded, Idle

\* What Arrive, Receive and Tick check keeps every request in time.
LEMMA InTimeStep == ASSUME WebhooksAssumption, Typed, InTime, [Next]_vars PROVE InTime'
<1> USE ConstantsType DEF InTime
<1>1. CASE Tick
  BY <1>1 DEF Tick, Typed, Request
<1>2. ASSUME NEW q \in Requests, Arrive(q) PROVE InTime'
  <2>1. PICK m \in sent, c \in Clocks :
          request' = [request EXCEPT ![q] =
            IF Timely(m.stamp, c)
            THEN [stage |-> "body", msg |-> m, began |-> now, received |-> 0]
            ELSE [Idle EXCEPT !.stage = "refused"]]
    BY <1>2 DEF Arrive
  <2>2. m.stamp \in Nat /\ c \in Nat /\ c - now <= Drift /\ now - c <= Drift /\ now \in Nat
    BY DEF Typed, Msg, Clocks
  <2>3. Timely(m.stamp, c) => m.stamp - now <= Skew + Drift /\ now - m.stamp <= Skew + Drift
    BY <2>2 DEF Timely
  <2>4. \A p \in Requests \ {q} : request'[p] = request[p]
    BY <2>1 DEF Typed
  <2>5. request'[q] = IF Timely(m.stamp, c)
                      THEN [stage |-> "body", msg |-> m, began |-> now, received |-> 0]
                      ELSE [Idle EXCEPT !.stage = "refused"]
    BY <2>1 DEF Typed
  <2>6. now' = now /\ now <= now + Stall
    BY <1>2, <2>2 DEF Arrive
  <2> QED
    BY <2>2, <2>3, <2>4, <2>5, <2>6 DEF Idle
<1>3. ASSUME NEW q \in Requests, Receive(q) PROVE InTime'
  <2>1. PICK c \in Clocks :
          request' = [request EXCEPT ![q] = [request[q] EXCEPT !.stage = "waiting", !.received = c]]
    BY <1>3 DEF Receive, Typed, Request
  <2>2. c \in Nat /\ now - c <= Drift /\ now \in Nat
    BY DEF Typed, Clocks
  <2>3. \A p \in Requests \ {q} : request'[p] = request[p]
    BY <2>1 DEF Typed
  <2>4. /\ request'[q].stage = "waiting" /\ request'[q].received = c
        /\ request'[q].began = request[q].began /\ request'[q].msg = request[q].msg
    BY <2>1 DEF Typed, Request
  <2>5. now' = now /\ request[q].stage = "body"
    BY <1>3 DEF Receive
  <2> QED
    BY <2>2, <2>3, <2>4, <2>5
<1>4. ASSUME NEW q \in Requests, TooLong(q) \/ Accept(q) \/ Refuse(q) \/ Lose(q) PROVE InTime'
  <2>1. now' = now
    BY <1>4 DEF TooLong, Accept, Refuse, Lose
  <2>2. \A p \in Requests \ {q} : request'[p] = request[p]
    BY <1>4 DEF TooLong, Accept, Refuse, Lose, Typed
  <2>3. request'[q].stage \notin {"body", "waiting"}
    BY <1>4 DEF TooLong, Accept, Refuse, Lose, Typed, Idle
  <2> QED
    BY <2>1, <2>2, <2>3
<1>5. CASE Send \/ Prune \/ Rotate \/ Update \/ Delete \/ UNCHANGED vars
  BY <1>5 DEF Send, Prune, Rotate, Update, Delete, vars
<1> QED
  BY <1>1, <1>2, <1>3, <1>4, <1>5 DEF Next

\* Only Accept makes a run, and from a request that is in time.
LEMMA TimelyRunsStep ==
  ASSUME WebhooksAssumption, Typed, InTime, RunsAreTimely, [Next]_vars
  PROVE  RunsAreTimely'
<1> USE ConstantsType DEF RunsAreTimely
<1>1. ASSUME NEW q \in Requests, Accept(q) PROVE RunsAreTimely'
  <2> DEFINE new == [msg |-> request[q].msg, received |-> request[q].received,
                     n |-> Cardinality({r \in runs : r.msg = request[q].msg}) + 1]
  <2>1. runs' = runs \cup {new}
    BY <1>1 DEF Accept
  <2>2. /\ request[q].received >= request[q].began - Drift
        /\ request[q].began - request[q].msg.stamp >= 0 - (Skew + Drift)
    BY <1>1 DEF Accept, InTime, Typed, Request, Msg
  <2>3. new.received >= new.msg.stamp - Skew - 2 * Drift
    BY <2>2 DEF Typed, Request, Msg
  <2> QED
    BY <2>1, <2>3
<1>2. CASE UNCHANGED runs
  BY <1>2
<1> QED
  BY <1>1, <1>2 DEF Next, vars, Tick, Send, Prune, Rotate, Update, Delete, Arrive, TooLong,
     Receive, Refuse, Lose

\* Prune takes no row of the last Retention, Accept commits row and run as one.
LEMMA GuardedStep ==
  ASSUME WebhooksAssumption, Typed, RunsAreGuarded, [Next]_vars
  PROVE  RunsAreGuarded'
<1> USE ConstantsType DEF RunsAreGuarded
<1>1. CASE Prune
  <2>1. PICK c \in Clocks : ledger' = ledger \ Expired(c)
    BY <1>1 DEF Prune
  <2>2. c \in Nat /\ now \in Nat /\ c <= now + Drift
    BY DEF Typed, Clocks
  <2>3. ASSUME NEW r \in runs, r.received + Retention >= now + Drift
        PROVE  [delivery |-> r.msg.delivery, received |-> r.received] \notin Expired(c)
    BY <2>2, <2>3 DEF Expired, Typed
  <2>4. now' = now /\ trigger' = trigger /\ runs' = runs
    BY <1>1 DEF Prune
  <2> QED
    BY <2>1, <2>3, <2>4
<1>2. CASE Tick
  <2>1. /\ now' = now + 1 /\ now \in Nat
        /\ trigger' = trigger /\ runs' = runs /\ ledger' = ledger
    BY <1>2 DEF Tick, Typed
  <2>2. ASSUME NEW r \in runs, r.received + Retention >= now' + Drift
        PROVE  r.received + Retention >= now + Drift
    BY <2>1, <2>2 DEF Typed
  <2> QED
    BY <2>1, <2>2
<1>3. CASE Delete
  BY <1>3 DEF Delete, Typed
<1>4. CASE Rotate \/ Update
  BY <1>4 DEF Rotate, Update, Typed
<1>5. ASSUME NEW q \in Requests, Accept(q) PROVE RunsAreGuarded'
  <2> DEFINE new == [msg |-> request[q].msg, received |-> request[q].received,
                     n |-> Cardinality({r \in runs : r.msg = request[q].msg}) + 1]
  <2>1. runs' = runs \cup {new}
    BY <1>5 DEF Accept
  <2>2. ledger' = ledger \cup {[delivery |-> new.msg.delivery, received |-> new.received]}
    BY <1>5 DEF Accept
  <2>3. now' = now /\ trigger' = trigger
    BY <1>5 DEF Accept
  <2> HIDE DEF new
  <2> QED
    BY <2>1, <2>2, <2>3
<1>6. CASE UNCHANGED <<now, trigger, ledger, runs>>
  BY <1>6
<1> QED
  BY <1>1, <1>2, <1>3, <1>4, <1>5, <1>6 DEF Next, vars, Send, Arrive, TooLong, Receive, Refuse, Lose

LEMMA GuardStep == ASSUME WebhooksAssumption, GuardInv, [Next]_vars PROVE GuardInv'
  BY TypedStep, InTimeStep, TimelyRunsStep, GuardedStep DEF GuardInv

LEMMA GuardCorrect == ASSUME WebhooksAssumption PROVE Spec => []GuardInv
<1>1. Init => GuardInv
  BY GuardInit
<1>2. GuardInv /\ [Next]_vars => GuardInv'
  BY GuardStep
<1> QED
  BY <1>1, <1>2, PTL DEF Spec

(* An accepted delivery keeps its replay guard for the whole retention,    *)
(* whatever prune_webhook_deliveries, the owner and other deliveries do.   *)
THEOREM RunsStayGuarded == ASSUME WebhooksAssumption PROVE Spec => []RunsAreGuarded
<1>1. GuardInv => RunsAreGuarded
  BY DEF GuardInv
<1> QED
  BY <1>1, GuardCorrect, PTL

-------------------------------------------------------------------------------
\* A message whose row was pruned has meanwhile become too old to be accepted.
LEMMA OneRunStep ==
  ASSUME WebhooksAssumption, Retention >= 2 * Skew + 4 * Drift + Stall,
         GuardInv, OneRunPerMessage, [Next]_vars
  PROVE  OneRunPerMessage'
<1> USE ConstantsType DEF OneRunPerMessage
<1>1. ASSUME NEW q \in Requests, Accept(q) PROVE OneRunPerMessage'
  <2> DEFINE m == request[q].msg
             new == [msg |-> m, received |-> request[q].received,
                     n |-> Cardinality({r \in runs : r.msg = m}) + 1]
  <2>1. runs' = runs \cup {new}
    BY <1>1 DEF Accept
  <2>2. \A r \in runs : r.msg # m
    <3> SUFFICES ASSUME NEW r \in runs, r.msg = m PROVE FALSE
      OBVIOUS
    <3>1. trigger.exists /\ ~Replayed(m)
      BY <1>1 DEF Accept, Acceptable, Authentic
    <3>2. ~(r.received + Retention >= now + Drift)
      BY <3>1 DEF Replayed, GuardInv, RunsAreGuarded
    <3>3. r.received >= m.stamp - Skew - 2 * Drift
      BY DEF GuardInv, RunsAreTimely
    <3>4. now <= request[q].began + Stall /\ request[q].began - m.stamp <= Skew + Drift
      BY <1>1 DEF Accept, GuardInv, InTime
    <3>5. r.received \in Nat /\ m.stamp \in Nat /\ now \in Nat /\ request[q].began \in Nat
      BY DEF GuardInv, Typed, Request, Msg
    <3> HIDE DEF m
    <3> QED
      BY <3>2, <3>3, <3>4, <3>5
  <2>3. new.msg = m
    OBVIOUS
  <2> HIDE DEF m, new
  <2> QED
    BY <2>1, <2>2, <2>3
<1>2. CASE UNCHANGED runs
  BY <1>2
<1> QED
  BY <1>1, <1>2 DEF Next, vars, Tick, Send, Prune, Rotate, Update, Delete, Arrive, TooLong,
     Receive, Refuse, Lose

(* A signed message makes at most one run, however often it is delivered   *)
(* and in whatever order: provided the ledger is kept for twice the skew   *)
(* that is allowed, four times the drift and the longest stall.  The       *)
(* settings of the service do not impose that relation.                    *)
THEOREM OneRunPerSignedMessage ==
  ASSUME WebhooksAssumption, Retention >= 2 * Skew + 4 * Drift + Stall
  PROVE  Spec => []OneRunPerMessage
<1>1. Init => OneRunPerMessage
  BY DEF Init, OneRunPerMessage
<1>2. GuardInv /\ OneRunPerMessage /\ [Next]_vars => OneRunPerMessage'
  BY OneRunStep
<1> QED
  BY <1>1, <1>2, GuardCorrect, PTL DEF Spec

-------------------------------------------------------------------------------
(* A run that is recent enough to have its row in the ledger. *)
Guarded(r) == r.received + Retention >= now + Drift

(* Such runs have different rows. *)
RowsDiffer ==
  trigger.exists =>
    \A r, s \in runs :
      r.msg.delivery = s.msg.delivery /\ Guarded(r) /\ Guarded(s) => r = s

RateInv ==
  /\ IsFiniteSet(ledger) /\ IsFiniteSet(runs)
  /\ highest \in Nat /\ trigger.limit <= highest
  /\ RowsDiffer /\ RateIsLimited

\* There are no runs at the start.
LEMMA RateInit == ASSUME WebhooksAssumption, Init PROVE RateInv
  BY ConstantsType, FS_EmptySet DEF Init, RateInv, RowsDiffer, RateIsLimited

\* Accept refuses a delivery whose row is still there.
LEMMA RowsDifferStep ==
  ASSUME WebhooksAssumption, GuardInv, RowsDiffer, [Next]_vars
  PROVE  RowsDiffer'
<1> USE ConstantsType DEF RowsDiffer, Guarded
<1>1. ASSUME NEW q \in Requests, Accept(q) PROVE RowsDiffer'
  <2> DEFINE new == [msg |-> request[q].msg, received |-> request[q].received,
                     n |-> Cardinality({r \in runs : r.msg = request[q].msg}) + 1]
  <2>1. runs' = runs \cup {new} /\ now' = now /\ trigger' = trigger
    BY <1>1 DEF Accept
  <2>2. trigger.exists /\ ~Replayed(new.msg)
    BY <1>1 DEF Accept, Acceptable, Authentic
  <2>3. \A r \in runs : Guarded(r) => r.msg.delivery # new.msg.delivery
    BY <2>2 DEF Replayed, GuardInv, RunsAreGuarded
  <2> HIDE DEF new
  <2> QED
    BY <2>1, <2>2, <2>3
<1>2. CASE Tick
  <2>1. now \in Nat /\ now' = now + 1 /\ runs' = runs /\ trigger' = trigger
    BY <1>2 DEF Tick, GuardInv, Typed
  <2>2. \A r \in runs : Guarded(r)' => Guarded(r)
    BY <2>1 DEF GuardInv, Typed
  <2> HIDE DEF Guarded
  <2> QED
    BY <2>1, <2>2
<1>3. CASE Rotate \/ Update \/ Delete
  <2>1. now' = now /\ runs' = runs /\ (trigger'.exists => trigger.exists)
    BY <1>3 DEF Rotate, Update, Delete, GuardInv, Typed
  <2> QED
    BY <2>1
<1>4. CASE UNCHANGED <<now, trigger, runs>>
  BY <1>4
<1> QED
  BY <1>1, <1>2, <1>3, <1>4 DEF Next, vars, Send, Prune, Arrive, TooLong, Receive, Refuse, Lose

\* What Accept counts is everything that shares a window with the new run: the rows of
\* those runs are still in the ledger.
LEMMA AcceptIsLimited ==
  ASSUME WebhooksAssumption, Retention >= Window + Stall + 2 * Drift,
         GuardInv, RateInv, NEW q \in Requests, Accept(q)
  PROVE  RateIsLimited'
<1> USE ConstantsType
<1> DEFINE c == request[q].received
           new == [msg |-> request[q].msg, received |-> c,
                   n |-> Cardinality({r \in runs : r.msg = request[q].msg}) + 1]
           X == {s \in runs : s.received >= c - Window}
           L == {l \in ledger : l.received >= c - Window}
           f == [s \in X |-> [delivery |-> s.msg.delivery, received |-> s.received]]
<1>1. runs' = runs \cup {new} /\ highest' = highest /\ new.received = c
  BY DEF Accept
<1>2. trigger.exists /\ Cardinality(L) < trigger.limit
  BY DEF Accept, Acceptable, Authentic, WithinRate
<1>3. c \in Nat /\ now \in Nat /\ c >= now - Stall - Drift
  BY DEF Accept, GuardInv, InTime, Typed, Request
<1>4. \A s \in runs : s.received \in Nat
  BY DEF GuardInv, Typed
<1>5. \A s \in X : Guarded(s)
  BY <1>3, <1>4 DEF Guarded
<1>6. f \in Injection(X, L)
  <2>1. \A s \in X : f[s] \in L
    BY <1>2, <1>5 DEF GuardInv, RunsAreGuarded, Guarded
  <2>2. ASSUME NEW r \in X, NEW s \in X, f[r] = f[s] PROVE r = s
    <3>1. r.msg.delivery = s.msg.delivery
      BY <2>2
    <3> QED
      BY <1>2, <1>5, <3>1 DEF RateInv, RowsDiffer
  <2> HIDE DEF f, X, L
  <2>3. f \in [X -> L]
    BY <2>1 DEF f
  <2> QED
    BY <2>2, <2>3 DEF Injection, IsInjective
<1>7. /\ IsFiniteSet(X) /\ IsFiniteSet(L)
      /\ Cardinality(X) \in Nat /\ Cardinality(L) \in Nat
  BY FS_Subset, FS_CardinalityType DEF RateInv
<1>8. Cardinality(X) <= Cardinality(L)
  BY <1>6, <1>7, FS_Injection DEF ExistsInjection
<1>9. Cardinality(X \cup {new}) <= highest /\ IsFiniteSet(X \cup {new})
  <2> HIDE DEF X, L, new
  <2>1. IsFiniteSet(X \cup {new}) /\ Cardinality(X \cup {new}) <= Cardinality(X) + 1
    BY <1>7, FS_AddElement
  <2>2. Cardinality(X \cup {new}) \in Nat
    BY <2>1, FS_CardinalityType
  <2>3. trigger.limit \in Nat /\ highest \in Nat /\ trigger.limit <= highest
    BY DEF RateInv, GuardInv, Typed
  <2> QED
    BY <1>2, <1>7, <1>8, <2>1, <2>2, <2>3
<1> SUFFICES ASSUME NEW r \in runs'
             PROVE  Cardinality({s \in runs' : s.received \in r.received..(r.received + Window)})
                      <= highest'
  BY DEF RateIsLimited
<1> DEFINE W == {s \in runs' : s.received \in r.received..(r.received + Window)}
<1>10. CASE new \in W
  <2>1. r.received \in Nat
    BY <1>1, <1>3, <1>4
  <2>2. W \subseteq X \cup {new}
    BY <1>1, <1>3, <1>4, <1>10, <2>1
  <2>3. Cardinality(W) <= Cardinality(X \cup {new}) /\ IsFiniteSet(W)
    BY <1>9, <2>2, FS_Subset
  <2>4. Cardinality(W) \in Nat /\ Cardinality(X \cup {new}) \in Nat /\ highest \in Nat
    BY <1>9, <2>3, FS_CardinalityType DEF RateInv
  <2> HIDE DEF W, X, new
  <2> QED
    BY <1>1, <1>9, <2>3, <2>4 DEF W
<1>11. CASE new \notin W
  <2>1. r \in runs
    BY <1>1, <1>3, <1>11
  <2>2. W = {s \in runs : s.received \in r.received..(r.received + Window)}
    BY <1>1, <1>11
  <2> QED
    BY <1>1, <2>1, <2>2 DEF RateInv, RateIsLimited
<1> QED
  BY <1>10, <1>11

\* Every step keeps the limit, and pruning does not help to get round it.
LEMMA RateStep ==
  ASSUME WebhooksAssumption, Retention >= Window + Stall + 2 * Drift,
         GuardInv, RateInv, [Next]_vars
  PROVE  RateInv'
<1>1. RowsDiffer'
  BY RowsDifferStep DEF RateInv
<1>2. ASSUME NEW q \in Requests, Accept(q) PROVE RateInv'
  <2>1. RateIsLimited'
    BY <1>2, AcceptIsLimited
  <2>2. IsFiniteSet(ledger') /\ IsFiniteSet(runs')
    BY <1>2, FS_AddElement DEF Accept, RateInv
  <2> QED
    BY <1>1, <1>2, <2>1, <2>2 DEF Accept, RateInv
<1>3. CASE Prune
  <2>1. IsFiniteSet(ledger')
    BY <1>3, FS_Subset DEF Prune, RateInv, Expired
  <2> QED
    BY <1>1, <1>3, <2>1 DEF Prune, RateInv, RateIsLimited
<1>4. CASE Delete
  BY <1>1, <1>4, FS_EmptySet DEF Delete, RateInv, RateIsLimited, GuardInv, Typed
<1>5. CASE Rotate
  BY <1>1, <1>5 DEF Rotate, RateInv, RateIsLimited, GuardInv, Typed
<1>6. CASE Update
  <2>1. PICK on \in BOOLEAN, limit \in Limits :
          /\ trigger' = [trigger EXCEPT !.enabled = on, !.limit = limit]
          /\ highest' = IF limit > highest THEN limit ELSE highest
    BY <1>6 DEF Update
  <2>2. limit \in Nat /\ highest \in Nat
    BY <2>1, ConstantsType DEF RateInv
  <2>3. highest' \in Nat /\ trigger'.limit <= highest' /\ highest <= highest'
    BY <2>1, <2>2 DEF GuardInv, Typed
  <2>4. runs' = runs /\ ledger' = ledger
    BY <1>6 DEF Update
  <2>5. RateIsLimited'
    <3> SUFFICES ASSUME NEW r \in runs
                 PROVE  Cardinality({s \in runs : s.received \in r.received..(r.received + Window)})
                          <= highest'
      BY <2>4 DEF RateIsLimited
    <3> DEFINE W == {s \in runs : s.received \in r.received..(r.received + Window)}
    <3>1. Cardinality(W) \in Nat
      BY FS_Subset, FS_CardinalityType DEF RateInv
    <3>2. Cardinality(W) <= highest
      BY DEF RateInv, RateIsLimited
    <3> HIDE DEF W
    <3>3. Cardinality(W) <= highest'
      BY <2>2, <2>3, <3>1, <3>2
    <3> QED
      BY <3>3 DEF W
  <2> QED
    BY <1>1, <2>3, <2>4, <2>5 DEF RateInv
<1>7. CASE UNCHANGED <<trigger, ledger, runs, highest>>
  BY <1>1, <1>7 DEF RateInv, RateIsLimited
<1> QED
  BY <1>2, <1>3, <1>4, <1>5, <1>6, <1>7
     DEF Next, vars, Tick, Send, Arrive, TooLong, Receive, Refuse, Lose

(* No window holds more accepted deliveries than the highest rate limit so *)
(* far, although receivers commit out of the order of the times they noted:*)
(* provided the ledger, which the limit is counted on, is kept for the     *)
(* window, the longest stall and twice the drift.                          *)
THEOREM RateStaysLimited ==
  ASSUME WebhooksAssumption, Retention >= Window + Stall + 2 * Drift
  PROVE  Spec => []RateIsLimited
<1>1. Init => RateInv
  BY RateInit
<1>2. GuardInv /\ RateInv /\ [Next]_vars => RateInv'
  BY RateStep
<1>3. RateInv => RateIsLimited
  BY DEF RateInv
<1> QED
  BY <1>1, <1>2, <1>3, GuardCorrect, PTL DEF Spec
===============================================================================
