------------------------ MODULE ServiceScenariosProofs ------------------------
(***************************************************************************)
(* Proofs about ServiceScenarios, for every value of its constants.        *)
(***************************************************************************)
EXTENDS ServiceScenarios, Recursion, Sequences, Integers, FiniteSetTheorems, TLAPS

-------------------------------------------------------------------------------
(* Connections                                                             *)

\* With overlapping requests: only a commit of an edit writes a configuration.
LEMMA EditedInit == ASSUME Edited!Init PROVE Edited!EditedInv
  BY DEF Edited!Init, Edited!EditedInv, Edited!TypeInv, Edited!LastSavedConfigStays, Edited!Idle

LEMMA EditedStep ==
  ASSUME Edited!EditedInv, [Edited!Next]_(Edited!vars)
  PROVE  Edited!EditedInv'
<1> USE DEF Edited!EditedInv, Edited!TypeInv, Edited!LastSavedConfigStays
<1> DEFINE Request == [op : {"none", "edit", "delete", "test", "tested"},
                       config : Nat, is_valid : BOOLEAN, arg : Nat]
<1>0. Edited!Idle \in Request
  BY DEF Edited!Idle
<1>1. ASSUME NEW r \in EditRequests, Edited!Create(r) PROVE Edited!EditedInv'
  BY <1>1 DEF Edited!Create
<1>2. ASSUME NEW r \in EditRequests, Edited!CommitEdit(r) PROVE Edited!EditedInv'
  BY <1>0, <1>2 DEF Edited!CommitEdit
<1>3. ASSUME NEW r \in EditRequests, Edited!CommitDelete(r) PROVE Edited!EditedInv'
  BY <1>0, <1>3 DEF Edited!CommitDelete
<1>8. ASSUME NEW r \in EditRequests, Edited!Stale(r) PROVE Edited!EditedInv'
  BY <1>0, <1>8 DEF Edited!Stale
<1>4. ASSUME NEW r \in EditRequests, Edited!CommitTest(r) PROVE Edited!EditedInv'
  BY <1>0, <1>4 DEF Edited!CommitTest, Edited!TestWritesConfig
<1>5. ASSUME NEW r \in EditRequests, NEW ok \in BOOLEAN, Edited!Probed(r, ok)
      PROVE  Edited!EditedInv'
  BY <1>5 DEF Edited!Probed
<1>6. ASSUME NEW r \in EditRequests, NEW op \in {"edit", "delete", "test"},
             NEW u \in Edited!Users, Edited!Read(r, op, u)
      PROVE  Edited!EditedInv'
  BY <1>6 DEF Edited!Read
<1>7. CASE UNCHANGED (Edited!vars)
  BY <1>7 DEF Edited!vars
<1> QED
  BY <1>1, <1>2, <1>3, <1>4, <1>5, <1>6, <1>7, <1>8
     DEF Edited!Next, Edited!ProbePostgres, Edited!ProbeDiscord

\* Without overlapping requests: what a request read is the row it commits to.
LEMMA TestedInit == ASSUME Tested!Init PROVE Tested!SerialInv
  BY DEF Tested!Init, Tested!SerialInv, Tested!TypeInv, Tested!OneAtATime, Tested!ReadIsCurrent,
     Tested!SuccessIsPassed, Tested!ValidityIsEarned, Tested!Idle

\* The one request that is active ends, and the row is what it makes of it.
LEMMA TestedEnds ==
  ASSUME Tested!SerialInv, NEW r \in TestRequests, request[r] # Tested!Idle,
         request' = [request EXCEPT ![r] = Tested!Idle]
  PROVE  Tested!OneAtATime' /\ Tested!ReadIsCurrent' /\ Tested!SuccessIsPassed'
<1>1. \A q \in TestRequests : request'[q] = Tested!Idle
  BY DEF Tested!SerialInv, Tested!TypeInv, Tested!OneAtATime
<1>2. Tested!Idle' = Tested!Idle /\ Tested!Idle.op = "none"
  BY DEF Tested!Idle
<1> QED
  BY <1>1, <1>2 DEF Tested!OneAtATime, Tested!ReadIsCurrent, Tested!SuccessIsPassed

LEMMA TestedStep ==
  ASSUME Tested!SerialInv, [Tested!Next]_(Tested!vars)
  PROVE  Tested!SerialInv'
<1> USE DEF Tested!SerialInv, Tested!TypeInv
<1> DEFINE Request == [op : {"none", "edit", "delete", "test", "tested"},
                       config : Nat, is_valid : BOOLEAN, arg : Nat]
<1>0. Tested!Idle \in Request /\ Tested!Idle.op = "none"
  BY DEF Tested!Idle
<1>1. ASSUME NEW r \in TestRequests, Tested!Create(r) PROVE Tested!SerialInv'
  BY <1>1 DEF Tested!Create, Tested!MayStart, Tested!OneAtATime, Tested!ReadIsCurrent,
     Tested!SuccessIsPassed, Tested!ValidityIsEarned
<1>2. ASSUME NEW r \in TestRequests, Tested!CommitEdit(r) PROVE Tested!SerialInv'
  <2>1. Tested!TypeInv'
    BY <1>0, <1>2 DEF Tested!CommitEdit
  <2>2. request[r] # Tested!Idle
    BY <1>0, <1>2 DEF Tested!CommitEdit
  <2>3. Tested!OneAtATime' /\ Tested!ReadIsCurrent' /\ Tested!SuccessIsPassed'
    BY <1>2, <2>2, TestedEnds DEF Tested!CommitEdit
  <2>4. row'.is_valid = FALSE
    BY <1>2, <2>2 DEF Tested!CommitEdit, Tested!ResetsValid, Tested!ReadIsCurrent
  <2> QED
    BY <2>1, <2>3, <2>4 DEF Tested!ValidityIsEarned
<1>3. ASSUME NEW r \in TestRequests, Tested!CommitDelete(r) PROVE Tested!SerialInv'
  <2>1. Tested!TypeInv' /\ row'.exists = FALSE
    BY <1>0, <1>3 DEF Tested!CommitDelete
  <2>2. request[r] # Tested!Idle
    BY <1>0, <1>3 DEF Tested!CommitDelete
  <2> QED
    BY <1>3, <2>1, <2>2, TestedEnds DEF Tested!CommitDelete, Tested!ValidityIsEarned
<1>4. ASSUME NEW r \in TestRequests, Tested!Stale(r) PROVE Tested!SerialInv'
  <2>1. Tested!TypeInv'
    BY <1>0, <1>4 DEF Tested!Stale
  <2>2. request[r] # Tested!Idle
    BY <1>0, <1>4 DEF Tested!Stale
  <2> QED
    BY <1>4, <2>1, <2>2, TestedEnds DEF Tested!Stale, Tested!ValidityIsEarned
<1>5. ASSUME NEW r \in TestRequests, Tested!CommitTest(r) PROVE Tested!SerialInv'
  <2>1. Tested!TypeInv'
    BY <1>0, <1>5 DEF Tested!CommitTest, Tested!TestWritesConfig
  <2>2. request[r] # Tested!Idle
    BY <1>0, <1>5 DEF Tested!CommitTest
  <2>3. Tested!OneAtATime' /\ Tested!ReadIsCurrent' /\ Tested!SuccessIsPassed'
    BY <1>5, <2>2, TestedEnds DEF Tested!CommitTest
  <2>4. Tested!ValidityIsEarned'
    BY <1>5, <2>2 DEF Tested!CommitTest, Tested!TestWritesConfig, Tested!ReadIsCurrent,
       Tested!SuccessIsPassed, Tested!ValidityIsEarned
  <2> QED
    BY <2>1, <2>3, <2>4
<1>6. ASSUME NEW r \in TestRequests, NEW ok \in BOOLEAN, Tested!Probed(r, ok)
      PROVE  Tested!SerialInv'
  <2>1. /\ \A q \in TestRequests \ {r} : request'[q] = request[q]
        /\ request'[r].config = request[r].config /\ request'[r].is_valid = request[r].is_valid
        /\ request'[r].arg = (IF ok THEN 1 ELSE 0)
    BY <1>6 DEF Tested!Probed
  <2>2. Tested!TypeInv' /\ row' = row
    BY <1>6 DEF Tested!Probed
  <2>3. request[r] # Tested!Idle
    BY <1>0, <1>6 DEF Tested!Probed
  <2>4. Tested!OneAtATime' /\ Tested!ReadIsCurrent'
    BY <2>1, <2>2, <2>3 DEF Tested!OneAtATime, Tested!ReadIsCurrent
  <2>5. passed \subseteq passed' /\ (ok => request[r].config \in passed')
    BY <1>6 DEF Tested!Probed
  <2>6. Tested!SuccessIsPassed'
    BY <2>1, <2>5 DEF Tested!SuccessIsPassed
  <2> QED
    BY <2>2, <2>4, <2>5, <2>6 DEF Tested!ValidityIsEarned
<1>7. ASSUME NEW r \in TestRequests, NEW op \in {"edit", "delete", "test"},
             NEW u \in Tested!Users, Tested!Read(r, op, u)
      PROVE  Tested!SerialInv'
  <2>1. /\ \A q \in TestRequests \ {r} : request'[q] = Tested!Idle
        /\ request'[r].op = op
        /\ request'[r].config = row.config /\ request'[r].is_valid = row.is_valid
    BY <1>7 DEF Tested!Read, Tested!MayStart
  <2>2. Tested!TypeInv' /\ row' = row /\ passed' = passed
    BY <1>7 DEF Tested!Read
  <2> QED
    BY <1>0, <2>1, <2>2 DEF Tested!OneAtATime, Tested!ReadIsCurrent, Tested!SuccessIsPassed,
       Tested!ValidityIsEarned
<1>8. CASE UNCHANGED (Tested!vars)
  BY <1>8 DEF Tested!vars, Tested!OneAtATime, Tested!ReadIsCurrent, Tested!SuccessIsPassed,
     Tested!ValidityIsEarned
<1> QED
  BY <1>1, <1>2, <1>3, <1>4, <1>5, <1>6, <1>7, <1>8
     DEF Tested!Next, Tested!ProbePostgres, Tested!ProbeDiscord

-------------------------------------------------------------------------------
(* Query artifacts                                                         *)

\* Cardinality of the instance and of this module.
LEMMA StoredCardinality == \A S : Stored!Cardinality(S) = Cardinality(S)
  BY DEF Stored!Cardinality, Cardinality

\* Files keep their numbers, and the numbers are those up to their count.
FilesTyped ==
  /\ disk \in [1..Cardinality(DOMAIN disk) -> Stored!Record]
  /\ Cardinality(DOMAIN disk) \in Nat
  /\ file \in {0} \cup DOMAIN disk

\* Opening finds the file at the path, or makes a new one.
LEMMA OpenIsTyped ==
  ASSUME FilesTyped, now \in Nat, Stored!Open
  PROVE  /\ FilesTyped' /\ file' # 0 /\ DOMAIN disk \subseteq DOMAIN disk'
         /\ file # 0 => UNCHANGED <<file, disk>>
<1> DEFINE N == Cardinality(DOMAIN disk)
<1>1. CASE file # 0
  BY <1>1 DEF Stored!Open, FilesTyped
<1>2. CASE file = 0
  <2>1. N \in Nat /\ DOMAIN disk = 1..N
    BY DEF FilesTyped
  <2>2. file' = N + 1 /\ file' \in Nat
    BY <1>2, <2>1, StoredCardinality DEF Stored!Open
  <2>3. Cardinality(1..(N + 1)) = N + 1
    BY <2>1, FS_Interval
  <2>4. disk' \in [1..(N + 1) -> Stored!Record]
    <3>1. disk' = [f \in 1..(N + 1) |->
                     IF f \in DOMAIN disk THEN disk[f] ELSE [records |-> {}, mtime |-> now]]
      BY <1>2, <2>2 DEF Stored!Open
    <3>2. \A f \in DOMAIN disk : disk[f] \in Stored!Record
      BY DEF FilesTyped
    <3>3. [records |-> {}, mtime |-> now] \in Stored!Record
      BY DEF Stored!Record
    <3> HIDE DEF N
    <3> QED
      BY <3>1, <3>2, <3>3
  <2>5. DOMAIN disk' = 1..(N + 1)
    BY <2>4
  <2> HIDE DEF N
  <2> QED
    BY <1>2, <2>1, <2>2, <2>3, <2>4, <2>5 DEF FilesTyped
<1> QED
  BY <1>1, <1>2

LEMMA StoredInit == ASSUME Stored!Init PROVE Stored!IInv
<1>1. disk = <<>> /\ DOMAIN disk = {} /\ Cardinality(DOMAIN disk) = 0 /\ 1..0 = {}
  BY FS_EmptySet DEF Stored!Init
<1>2. disk \in [1..0 -> Stored!Record]
  BY <1>1
<1> QED
  BY <1>1, <1>2, StoredCardinality DEF Stored!Init, Stored!IInv, Stored!TypeInv, Stored!BeforeTheNode,
     Stored!FirstIsCalm, Stored!NothingIsLater, Stored!WhileItRuns, Stored!AfterItRan,
     Stored!NobodyDeletes, Stored!Resting, Stored!Unasked

\* The types, step by step.
LEMMA StoredTypes ==
  ASSUME Stored!TypeInv, [Stored!Next]_(Stored!vars)
  PROVE  Stored!TypeInv'
<1> USE DEF Stored!TypeInv
<1>0. FilesTyped /\ now \in Nat
  BY StoredCardinality DEF FilesTyped
<1>a. ASSUME Stored!Open, UNCHANGED <<now, promise, pruner>>, executions' \in Nat,
             NEW h \in {0} \cup DOMAIN disk', NEW g \in {"idle", "write", "commit", "stat"},
             NEW b \in Nat, NEW c \in BOOLEAN, g = "commit" => h # 0,
             node' = node \/ node' = [stage |-> g, handle |-> h, began |-> b, calm |-> c],
             query' \in [Queries -> [stage : {"none", "404", "expired", "open", "410", "read", "200", "500"},
                                     asked : Nat, answer : SUBSET Items]]
      PROVE  Stored!TypeInv'
  <2>1. FilesTyped' /\ DOMAIN disk \subseteq DOMAIN disk'
    BY <1>0, <1>a, OpenIsTyped
  <2>2. /\ node' \in [stage : {"idle", "write", "commit", "stat"}, handle : {0} \cup DOMAIN disk',
                      began : Nat, calm : BOOLEAN]
        /\ node'.stage = "commit" => node'.handle \in DOMAIN disk'
    BY <1>a, <2>1
  <2> QED
    BY <1>a, <2>1, <2>2, StoredCardinality DEF FilesTyped
<1>1. CASE Stored!Tick
  BY <1>1 DEF Stored!Tick
<1>2. CASE Stored!NodeCheck
  <2>1. Stored!Calm \in BOOLEAN
    BY DEF Stored!Calm, Stored!NobodyDeletes
  <2> QED
    BY <1>2, <1>a, <2>1 DEF Stored!NodeCheck
<1>3. CASE Stored!NodeOpen
  <2>1. file' # 0 /\ file' \in DOMAIN disk'
    BY <1>0, <1>3, OpenIsTyped DEF Stored!NodeOpen, FilesTyped
  <2>2. CASE file = 0
    BY <1>3, <1>a, <2>1, <2>2 DEF Stored!NodeOpen, Stored!Resting
  <2>3. CASE file # 0
    <3>1. node' = [stage |-> "commit", handle |-> file, began |-> node.began, calm |-> node.calm]
      BY <1>3, <2>3 DEF Stored!NodeOpen
    <3>2. file' = file
      BY <1>3, <2>3 DEF Stored!NodeOpen, Stored!Open
    <3>3. node.began \in Nat /\ node.calm \in BOOLEAN /\ file \in DOMAIN disk'
      BY <2>1, <3>2
    <3>4. UNCHANGED <<now, executions, promise, pruner, query>> /\ Stored!Open
      BY <1>3 DEF Stored!NodeOpen
    <3> QED
      BY <1>a, <2>3, <3>1, <3>3, <3>4
  <2> QED
    BY <2>2, <2>3
<1>4. CASE Stored!NodeCommit
  <2>1. DOMAIN disk' = DOMAIN disk
    BY <1>4 DEF Stored!NodeCommit
  <2>2. disk' \in [1..Stored!Cardinality(DOMAIN disk) -> Stored!Record]
    <3>1. PICK same \in BOOLEAN :
            disk' = [disk EXCEPT ![node.handle] =
                       [records |-> Items, mtime |-> IF same THEN @.mtime ELSE now]]
      BY <1>4 DEF Stored!NodeCommit
    <3>2. [records |-> Items, mtime |-> IF same THEN disk[node.handle].mtime ELSE now]
            \in Stored!Record
      BY <1>4 DEF Stored!NodeCommit, Stored!Record
    <3> QED
      BY <3>1, <3>2
  <2> QED
    BY <1>4, <2>1, <2>2 DEF Stored!NodeCommit
<1>5. CASE Stored!NodeStat
  <2>1. promise' \in [until : Nat, calm : BOOLEAN]
    BY <1>5, ConstantsAreSound DEF Stored!NodeStat, Stored!Record, Stored!ArtifactsAssumption
  <2> QED
    BY <1>5, <2>1 DEF Stored!NodeStat, Stored!Resting
<1>6. CASE Stored!NodeFails
  BY <1>6 DEF Stored!NodeFails, Stored!Resting
<1>7. ASSUME NEW p \in Pruners, Stored!PruneCheck(p) \/ Stored!PruneDelete(p)
      PROVE  Stored!TypeInv'
  BY <1>7 DEF Stored!PruneCheck, Stored!PruneDelete
<1>8. ASSUME NEW q \in Queries, Stored!QueryCheck(q) PROVE Stored!TypeInv'
  <2>1. PICK t \in {"404", "expired", "open"} :
          query' = [query EXCEPT ![q] = [stage |-> t, asked |-> now, answer |-> {}]]
    BY <1>8 DEF Stored!QueryCheck
  <2> QED
    BY <1>8, <2>1 DEF Stored!QueryCheck
<1>9. ASSUME NEW q \in Queries, Stored!QueryDelete(q) PROVE Stored!TypeInv'
  BY <1>9 DEF Stored!QueryDelete
<1>10. ASSUME NEW q \in Queries, Stored!QueryOpen(q) PROVE Stored!TypeInv'
  BY <1>10, <1>a DEF Stored!QueryOpen
<1>11. ASSUME NEW q \in Queries, Stored!QueryRead(q) PROVE Stored!TypeInv'
  <2>1. file # 0 => disk[file].records \in SUBSET Items
    BY DEF Stored!Record
  <2>2. query' \in [Queries -> [stage : {"none", "404", "expired", "open", "410", "read", "200", "500"},
                                asked : Nat, answer : SUBSET Items]]
    BY <1>11, <2>1 DEF Stored!QueryRead
  <2> QED
    BY <1>11, <1>a, <2>2 DEF Stored!QueryRead
<1>12. CASE UNCHANGED (Stored!vars)
  BY <1>12 DEF Stored!vars
<1> QED
  BY <1>1, <1>2, <1>3, <1>4, <1>5, <1>6, <1>7, <1>8, <1>9, <1>10, <1>11, <1>12 DEF Stored!Next

\* What a calm execution still promises, or is about to promise, has not expired.
LEMMA NotExpired ==
  ASSUME Stored!IInv,
         (node.stage # "idle" /\ node.calm) \/ (now < promise.until /\ promise.calm)
  PROVE  ~Stored!Expired
<1>1. TTL \in Nat /\ Slow \in Nat
  BY ConstantsAreSound DEF Stored!ArtifactsAssumption
<1>2. now \in Nat /\ node.began \in Nat /\ promise.until \in Nat
  BY DEF Stored!IInv, Stored!TypeInv
<1>3. file # 0 => disk[file].mtime \in Nat
  BY DEF Stored!IInv, Stored!TypeInv, Stored!Record
<1>4. file # 0 => now < disk[file].mtime + TTL
  BY <1>1, <1>2, <1>3 DEF Stored!IInv, Stored!WhileItRuns, Stored!AfterItRan
<1> QED
  BY <1>1, <1>2, <1>3, <1>4 DEF Stored!Expired

LEMMA StoredStep ==
  ASSUME Stored!IInv, [Stored!Next]_(Stored!vars)
  PROVE  Stored!IInv'
<1> DEFINE Phases == /\ Stored!BeforeTheNode /\ Stored!FirstIsCalm /\ Stored!NothingIsLater
                     /\ Stored!WhileItRuns /\ Stored!AfterItRan
<1>0. Stored!TypeInv' /\ Stored!TypeInv /\ Phases
  BY StoredTypes DEF Stored!IInv
<1>1. SUFFICES Phases'
  BY <1>0 DEF Stored!IInv
<1>2. /\ now \in Nat /\ executions \in Nat /\ promise.until \in Nat /\ node.began \in Nat
      /\ TTL \in Nat /\ Slow \in Nat /\ Slow < TTL
  BY <1>0, ConstantsAreSound DEF Stored!TypeInv, Stored!ArtifactsAssumption
<1>f. FilesTyped /\ \A f \in DOMAIN disk : disk[f].mtime \in Nat
  BY <1>0, StoredCardinality DEF Stored!TypeInv, FilesTyped, Stored!Record
<1> USE DEF Stored!BeforeTheNode, Stored!FirstIsCalm, Stored!NothingIsLater,
            Stored!WhileItRuns, Stored!AfterItRan, Stored!NobodyDeletes, Stored!Kept
<1>o. ASSUME Stored!Open
      PROVE  /\ file' # 0 /\ (file # 0 => UNCHANGED <<file, disk>>)
             /\ file = 0 => disk'[file'].mtime = now
             /\ \A f \in DOMAIN disk' : disk'[f].mtime <= now
  <2>1. CASE file # 0
    BY <1>0, <1>2, <1>f, <1>o, <2>1, OpenIsTyped
  <2>2. CASE file = 0
    <3>1. file' # 0 /\ file' \in DOMAIN disk'
      BY <1>2, <1>f, <1>o, OpenIsTyped DEF FilesTyped
    <3>2. file' \notin DOMAIN disk
      <4>1. DOMAIN disk = 1..Cardinality(DOMAIN disk) /\ Cardinality(DOMAIN disk) \in Nat
        BY <1>f DEF FilesTyped
      <4>2. file' = Cardinality(DOMAIN disk) + 1
        BY <1>o, <2>2, StoredCardinality DEF Stored!Open
      <4> QED
        BY <4>1, <4>2
    <3>3. disk' = [f \in 1..file' |->
                     IF f \in DOMAIN disk THEN disk[f] ELSE [records |-> {}, mtime |-> now]]
      BY <1>o, <2>2 DEF Stored!Open
    <3> QED
      BY <1>0, <1>2, <2>2, <3>1, <3>2, <3>3
  <2> QED
    BY <2>1, <2>2
<1>3. CASE Stored!Tick
  BY <1>0, <1>2, <1>3, <1>f DEF Stored!Tick
<1>4. CASE Stored!NodeCheck
  <2>1. /\ executions' = executions + 1 /\ now' = now /\ promise' = promise
        /\ pruner' = pruner /\ query' = query
        /\ node' = [stage |-> "write", handle |-> 0, began |-> now, calm |-> Stored!Calm]
        /\ Stored!Open
    BY <1>4 DEF Stored!NodeCheck
  <2>2. Stored!Calm => /\ Stored!NobodyDeletes
                       /\ file # 0 => now + Slow < disk[file].mtime + TTL
    BY DEF Stored!Calm
  <2>3. executions = 0 => Stored!Calm
    BY <1>0 DEF Stored!Calm
  <2>4. Stored!WhileItRuns'
    BY <1>0, <1>2, <1>o, <2>1, <2>2
  <2>5. Stored!AfterItRan'
    BY <1>0, <1>o, <2>1
  <2>6. Stored!BeforeTheNode' /\ Stored!FirstIsCalm'
    BY <1>0, <1>2, <2>1, <2>3
  <2>7. Stored!NothingIsLater'
    BY <1>2, <1>o, <2>1
  <2> QED
    BY <2>4, <2>5, <2>6, <2>7
<1>5. CASE Stored!NodeOpen
  <2>1. Stored!Open /\ executions # 0
    BY <1>0, <1>5 DEF Stored!NodeOpen
  <2>2. file = 0 => node' = Stored!Resting
    BY <1>5 DEF Stored!NodeOpen
  <2>3. file # 0 => /\ file' = file /\ disk' = disk
                    /\ node'.stage = "commit" /\ node'.handle = file
                    /\ node'.began = node.began /\ node'.calm = node.calm
    BY <1>0, <1>5, <1>o, <2>1 DEF Stored!NodeOpen, Stored!TypeInv
  <2>4. UNCHANGED <<now, executions, promise, pruner, query>> /\ node.stage = "write"
    BY <1>5 DEF Stored!NodeOpen
  <2>5. CASE file = 0
    BY <1>0, <1>2, <1>o, <2>1, <2>2, <2>4, <2>5 DEF Stored!Resting
  <2>6. CASE file # 0
    BY <1>0, <2>1, <2>3, <2>4, <2>6
  <2> QED
    BY <2>5, <2>6
<1>6. CASE Stored!NodeCommit
  <2>1. PICK same \in BOOLEAN :
          disk' = [disk EXCEPT ![node.handle] =
                     [records |-> Items, mtime |-> IF same THEN @.mtime ELSE now]]
    BY <1>6 DEF Stored!NodeCommit
  <2>2. executions # 0 /\ node.stage = "commit" /\ node.handle \in DOMAIN disk
    BY <1>0, <1>6 DEF Stored!NodeCommit, Stored!TypeInv
  <2>3. /\ DOMAIN disk' = DOMAIN disk /\ disk'[node.handle].records = Items
        /\ \A f \in DOMAIN disk : disk[f].mtime <= disk'[f].mtime /\ disk'[f].mtime <= now
        /\ \A f \in DOMAIN disk : disk'[f].mtime \in Nat
    BY <1>0, <1>2, <1>f, <2>1, <2>2
  <2>4. /\ UNCHANGED <<now, file, executions, promise, pruner, query>>
        /\ node'.stage = "stat" /\ node'.began = node.began /\ node'.calm = node.calm
    BY <1>0, <1>6 DEF Stored!NodeCommit, Stored!TypeInv
  <2>5. file # 0 => file \in DOMAIN disk
    BY <1>0 DEF Stored!TypeInv
  <2>6. Stored!WhileItRuns' /\ Stored!AfterItRan'
    BY <1>0, <1>2, <1>f, <2>2, <2>3, <2>4, <2>5
  <2> QED
    BY <1>0, <2>2, <2>3, <2>4, <2>6
<1>7. CASE Stored!NodeStat
  <2>1. /\ UNCHANGED <<now, file, disk, executions, pruner, query>>
        /\ node.stage = "stat" /\ node' = Stored!Resting /\ executions # 0
        /\ promise' = IF file = 0 THEN promise
                      ELSE [until |-> disk[file].mtime + TTL, calm |-> node.calm]
    BY <1>0, <1>7 DEF Stored!NodeStat
  <2>2. CASE file = 0
    <3>1. ~(now < promise.until /\ promise.calm)
      BY <1>0, <2>2
    <3> QED
      BY <1>0, <1>2, <2>1, <2>2, <3>1 DEF Stored!Resting
  <2>3. CASE file # 0
    <3>1. promise'.until = disk[file].mtime + TTL /\ promise'.calm = node.calm
      BY <2>1, <2>3
    <3>2. node.calm => Stored!NobodyDeletes /\ disk[file].records = Items
      BY <1>0, <2>1
    <3>3. Stored!AfterItRan'
      BY <1>f, <1>2, <2>1, <2>3, <3>1, <3>2, <1>0 DEF Stored!Resting, FilesTyped
    <3> QED
      BY <1>0, <1>2, <2>1, <2>3, <3>1, <3>3 DEF Stored!Resting
  <2> QED
    BY <2>2, <2>3
<1>8. CASE Stored!NodeFails
  BY <1>0, <1>2, <1>8 DEF Stored!NodeFails, Stored!Resting
<1>9. ASSUME NEW p \in Pruners, Stored!PruneCheck(p) PROVE Phases'
  <2>1. Stored!Expired \/ pruner'[p] # "expired"
    BY <1>0, <1>9 DEF Stored!PruneCheck, Stored!TypeInv
  <2>2. \A o \in Pruners \ {p} : pruner'[o] = pruner[o]
    BY <1>0, <1>9 DEF Stored!PruneCheck, Stored!TypeInv
  <2>3. file = 0 => ~Stored!Expired
    BY DEF Stored!Expired
  <2>4. UNCHANGED <<now, file, disk, node, executions, promise, query>>
    BY <1>9 DEF Stored!PruneCheck
  <2>5. Stored!NobodyDeletes /\ ~Stored!Expired => Stored!NobodyDeletes'
    BY <2>1, <2>2, <2>4
  <2> QED
    BY <1>0, <2>3, <2>4, <2>5, NotExpired DEF Stored!IInv
<1>10. ASSUME NEW p \in Pruners, Stored!PruneDelete(p) PROVE Phases'
  BY <1>0, <1>10 DEF Stored!PruneDelete
<1>11. ASSUME NEW q \in Queries, Stored!QueryCheck(q) PROVE Phases'
  <2>1. query'[q].stage \in {"404", "open"} \/ Stored!Expired
    BY <1>0, <1>11 DEF Stored!QueryCheck, Stored!TypeInv
  <2>2. file = 0 => query'[q].stage = "404"
    BY <1>0, <1>11 DEF Stored!QueryCheck, Stored!TypeInv
  <2>3. \A o \in Queries \ {q} : query'[o] = query[o]
    BY <1>0, <1>11 DEF Stored!QueryCheck, Stored!TypeInv
  <2>4. UNCHANGED <<now, file, disk, node, executions, promise, pruner>>
    BY <1>11 DEF Stored!QueryCheck
  <2>5. Stored!NobodyDeletes /\ (~Stored!Expired \/ file = 0) => Stored!NobodyDeletes'
    BY <2>1, <2>2, <2>3, <2>4
  <2>6. executions = 0 => \A o \in Queries : query'[o].stage \notin {"open", "read"}
    BY <1>0, <2>2, <2>3
  <2> QED
    BY <1>0, <2>4, <2>5, <2>6, NotExpired DEF Stored!IInv
<1>12. ASSUME NEW q \in Queries, Stored!QueryDelete(q) PROVE Phases'
  BY <1>0, <1>12 DEF Stored!QueryDelete
<1>13. ASSUME NEW q \in Queries, Stored!QueryOpen(q) \/ Stored!QueryRead(q) PROVE Phases'
  <2>1. executions # 0 /\ Stored!Open
    BY <1>0, <1>13 DEF Stored!QueryOpen, Stored!QueryRead
  <2>2. /\ \A o \in Queries \ {q} : query'[o] = query[o]
        /\ query'[q].stage \in {"read", "500", "200"}
    <3>1. CASE Stored!QueryOpen(q)
      BY <1>0, <3>1 DEF Stored!QueryOpen, Stored!TypeInv
    <3>2. CASE Stored!QueryRead(q)
      BY <1>0, <3>2 DEF Stored!QueryRead, Stored!TypeInv
    <3> QED
      BY <1>13, <3>1, <3>2
  <2>3. UNCHANGED <<now, node, executions, promise, pruner>>
    BY <1>13 DEF Stored!QueryOpen, Stored!QueryRead
  <2> QED
    BY <1>0, <1>2, <1>o, <2>1, <2>2, <2>3
<1>14. CASE UNCHANGED (Stored!vars)
  BY <1>0, <1>14 DEF Stored!vars
<1> QED
  BY <1>3, <1>4, <1>5, <1>6, <1>7, <1>8, <1>9, <1>10, <1>11, <1>12, <1>13, <1>14 DEF Stored!Next

-------------------------------------------------------------------------------
(* Uploads                                                                 *)

\* Finiteness of the instance and of this module.
LEMMA StockedFinite == \A S : Stocked!IsFiniteSet(S) <=> IsFiniteSet(S)
  BY DEF Stocked!IsFiniteSet, IsFiniteSet

LEMMA StockedConstants ==
  /\ IsFiniteSet(UploadFiles) /\ NoOne \notin Uploaders
  /\ RequestOf \in [UploadFiles -> Uploaders] /\ Size \in [UploadFiles -> Nat]
  /\ MaxFile \in Nat /\ MaxOwner \in Nat /\ MaxRequest \in Nat
  BY ConstantsAreSound, StockedFinite DEF Stocked!UploadsAssumption

Sizes == [f \in UploadFiles |-> dir[f].size]

\* What an owner's files take is a sum.
AreSums ==
  /\ \A f \in UploadFiles : Sizes[f] \in Nat
  /\ \A S \in SUBSET UploadFiles : Stocked!Bytes(S) = Sum(Sizes, S)

LEMMA BytesAreSums == Stocked!TypeInv => AreSums
<1> SUFFICES ASSUME Stocked!TypeInv, NEW S \in SUBSET UploadFiles
             PROVE  (\A f \in UploadFiles : Sizes[f] \in Nat) /\ Stocked!Bytes(S) = Sum(Sizes, S)
  BY DEF Stocked!TypeInv, Sizes, AreSums
<1> DEFINE Rec(F) == [s \in SUBSET S |->
                        IF s = {} THEN 0
                        ELSE LET x == CHOOSE x \in s : TRUE IN dir[x].size + F[s \ {x}]]
           iter == CHOOSE F : F = Rec(F)
<1>1. Stocked!Bytes(S) = iter[S]
  BY DEF Stocked!Bytes, Stocked!FoldSet, Stocked!MapThenFoldSet
<1>2. \A f \in UploadFiles : Sizes[f] = dir[f].size /\ Sizes[f] \in Nat
  BY DEF Sizes, Stocked!TypeInv
<1>3. \A F : F = Rec(F) <=> IsSum(F, Sizes, S)
  <2>1. \A s \in SUBSET S : s # {} => dir[CHOOSE x \in s : TRUE].size = Sizes[Pick(s)]
    BY <1>2 DEF Pick
  <2> QED
    BY <2>1 DEF IsSum, Pick
<1>4. IsFiniteSet(S)
  BY StockedConstants, FS_Subset
<1>5. IsSum(iter, Sizes, S)
  <2>1. \E F : F = Rec(F)
    <3> HIDE DEF Rec
    <3> QED
      BY <1>2, <1>3, <1>4, SumsExist
  <2>2. iter = Rec(iter)
    <3> HIDE DEF Rec
    <3> QED
      BY <2>1
  <2> HIDE DEF iter, Rec
  <2> QED
    BY <1>3, <2>2
<1> HIDE DEF iter, Rec
<1> QED
  BY <1>1, <1>2, <1>4, <1>5, SumIs

\* The same after a step.
LEMMA BytesAreSumsNext == Stocked!TypeInv' => AreSums'
  BY BytesAreSums, PTL

\* Stored files that go, while the others stay as they are, leave no more bytes.
LEMMA BytesShrink ==
  ASSUME Stocked!TypeInv, Stocked!TypeInv',
         Stocked!Stored' \subseteq Stocked!Stored,
         \A f \in Stocked!Stored' : dir'[f].size = dir[f].size
  PROVE  /\ Stocked!Bytes(Stocked!Stored)' \in Nat /\ Stocked!Bytes(Stocked!Stored) \in Nat
         /\ Stocked!Bytes(Stocked!Stored)' <= Stocked!Bytes(Stocked!Stored)
<1> DEFINE S == Stocked!Stored
           T == Stocked!Stored'
<1>1. S \subseteq UploadFiles /\ T \subseteq UploadFiles /\ IsFiniteSet(S) /\ IsFiniteSet(T)
  BY StockedConstants, FS_Subset DEF Stocked!Stored
<1>2. Stocked!Bytes(S) = Sum(Sizes, S) /\ Stocked!Bytes(Stocked!Stored)' = Sum(Sizes', T)
  BY <1>1, BytesAreSums, BytesAreSumsNext DEF AreSums
<1>3. \A f \in UploadFiles : Sizes[f] \in Nat /\ Sizes'[f] \in Nat
  BY BytesAreSums, BytesAreSumsNext DEF AreSums
<1>4. \A f \in T : Sizes'[f] = Sizes[f]
  BY <1>1 DEF Sizes
<1> HIDE DEF S, T
<1>5. Sum(Sizes', T) = Sum(Sizes, T)
  BY <1>1, <1>3, <1>4, SumLaws
<1>6. Sum(Sizes, T) <= Sum(Sizes, S)
  <2>1. T \in SUBSET S /\ \A f \in S : Sizes[f] \in Nat
    BY <1>1, <1>3 DEF S, T
  <2> QED
    BY <1>1, <2>1, SumMonotone
<1>7. Sum(Sizes, S) \in Nat /\ Sum(Sizes, T) \in Nat
  BY <1>1, <1>3, SumLaws
<1> QED
  BY <1>2, <1>5, <1>6, <1>7 DEF S

\* A file that is stored adds its bytes.
LEMMA BytesGrow ==
  ASSUME Stocked!TypeInv, Stocked!TypeInv',
         NEW f \in UploadFiles, f \notin Stocked!Stored,
         Stocked!Stored' = Stocked!Stored \cup {f},
         \A g \in Stocked!Stored' : dir'[g].size = dir[g].size
  PROVE  Stocked!Bytes(Stocked!Stored)' = Stocked!Bytes(Stocked!Stored) + dir[f].size
<1> DEFINE S == Stocked!Stored
           T == Stocked!Stored'
<1>1. S \subseteq UploadFiles /\ T \subseteq UploadFiles /\ IsFiniteSet(S) /\ IsFiniteSet(T)
  BY StockedConstants, FS_Subset DEF Stocked!Stored
<1>2. Stocked!Bytes(S) = Sum(Sizes, S) /\ Stocked!Bytes(Stocked!Stored)' = Sum(Sizes', T)
  BY <1>1, BytesAreSums, BytesAreSumsNext DEF AreSums
<1>3. \A g \in UploadFiles : Sizes[g] \in Nat /\ Sizes'[g] \in Nat
  BY BytesAreSums, BytesAreSumsNext DEF AreSums
<1>4. \A g \in T : Sizes'[g] = Sizes[g]
  BY <1>1 DEF Sizes
<1>5. f \in T /\ T \ {f} = S /\ Sizes[f] = dir[f].size
  BY DEF Sizes
<1> HIDE DEF S, T
<1>6. Sum(Sizes', T) = Sum(Sizes, T)
  BY <1>1, <1>3, <1>4, SumLaws
<1>7. Sum(Sizes, T) = Sizes[f] + Sum(Sizes, T \ {f}) /\ Sum(Sizes, S) \in Nat
  BY <1>1, <1>3, <1>5, SumLaws
<1>8. Sum(Sizes', T) = Sum(Sizes, S) + Sizes[f]
  <2>1. Sum(Sizes, T \ {f}) = Sum(Sizes, S)
    BY <1>5
  <2>2. Sum(Sizes', T) = Sizes[f] + Sum(Sizes, S)
    BY <1>6, <1>7, <2>1
  <2>3. Sizes[f] \in Nat
    BY <1>3
  <2> QED
    BY <1>7, <2>2, <2>3
<1>9. Stocked!Bytes(Stocked!Stored) = Sum(Sizes, S)
  BY <1>2 DEF S
<1>10. Sizes[f] = dir[f].size
  BY <1>5
<1> QED
  BY <1>2, <1>8, <1>9, <1>10

LEMMA StockedInit == ASSUME Stocked!Init PROVE Stocked!IInv
<1>1. Stocked!TypeInv /\ Stocked!Stored = {}
  BY DEF Stocked!Init, Stocked!TypeInv, Stocked!Stored, Stocked!NotThere, Stocked!Waiting
<1>2. Stocked!Bytes(Stocked!Stored) = 0
  BY <1>1, BytesAreSums, SumLaws, FS_EmptySet DEF AreSums
<1> QED
  BY <1>1, <1>2, StockedConstants DEF Stocked!Init, Stocked!IInv, Stocked!LockIsHeld,
     Stocked!StoredIsSaved, Stocked!NothingAfterError, Stocked!RoomIsLeft, Stocked!QuotaHolds,
     Stocked!Writing, Stocked!Waiting

LEMMA StockedTypes ==
  ASSUME Stocked!TypeInv, Stocked!LockIsHeld, [Stocked!Next]_(Stocked!vars)
  PROVE  Stocked!TypeInv'
<1> USE DEF Stocked!TypeInv
<1> DEFINE Entry == [at : {"none", "staging", "stored", "torn"}, size : Nat, since : Nat]
           Request ==
             [stage : {"waiting", "writing", "failing", "ok", "error", "dead"},
              file : UploadFiles \cup {NoFile}, existing : Nat, saved : SUBSET UploadFiles]
<1>0. Stocked!NotThere \in Entry
  BY DEF Stocked!NotThere
<1>1. CASE Stocked!Tick
  BY <1>1 DEF Stocked!Tick
<1>2. CASE Stocked!List
  BY <1>2 DEF Stocked!List
<1>3. CASE Stocked!Sweep
  BY <1>0, <1>3 DEF Stocked!Sweep
<1>4. CASE Stocked!Delete
  BY <1>0, <1>4 DEF Stocked!Delete, Stocked!Stored
<1>5. ASSUME NEW r \in Uploaders, Stocked!Acquire(r) PROVE Stocked!TypeInv'
  <2>1. PICK f \in UploadFiles :
          /\ request' = [request EXCEPT ![r].stage = "writing", ![r].file = f,
                                        ![r].existing = Stocked!Bytes(Stocked!Stored)]
          /\ dir' = [dir EXCEPT ![f] = [at |-> "staging", size |-> 0, since |-> now]]
    BY <1>5 DEF Stocked!Acquire, Stocked!FilesOf
  <2>2. Stocked!Bytes(Stocked!Stored) \in Nat
    <3>1. Stocked!Stored \subseteq UploadFiles /\ IsFiniteSet(Stocked!Stored)
      BY StockedConstants, FS_Subset DEF Stocked!Stored
    <3>2. \A g \in Stocked!Stored : Sizes[g] \in Nat
      BY <3>1, BytesAreSums DEF AreSums
    <3>3. Sum(Sizes, Stocked!Stored) \in Nat
      BY <3>1, <3>2, SumLaws
    <3> QED
      BY <3>1, <3>3, BytesAreSums DEF AreSums
  <2>3. dir' \in [UploadFiles -> Entry]
    <3>1. [at |-> "staging", size |-> 0, since |-> now] \in Entry
      OBVIOUS
    <3> HIDE DEF Entry
    <3> QED
      BY <2>1, <3>1 DEF Entry
  <2>4. request' \in [Uploaders -> Request]
    <3>1. [request[r] EXCEPT !.stage = "writing", !.file = f,
                             !.existing = Stocked!Bytes(Stocked!Stored)] \in Request
      BY <2>2
    <3> HIDE DEF Request
    <3>2. request \in [Uploaders -> Request]
      BY DEF Request
    <3> QED
      BY <2>1, <3>1, <3>2
  <2> QED
    BY <1>5, <2>3, <2>4 DEF Stocked!Acquire
<1>6. ASSUME NEW r \in Uploaders, Stocked!Busy(r) PROVE Stocked!TypeInv'
  BY <1>6 DEF Stocked!Busy
<1>7. ASSUME NEW r \in Uploaders, Stocked!WriteChunk(r) PROVE Stocked!TypeInv'
  <2>1. request[r].file \in UploadFiles
    BY <1>7 DEF Stocked!WriteChunk, Stocked!LockIsHeld, Stocked!Writing, Stocked!FilesOf
  <2> QED
    BY <1>7, <2>1 DEF Stocked!WriteChunk
<1>8. ASSUME NEW r \in Uploaders, Stocked!Abort(r) PROVE Stocked!TypeInv'
  BY <1>0, <1>8 DEF Stocked!Abort
<1>9. ASSUME NEW r \in Uploaders, Stocked!Store(r) PROVE Stocked!TypeInv'
  <2>1. request[r].file \in UploadFiles
    BY <1>9 DEF Stocked!Store, Stocked!LockIsHeld, Stocked!Writing, Stocked!FilesOf
  <2>2. PICK s \in {"failing", "ok", "waiting"} :
          request' = [request EXCEPT ![r].saved = @ \cup {request[r].file}, ![r].file = NoFile,
                                     ![r].stage = s]
    BY <1>9 DEF Stocked!Store
  <2>3. request' \in [Uploaders -> Request]
    <3>1. [request[r] EXCEPT !.saved = @ \cup {request[r].file}, !.file = NoFile, !.stage = s]
            \in Request
      BY <2>1
    <3> HIDE DEF Request
    <3>2. request \in [Uploaders -> Request]
      BY DEF Request
    <3> QED
      BY <2>2, <3>1, <3>2
  <2>4. dir' \in [UploadFiles -> Entry]
    BY <1>9, <2>1 DEF Stocked!Store
  <2> QED
    BY <1>9, <2>3, <2>4 DEF Stocked!Store
<1>10. ASSUME NEW r \in Uploaders, Stocked!RollBack(r) PROVE Stocked!TypeInv'
  BY <1>0, <1>10 DEF Stocked!RollBack
<1>11. ASSUME NEW r \in Uploaders, Stocked!Crash(r) PROVE Stocked!TypeInv'
  BY <1>11 DEF Stocked!Crash
<1>12. CASE UNCHANGED (Stocked!vars)
  BY <1>12 DEF Stocked!vars
<1> QED
  BY <1>1, <1>2, <1>3, <1>4, <1>5, <1>6, <1>7, <1>8, <1>9, <1>10, <1>11, <1>12
     DEF Stocked!Next, Stocked!Save

\* A step in which nothing new is stored and nobody starts to write.
LEMMA StockedQuiet ==
  ASSUME Stocked!IInv, Stocked!TypeInv',
         Stocked!Stored' \subseteq Stocked!Stored,
         \A f \in Stocked!Stored' : dir'[f].size = dir[f].size,
         \A r \in Uploaders :
           /\ request'[r].saved = request[r].saved
           /\ request'[r].stage = "writing" =>
                /\ request'[r] = request[r] /\ lock' = r
                /\ request[r].existing + dir'[request[r].file].size <= MaxOwner
           /\ request'[r].stage = "error" =>
                \/ request[r].stage = "error"
                \/ \A f \in Stocked!FilesOf(r) : f \notin Stocked!Stored'
  PROVE  Stocked!IInv'
<1> USE DEF Stocked!IInv
<1>1. /\ Stocked!Bytes(Stocked!Stored)' \in Nat /\ Stocked!Bytes(Stocked!Stored) \in Nat
      /\ Stocked!Bytes(Stocked!Stored)' <= Stocked!Bytes(Stocked!Stored)
  BY BytesShrink
<1>2. Stocked!LockIsHeld'
  BY DEF Stocked!LockIsHeld, Stocked!Writing, Stocked!FilesOf
<1>3. Stocked!StoredIsSaved'
  <2>1. \A f \in Stocked!Stored : f \in UploadFiles /\ RequestOf[f] \in Uploaders
    BY StockedConstants DEF Stocked!Stored
  <2> QED
    BY <2>1 DEF Stocked!StoredIsSaved
<1>4. Stocked!NothingAfterError'
  BY DEF Stocked!NothingAfterError, Stocked!FilesOf
<1>5. Stocked!QuotaHolds'
  BY <1>1, StockedConstants DEF Stocked!QuotaHolds
<1>6. ASSUME NEW r \in Uploaders, Stocked!Writing(r)'
      PROVE  /\ Stocked!Bytes(Stocked!Stored)' <= request'[r].existing
             /\ request'[r].existing + dir'[request'[r].file].size <= MaxOwner
  <2>1. /\ request'[r] = request[r] /\ Stocked!Writing(r)
        /\ request[r].existing + dir'[request[r].file].size <= MaxOwner
    BY <1>6 DEF Stocked!Writing
  <2>2. Stocked!Bytes(Stocked!Stored) <= request[r].existing /\ request[r].existing \in Nat
    BY <2>1 DEF Stocked!RoomIsLeft, Stocked!TypeInv
  <2> QED
    BY <1>1, <2>1, <2>2
<1> QED
  BY <1>2, <1>3, <1>4, <1>5, <1>6 DEF Stocked!RoomIsLeft

\* The file that is being written is in nobody's sight, and its writer is alone.
LEMMA WriterIsAlone ==
  ASSUME Stocked!IInv, NEW r \in Uploaders, request[r].stage = "writing"
  PROVE  /\ request[r].file \in Stocked!FilesOf(r) \ request[r].saved
         /\ request[r].file \in UploadFiles /\ request[r].file \notin Stocked!Stored
         /\ \A q \in Uploaders \ {r} : request[q].stage # "writing"
  BY DEF Stocked!IInv, Stocked!LockIsHeld, Stocked!Writing, Stocked!StoredIsSaved,
     Stocked!FilesOf

LEMMA StockedAcquire ==
  ASSUME Stocked!IInv, Stocked!TypeInv', NEW r \in Uploaders, Stocked!Acquire(r)
  PROVE  Stocked!IInv'
<1> USE DEF Stocked!IInv
<1>1. PICK f \in Stocked!FilesOf(r) \ request[r].saved :
        /\ request' = [request EXCEPT ![r].stage = "writing", ![r].file = f,
                                      ![r].existing = Stocked!Bytes(Stocked!Stored)]
        /\ dir' = [dir EXCEPT ![f] = [at |-> "staging", size |-> 0, since |-> now]]
  BY DEF Stocked!Acquire
<1>2. f \in UploadFiles /\ f \notin Stocked!Stored
  BY DEF Stocked!FilesOf, Stocked!StoredIsSaved
<1>3. Stocked!Stored' = Stocked!Stored /\ \A g \in Stocked!Stored : dir'[g] = dir[g]
  <2>1. dir'[f].at = "staging" /\ \A g \in UploadFiles \ {f} : dir'[g] = dir[g]
    BY <1>1, <1>2 DEF Stocked!TypeInv
  <2> QED
    BY <1>2, <2>1 DEF Stocked!Stored
<1>4. /\ Stocked!Bytes(Stocked!Stored)' \in Nat /\ Stocked!Bytes(Stocked!Stored) \in Nat
      /\ Stocked!Bytes(Stocked!Stored)' <= Stocked!Bytes(Stocked!Stored)
  BY <1>3, BytesShrink
<1>5. \A q \in Uploaders \ {r} : request'[q] = request[q] /\ request[q].stage # "writing"
  BY <1>1, StockedConstants DEF Stocked!Acquire, Stocked!LockIsHeld, Stocked!Writing,
     Stocked!TypeInv
<1>6. /\ request'[r].stage = "writing" /\ request'[r].file = f
      /\ request'[r].existing = Stocked!Bytes(Stocked!Stored)
      /\ request'[r].saved = request[r].saved
      /\ dir'[f].size = 0 /\ lock' = r
  BY <1>1, <1>2 DEF Stocked!Acquire, Stocked!TypeInv
<1>7. Stocked!LockIsHeld'
  BY <1>5, <1>6 DEF Stocked!LockIsHeld, Stocked!Writing, Stocked!FilesOf
<1>8. Stocked!StoredIsSaved'
  <2>1. \A g \in Stocked!Stored : g \in UploadFiles /\ RequestOf[g] \in Uploaders
    BY StockedConstants DEF Stocked!Stored
  <2> QED
    BY <1>3, <1>5, <1>6, <2>1 DEF Stocked!StoredIsSaved
<1>9. Stocked!NothingAfterError'
  BY <1>3, <1>5, <1>6 DEF Stocked!NothingAfterError, Stocked!FilesOf
<1>10. Stocked!QuotaHolds'
  BY <1>4, StockedConstants DEF Stocked!QuotaHolds
<1>11. Stocked!RoomIsLeft'
  <2>1. Stocked!Bytes(Stocked!Stored) + 0 <= MaxOwner
    BY <1>4, StockedConstants DEF Stocked!QuotaHolds
  <2> QED
    BY <1>4, <1>5, <1>6, <2>1 DEF Stocked!RoomIsLeft, Stocked!Writing
<1> QED
  BY <1>7, <1>8, <1>9, <1>10, <1>11

LEMMA StockedStore ==
  ASSUME Stocked!IInv, Stocked!TypeInv', NEW r \in Uploaders, Stocked!Store(r)
  PROVE  Stocked!IInv'
<1> USE DEF Stocked!IInv
<1> DEFINE f == request[r].file
<1>1. request[r].stage = "writing" /\ dir[f].size = Size[f]
  BY DEF Stocked!Store
<1>2. /\ f \in Stocked!FilesOf(r) \ request[r].saved /\ f \in UploadFiles
      /\ f \notin Stocked!Stored /\ \A q \in Uploaders \ {r} : request[q].stage # "writing"
  BY <1>1, WriterIsAlone
<1>3. dir' = [dir EXCEPT ![f].at = "stored"]
  BY DEF Stocked!Store
<1>4. Stocked!Stored' = Stocked!Stored \cup {f} /\ \A g \in UploadFiles : dir'[g].size = dir[g].size
  BY <1>2, <1>3 DEF Stocked!Stored, Stocked!TypeInv
<1>5. /\ \A q \in Uploaders \ {r} : request'[q] = request[q]
      /\ request'[r].saved = request[r].saved \cup {f}
      /\ request'[r].stage \in {"failing", "ok", "waiting"}
  <2>1. PICK s \in {"failing", "ok", "waiting"} :
          request' = [request EXCEPT ![r].saved = @ \cup {f}, ![r].file = NoFile, ![r].stage = s]
    BY DEF Stocked!Store
  <2>2. request \in [Uploaders -> [stage : {"waiting", "writing", "failing", "ok", "error", "dead"},
           file : UploadFiles \cup {NoFile}, existing : Nat, saved : SUBSET UploadFiles]]
    BY DEF Stocked!TypeInv
  <2> QED
    BY <2>1, <2>2
<1>6. Stocked!QuotaHolds'
  <2>1. Stocked!Bytes(Stocked!Stored)' = Stocked!Bytes(Stocked!Stored) + dir[f].size
    <3>1. \A g \in Stocked!Stored' : dir'[g].size = dir[g].size
      BY <1>2, <1>4 DEF Stocked!Stored
    <3> HIDE DEF f
    <3> QED
      BY <1>2, <1>4, <3>1, BytesGrow
  <2>2. Stocked!Bytes(Stocked!Stored) <= request[r].existing
        /\ request[r].existing + dir[f].size <= MaxOwner
    BY <1>1 DEF Stocked!RoomIsLeft, Stocked!Writing
  <2>3. Stocked!Bytes(Stocked!Stored) \in Nat
    <3>1. Stocked!Stored \subseteq UploadFiles /\ IsFiniteSet(Stocked!Stored)
      BY StockedConstants, FS_Subset DEF Stocked!Stored
    <3>2. \A g \in Stocked!Stored : Sizes[g] \in Nat
      BY <3>1, BytesAreSums DEF AreSums
    <3>3. Sum(Sizes, Stocked!Stored) \in Nat
      BY <3>1, <3>2, SumLaws
    <3> QED
      BY <3>1, <3>3, BytesAreSums DEF AreSums
  <2>4. request[r].existing \in Nat /\ dir[f].size \in Nat
    BY <1>2 DEF Stocked!TypeInv
  <2> HIDE DEF f
  <2> QED
    BY <2>1, <2>2, <2>3, <2>4, StockedConstants DEF Stocked!QuotaHolds
<1>7. Stocked!LockIsHeld' /\ Stocked!RoomIsLeft'
  BY <1>2, <1>5 DEF Stocked!LockIsHeld, Stocked!RoomIsLeft, Stocked!Writing
<1>8. Stocked!StoredIsSaved'
  <2>1. \A g \in Stocked!Stored : g \in UploadFiles /\ RequestOf[g] \in Uploaders
    BY StockedConstants DEF Stocked!Stored
  <2>2. RequestOf[f] = r
    BY <1>2 DEF Stocked!FilesOf
  <2> HIDE DEF f
  <2> QED
    BY <1>1, <1>2, <1>4, <1>5, <2>1, <2>2 DEF Stocked!StoredIsSaved
<1>9. Stocked!NothingAfterError'
  BY <1>2, <1>4, <1>5 DEF Stocked!NothingAfterError, Stocked!FilesOf
<1> QED
  BY <1>6, <1>7, <1>8, <1>9

LEMMA StockedStep ==
  ASSUME Stocked!IInv, [Stocked!Next]_(Stocked!vars)
  PROVE  Stocked!IInv'
<1>0. Stocked!TypeInv /\ Stocked!TypeInv' /\ Stocked!LockIsHeld
  BY StockedTypes DEF Stocked!IInv
<1> USE DEF Stocked!TypeInv
<1>1. \A r \in Uploaders : request[r].stage = "writing" =>
        /\ lock = r /\ request[r].file \in UploadFiles
        /\ request[r].existing + dir[request[r].file].size <= MaxOwner
        /\ request[r].existing \in Nat /\ dir[request[r].file].size \in Nat
        /\ request[r].existing <= MaxOwner
  <2>1. ASSUME NEW r \in Uploaders, request[r].stage = "writing"
        PROVE  /\ lock = r /\ request[r].file \in UploadFiles
               /\ request[r].existing + dir[request[r].file].size <= MaxOwner
    BY <2>1 DEF Stocked!IInv, Stocked!LockIsHeld, Stocked!RoomIsLeft, Stocked!Writing,
       Stocked!FilesOf
  <2> QED
    BY <1>0, <2>1, StockedConstants
<1>2. CASE UNCHANGED <<dir, request, lock>>
  BY <1>0, <1>1, <1>2, StockedQuiet DEF Stocked!Stored
<1>3. CASE Stocked!Sweep \/ Stocked!Delete
  <2>1. UNCHANGED <<request, lock>>
    BY <1>3 DEF Stocked!Sweep, Stocked!Delete
  <2>2. \A f \in UploadFiles : dir'[f] = dir[f] \/ (dir'[f].at # "stored" /\ dir'[f].size = 0)
                                              \/ (dir'[f].at # "stored" /\ dir'[f].size = dir[f].size)
    BY <1>0, <1>3 DEF Stocked!Sweep, Stocked!Delete, Stocked!NotThere, Stocked!Stored
  <2>3. /\ Stocked!Stored' \subseteq Stocked!Stored
        /\ \A f \in Stocked!Stored' : dir'[f].size = dir[f].size
    BY <2>2 DEF Stocked!Stored
  <2>4. \A r \in Uploaders : request[r].stage = "writing" =>
          request[r].existing + dir'[request[r].file].size <= MaxOwner
    BY <1>1, <2>2
  <2> QED
    BY <1>0, <1>1, <2>1, <2>3, <2>4, StockedQuiet
<1>4. ASSUME NEW r \in Uploaders, Stocked!Busy(r) PROVE Stocked!IInv'
  <2>1. UNCHANGED <<dir, lock>> /\ request' = [request EXCEPT ![r].stage = "failing"]
    BY <1>4 DEF Stocked!Busy
  <2> QED
    BY <1>0, <1>1, <2>1, StockedQuiet DEF Stocked!Stored
<1>5. ASSUME NEW r \in Uploaders, Stocked!WriteChunk(r) PROVE Stocked!IInv'
  <2> DEFINE f == request[r].file
  <2>1. /\ request[r].stage = "writing" /\ dir[f].at = "staging" /\ UNCHANGED <<lock, request>>
        /\ dir' = [dir EXCEPT ![f].size = dir[f].size + 1]
        /\ request[r].existing + (dir[f].size + 1) <= MaxOwner
    BY <1>5 DEF Stocked!WriteChunk, Stocked!Fits
  <2>2. f \in UploadFiles /\ \A q \in Uploaders \ {r} : request[q].stage # "writing"
    BY <2>1, WriterIsAlone
  <2>3. Stocked!Stored' = Stocked!Stored /\ \A g \in Stocked!Stored : dir'[g].size = dir[g].size
    BY <1>0, <2>1, <2>2 DEF Stocked!Stored
  <2>4. request[r].existing + dir'[f].size <= MaxOwner
    BY <1>0, <2>1, <2>2
  <2> QED
    BY <1>0, <1>1, <2>1, <2>2, <2>3, <2>4, StockedQuiet
<1>6. ASSUME NEW r \in Uploaders, Stocked!Abort(r) PROVE Stocked!IInv'
  <2> DEFINE f == request[r].file
  <2>1. /\ request[r].stage = "writing" /\ dir' = [dir EXCEPT ![f] = Stocked!NotThere]
        /\ request' = [request EXCEPT ![r].stage = "failing", ![r].file = NoFile]
    BY <1>6 DEF Stocked!Abort
  <2>2. f \in UploadFiles /\ \A q \in Uploaders \ {r} : request[q].stage # "writing"
    BY <2>1, WriterIsAlone
  <2>3. /\ Stocked!Stored' \subseteq Stocked!Stored
        /\ \A g \in Stocked!Stored' : dir'[g].size = dir[g].size
    BY <1>0, <2>1, <2>2 DEF Stocked!Stored, Stocked!NotThere
  <2>4. \A q \in Uploaders : /\ request'[q].saved = request[q].saved
                             /\ request'[q].stage # "writing"
                             /\ request'[q].stage = "error" => request[q].stage = "error"
    BY <1>0, <2>1, <2>2
  <2> QED
    BY <1>0, <2>3, <2>4, StockedQuiet
<1>7. ASSUME NEW r \in Uploaders, Stocked!RollBack(r) PROVE Stocked!IInv'
  <2>1. /\ request[r].stage = "failing" /\ UNCHANGED lock
        /\ dir' = [f \in UploadFiles |-> IF f \in request[r].saved THEN Stocked!NotThere ELSE dir[f]]
        /\ request' = [request EXCEPT ![r].stage = "error"]
    BY <1>7 DEF Stocked!RollBack
  <2>2. /\ Stocked!Stored' \subseteq Stocked!Stored \ request[r].saved
        /\ \A g \in Stocked!Stored' : dir'[g].size = dir[g].size
    BY <1>0, <2>1 DEF Stocked!Stored, Stocked!NotThere
  <2>3. \A f \in Stocked!FilesOf(r) : f \notin Stocked!Stored'
    BY <2>2 DEF Stocked!IInv, Stocked!StoredIsSaved, Stocked!FilesOf
  <2>4. \A q \in Uploaders : /\ request'[q].saved = request[q].saved
                             /\ q # r => request'[q] = request[q]
    BY <1>0, <2>1
  <2>5. request'[r].stage = "error"
    BY <1>0, <2>1
  <2>6. \A f \in UploadFiles : dir'[f] = dir[f] \/ dir'[f].size = 0
    BY <2>1 DEF Stocked!NotThere
  <2>7. \A q \in Uploaders : request[q].stage = "writing" =>
          request[q].existing + dir'[request[q].file].size <= MaxOwner
    BY <1>1, <2>6
  <2> QED
    BY <1>0, <1>1, <2>1, <2>2, <2>3, <2>4, <2>5, <2>7, StockedQuiet
<1>8. ASSUME NEW r \in Uploaders, Stocked!Crash(r) PROVE Stocked!IInv'
  <2>1. /\ UNCHANGED dir /\ request' = [request EXCEPT ![r].stage = "dead", ![r].file = NoFile]
        /\ lock' = IF lock = r THEN NoOne ELSE lock
    BY <1>8 DEF Stocked!Crash
  <2> QED
    BY <1>0, <1>1, <2>1, StockedQuiet DEF Stocked!Stored
<1>9. ASSUME NEW r \in Uploaders, Stocked!Acquire(r) \/ Stocked!Store(r) PROVE Stocked!IInv'
  BY <1>0, <1>9, StockedAcquire, StockedStore
<1>10. CASE Stocked!Tick \/ Stocked!List \/ UNCHANGED (Stocked!vars)
  BY <1>2, <1>10 DEF Stocked!Tick, Stocked!List, Stocked!vars
<1> QED
  BY <1>3, <1>4, <1>5, <1>6, <1>7, <1>8, <1>9, <1>10 DEF Stocked!Next, Stocked!Save

LEMMA StockedPromises == Stocked!IInv => Stocked!QuotaHolds /\ Stocked!RequestsAreAtomic
  BY DEF Stocked!IInv, Stocked!NothingAfterError, Stocked!StoredIsSaved, Stocked!Stored,
     Stocked!FilesOf, Stocked!RequestsAreAtomic

-------------------------------------------------------------------------------
(* The execution feed                                                      *)

Filter(g, q, cs, n) ==
  [i \in 0..n |-> IF i = 0 THEN <<>>
                  ELSE IF q[i] \in cs THEN g[i - 1] ELSE Append(g[i - 1], q[i])]

\* The function that Without recurses with exists.
LEMMA FilterExists ==
  ASSUME NEW q, NEW cs, NEW m \in Nat
  PROVE  \E g : g = Filter(g, q, cs, m)
<1> DEFINE Has == {n \in Nat : \E g : g = Filter(g, q, cs, n)}
<1>1. 0 \in Has
  <2>1. [i \in 0..0 |-> <<>>] = Filter([i \in 0..0 |-> <<>>], q, cs, 0)
    BY DEF Filter
  <2> QED
    BY <2>1
<1>2. ASSUME NEW n \in Nat, n \in Has PROVE n + 1 \in Has
  <2>1. PICK g : g = Filter(g, q, cs, n)
    BY <1>2
  <2> DEFINE last == IF q[n + 1] \in cs THEN g[n] ELSE Append(g[n], q[n + 1])
             h == [i \in 0..(n + 1) |-> IF i = n + 1 THEN last ELSE g[i]]
  <2>2. \A i \in 0..n : g[i] = IF i = 0 THEN <<>>
                               ELSE IF q[i] \in cs THEN g[i - 1] ELSE Append(g[i - 1], q[i])
    BY <2>1 DEF Filter
  <2>3. ASSUME NEW i \in 0..(n + 1)
        PROVE  h[i] = IF i = 0 THEN <<>>
                      ELSE IF q[i] \in cs THEN h[i - 1] ELSE Append(h[i - 1], q[i])
    <3>1. CASE i = n + 1
      <4>1. h[i] = last /\ h[i - 1] = g[n] /\ i - 1 = n
        BY <3>1
      <4> QED
        BY <3>1, <4>1
    <3>2. CASE i \in 0..n
      <4>1. h[i] = g[i] /\ (i # 0 => h[i - 1] = g[i - 1])
        BY <3>2
      <4> QED
        BY <2>2, <3>2, <4>1
    <3> QED
      BY <3>1, <3>2
  <2>4. h = Filter(h, q, cs, n + 1)
    <3>1. \A i \in 0..(n + 1) : Filter(h, q, cs, n + 1)[i] = h[i]
      <4> HIDE DEF h
      <4> QED
        BY <2>3 DEF Filter
    <3>2. h = [i \in 0..(n + 1) |-> h[i]]
      OBVIOUS
    <3> HIDE DEF h
    <3> QED
      BY <2>3, <3>2 DEF Filter
  <2> QED
    BY <2>4
<1> HIDE DEF Has
<1>3. \A n \in Nat : n \in Has
  BY <1>1, <1>2, SetInduction
<1> QED
  BY <1>3 DEF Has

\* What is left of a sequence is in the sequence, no later than it was; the others
\* are all there, and no element twice that was there once.
LEMMA WithoutIs ==
  ASSUME NEW S, NEW q \in Seq(S), NEW cs
  PROVE  /\ Watched!Without(q, cs) \in Seq(S)
         /\ \A j \in 1..Len(Watched!Without(q, cs)) :
              \E i \in 1..Len(q) : i >= j /\ q[i] = Watched!Without(q, cs)[j] /\ q[i] \notin cs
         /\ \A i \in 1..Len(q) : q[i] \notin cs =>
              \E j \in 1..Len(Watched!Without(q, cs)) : Watched!Without(q, cs)[j] = q[i]
         /\ (\A i, k \in 1..Len(q) : q[i] = q[k] => i = k) =>
              \A i, k \in 1..Len(Watched!Without(q, cs)) :
                Watched!Without(q, cs)[i] = Watched!Without(q, cs)[k] => i = k
<1> DEFINE m == Len(q)
           g == CHOOSE g : g = Filter(g, q, cs, m)
           Good(r, n) ==
             /\ r \in Seq(S)
             /\ \A j \in 1..Len(r) : \E i \in 1..n : i >= j /\ q[i] = r[j] /\ q[i] \notin cs
             /\ \A i \in 1..n : q[i] \notin cs => \E j \in 1..Len(r) : r[j] = q[i]
             /\ (\A i, k \in 1..m : q[i] = q[k] => i = k) =>
                  \A i, k \in 1..Len(r) : r[i] = r[k] => i = k
             /\ Len(r) <= n
           T == {n \in Nat : n <= m => Good(g[n], n)}
<1>1. m \in Nat /\ \A i \in 1..m : q[i] \in S
  OBVIOUS
<1>2. Watched!Without(q, cs) = g[m]
  BY DEF Watched!Without, Filter
<1>3. g = Filter(g, q, cs, m)
  BY <1>1, FilterExists
<1> HIDE DEF g, m
<1>4. /\ g[0] = <<>>
      /\ \A n \in 1..m : g[n] = IF q[n] \in cs THEN g[n - 1] ELSE Append(g[n - 1], q[n])
  <2>1. \A i \in 0..m : Filter(g, q, cs, m)[i] =
          IF i = 0 THEN <<>> ELSE IF q[i] \in cs THEN g[i - 1] ELSE Append(g[i - 1], q[i])
    BY DEF Filter
  <2>2. \A i \in 0..m : g[i] = Filter(g, q, cs, m)[i]
    BY <1>3
  <2>3. 0 \in 0..m /\ \A i \in 1..m : i \in 0..m /\ i # 0
    BY <1>1
  <2> QED
    BY <2>1, <2>2, <2>3
<1>5. 0 \in T
  <2>1. Good(<<>>, 0)
    OBVIOUS
  <2> HIDE DEF Good
  <2> QED
    BY <1>4, <2>1
<1>6. ASSUME NEW n \in Nat, n \in T PROVE n + 1 \in T
  <2> SUFFICES ASSUME n + 1 <= m PROVE Good(g[n + 1], n + 1)
    <3> HIDE DEF Good
    <3> QED
      OBVIOUS
  <2>1. Good(g[n], n) /\ n + 1 \in 1..m
    BY <1>1, <1>6
  <2>2. CASE q[n + 1] \in cs
    <3>1. g[n + 1] = g[n]
      BY <1>4, <2>1, <2>2
    <3> QED
      BY <2>1, <2>2, <3>1
  <2>3. CASE q[n + 1] \notin cs
    <3> DEFINE r == g[n]
               x == q[n + 1]
    <3>1. g[n + 1] = Append(r, x)
      <4>1. (n + 1) - 1 = n
        OBVIOUS
      <4>2. g[n + 1] = Append(g[(n + 1) - 1], q[n + 1])
        BY <1>4, <2>1, <2>3
      <4> QED
        BY <4>1, <4>2
    <3>2. r \in Seq(S) /\ x \in S /\ Len(r) \in Nat /\ Len(r) <= n
      BY <1>1, <2>1
    <3>3. /\ Append(r, x) \in Seq(S) /\ Len(Append(r, x)) = Len(r) + 1
          /\ Append(r, x)[Len(r) + 1] = x
          /\ \A i \in 1..Len(r) : Append(r, x)[i] = r[i]
      BY <3>2
    <3>4. \A j \in 1..Len(r) : \E i \in 1..n : i >= j /\ q[i] = r[j] /\ q[i] \notin cs
      BY <2>1
    <3>5. \A i \in 1..n : q[i] \notin cs => \E j \in 1..Len(r) : r[j] = q[i]
      BY <2>1
    <3>6. ASSUME \A i, k \in 1..m : q[i] = q[k] => i = k,
                 NEW i \in 1..(Len(r) + 1), NEW k \in 1..(Len(r) + 1),
                 Append(r, x)[i] = Append(r, x)[k]
          PROVE  i = k
      <4>1. \A l \in 1..Len(r) : r[l] # x
        <5>1. \A l \in 1..n : q[l] # x
          BY <1>1, <2>1, <3>6
        <5> HIDE DEF r, x
        <5> QED
          BY <3>4, <5>1
      <4>2. \A j, l \in 1..Len(r) : r[j] = r[l] => j = l
        BY <2>1, <3>6
      <4> HIDE DEF r, x
      <4> QED
        BY <3>2, <3>3, <3>6, <4>1, <4>2
    <3>7. ASSUME NEW j \in 1..(Len(r) + 1)
          PROVE  \E i \in 1..(n + 1) : i >= j /\ q[i] = Append(r, x)[j] /\ q[i] \notin cs
      <4>1. CASE j = Len(r) + 1
        BY <2>3, <3>2, <3>3, <4>1
      <4>2. CASE j \in 1..Len(r)
        <5> HIDE DEF r, x
        <5> QED
          BY <3>3, <3>4, <4>2
      <4> QED
        BY <3>2, <4>1, <4>2
    <3>8. ASSUME NEW i \in 1..(n + 1), q[i] \notin cs
          PROVE  \E j \in 1..(Len(r) + 1) : Append(r, x)[j] = q[i]
      <4>1. CASE i = n + 1
        BY <3>2, <3>3, <4>1
      <4>2. CASE i \in 1..n
        <5>1. PICK j \in 1..Len(r) : r[j] = q[i]
          BY <3>5, <3>8, <4>2
        <5> HIDE DEF r, x
        <5> QED
          BY <3>2, <3>3, <5>1
      <4> QED
        BY <4>1, <4>2
    <3> HIDE DEF r, x
    <3>9. Good(Append(r, x), n + 1)
      <4>1. \A j \in 1..Len(Append(r, x)) :
              \E i \in 1..(n + 1) : i >= j /\ q[i] = Append(r, x)[j] /\ q[i] \notin cs
        BY <3>3, <3>7
      <4>2. \A i \in 1..(n + 1) : q[i] \notin cs =>
              \E j \in 1..Len(Append(r, x)) : Append(r, x)[j] = q[i]
        BY <3>3, <3>8
      <4>3. (\A i, k \in 1..m : q[i] = q[k] => i = k) =>
              \A i, k \in 1..Len(Append(r, x)) : Append(r, x)[i] = Append(r, x)[k] => i = k
        BY <3>3, <3>6
      <4>4. Append(r, x) \in Seq(S) /\ Len(Append(r, x)) <= n + 1
        BY <3>2, <3>3
      <4> QED
        BY <4>1, <4>2, <4>3, <4>4
    <3> HIDE DEF Good
    <3> QED
      BY <3>1, <3>9
  <2> QED
    BY <2>2, <2>3
<1> HIDE DEF T
<1>7. m \in T
  BY <1>1, <1>5, <1>6, SetInduction
<1>8. Good(g[m], m)
  BY <1>1, <1>7 DEF T
<1> QED
  BY <1>2, <1>8 DEF m

LEMMA WatchedInit == ASSUME Watched!Init PROVE Watched!IInv
<1> USE DEF Watched!Init
<1>1. Watched!TypeInv
  BY DEF Watched!TypeInv, Watched!Resting
<1>2. DOMAIN list = {}
  OBVIOUS
<1> QED
  BY <1>1, <1>2 DEF Watched!IInv, Watched!ListIsExact, Watched!DeadAreClosed, Watched!UntoldAhead,
     Watched!ToldAtMostOnce, Watched!Ahead, Watched!Broadcasting, Watched!Resting

\* What disconnect leaves of the list, and of what the senders have ahead of them.
Left(cs) ==
  /\ list' \in Seq(Sockets) /\ epoch' \in Nat /\ epoch <= epoch'
  /\ \A i, j \in DOMAIN list' : list'[i] = list'[j] => i = j
  /\ \A i \in DOMAIN list' : \E j \in DOMAIN list : j >= i /\ list[j] = list'[i] /\ list[j] \notin cs
  /\ \A i \in DOMAIN list : list[i] \notin cs => \E j \in DOMAIN list' : list'[j] = list[i]

LEMMA DisconnectLeaves ==
  ASSUME Watched!IInv, NEW cs, Watched!Disconnect(cs)
  PROVE  Left(cs)
<1>1. list \in Seq(Sockets) /\ DOMAIN list = 1..Len(list) /\ epoch \in Nat
  BY DEF Watched!IInv, Watched!TypeInv
<1>2. list' = Watched!Without(list, cs)
  BY DEF Watched!Disconnect
<1>3. epoch' \in Nat /\ epoch <= epoch'
  BY <1>1 DEF Watched!Disconnect
<1>4. \A i, k \in 1..Len(list) : list[i] = list[k] => i = k
  BY <1>1 DEF Watched!IInv, Watched!ListIsExact
<1>5. /\ list' \in Seq(Sockets)
      /\ \A j \in 1..Len(list') :
           \E i \in 1..Len(list) : i >= j /\ list[i] = list'[j] /\ list[i] \notin cs
      /\ \A i \in 1..Len(list) : list[i] \notin cs => \E j \in 1..Len(list') : list'[j] = list[i]
      /\ \A i, k \in 1..Len(list') : list'[i] = list'[k] => i = k
  <2> DEFINE rest == Watched!Without(list, cs)
  <2>1. /\ rest \in Seq(Sockets)
        /\ \A j \in 1..Len(rest) :
             \E i \in 1..Len(list) : i >= j /\ list[i] = rest[j] /\ list[i] \notin cs
        /\ \A i \in 1..Len(list) : list[i] \notin cs => \E j \in 1..Len(rest) : rest[j] = list[i]
        /\ (\A i, k \in 1..Len(list) : list[i] = list[k] => i = k) =>
             \A i, k \in 1..Len(rest) : rest[i] = rest[k] => i = k
    BY <1>1, WithoutIs
  <2> HIDE DEF rest
  <2>2. list' = rest
    BY <1>2 DEF rest
  <2> QED
    BY <1>4, <2>1, <2>2
<1>6. DOMAIN list' = 1..Len(list')
  BY <1>5
<1> QED
  BY <1>1, <1>3, <1>5, <1>6 DEF Left

LEMMA AheadShrinks ==
  ASSUME Watched!IInv, NEW cs, Left(cs), NEW s \in Senders, cast'[s] = cast[s]
  PROVE  Watched!Ahead(s)' \subseteq Watched!Ahead(s)
<1>1. cast[s].epoch <= epoch /\ cast[s].epoch \in Nat /\ epoch \in Nat /\ cast[s].index \in Nat
  BY DEF Watched!IInv, Watched!TypeInv, Watched!UntoldAhead
<1>2. \A i \in DOMAIN list' : i \in Nat
  BY DEF Left
<1>3. \A i \in DOMAIN list : i \in Nat
  BY DEF Watched!IInv, Watched!TypeInv
<1>4. ASSUME NEW i \in DOMAIN list', cast[s].epoch = epoch', i >= cast[s].index
      PROVE  list'[i] \in Watched!Ahead(s)
  <2>1. PICK j \in DOMAIN list : j >= i /\ list[j] = list'[i]
    BY DEF Left
  <2>2. epoch' = epoch /\ j >= cast[s].index
    BY <1>1, <1>2, <1>3, <1>4, <2>1 DEF Left
  <2> QED
    BY <1>4, <2>1, <2>2 DEF Watched!Ahead
<1> QED
  BY <1>4 DEF Watched!Ahead

\* A sender whose broadcast is over.
Over(s) == [stage |-> "done", epoch |-> 0, index |-> 1, sending |-> Nobody, dead |-> cast[s].dead]

\* Connections are removed that are not open after the step.
LEMMA WatchedRemoves ==
  ASSUME Watched!IInv, NEW cs, Left(cs), Watched!TypeInv', UNCHANGED told,
         \A c \in Sockets :
           /\ socket'[c] = socket[c] \/ (socket[c] = "closing" /\ socket'[c] = "gone" /\ c \in cs)
           /\ c \in cs => socket'[c] # "open",
         \A s \in Senders :
           \/ cast'[s] = cast[s]
           \/ /\ cast'[s] = Over(s)
              /\ cast[s].dead \subseteq cs
  PROVE  Watched!IInv'
<1> USE DEF Watched!IInv
<1>1. Watched!ListIsExact'
  <2>1. \A i \in DOMAIN list' : socket'[list'[i]] \in {"open", "closing", "stale"}
    <3>1. \A j \in DOMAIN list : list[j] \in Sockets
      BY DEF Watched!TypeInv
    <3> QED
      BY <3>1 DEF Left, Watched!ListIsExact
  <2>2. ASSUME NEW c \in Sockets, socket'[c] = "open" PROVE \E i \in DOMAIN list' : list'[i] = c
    <3>1. c \notin cs /\ socket[c] = "open"
      BY <2>2
    <3>2. PICK i \in DOMAIN list : list[i] = c
      BY <3>1 DEF Watched!ListIsExact
    <3> QED
      BY <3>1, <3>2 DEF Left
  <2> QED
    BY <2>1, <2>2 DEF Watched!ListIsExact, Left
<1>2. Watched!DeadAreClosed'
  <2> SUFFICES ASSUME NEW s \in Senders, NEW c \in cast'[s].dead
               PROVE  /\ socket'[c] \in {"closing", "gone", "stale"}
                      /\ cast'[s].stage = "done" => \A i \in DOMAIN list' : list'[i] # c
    BY DEF Watched!DeadAreClosed
  <2>1. cast'[s].dead = cast[s].dead
    <3>1. Over(s).dead = cast[s].dead
      BY DEF Over
    <3> QED
      BY <3>1
  <2>2. c \in Sockets /\ socket[c] \in {"closing", "gone", "stale"}
    BY <2>1 DEF Watched!DeadAreClosed, Watched!TypeInv
  <2>3. socket'[c] \in {"closing", "gone", "stale"}
    BY <2>2
  <2>4. CASE cast'[s] = cast[s]
    BY <2>1, <2>3, <2>4 DEF Watched!DeadAreClosed, Left
  <2>5. CASE cast[s].dead \subseteq cs
    BY <2>1, <2>3, <2>5 DEF Left
  <2> QED
    BY <2>4, <2>5
<1>3. Watched!UntoldAhead'
  <2> SUFFICES ASSUME NEW s \in Senders
               PROVE  /\ cast'[s].epoch <= epoch'
                      /\ cast'[s].stage = "none" => \A c \in Sockets : told'[c][s] = 0
                      /\ \A c \in Sockets : socket'[c] \in {"new", "accepted"} => told'[c][s] = 0
                      /\ Watched!Broadcasting(s)' => \A c \in Watched!Ahead(s)' : told'[c][s] = 0
                      /\ cast'[s].stage = "sending" =>
                           /\ cast'[s].sending \in Sockets \ Watched!Ahead(s)'
                           /\ told'[cast'[s].sending][s] = 0
                           /\ socket'[cast'[s].sending] \notin {"new", "accepted"}
    BY DEF Watched!UntoldAhead
  <2>1. \A c \in Sockets : socket'[c] \in {"new", "accepted"} => told'[c][s] = 0
    BY DEF Watched!UntoldAhead
  <2>2. CASE cast'[s] = cast[s]
    <3>1. cast'[s].epoch <= epoch'
      BY <2>2 DEF Watched!UntoldAhead, Watched!TypeInv, Left
    <3>2. Watched!Ahead(s)' \subseteq Watched!Ahead(s)
      BY <2>2, AheadShrinks
    <3> QED
      BY <2>1, <2>2, <3>1, <3>2 DEF Watched!UntoldAhead, Watched!Broadcasting
  <2>3. CASE cast'[s] = Over(s)
    <3>1. cast'[s].epoch = 0 /\ cast'[s].stage = "done"
      BY <2>3 DEF Over
    <3> QED
      BY <2>1, <3>1 DEF Watched!Broadcasting, Left
  <2> QED
    BY <2>2, <2>3
<1> QED
  BY <1>1, <1>2, <1>3 DEF Watched!ToldAtMostOnce

LEMMA WatchedTypes ==
  ASSUME Watched!IInv, [Watched!Next]_(Watched!vars)
  PROVE  Watched!TypeInv'
<1> USE DEF Watched!TypeInv
<1> DEFINE Cast == [stage : {"none", "next", "sending", "done"}, epoch : Nat, index : Nat \ {0},
                    sending : Sockets \cup {Nobody}, dead : SUBSET Sockets]
<1>0. Watched!TypeInv
  BY DEF Watched!IInv
<1>1. ASSUME NEW c \in Sockets, Watched!Accept(c) PROVE Watched!TypeInv'
  BY <1>0, <1>1 DEF Watched!Accept
<1>2. ASSUME NEW c \in Sockets, Watched!Register(c) PROVE Watched!TypeInv'
  BY <1>0, <1>2 DEF Watched!Register
<1>3. ASSUME NEW c \in Sockets, Watched!Close(c) PROVE Watched!TypeInv'
  BY <1>0, <1>3 DEF Watched!Close
<1>10. ASSUME NEW c \in Sockets, Watched!Fail(c) PROVE Watched!TypeInv'
  BY <1>0, <1>10 DEF Watched!Fail
<1>4. ASSUME NEW c \in Sockets, Watched!Unregister(c) PROVE Watched!TypeInv'
  <2>1. Left({c})
    BY <1>4, DisconnectLeaves DEF Watched!Unregister
  <2> QED
    BY <1>0, <1>4, <2>1 DEF Watched!Unregister, Left
<1>5. ASSUME NEW s \in Senders, Watched!Begin(s) PROVE Watched!TypeInv'
  BY <1>0, <1>5 DEF Watched!Begin
<1>6. ASSUME NEW s \in Senders, Watched!Send(s) PROVE Watched!TypeInv'
  <2>1. Watched!Walked(s)[cast[s].index] \in Sockets
    BY <1>0, <1>6 DEF Watched!Send, Watched!Walked
  <2> DEFINE new == [cast[s] EXCEPT !.stage = "sending", !.sending = Watched!Walked(s)[cast[s].index],
                                    !.index = cast[s].index + 1]
  <2>2. new \in Cast
    <3>1. cast[s] \in Cast /\ cast[s].index + 1 \in Nat \ {0}
      BY <1>0
    <3>2. \A x \in Sockets, n \in Nat \ {0} :
            [cast[s] EXCEPT !.stage = "sending", !.sending = x, !.index = n] \in Cast
      BY <3>1
    <3> HIDE DEF Cast
    <3> QED
      BY <2>1, <3>1, <3>2
  <2>3. cast \in [Senders -> Cast] /\ cast' = [cast EXCEPT ![s] = new]
    BY <1>0, <1>6 DEF Watched!Send, Watched!NextIndex
  <2>4. cast' \in [Senders -> Cast]
    <3> HIDE DEF new, Cast
    <3> QED
      BY <2>2, <2>3
  <2> QED
    BY <1>0, <1>6, <2>4 DEF Watched!Send
<1>7. ASSUME NEW s \in Senders, Watched!Sent(s) PROVE Watched!TypeInv'
  <2>1. cast[s].sending \in Sockets
    BY <1>7 DEF Watched!Sent, Watched!IInv, Watched!UntoldAhead
  <2>2. cast' \in [Senders -> Cast]
    <3>1. PICK dead \in {cast[s].dead, cast[s].dead \cup {cast[s].sending}} :
            cast' = [cast EXCEPT ![s].stage = "next", ![s].sending = Nobody, ![s].dead = dead]
      BY <1>7 DEF Watched!Sent
    <3> DEFINE new == [cast[s] EXCEPT !.stage = "next", !.sending = Nobody, !.dead = dead]
    <3>2. new \in Cast
      BY <1>0, <2>1
    <3>3. cast \in [Senders -> Cast] /\ cast' = [cast EXCEPT ![s] = new]
      BY <1>0, <3>1
    <3> HIDE DEF new, Cast
    <3> QED
      BY <3>2, <3>3
  <2>3. told' \in [Sockets -> [Senders -> Nat]]
    <3> DEFINE c == cast[s].sending
               count == [told[c] EXCEPT ![s] = @ + 1]
    <3>1. told' = told \/ told' = [told EXCEPT ![c] = count]
      BY <1>7, SMTT(30) DEF Watched!Sent
    <3>2. told \in [Sockets -> [Senders -> Nat]] /\ c \in Sockets
      BY <1>0, <2>1
    <3>3. count \in [Senders -> Nat]
      BY <3>2
    <3> HIDE DEF c, count
    <3> QED
      BY <3>1, <3>2, <3>3
  <2> QED
    BY <1>0, <1>7, <2>2, <2>3, SMTT(30) DEF Watched!Sent
<1>8. ASSUME NEW s \in Senders, Watched!End(s) PROVE Watched!TypeInv'
  <2>1. Left(cast[s].dead)
    BY <1>8, DisconnectLeaves DEF Watched!End
  <2> QED
    <3> DEFINE new == [Watched!Resting EXCEPT !.stage = "done", !.dead = cast[s].dead]
    <3>1. new \in Cast
      <4>1. Watched!Resting \in Cast /\ cast[s].dead \subseteq Sockets
        BY <1>0 DEF Watched!Resting
      <4>2. \A d \in SUBSET Sockets : [Watched!Resting EXCEPT !.stage = "done", !.dead = d] \in Cast
        BY <4>1
      <4> HIDE DEF Cast
      <4> QED
        BY <4>1, <4>2
    <3>2. /\ cast' = [cast EXCEPT ![s] = new] /\ UNCHANGED <<socket, told>>
          /\ cast \in [Senders -> Cast]
      BY <1>0, <1>8 DEF Watched!End
    <3>3. cast' \in [Senders -> Cast]
      <4> HIDE DEF Cast, new
      <4> QED
        BY <3>1, <3>2
    <3> QED
      BY <1>0, <2>1, <3>2, <3>3 DEF Left
<1>9. CASE UNCHANGED (Watched!vars)
  BY <1>0, <1>9 DEF Watched!vars
<1> QED
  BY <1>1, <1>2, <1>3, <1>4, <1>5, <1>6, <1>7, <1>8, <1>9, <1>10 DEF Watched!Next

\* The list stays, and what the other senders have ahead of them.
LEMMA AheadStays ==
  ASSUME UNCHANGED <<list, epoch>>, NEW s \in Senders, cast'[s] = cast[s]
  PROVE  Watched!Ahead(s)' = Watched!Ahead(s)
  BY DEF Watched!Ahead

\* A connection moves on towards its end, and nothing is sent.
LEMMA WatchedMoves ==
  ASSUME Watched!IInv, Watched!TypeInv', NEW c \in Sockets,
         UNCHANGED <<list, epoch, cast, told>>,
         \A d \in Sockets \ {c} : socket'[d] = socket[d],
         \/ socket[c] = "new" /\ socket'[c] \in {"accepted", "gone"}
         \/ socket[c] = "open" /\ socket'[c] \in {"closing", "stale"}
         \/ socket[c] = "closing" /\ socket'[c] = "stale"
         \/ socket[c] = "accepted" /\ socket'[c] = "gone"
  PROVE  Watched!IInv'
<1> USE DEF Watched!IInv
<1>1. \A i \in DOMAIN list : list[i] \in Sockets
  BY DEF Watched!TypeInv
<1>2. Watched!ListIsExact'
  BY <1>1 DEF Watched!ListIsExact
<1>3. Watched!DeadAreClosed'
  <2>1. \A s \in Senders : cast[s].dead \subseteq Sockets
    BY DEF Watched!TypeInv
  <2> QED
    BY <2>1 DEF Watched!DeadAreClosed
<1>4. Watched!UntoldAhead'
  <2>1. \A s \in Senders : Watched!Ahead(s)' = Watched!Ahead(s)
    BY AheadStays
  <2> QED
    BY <2>1 DEF Watched!UntoldAhead, Watched!Broadcasting
<1> QED
  BY <1>2, <1>3, <1>4 DEF Watched!ToldAtMostOnce

LEMMA WatchedRegisters ==
  ASSUME Watched!IInv, Watched!TypeInv', NEW c \in Sockets, Watched!Register(c)
  PROVE  Watched!IInv'
<1> USE DEF Watched!IInv
<1>1. /\ socket[c] = "accepted" /\ socket'[c] = "open" /\ UNCHANGED <<epoch, cast, told>>
      /\ \A d \in Sockets \ {c} : socket'[d] = socket[d]
  BY DEF Watched!Register, Watched!TypeInv
<1>2. /\ DOMAIN list = 1..Len(list) /\ Len(list) \in Nat /\ DOMAIN list' = 1..(Len(list) + 1)
      /\ \A i \in DOMAIN list : list'[i] = list[i] /\ list[i] \in Sockets
      /\ list'[Len(list) + 1] = c
  BY DEF Watched!Register, Watched!TypeInv
<1>3. \A i \in DOMAIN list : list[i] # c
  BY <1>1 DEF Watched!ListIsExact
<1>4. \A i \in DOMAIN list' : i \in DOMAIN list \/ i = Len(list) + 1
  BY <1>2
<1>5. Watched!ListIsExact'
  <2>1. \A i, j \in DOMAIN list' : list'[i] = list'[j] => i = j
    BY <1>2, <1>3, <1>4 DEF Watched!ListIsExact
  <2>2. \A i \in DOMAIN list' : socket'[list'[i]] \in {"open", "closing", "stale"}
    BY <1>1, <1>2, <1>3, <1>4 DEF Watched!ListIsExact
  <2>3. ASSUME NEW d \in Sockets, socket'[d] = "open" PROVE \E i \in DOMAIN list' : list'[i] = d
    <3>1. CASE d = c
      BY <1>2, <3>1
    <3>2. CASE d # c
      <4>1. PICK i \in DOMAIN list : list[i] = d
        BY <1>1, <2>3, <3>2 DEF Watched!ListIsExact
      <4> QED
        BY <1>2, <4>1
    <3> QED
      BY <3>1, <3>2
  <2> QED
    BY <2>1, <2>2, <2>3 DEF Watched!ListIsExact
<1>6. Watched!DeadAreClosed'
  <2>1. \A s \in Senders : cast[s].dead \subseteq Sockets
    BY DEF Watched!TypeInv
  <2>2. \A s \in Senders : \A d \in cast[s].dead : d # c
    BY <1>1 DEF Watched!DeadAreClosed
  <2>3. \A i \in DOMAIN list' : list'[i] = c \/ \E j \in DOMAIN list : list[j] = list'[i]
    BY <1>2, <1>4
  <2> QED
    BY <1>1, <2>1, <2>2, <2>3 DEF Watched!DeadAreClosed
<1>7. \A s \in Senders : Watched!Ahead(s)' \subseteq Watched!Ahead(s) \cup {c}
  BY <1>1, <1>2, <1>4 DEF Watched!Ahead
<1>8. \A s \in Senders : told[c][s] = 0
  BY <1>1 DEF Watched!UntoldAhead
<1>9. \A s \in Senders : cast[s].stage = "sending" => cast[s].sending # c
  BY <1>1 DEF Watched!UntoldAhead
<1>10. Watched!UntoldAhead'
  BY <1>1, <1>7, <1>8, <1>9 DEF Watched!UntoldAhead, Watched!Broadcasting
<1> QED
  BY <1>1, <1>5, <1>6, <1>10 DEF Watched!ToldAtMostOnce

LEMMA WatchedBegins ==
  ASSUME Watched!IInv, Watched!TypeInv', NEW s \in Senders, Watched!Begin(s)
  PROVE  Watched!IInv'
<1> USE DEF Watched!IInv
<1>1. /\ UNCHANGED <<list, epoch, socket, told>> /\ cast[s].stage = "none"
      /\ cast'[s].stage = "next" /\ cast'[s].epoch = epoch /\ cast'[s].dead = cast[s].dead
      /\ \A t \in Senders \ {s} : cast'[t] = cast[t]
  BY DEF Watched!Begin, Watched!TypeInv
<1>2. Watched!ListIsExact'
  BY <1>1 DEF Watched!ListIsExact
<1>3. Watched!DeadAreClosed'
  BY <1>1 DEF Watched!DeadAreClosed
<1>4. \A t \in Senders \ {s} : Watched!Ahead(t)' = Watched!Ahead(t)
  BY <1>1, AheadStays
<1>5. Watched!Ahead(s)' \subseteq Sockets
  BY <1>1 DEF Watched!Ahead, Watched!TypeInv
<1>6. epoch <= epoch
  BY DEF Watched!TypeInv
<1>7. Watched!UntoldAhead'
  BY <1>1, <1>4, <1>5, <1>6 DEF Watched!UntoldAhead, Watched!Broadcasting
<1> QED
  BY <1>1, <1>2, <1>3, <1>7 DEF Watched!ToldAtMostOnce

LEMMA WatchedSends ==
  ASSUME Watched!IInv, Watched!TypeInv', NEW s \in Senders, Watched!Send(s)
  PROVE  Watched!IInv'
<1> USE DEF Watched!IInv
<1> DEFINE k == cast[s].index
<1>1. /\ k \in DOMAIN list /\ k \in Nat /\ cast[s].epoch = epoch /\ Watched!Walked(s) = list
      /\ cast[s].stage = "next"
  BY DEF Watched!Send, Watched!Walked, Watched!TypeInv
<1>2. /\ UNCHANGED <<list, epoch, socket, told>>
      /\ cast'[s].stage = "sending" /\ cast'[s].sending = list[k] /\ cast'[s].index = k + 1
      /\ cast'[s].epoch = epoch /\ cast'[s].dead = cast[s].dead
      /\ \A t \in Senders \ {s} : cast'[t] = cast[t]
  BY <1>1 DEF Watched!Send, Watched!NextIndex, Watched!TypeInv
<1>3. Watched!ListIsExact'
  BY <1>2 DEF Watched!ListIsExact
<1>4. Watched!DeadAreClosed'
  BY <1>2 DEF Watched!DeadAreClosed
<1>5. \A t \in Senders \ {s} : Watched!Ahead(t)' = Watched!Ahead(t)
  BY <1>2, AheadStays
<1>6. list[k] \in Watched!Ahead(s)
  BY <1>1 DEF Watched!Ahead
<1>7. Watched!Ahead(s)' \subseteq Watched!Ahead(s) \ {list[k]}
  <2>1. \A j \in DOMAIN list : j >= k + 1 => j >= k /\ j # k
    <3>1. \A j \in DOMAIN list : j \in Nat
      BY DEF Watched!TypeInv
    <3> HIDE DEF k
    <3> QED
      BY <1>1, <3>1
  <2>2. ASSUME NEW j \in DOMAIN list, j >= k + 1 PROVE list[j] \in Watched!Ahead(s) \ {list[k]}
    BY <1>1, <2>1, <2>2 DEF Watched!Ahead, Watched!ListIsExact
  <2> QED
    BY <1>2, <2>2 DEF Watched!Ahead
<1>8. /\ list[k] \in Sockets /\ told[list[k]][s] = 0 /\ \A c \in Watched!Ahead(s) : told[c][s] = 0
      /\ socket[list[k]] \notin {"new", "accepted"}
  <2>1. list[k] \in Sockets /\ socket[list[k]] \notin {"new", "accepted"}
    <3>1. \A j \in DOMAIN list : list[j] \in Sockets
      BY DEF Watched!TypeInv
    <3>2. \A j \in DOMAIN list : socket[list[j]] \notin {"new", "accepted"}
      BY DEF Watched!ListIsExact
    <3> QED
      BY <1>1, <3>1, <3>2
  <2>2. \A c \in Watched!Ahead(s) : told[c][s] = 0
    BY <1>1 DEF Watched!UntoldAhead, Watched!Broadcasting
  <2> QED
    BY <1>6, <2>1, <2>2
<1>9. epoch <= epoch
  BY DEF Watched!TypeInv
<1> HIDE DEF k
<1>10. Watched!UntoldAhead'
  BY <1>2, <1>5, <1>7, <1>8, <1>9 DEF Watched!UntoldAhead, Watched!Broadcasting
<1> QED
  BY <1>2, <1>3, <1>4, <1>10 DEF Watched!ToldAtMostOnce

LEMMA WatchedHasSent ==
  ASSUME Watched!IInv, Watched!TypeInv', NEW s \in Senders, Watched!Sent(s)
  PROVE  Watched!IInv'
<1> USE DEF Watched!IInv
<1> DEFINE c == cast[s].sending
<1>1. /\ cast[s].stage = "sending" /\ c \in Sockets \ Watched!Ahead(s) /\ told[c][s] = 0
      /\ socket[c] \notin {"new", "accepted"}
  BY DEF Watched!Sent, Watched!UntoldAhead
<1>2. PICK dead \in {cast[s].dead, cast[s].dead \cup {c}} :
        /\ cast' = [cast EXCEPT ![s].stage = "next", ![s].sending = Nobody, ![s].dead = dead]
        /\ c \in dead => c \in cast[s].dead \/ socket[c] # "open"
  BY DEF Watched!Sent
<1>3. /\ UNCHANGED <<list, epoch, socket>>
      /\ cast'[s].stage = "next" /\ cast'[s].dead = dead
      /\ cast'[s].epoch = cast[s].epoch /\ cast'[s].index = cast[s].index
      /\ \A t \in Senders \ {s} : cast'[t] = cast[t]
  BY <1>2 DEF Watched!Sent, Watched!TypeInv
<1>4. /\ \A d \in Sockets, t \in Senders : told'[d][t] = told[d][t] \/ (d = c /\ t = s)
      /\ told'[c][s] \in {0, 1}
  BY <1>1 DEF Watched!Sent, Watched!TypeInv
<1>5. Watched!ListIsExact'
  BY <1>3 DEF Watched!ListIsExact
<1>6. Watched!DeadAreClosed'
  <2>1. \A d \in dead : socket[d] \in {"closing", "gone", "stale"}
    BY <1>1, <1>2 DEF Watched!DeadAreClosed, Watched!TypeInv
  <2> QED
    BY <1>3, <2>1 DEF Watched!DeadAreClosed
<1>7. \A t \in Senders \ {s} : Watched!Ahead(t)' = Watched!Ahead(t)
  BY <1>3, AheadStays
<1>8. Watched!Ahead(s)' = Watched!Ahead(s)
  BY <1>3 DEF Watched!Ahead
<1>9. \A t \in Senders : Watched!Ahead(t) \subseteq Sockets
  BY DEF Watched!Ahead, Watched!TypeInv
<1> HIDE DEF c
<1>10. \A t \in Senders \ {s} : \A d \in Sockets : told'[d][t] = told[d][t]
  BY <1>4
<1>11. \A d \in Sockets \ {c} : told'[d][s] = told[d][s]
  BY <1>4
<1>12. Watched!UntoldAhead'
  <2>1. ASSUME NEW t \in Senders \ {s}
        PROVE  /\ cast'[t].epoch <= epoch'
               /\ cast'[t].stage = "none" => \A d \in Sockets : told'[d][t] = 0
               /\ \A d \in Sockets : socket'[d] \in {"new", "accepted"} => told'[d][t] = 0
               /\ Watched!Broadcasting(t)' => \A d \in Watched!Ahead(t)' : told'[d][t] = 0
               /\ cast'[t].stage = "sending" =>
                    /\ cast'[t].sending \in Sockets \ Watched!Ahead(t)'
                    /\ told'[cast'[t].sending][t] = 0
                    /\ socket'[cast'[t].sending] \notin {"new", "accepted"}
    BY <1>3, <1>7, <1>9, <1>10 DEF Watched!UntoldAhead, Watched!Broadcasting
  <2>2. /\ cast'[s].epoch <= epoch' /\ cast'[s].stage = "next"
        /\ \A d \in Sockets : socket'[d] \in {"new", "accepted"} => told'[d][s] = 0
        /\ \A d \in Watched!Ahead(s)' : told'[d][s] = 0
    BY <1>1, <1>3, <1>8, <1>9, <1>11 DEF Watched!UntoldAhead, Watched!Broadcasting
  <2> QED
    BY <2>1, <2>2 DEF Watched!UntoldAhead
<1>13. Watched!ToldAtMostOnce'
  BY <1>1, <1>4 DEF Watched!ToldAtMostOnce
<1> QED
  BY <1>5, <1>6, <1>12, <1>13

LEMMA WatchedStep ==
  ASSUME Watched!IInv, [Watched!Next]_(Watched!vars)
  PROVE  Watched!IInv'
<1>0. Watched!TypeInv' /\ Watched!TypeInv
  BY WatchedTypes DEF Watched!IInv
<1>1. ASSUME NEW c \in Sockets, Watched!Accept(c) \/ Watched!Close(c) \/ Watched!Fail(c)
      PROVE  Watched!IInv'
  <2>1. /\ UNCHANGED <<list, epoch, cast, told>>
        /\ \A d \in Sockets \ {c} : socket'[d] = socket[d]
        /\ \/ socket[c] = "new" /\ socket'[c] \in {"accepted", "gone"}
           \/ socket[c] = "open" /\ socket'[c] \in {"closing", "stale"}
           \/ socket[c] = "closing" /\ socket'[c] = "stale"
           \/ socket[c] = "accepted" /\ socket'[c] = "gone"
    BY <1>0, <1>1 DEF Watched!Accept, Watched!Close, Watched!Fail, Watched!TypeInv
  <2> QED
    BY <1>0, <2>1, WatchedMoves
<1>2. ASSUME NEW c \in Sockets, Watched!Unregister(c) PROVE Watched!IInv'
  <2>1. Left({c}) /\ UNCHANGED <<cast, told>>
    BY <1>2, DisconnectLeaves DEF Watched!Unregister
  <2>2. \A d \in Sockets :
          /\ socket'[d] = socket[d] \/ (socket[d] = "closing" /\ socket'[d] = "gone" /\ d \in {c})
          /\ d \in {c} => socket'[d] # "open"
    BY <1>0, <1>2 DEF Watched!Unregister, Watched!TypeInv
  <2> QED
    BY <1>0, <2>1, <2>2, WatchedRemoves
<1>3. ASSUME NEW s \in Senders, Watched!End(s) PROVE Watched!IInv'
  <2> DEFINE cs == cast[s].dead
  <2>1. Left(cs) /\ UNCHANGED <<socket, told>>
    BY <1>3, DisconnectLeaves DEF Watched!End
  <2>2. \A d \in Sockets : d \in cs => socket'[d] # "open"
    BY <2>1 DEF Watched!IInv, Watched!DeadAreClosed
  <2>3. \A t \in Senders :
          \/ cast'[t] = cast[t]
          \/ /\ cast'[t] = Over(t)
             /\ cast[t].dead \subseteq cs
    BY <1>0, <1>3 DEF Watched!End, Watched!TypeInv, Watched!Resting, Over
  <2> HIDE DEF cs
  <2> QED
    BY <1>0, <2>1, <2>2, <2>3, WatchedRemoves
<1>4. CASE UNCHANGED (Watched!vars)
  <2>1. \A s \in Senders : Watched!Ahead(s)' = Watched!Ahead(s)
    BY <1>4, AheadStays DEF Watched!vars
  <2> QED
    BY <1>0, <1>4, <2>1 DEF Watched!vars, Watched!IInv, Watched!ListIsExact, Watched!DeadAreClosed,
       Watched!UntoldAhead, Watched!Broadcasting, Watched!ToldAtMostOnce
<1> QED
  BY <1>0, <1>1, <1>2, <1>3, <1>4, WatchedRegisters, WatchedBegins, WatchedSends, WatchedHasSent
     DEF Watched!Next

\* Cardinality of the instance and of this module.
LEMMA WatchedCardinality == \A S : Watched!Cardinality(S) = Cardinality(S)
  BY DEF Watched!Cardinality, Cardinality, Watched!IsFiniteSet, IsFiniteSet

LEMMA WatchedIsExact == Watched!IInv => Watched!RegistryIsExact /\ Watched!ToldAtMostOnce
<1> SUFFICES ASSUME Watched!IInv PROVE Watched!RegistryIsExact /\ Watched!ToldAtMostOnce
  OBVIOUS
<1>1. ASSUME NEW c \in Sockets, socket[c] = "open"
      PROVE  Watched!Cardinality({i \in DOMAIN list : list[i] = c}) = 1
  <2>1. PICK i \in DOMAIN list : list[i] = c
    BY <1>1 DEF Watched!IInv, Watched!ListIsExact
  <2>2. {j \in DOMAIN list : list[j] = c} = {i}
    BY <2>1 DEF Watched!IInv, Watched!ListIsExact
  <2> QED
    BY <2>2, FS_Singleton, WatchedCardinality
<1>2. ASSUME NEW i \in DOMAIN list
      PROVE  /\ socket[list[i]] \in {"open", "closing", "stale"}
             /\ \A s \in Senders : cast[s].stage = "done" => list[i] \notin cast[s].dead
  BY DEF Watched!IInv, Watched!ListIsExact, Watched!DeadAreClosed
<1> QED
  BY <1>1, <1>2 DEF Watched!IInv, Watched!RegistryIsExact

-------------------------------------------------------------------------------
(* A start of the Studio                                                   *)

LEMMA ItemsAre ==
  /\ <<"core", 0>> \in Started!SchemaItems
  /\ \A i \in Started!SchemaItems : i[2] \in 0..Started!Head /\ (i[2] <= 0 => i = <<"core", 0>>)
<1>1. Started!SchemaItems = {<<"core", 0>>, <<"core", 1>>, <<"run_jobs", 2>>, <<"source_states", 3>>,
                       <<"source_states", 4>>, <<"candidates", 4>>, <<"core", 5>>,
                       <<"triggers", 5>>, <<"deliveries", 5>>}
  BY DEF Started!SchemaItems, Started!OriginalTables, Started!DbModelImprovements,
     Started!DurableRunJobs, Started!SdkSourceStates, Started!SdkStateCandidates,
     Started!TriggerPayload, Started!GraphTriggers, Started!WebhookDeliveries
<1> QED
  BY <1>1 DEF Started!Head

LEMMA StartedConstants == LegacyFiles \subseteq VolumeFiles
  BY ConstantsAreSound DEF Started!DeploymentAssumption

LEMMA StartedInit == ASSUME Started!Init PROVE Started!IInv
<1> USE DEF Started!Init
<1>1. schema \subseteq Started!SchemaItems /\ version \in -1..Started!Head
  BY DEF Started!Created, Started!Unversioned, Started!Head
<1>2. Started!TypeInv
  BY <1>1 DEF Started!TypeInv
<1>3. Started!SchemaIsStamped
  <2>1. CASE schema = {} /\ version = Started!Unversioned
    BY <2>1, ItemsAre DEF Started!SchemaIsStamped, Started!Unversioned
  <2>2. ASSUME NEW old \in 0..Started!Head, NEW new \in 0..Started!Head,
               schema = Started!Created({i \in Started!SchemaItems : i[2] <= old}, new),
               version \in {Started!Unversioned, old}
        PROVE  Started!SchemaIsStamped
    <3>1. {i \in Started!SchemaItems : i[2] <= old} \subseteq schema
      BY <2>2 DEF Started!Created
    <3>2. old \in Nat /\ 0 <= old /\ Started!Unversioned = -1
      BY DEF Started!Head, Started!Unversioned
    <3>3. <<"core", 0>> \in schema
      <4>1. <<"core", 0>>[2] <= old
        BY <3>2
      <4> QED
        BY <3>1, <4>1, ItemsAre
    <3>4. {i \in Started!SchemaItems : i[2] <= version} \subseteq schema
      BY <2>2, <3>1, <3>2, ItemsAre
    <3> QED
      BY <3>3, <3>4 DEF Started!SchemaIsStamped
  <2> QED
    BY <2>1, <2>2
<1> QED
  BY <1>2, <1>3 DEF Started!IInv, Started!SealsAreKnown, Started!ConnectionsAreReadable,
     Started!MarkerIsLast, Started!Serving

LEMMA StartedTypes ==
  ASSUME Started!IInv, [Started!Next]_(Started!vars)
  PROVE  Started!TypeInv'
<1> USE DEF Started!IInv, Started!TypeInv, Started!db, Started!disk
<1>1. CASE Started!TransitionPassword
  BY <1>1 DEF Started!TransitionPassword
<1>2. CASE Started!PrepareSchema
  <2>1. version' \in -1..Started!Head
    BY <1>2 DEF Started!PrepareSchema, Started!Head
  <2>2. schema' \subseteq Started!SchemaItems
    BY <1>2 DEF Started!PrepareSchema, Started!Created
  <2> QED
    BY <1>2, <2>1, <2>2 DEF Started!PrepareSchema
<1>3. CASE Started!Migrate
  BY <1>3 DEF Started!Migrate, Started!Upgraded, Started!Head
<1>4. CASE Started!Reencrypt
  BY <1>4 DEF Started!Reencrypt, Started!Reencrypted
<1>5. CASE Started!ImportSkip \/ Started!ImportStart \/ Started!ImportCopied \/ Started!ImportMark
  BY <1>5 DEF Started!ImportSkip, Started!ImportStart, Started!ImportCopied, Started!ImportMark
<1>6. CASE Started!StartApi
  BY <1>6 DEF Started!StartApi, Started!Created, Started!Encrypted
<1>7. ASSUME NEW f \in VolumeFiles, Started!ImportCopy(f) \/ Started!ImportMove(f)
      PROVE  Started!TypeInv'
  BY <1>7 DEF Started!ImportCopy, Started!ImportMove
<1>8. CASE Started!ImportFails \/ Started!Stop
  BY <1>8 DEF Started!ImportFails, Started!Stop
<1>9. ASSUME NEW f \in VolumeFiles, Started!Upload(f) \/ Started!Delete(f) PROVE Started!TypeInv'
  BY <1>9 DEF Started!Upload, Started!Delete
<1>10. CASE UNCHANGED (Started!vars)
  BY <1>10 DEF Started!vars
<1> QED
  BY <1>1, <1>2, <1>3, <1>4, <1>5, <1>6, <1>7, <1>8, <1>9, <1>10 DEF Started!Next, Started!Container

LEMMA StartedSchema ==
  ASSUME Started!IInv, [Started!Next]_(Started!vars)
  PROVE  Started!SchemaIsStamped'
<1> USE DEF Started!IInv, Started!SchemaIsStamped, Started!db
<1>0. /\ Started!Head = 5 /\ Started!Unversioned = -1 /\ version \in -1..Started!Head
      /\ schema \subseteq Started!SchemaItems /\ \A i \in Started!SchemaItems : i[2] \in 0..Started!Head
  BY ItemsAre DEF Started!TypeInv, Started!Head, Started!Unversioned
<1>1. CASE Started!PrepareSchema
  <2>1. CASE Started!IsFresh
    <3>1. schema = {}
      <4>1. <<"core", 0>>[1] = "core"
        OBVIOUS
      <4> QED
        BY <2>1, <4>1 DEF Started!IsFresh
    <3>2. schema' = Started!SchemaItems
      BY <1>0, <1>1, <2>1, <3>1 DEF Started!PrepareSchema, Started!Created
    <3>3. UNCHANGED <<version, done>> /\ migrating' = "fresh" /\ "migrate" \notin done
      BY <1>1, <2>1 DEF Started!PrepareSchema
    <3> QED
      BY <3>2, <3>3, ItemsAre
  <2>2. CASE ~Started!IsFresh
    <3>1. /\ schema' = schema /\ migrating' = "upgrade" /\ UNCHANGED done /\ "migrate" \notin done
          /\ version' = IF version = Started!Unversioned THEN 0 ELSE version
      BY <1>1, <2>2 DEF Started!PrepareSchema
    <3>2. CASE version = Started!Unversioned
      <4>1. <<"core", 0>> \in schema
        BY <2>2, <3>2 DEF Started!IsFresh
      <4> QED
        BY <1>0, <3>1, <3>2, <4>1, ItemsAre
    <3>3. CASE version # Started!Unversioned
      BY <3>1, <3>3
    <3> QED
      BY <3>2, <3>3
  <2> QED
    BY <2>1, <2>2
<1>2. CASE Started!Migrate
  <2>1. version' = Started!Head /\ migrating' = "idle"
    BY <1>2 DEF Started!Migrate
  <2>2. schema' = Started!SchemaItems
    <3>1. CASE migrating = "fresh"
      BY <1>2, <3>1 DEF Started!Migrate
    <3>2. CASE migrating # "fresh"
      <4>1. schema' = schema \cup {i \in Started!SchemaItems : i[2] > version}
        BY <1>2, <3>2 DEF Started!Migrate, Started!Upgraded
      <4>2. \A i \in Started!SchemaItems : i[2] <= version \/ i[2] > version
        BY <1>0
      <4> QED
        BY <1>0, <4>1, <4>2
    <3> QED
      BY <3>1, <3>2
  <2> QED
    BY <2>1, <2>2, ItemsAre
<1>3. CASE Started!StartApi
  <2>1. schema = Started!SchemaItems /\ schema' = schema
    BY <1>3 DEF Started!StartApi, Started!Created
  <2>2. UNCHANGED <<version, migrating>> /\ ("migrate" \in done' <=> "migrate" \in done)
    BY <1>3 DEF Started!StartApi
  <2> QED
    BY <2>1, <2>2
<1>4. CASE /\ UNCHANGED <<schema, version, migrating>>
           /\ "migrate" \in done' => "migrate" \in done
  BY <1>4
<1>5. CASE Started!TransitionPassword \/ Started!Reencrypt
  BY <1>4, <1>5 DEF Started!TransitionPassword, Started!Reencrypt
<1>6. CASE Started!ImportSkip \/ Started!ImportStart \/ Started!ImportCopied \/ Started!ImportMark
  BY <1>4, <1>6 DEF Started!ImportSkip, Started!ImportStart, Started!ImportCopied,
     Started!ImportMark
<1>7. ASSUME NEW f \in VolumeFiles,
             Started!ImportCopy(f) \/ Started!ImportMove(f) \/ Started!Upload(f) \/ Started!Delete(f)
      PROVE  Started!SchemaIsStamped'
  BY <1>4, <1>7 DEF Started!ImportCopy, Started!ImportMove, Started!Upload, Started!Delete
<1>8. CASE Started!ImportFails \/ UNCHANGED (Started!vars)
  BY <1>4, <1>8 DEF Started!ImportFails, Started!vars
<1>9. CASE Started!Stop
  BY <1>9 DEF Started!Stop
<1> QED
  BY <1>1, <1>2, <1>3, <1>5, <1>6, <1>7, <1>8, <1>9 DEF Started!Next, Started!Container

LEMMA StartedSeals ==
  ASSUME Started!IInv, [Started!Next]_(Started!vars)
  PROVE  Started!SealsAreKnown'
<1> USE DEF Started!IInv, Started!SealsAreKnown, Started!ConnectionsAreReadable, Started!Serving,
        Started!db
<1>1. CASE Started!Reencrypt
  <2>1. "connections" \notin done /\ "api" \notin done
    BY <1>1 DEF Started!Reencrypt, Started!MarkerIsLast
  <2>2. \A r \in Rows : seal[r] # "unknown" /\ seal'[r] = Started!Reencrypted(seal[r])
    BY <1>1 DEF Started!Reencrypt, Started!Reencryptable
  <2>3. \A r \in Rows : seal'[r] \in {"plain", "current"}
    BY <2>2 DEF Started!TypeInv, Started!Reencrypted
  <2>4. "api" \notin done'
    BY <1>1, <2>1 DEF Started!Reencrypt
  <2> QED
    BY <2>3, <2>4
<1>2. CASE Started!StartApi
  <2>1. \A r \in Rows : seal[r] \in {"plain", "current"} /\ seal'[r] = Started!Encrypted(seal[r])
    BY <1>2 DEF Started!StartApi
  <2> QED
    BY <2>1 DEF Started!Encrypted
<1>3. CASE /\ UNCHANGED seal
           /\ \A x \in {"connections", "api"} : x \in done' => x \in done
  BY <1>3
<1>4. CASE Started!TransitionPassword \/ Started!PrepareSchema \/ Started!Migrate
  BY <1>3, <1>4 DEF Started!TransitionPassword, Started!PrepareSchema, Started!Migrate
<1>5. CASE Started!ImportSkip \/ Started!ImportStart \/ Started!ImportCopied \/ Started!ImportMark
  BY <1>3, <1>5 DEF Started!ImportSkip, Started!ImportStart, Started!ImportCopied,
     Started!ImportMark
<1>6. ASSUME NEW f \in VolumeFiles,
             Started!ImportCopy(f) \/ Started!ImportMove(f) \/ Started!Upload(f) \/ Started!Delete(f)
      PROVE  Started!SealsAreKnown'
  BY <1>3, <1>6 DEF Started!ImportCopy, Started!ImportMove, Started!Upload, Started!Delete
<1>7. CASE Started!ImportFails \/ Started!Stop \/ UNCHANGED (Started!vars)
  BY <1>3, <1>7 DEF Started!ImportFails, Started!Stop, Started!vars
<1> QED
  BY <1>1, <1>2, <1>4, <1>5, <1>6, <1>7 DEF Started!Next, Started!Container

LEMMA StartedMarker ==
  ASSUME Started!IInv, [Started!Next]_(Started!vars)
  PROVE  Started!MarkerIsLast'
<1> USE DEF Started!IInv, Started!MarkerIsLast, Started!Serving, Started!disk
<1>0. /\ volume \in [VolumeFiles -> {"absent", "own", "dir", "legacy"}]
      /\ staged \subseteq LegacyFiles /\ LegacyFiles \subseteq VolumeFiles
  BY StartedConstants DEF Started!TypeInv
<1>1. CASE /\ UNCHANGED <<volume, staged, marker, deleted, importing>>
           /\ "storage" \in done' => "storage" \in done
           /\ "api" \in done' => {"migrate", "connections", "storage"} \subseteq done'
  BY <1>1
<1>2. CASE Started!TransitionPassword \/ Started!PrepareSchema \/ Started!Migrate \/ Started!Reencrypt
  BY <1>1, <1>2 DEF Started!TransitionPassword, Started!PrepareSchema, Started!Migrate,
     Started!Reencrypt
<1>3. CASE Started!StartApi \/ UNCHANGED (Started!vars)
  BY <1>1, <1>3 DEF Started!StartApi, Started!vars
<1>4. CASE Started!ImportSkip
  BY <1>4 DEF Started!ImportSkip, Started!ImportNeeded
<1>5. CASE Started!ImportStart
  BY <1>5 DEF Started!ImportStart, Started!ImportNeeded
<1>6. CASE Started!ImportCopied
  BY <1>6 DEF Started!ImportCopied
<1>7. CASE Started!ImportMark
  BY <1>7 DEF Started!ImportMark
<1>8. ASSUME NEW f \in VolumeFiles, Started!ImportCopy(f) PROVE Started!MarkerIsLast'
  BY <1>8 DEF Started!ImportCopy
<1>9. ASSUME NEW f \in VolumeFiles, Started!ImportMove(f) PROVE Started!MarkerIsLast'
  <2>1. /\ importing = "move" /\ staged' = staged \ {f} /\ UNCHANGED <<marker, deleted, done, importing>>
        /\ volume'[f] # "absent" /\ \A g \in VolumeFiles \ {f} : volume'[g] = volume[g]
    BY <1>0, <1>9 DEF Started!ImportMove, Started!Kept
  <2>2. ~marker
    BY <2>1
  <2> QED
    BY <1>0, <2>1, <2>2
<1>10. CASE Started!ImportFails
  BY <1>10 DEF Started!ImportFails
<1>11. CASE Started!Stop
  BY <1>11 DEF Started!Stop
<1>12. ASSUME NEW f \in VolumeFiles, Started!Upload(f) PROVE Started!MarkerIsLast'
  <2>1. /\ marker /\ UNCHANGED <<staged, marker, deleted, done, importing>>
        /\ volume'[f] = "own" /\ \A g \in VolumeFiles \ {f} : volume'[g] = volume[g]
    BY <1>0, <1>12 DEF Started!Upload
  <2>2. \A g \in deleted : g = f \/ volume'[g] = volume[g]
    BY <1>0, <1>12 DEF Started!Upload
  <2> QED
    BY <1>0, <2>1, <2>2
<1>13. ASSUME NEW f \in VolumeFiles, Started!Delete(f) PROVE Started!MarkerIsLast'
  <2>1. /\ marker /\ UNCHANGED <<staged, marker, done, importing>> /\ deleted' = deleted \cup {f}
        /\ volume'[f] = "absent" /\ \A g \in VolumeFiles \ {f} : volume'[g] = volume[g]
    BY <1>0, <1>13 DEF Started!Delete
  <2>2. \A g \in deleted : g = f \/ volume'[g] = volume[g]
    BY <1>0, <1>13 DEF Started!Delete
  <2> QED
    BY <1>0, <2>1, <2>2
<1> QED
  BY <1>2, <1>3, <1>4, <1>5, <1>6, <1>7, <1>8, <1>9, <1>10, <1>11, <1>12, <1>13
     DEF Started!Next, Started!Container

LEMMA StartedStep ==
  ASSUME Started!IInv, [Started!Next]_(Started!vars)
  PROVE  Started!IInv'
  BY StartedTypes, StartedSchema, StartedSeals, StartedMarker DEF Started!IInv

LEMMA StartedPromises ==
  Started!IInv => Started!ServesWholeSchema /\ Started!ConnectionsAreReadable /\ Started!ImportIsExact
  BY DEF Started!IInv, Started!SchemaIsStamped, Started!SealsAreKnown, Started!MarkerIsLast,
     Started!Serving, Started!ServesWholeSchema, Started!ImportIsExact

\* Only a move of the import, an upload and a deletion write to the volume.
LEMMA StartedKeepsOwn ==
  ASSUME Started!IInv, [Started!Next]_(Started!vars)
  PROVE  Started!OwnFilesAreKept
<1> USE DEF Started!OwnFilesAreKept
<1>0. volume \in [VolumeFiles -> {"absent", "own", "dir", "legacy"}]
  BY DEF Started!IInv, Started!TypeInv
<1>1. ASSUME NEW f \in VolumeFiles, Started!ImportMove(f) \/ Started!Upload(f) \/ Started!Delete(f)
      PROVE  Started!OwnFilesAreKept
  BY <1>0, <1>1 DEF Started!ImportMove, Started!Upload, Started!Delete, Started!Kept
<1>2. CASE UNCHANGED volume
  BY <1>2
<1> QED
  BY <1>1, <1>2 DEF Started!Next, Started!Container, Started!vars, Started!disk,
     Started!TransitionPassword, Started!PrepareSchema, Started!Migrate, Started!Reencrypt,
     Started!ImportSkip, Started!ImportStart, Started!ImportCopied, Started!ImportMark,
     Started!StartApi, Started!ImportCopy, Started!ImportFails, Started!Stop

-------------------------------------------------------------------------------
(* Schedules                                                               *)

LEMMA PolledConstants ==
  /\ NumTriggers \in Nat /\ PollSkew \in Nat /\ Periods \subseteq Nat \ {0}
  /\ Polled!Null = -1 /\ Polled!Never = -1 /\ Polled!Unset = -2
  BY ConstantsAreSound DEF Polled!SchedulesAssumption, Polled!Null, Polled!Never, Polled!Unset

LEMMA MultiplesAdd ==
  ASSUME NEW a \in Int, NEW b \in Int, NEW e \in Nat \ {0}, a % e = 0, b % e = 0
  PROVE  (a + b) % e = 0 /\ (a - b) % e = 0
<1> DEFINE j == a \div e
           k == b \div e
<1>1. j \in Int /\ k \in Int /\ a = j * e /\ b = k * e
  OBVIOUS
<1> HIDE DEF j, k
<1>2. a + b = (j + k) * e /\ a - b = (j - k) * e
  BY <1>1
<1>3. \A n \in Int : (n * e) % e = 0
  OBVIOUS
<1>4. j + k \in Int /\ j - k \in Int
  BY <1>1
<1> QED
  BY <1>2, <1>3, <1>4

\* compute_next_run_at: later than the time, and on the cadence.
LEMMA NextInstant ==
  ASSUME NEW at \in Nat, NEW e \in Nat \ {0}
  PROVE  /\ (at \div e + 1) * e \in Nat /\ (at \div e + 1) * e > at
         /\ ((at \div e + 1) * e) % e = 0
<1> DEFINE q == at \div e
           r == at % e
<1>1. q \in Nat /\ r \in Nat /\ r < e /\ at = e * q + r
  OBVIOUS
<1> HIDE DEF q, r
<1>2. (q + 1) * e = e * q + e
  BY <1>1
<1>3. (q + 1) * e \in Nat /\ ((q + 1) * e) % e = 0
  <2>1. \A n \in Nat : n * e \in Nat /\ (n * e) % e = 0
    OBVIOUS
  <2> QED
    BY <1>1, <2>1
<1>4. (q + 1) * e > at
  BY <1>1, <1>2, <1>3
<1> QED
  BY <1>3, <1>4 DEF q

LEMMA AfterAnchor ==
  ASSUME NEW kind \in {"interval", "cron"}, NEW e \in Nat \ {0}, NEW anchor \in Nat, NEW at \in Nat,
         anchor <= at, kind = "cron" => anchor % e = 0
  PROVE  LET next == Polled!After(kind, e, anchor, at)
         IN  /\ next \in Nat /\ next > at /\ (next - anchor) % e = 0
             /\ kind = "cron" => next % e = 0
<1>1. CASE kind = "cron"
  <2> DEFINE next == (at \div e + 1) * e
  <2>1. next \in Nat /\ next > at /\ next % e = 0
    BY NextInstant
  <2>2. Polled!After(kind, e, anchor, at) = next
    BY <1>1 DEF Polled!After
  <2> HIDE DEF next
  <2>3. (next - anchor) % e = 0
    <3>1. next \in Int /\ anchor \in Int /\ anchor % e = 0
      BY <1>1, <2>1
    <3> QED
      BY <2>1, <3>1, MultiplesAdd
  <2> QED
    BY <2>1, <2>2, <2>3
<1>2. CASE kind = "interval"
  <2> DEFINE more == ((at - anchor) \div e + 1) * e
  <2>1. more \in Nat /\ more > at - anchor /\ more % e = 0
    <3>1. at - anchor \in Nat
      OBVIOUS
    <3> QED
      BY <3>1, NextInstant
  <2>2. Polled!After(kind, e, anchor, at) = anchor + more
    BY <1>2, PolledConstants DEF Polled!After
  <2> HIDE DEF more
  <2>3. anchor + more \in Nat /\ anchor + more > at /\ (anchor + more) - anchor = more
    BY <2>1
  <2> QED
    BY <1>2, <2>1, <2>2, <2>3
<1> QED
  BY <1>1, <1>2

LEMMA AfterFresh ==
  ASSUME NEW kind \in {"interval", "cron"}, NEW e \in Nat \ {0}, NEW at \in Nat
  PROVE  LET next == Polled!After(kind, e, Polled!Never, at)
         IN  next \in Nat /\ (kind = "cron" => next % e = 0)
<1>1. CASE kind = "cron"
  <2> DEFINE next == (at \div e + 1) * e
  <2>1. next \in Nat /\ next % e = 0
    BY NextInstant
  <2>2. Polled!After(kind, e, Polled!Never, at) = next
    BY <1>1 DEF Polled!After
  <2> HIDE DEF next
  <2> QED
    BY <2>1, <2>2
<1>2. CASE kind = "interval"
  BY <1>2 DEF Polled!After
<1> QED
  BY <1>1, <1>2

\* create_trigger and update_trigger: the row they write.
LEMMA ScheduledRow ==
  ASSUME NEW rec \in Polled!Row, rec.exists, Polled!Valid(rec.kind, rec.interval, rec.cron),
         NEW at \in Nat
  PROVE  LET new == Polled!Scheduled(rec, at)
         IN  new \in Polled!Row /\ Polled!Consistent(new) /\ new.edition = rec.edition + 1
<1> DEFINE e == Polled!Every(rec)
           next == IF rec.enabled THEN Polled!After(rec.kind, e, Polled!Never, at) ELSE Polled!Never
           new == [rec EXCEPT !.next = next, !.edition = rec.edition + 1]
<1>1. e \in Periods /\ (rec.interval = Polled!Null) # (rec.cron = Polled!Null)
  BY PolledConstants DEF Polled!Every, Polled!Valid, Polled!Row
<1>2. e \in Nat \ {0} /\ rec.kind \in {"interval", "cron"}
  BY <1>1, PolledConstants DEF Polled!Row
<1>3. /\ next \in Nat \cup {Polled!Never} /\ rec.enabled = (next # Polled!Never)
      /\ rec.enabled /\ rec.kind = "cron" => next % e = 0
  <2> DEFINE first == Polled!After(rec.kind, e, Polled!Never, at)
  <2>1. first \in Nat /\ (rec.kind = "cron" => first % e = 0)
    <3> HIDE DEF e
    <3> QED
      BY <1>2, AfterFresh
  <2>2. rec.enabled \in BOOLEAN
    BY DEF Polled!Row
  <2> HIDE DEF e, first
  <2>3. next = IF rec.enabled THEN first ELSE Polled!Never
    BY DEF first
  <2> HIDE DEF next
  <2>4. CASE rec.enabled
    <3>1. next = first /\ first # Polled!Never
      BY <2>1, <2>3, <2>4, PolledConstants
    <3>2. rec.enabled = (next # Polled!Never)
      BY <2>2, <2>4, <3>1, Zenon
    <3> QED
      BY <2>1, <3>1, <3>2
  <2>5. CASE ~rec.enabled
    BY <2>2, <2>3, <2>5
  <2> QED
    BY <2>4, <2>5
<1>4. Polled!Scheduled(rec, at) = new
  BY DEF Polled!Scheduled
<1>5. rec.kind = "cron" => e = rec.cron
  BY DEF Polled!Every
<1> HIDE DEF next
<1>6. /\ new \in Polled!Row /\ new.exists = rec.exists /\ new.enabled = rec.enabled
      /\ new.kind = rec.kind /\ new.interval = rec.interval /\ new.cron = rec.cron
      /\ new.next = next /\ new.edition = rec.edition + 1
  <2>1. \A n \in Nat \cup {Polled!Never}, m \in Nat :
          [rec EXCEPT !.next = n, !.edition = m] \in Polled!Row
    BY DEF Polled!Row
  <2>2. rec.edition + 1 \in Nat
    BY DEF Polled!Row
  <2>3. new \in Polled!Row
    BY <1>3, <2>1, <2>2
  <2>4. /\ new.exists = rec.exists /\ new.enabled = rec.enabled /\ new.kind = rec.kind
        /\ new.interval = rec.interval /\ new.cron = rec.cron
    BY DEF Polled!Row
  <2>5. new.next = next /\ new.edition = rec.edition + 1
    BY DEF Polled!Row
  <2> QED
    BY <2>3, <2>4, <2>5
<1>7. Polled!Every(new) = e
  BY <1>6 DEF Polled!Every
<1> HIDE DEF new, e
<1>8. Polled!Consistent(new)
  BY <1>1, <1>3, <1>5, <1>6, <1>7 DEF Polled!Consistent
<1> QED
  BY <1>4, <1>6, <1>8

LEMMA MergedRow ==
  ASSUME NEW rec \in Polled!Row, NEW patch \in Polled!Patches
  PROVE  LET new == Polled!Merged(rec, patch)
         IN  /\ new \in Polled!Row /\ new.exists = rec.exists /\ new.edition = rec.edition
             /\ patch = [kind |-> "unset", interval |-> Polled!Unset, cron |-> Polled!Unset,
                         enabled |-> "unset"] => new = rec
<1> DEFINE kind == IF patch.kind = "unset" THEN rec.kind ELSE patch.kind
           interval == Polled!Given(patch.interval,
                                    IF patch.kind = "cron" THEN Polled!Null ELSE rec.interval)
           cron == Polled!Given(patch.cron,
                                IF patch.kind = "interval" THEN Polled!Null ELSE rec.cron)
           enabled == IF patch.enabled = "unset" THEN rec.enabled ELSE patch.enabled = "on"
           new == [rec EXCEPT !.kind = kind, !.interval = interval, !.cron = cron, !.enabled = enabled]
<1>1. Polled!Merged(rec, patch) = new
  BY DEF Polled!Merged
<1>2. kind \in {"interval", "cron"} /\ enabled \in BOOLEAN
  BY DEF Polled!Row, Polled!Patches
<1>3. interval \in Periods \cup {Polled!Null} /\ cron \in Periods \cup {Polled!Null}
  BY DEF Polled!Row, Polled!Patches, Polled!Given
<1>4. ASSUME patch = [kind |-> "unset", interval |-> Polled!Unset, cron |-> Polled!Unset,
                      enabled |-> "unset"]
      PROVE  kind = rec.kind /\ interval = rec.interval /\ cron = rec.cron /\ enabled = rec.enabled
  BY <1>4 DEF Polled!Given
<1> HIDE DEF kind, interval, cron, enabled
<1>5. new \in Polled!Row /\ new.exists = rec.exists /\ new.edition = rec.edition
  BY <1>2, <1>3 DEF Polled!Row
<1>6. kind = rec.kind /\ interval = rec.interval /\ cron = rec.cron /\ enabled = rec.enabled
      => new = rec
  BY DEF Polled!Row
<1> QED
  BY <1>1, <1>4, <1>5, <1>6

LEMMA PolledInit == ASSUME Polled!Init PROVE Polled!IInv
<1> USE DEF Polled!Init
<1>1. Polled!TypeInv
  BY DEF Polled!TypeInv, Polled!Row, Polled!Closed
<1>2. Polled!RowsInv
  BY DEF Polled!RowsInv, Polled!Consistent
<1>3. Polled!LocksInv /\ Polled!LocksDiffer
  BY DEF Polled!LocksInv, Polled!LocksDiffer, Polled!Locked, Polled!Closed
<1> QED
  BY <1>1, <1>2, <1>3 DEF Polled!IInv, Polled!RunsInv, Polled!CadenceIsKept

\* What a transaction has locked is scheduled.
LEMMA LockedIsEnabled ==
  ASSUME Polled!IInv, NEW t \in Polled!Triggers, ~trigger[t].enabled
  PROVE  Polled!Free(t)
  BY DEF Polled!IInv, Polled!LocksInv, Polled!Free, Polled!Locked, Polled!Held, Polled!StagedIsNext

\* A row changes that no transaction has locked: to another edition, or to none.
LEMMA RowChanges ==
  ASSUME Polled!IInv, UNCHANGED <<now, tx, runs>>, NEW t \in Polled!Triggers, Polled!Free(t),
         NEW new \in Polled!Row, Polled!Consistent(new), trigger' = [trigger EXCEPT ![t] = new],
         \/ new.edition = trigger[t].edition + 1
         \/ /\ new.edition = trigger[t].edition /\ Polled!Every(new) = Polled!Every(trigger[t])
            /\ new.next \in {Polled!Never, trigger[t].next}
  PROVE  Polled!IInv'
<1> USE DEF Polled!IInv
<1>1. /\ trigger \in [Polled!Triggers -> Polled!Row] /\ runs \in Seq(Polled!Run)
      /\ tx \in [Processes -> [stage : {"idle", "polled", "open"}, at : Nat,
                               rows : SUBSET Polled!Triggers, staged : Seq(Polled!Advance)]]
  BY DEF Polled!TypeInv
<1>2. trigger'[t] = new /\ \A u \in Polled!Triggers \ {t} : trigger'[u] = trigger[u]
  BY <1>1
<1>3. Polled!TypeInv'
  <2>1. trigger' \in [Polled!Triggers -> Polled!Row]
    BY <1>1
  <2> QED
    BY <2>1 DEF Polled!TypeInv, Polled!Triggers, Polled!Row, Polled!Run, Polled!Advance
<1>4. Polled!RowsInv'
  BY <1>2 DEF Polled!RowsInv, Polled!Consistent, Polled!Triggers
<1>5. Polled!LocksDiffer'
  BY DEF Polled!LocksDiffer, Polled!Locked
<1>6. Polled!LocksInv'
  <2>1. ASSUME NEW p \in Processes
        PROVE  /\ \A u \in tx[p].rows : trigger'[u] = trigger[u]
               /\ \A i \in DOMAIN tx[p].staged :
                    trigger'[tx[p].staged[i].trigger] = trigger[tx[p].staged[i].trigger]
    <3>1. t \notin tx[p].rows /\ \A i \in DOMAIN tx[p].staged : tx[p].staged[i].trigger # t
      BY DEF Polled!Free, Polled!Locked
    <3>2. /\ tx[p].rows \subseteq Polled!Triggers
          /\ \A i \in DOMAIN tx[p].staged : tx[p].staged[i].trigger \in Polled!Triggers
      <4>1. tx[p].rows \subseteq Polled!Triggers /\ tx[p].staged \in Seq(Polled!Advance)
        BY <1>1
      <4>2. \A i \in DOMAIN tx[p].staged : tx[p].staged[i] \in Polled!Advance
        BY <4>1
      <4> QED
        BY <4>1, <4>2 DEF Polled!Advance
    <3> QED
      BY <1>2, <3>1, <3>2
  <2>2. ASSUME NEW p \in Processes
        PROVE  /\ \A u \in tx[p].rows : Polled!Held(tx[p].at, trigger'[u])
               /\ \A i \in DOMAIN tx[p].staged :
                    Polled!StagedIsNext(tx[p].at, tx[p].staged[i],
                                        trigger'[tx[p].staged[i].trigger])
    BY <2>1 DEF Polled!LocksInv
  <2> QED
    BY <2>2 DEF Polled!LocksInv
<1>7. Polled!RunsInv'
  <2>1. ASSUME NEW i \in DOMAIN runs PROVE Polled!Behind(runs[i], trigger'[runs[i].trigger])
    <3>1. /\ Polled!Behind(runs[i], trigger[runs[i].trigger])
          /\ runs[i].trigger \in Polled!Triggers /\ runs[i].edition \in Nat
      <4>1. runs[i] \in Polled!Run
        BY <1>1
      <4>2. Polled!Behind(runs[i], trigger[runs[i].trigger])
        BY DEF Polled!RunsInv
      <4> QED
        BY <4>1, <4>2 DEF Polled!Run
    <3>2. CASE runs[i].trigger # t
      BY <1>2, <3>1, <3>2
    <3>3. CASE runs[i].trigger = t /\ new.edition = trigger[t].edition + 1
      <4>1. trigger[t].edition \in Nat
        BY <1>1 DEF Polled!Row
      <4>2. runs[i].edition <= trigger[t].edition
        BY <3>1, <3>3 DEF Polled!Behind
      <4>3. runs[i].edition <= new.edition /\ runs[i].edition # new.edition
        BY <3>1, <3>3, <4>1, <4>2
      <4> QED
        BY <1>2, <3>3, <4>3 DEF Polled!Behind
    <3>4. CASE /\ runs[i].trigger = t /\ new.edition = trigger[t].edition
               /\ Polled!Every(new) = Polled!Every(trigger[t])
               /\ new.next \in {Polled!Never, trigger[t].next}
      BY <1>2, <3>1, <3>4 DEF Polled!Behind
    <3> QED
      BY <3>2, <3>3, <3>4
  <2>2. runs' = runs
    OBVIOUS
  <2> QED
    BY <2>1, <2>2 DEF Polled!RunsInv
<1>8. Polled!CadenceIsKept'
  BY DEF Polled!CadenceIsKept
<1> QED
  BY <1>3, <1>4, <1>5, <1>6, <1>7, <1>8

LEMMA PolledEdits ==
  ASSUME Polled!IInv, NEW t \in Polled!Triggers,
         Polled!Create(t) \/ Polled!Update(t) \/ Polled!Delete(t)
  PROVE  Polled!IInv'
<1>0. /\ trigger[t] \in Polled!Row /\ Polled!Consistent(trigger[t]) /\ now \in Nat
      /\ \A c \in Polled!Clocks : c \in Nat
  BY DEF Polled!IInv, Polled!TypeInv, Polled!RowsInv, Polled!Clocks
<1>1. CASE Polled!Create(t)
  <2>1. PICK c \in Polled!Clocks, i \in Periods \cup {Polled!Null}, x \in Periods \cup {Polled!Null},
             k \in {"interval", "cron"}, on \in BOOLEAN :
          /\ Polled!Valid(k, i, x)
          /\ trigger' = [trigger EXCEPT ![t] =
               Polled!Scheduled([exists |-> TRUE, enabled |-> on, kind |-> k, interval |-> i,
                                 cron |-> x, next |-> Polled!Never, edition |-> 0], c)]
    BY <1>1 DEF Polled!Create
  <2> DEFINE rec == [exists |-> TRUE, enabled |-> on, kind |-> k, interval |-> i, cron |-> x,
                     next |-> Polled!Never, edition |-> 0]
             new == Polled!Scheduled(rec, c)
  <2>2. rec \in Polled!Row /\ rec.exists /\ Polled!Valid(rec.kind, rec.interval, rec.cron)
    BY <2>1 DEF Polled!Row
  <2>3. rec.edition = trigger[t].edition /\ ~trigger[t].enabled
    BY <1>0, <1>1 DEF Polled!Create, Polled!Consistent, Polled!Row
  <2> HIDE DEF rec
  <2>4. new \in Polled!Row /\ Polled!Consistent(new) /\ new.edition = rec.edition + 1
    BY <1>0, <2>2, ScheduledRow
  <2>5. trigger' = [trigger EXCEPT ![t] = new] /\ UNCHANGED <<now, tx, runs>>
    BY <1>1, <2>1 DEF Polled!Create, rec
  <2>6. Polled!Free(t)
    BY <2>3, LockedIsEnabled
  <2> HIDE DEF new
  <2> QED
    BY <2>3, <2>4, <2>5, <2>6, RowChanges
<1>2. CASE Polled!Update(t)
  <2>1. PICK c \in Polled!Clocks, patch \in Polled!Patches : Polled!Patched(t, patch, c)
    BY <1>2 DEF Polled!Update
  <2> DEFINE rec == Polled!Merged(trigger[t], patch)
             anew == patch # [kind |-> "unset", interval |-> Polled!Unset, cron |-> Polled!Unset,
                              enabled |-> "unset"]
  <2>2. /\ rec \in Polled!Row /\ rec.exists = trigger[t].exists /\ rec.edition = trigger[t].edition
        /\ ~anew => rec = trigger[t]
    BY <1>0, MergedRow
  <2>3. /\ Polled!Valid(rec.kind, rec.interval, rec.cron)
        /\ trigger' = [trigger EXCEPT ![t] = IF anew THEN Polled!Scheduled(rec, c) ELSE rec]
    BY <2>1 DEF Polled!Patched
  <2>4. trigger[t].exists /\ Polled!Free(t) /\ UNCHANGED <<now, tx, runs>>
    BY <1>2 DEF Polled!Update
  <2> HIDE DEF rec, anew
  <2>5. CASE anew
    <3> DEFINE new == Polled!Scheduled(rec, c)
    <3>1. new \in Polled!Row /\ Polled!Consistent(new) /\ new.edition = rec.edition + 1
      BY <1>0, <2>2, <2>3, <2>4, ScheduledRow
    <3>2. trigger' = [trigger EXCEPT ![t] = new]
      BY <2>3, <2>5
    <3> HIDE DEF new
    <3> QED
      BY <2>2, <2>4, <3>1, <3>2, RowChanges
  <2>6. CASE ~anew
    <3>1. rec = trigger[t] /\ trigger' = [trigger EXCEPT ![t] = rec]
      BY <2>2, <2>3, <2>6
    <3> QED
      BY <1>0, <2>4, <3>1, RowChanges
  <2> QED
    BY <2>5, <2>6
<1>3. CASE Polled!Delete(t)
  <2> DEFINE new == [trigger[t] EXCEPT !.exists = FALSE, !.enabled = FALSE, !.next = Polled!Never]
  <2>1. /\ trigger' = [trigger EXCEPT ![t] = new] /\ Polled!Free(t) /\ UNCHANGED <<now, tx, runs>>
    BY <1>3 DEF Polled!Delete, Polled!IInv, Polled!TypeInv
  <2>2. new \in Polled!Row /\ new.edition = trigger[t].edition /\ new.next = Polled!Never
        /\ ~new.exists /\ ~new.enabled /\ Polled!Every(new) = Polled!Every(trigger[t])
    BY <1>0 DEF Polled!Row, Polled!Every
  <2> HIDE DEF new
  <2>3. Polled!Consistent(new)
    BY <2>2 DEF Polled!Consistent, Polled!Row
  <2> QED
    BY <2>1, <2>2, <2>3, RowChanges
<1> QED
  BY <1>1, <1>2, <1>3

\* The types of a transaction.
Tx == [stage : {"idle", "polled", "open"}, at : Nat, rows : SUBSET Polled!Triggers,
       staged : Seq(Polled!Advance)]

\* What LocksInv says of one transaction.
TxInv(x) ==
  /\ x.stage # "open" => x.rows = {} /\ x.staged = <<>>
  /\ \A t \in x.rows : Polled!Held(x.at, trigger[t])
  /\ \A i \in DOMAIN x.staged :
       /\ x.staged[i].trigger \notin x.rows
       /\ Polled!StagedIsNext(x.at, x.staged[i], trigger[x.staged[i].trigger])
  /\ \A i, j \in DOMAIN x.staged : x.staged[i].trigger = x.staged[j].trigger => i = j

TxLocked(x) == x.rows \cup {x.staged[i].trigger : i \in DOMAIN x.staged}

\* A transaction goes on, and locks at most rows that were free.
LEMMA TxChanges ==
  ASSUME Polled!IInv, UNCHANGED <<now, trigger, runs>>, NEW p \in Processes, NEW new \in Tx,
         tx' = [tx EXCEPT ![p] = new], TxInv(new),
         \A t \in TxLocked(new) : t \in Polled!Locked(p) \/ Polled!Free(t)
  PROVE  Polled!IInv'
<1> USE DEF Polled!IInv
<1>1. tx \in [Processes -> Tx]
  BY DEF Polled!TypeInv, Tx
<1>2. tx'[p] = new /\ \A q \in Processes \ {p} : tx'[q] = tx[q]
  BY <1>1
<1>3. Polled!TypeInv'
  <2>1. tx' \in [Processes -> Tx]
    BY <1>1
  <2> QED
    BY <2>1 DEF Polled!TypeInv, Tx, Polled!Triggers, Polled!Row, Polled!Run, Polled!Advance
<1>4. Polled!RowsInv' /\ Polled!RunsInv' /\ Polled!CadenceIsKept'
  BY DEF Polled!RowsInv, Polled!RunsInv, Polled!CadenceIsKept
<1>5. Polled!LocksInv'
  <2>1. ASSUME NEW q \in Processes PROVE TxInv(tx'[q])
    <3>1. TxInv(tx[q])
      BY DEF TxInv, Polled!LocksInv
    <3> QED
      BY <1>2, <3>1
  <2> QED
    BY <2>1 DEF TxInv, Polled!LocksInv
<1>6. Polled!LocksDiffer'
  <2>1. \A q \in Processes \ {p} : Polled!Locked(q)' = Polled!Locked(q)
    BY <1>2 DEF Polled!Locked
  <2>2. Polled!Locked(p)' = TxLocked(new)
    BY <1>2 DEF Polled!Locked, TxLocked
  <2>3. \A q \in Processes \ {p} : \A t \in TxLocked(new) : t \notin Polled!Locked(q)
    BY DEF Polled!LocksDiffer, Polled!Free
  <2> QED
    BY <2>1, <2>2, <2>3 DEF Polled!LocksDiffer
<1> QED
  BY <1>3, <1>4, <1>5, <1>6

LEMMA ClosedTx == Polled!Closed \in Tx /\ TxInv(Polled!Closed) /\ TxLocked(Polled!Closed) = {}
  BY DEF Polled!Closed, Tx, TxInv, TxLocked

\* ORDER BY next_run_at, id: the rows of a batch have a first one.
LEMMA FirstIsThere ==
  ASSUME Polled!IInv, NEW p \in Processes, tx[p].rows # {}
  PROVE  Polled!First(p) \in tx[p].rows
<1> DEFINE rows == tx[p].rows
<1>1. /\ rows \subseteq Nat /\ \A t \in rows : trigger[t].next \in Nat
  <2>1. rows \subseteq Polled!Triggers /\ \A t \in rows : trigger[t].enabled
    BY DEF Polled!IInv, Polled!TypeInv, Polled!LocksInv, Polled!Held
  <2>2. \A t \in Polled!Triggers : trigger[t].enabled => trigger[t].next \in Nat
    BY DEF Polled!IInv, Polled!TypeInv, Polled!Row, Polled!RowsInv, Polled!Consistent
  <2>3. Polled!Triggers \subseteq Nat
    BY PolledConstants DEF Polled!Triggers
  <2> QED
    BY <2>1, <2>2, <2>3
<1> HIDE DEF rows
<1> DEFINE instants == {trigger[t].next : t \in rows}
<1>2. PICK m \in instants : \A k \in instants : m <= k
  <2>1. instants \subseteq Nat /\ instants # {}
    BY <1>1 DEF rows
  <2> HIDE DEF instants
  <2> QED
    BY <2>1, LeastNat
<1> DEFINE firsts == {t \in rows : trigger[t].next = m}
<1>3. PICK t \in firsts : \A u \in firsts : t <= u
  <2>1. firsts \subseteq Nat /\ firsts # {}
    BY <1>1, <1>2
  <2> HIDE DEF firsts
  <2> QED
    BY <2>1, LeastNat
<1>4. t \in rows /\ \A u \in rows \ {t} : Polled!Earlier(t, u)
  <2>1. ASSUME NEW u \in rows \ {t} PROVE Polled!Earlier(t, u)
    <3>1. m <= trigger[u].next /\ trigger[t].next = m /\ m \in Nat /\ trigger[u].next \in Nat
      BY <1>1, <1>2, <1>3
    <3>2. CASE trigger[u].next = m
      <4>1. t <= u /\ t # u /\ t \in Nat /\ u \in Nat
        BY <1>1, <1>3, <3>2
      <4> QED
        BY <3>1, <3>2, <4>1 DEF Polled!Earlier
    <3>3. CASE trigger[u].next # m
      BY <3>1, <3>3 DEF Polled!Earlier
    <3> QED
      BY <3>2, <3>3
  <2> QED
    BY <1>3, <2>1
<1>5. \E x \in tx[p].rows : \A u \in tx[p].rows \ {x} : Polled!Earlier(x, u)
  BY <1>4 DEF rows
<1> QED
  BY <1>5 DEF Polled!First

LEMMA PolledTransactions ==
  ASSUME Polled!IInv, NEW p \in Processes,
         Polled!Poll(p) \/ Polled!Claim(p) \/ Polled!Dispatch(p) \/ Polled!Fail(p) \/ Polled!Crash(p)
  PROVE  Polled!IInv'
<1>0. /\ tx \in [Processes -> Tx] /\ tx[p] \in Tx /\ now \in Nat
      /\ trigger \in [Polled!Triggers -> Polled!Row]
  BY DEF Polled!IInv, Polled!TypeInv, Tx
<1>1. TxInv(tx[p]) /\ TxLocked(tx[p]) = Polled!Locked(p)
  BY DEF Polled!IInv, Polled!LocksInv, TxInv, TxLocked, Polled!Locked
<1>2. CASE Polled!Poll(p)
  <2>1. PICK c \in Polled!Clocks :
          tx' = [tx EXCEPT ![p] = [Polled!Closed EXCEPT !.stage = "polled", !.at = c]]
    BY <1>2 DEF Polled!Poll
  <2> DEFINE new == [Polled!Closed EXCEPT !.stage = "polled", !.at = c]
  <2>2. c \in Nat
    BY <1>0 DEF Polled!Clocks
  <2>3. new \in Tx /\ new.stage = "polled" /\ new.rows = {} /\ new.staged = <<>>
    <3>1. \A x \in Tx : LET y == [x EXCEPT !.stage = "polled", !.at = c]
                        IN  y \in Tx /\ y.stage = "polled" /\ y.rows = x.rows /\ y.staged = x.staged
      BY <2>2 DEF Tx
    <3>2. Polled!Closed.rows = {} /\ Polled!Closed.staged = <<>>
      BY DEF Polled!Closed
    <3> QED
      BY <3>1, <3>2, ClosedTx
  <2>4. tx' = [tx EXCEPT ![p] = new] /\ UNCHANGED <<now, trigger, runs>>
    BY <1>2, <2>1 DEF Polled!Poll
  <2> HIDE DEF new
  <2>5. new.stage # "open" /\ new.rows = {} /\ new.staged = <<>>
    BY <2>3
  <2>6. DOMAIN new.staged = {}
    BY <2>5
  <2>7. TxInv(new) /\ TxLocked(new) = {}
    BY <2>5, <2>6 DEF TxInv, TxLocked
  <2> QED
    BY <2>3, <2>4, <2>7, TxChanges
<1>3. CASE Polled!Claim(p)
  <2> DEFINE batch == Polled!Batched(tx[p].at)
             new == [tx[p] EXCEPT !.stage = "open", !.rows = batch]
  <2>1. /\ tx[p].stage = "polled" /\ tx' = [tx EXCEPT ![p] = new] /\ UNCHANGED <<now, trigger, runs>>
    BY <1>0, <1>3 DEF Polled!Claim
  <2>2. \A t \in batch : t \in Polled!Triggers /\ Polled!Held(tx[p].at, trigger[t]) /\ Polled!Free(t)
    BY DEF Polled!Batched, Polled!Due, Polled!Held
  <2> HIDE DEF batch
  <2>3. new \in Tx /\ new.rows = batch /\ new.staged = tx[p].staged /\ new.at = tx[p].at
        /\ new.stage = "open"
    BY <1>0, <2>2 DEF Tx
  <2>4. tx[p].staged = <<>>
    BY <1>1, <2>1 DEF TxInv
  <2> HIDE DEF new
  <2>5. DOMAIN new.staged = {}
    BY <2>3, <2>4
  <2>6. TxInv(new) /\ TxLocked(new) = batch
    BY <2>2, <2>3, <2>5 DEF TxInv, TxLocked
  <2> QED
    BY <2>1, <2>2, <2>3, <2>6, TxChanges
<1>4. ASSUME tx[p].rows # {}, UNCHANGED <<now, trigger, runs>>,
             tx' = [tx EXCEPT ![p] = [tx[p] EXCEPT !.rows = tx[p].rows \ {Polled!First(p)}]]
      PROVE  Polled!IInv'
  <2> DEFINE rest == tx[p].rows \ {Polled!First(p)}
             new == [tx[p] EXCEPT !.rows = rest]
  <2>1. /\ new \in Tx /\ new.rows \subseteq tx[p].rows /\ new.staged = tx[p].staged
        /\ new.at = tx[p].at /\ new.stage = tx[p].stage
    BY <1>0 DEF Tx
  <2>2. tx' = [tx EXCEPT ![p] = new]
    BY <1>4
  <2> HIDE DEF new, rest
  <2>3. TxInv(new) /\ TxLocked(new) \subseteq Polled!Locked(p)
    BY <1>1, <2>1 DEF TxInv, TxLocked
  <2> QED
    BY <1>4, <2>1, <2>2, <2>3, TxChanges
<1>5. CASE Polled!Fail(p)
  <2>1. /\ tx[p].rows # {} /\ UNCHANGED <<now, trigger, runs>>
        /\ tx' = [tx EXCEPT ![p] = [tx[p] EXCEPT !.rows = tx[p].rows \ {Polled!First(p)}]]
    BY <1>0, <1>5 DEF Polled!Fail
  <2> QED
    BY <1>4, <2>1
<1>6. CASE Polled!Dispatch(p)
  <2> DEFINE t == Polled!First(p)
             rec == trigger[t]
             next == Polled!After(rec.kind, Polled!Every(rec), rec.next, tx[p].at)
             u == [trigger |-> t, for |-> rec.next, next |-> next]
             new == [tx[p] EXCEPT !.rows = tx[p].rows \ {t}, !.staged = Append(tx[p].staged, u)]
  <2>1. tx[p].rows # {} /\ tx' = [tx EXCEPT ![p] = Polled!Stage(p, t)] /\ UNCHANGED <<now, trigger, runs>>
        /\ tx[p].stage = "open"
    BY <1>6 DEF Polled!Dispatch
  <2>2. CASE t \in Poison
    <3>1. Polled!Stage(p, t) = [tx[p] EXCEPT !.rows = tx[p].rows \ {Polled!First(p)}]
      BY <2>2 DEF Polled!Stage
    <3> QED
      BY <1>4, <2>1, <3>1
  <2>3. CASE t \notin Poison
    <3>1. Polled!Stage(p, t) = new
      BY <2>3 DEF Polled!Stage
    <3>2. t \in tx[p].rows
      BY <2>1, FirstIsThere
    <3> HIDE DEF t
    <3>3. /\ tx[p].rows \subseteq Polled!Triggers /\ tx[p].staged \in Seq(Polled!Advance)
          /\ tx[p].at \in Nat
      BY <1>0 DEF Tx
    <3>4. t \in Polled!Triggers /\ rec \in Polled!Row /\ Polled!Held(tx[p].at, rec)
          /\ Polled!Consistent(rec)
      BY <1>0, <1>1, <3>2, <3>3 DEF TxInv, Polled!IInv, Polled!RowsInv
    <3> HIDE DEF rec
    <3>5. rec.next \in Nat /\ rec.next <= tx[p].at /\ rec.enabled /\ rec.kind \in {"interval", "cron"}
      BY <3>4 DEF Polled!Row, Polled!Held, Polled!Consistent
    <3>6. Polled!Every(rec) \in Nat \ {0} /\ (rec.kind = "cron" => Polled!Every(rec) = rec.cron)
          /\ (rec.kind = "cron" => rec.next % Polled!Every(rec) = 0)
      BY <3>4, <3>5, PolledConstants DEF Polled!Consistent, Polled!Every
    <3>7. /\ next \in Nat /\ next > tx[p].at /\ (next - rec.next) % Polled!Every(rec) = 0
          /\ rec.kind = "cron" => next % Polled!Every(rec) = 0
      <4> DEFINE e == Polled!Every(rec)
      <4> HIDE DEF e
      <4>1. e \in Nat \ {0} /\ (rec.kind = "cron" => rec.next % e = 0)
        BY <3>6 DEF e
      <4>2. LET n == Polled!After(rec.kind, e, rec.next, tx[p].at)
            IN  n \in Nat /\ n > tx[p].at /\ (n - rec.next) % e = 0 /\ (rec.kind = "cron" => n % e = 0)
        BY <3>3, <3>5, <4>1, AfterAnchor
      <4> QED
        BY <4>2 DEF e
    <3> HIDE DEF next
    <3>8. u \in Polled!Advance /\ u.trigger = t /\ Polled!StagedIsNext(tx[p].at, u, rec)
      BY <3>4, <3>5, <3>6, <3>7 DEF Polled!Advance, Polled!StagedIsNext
    <3> HIDE DEF u
    <3>9. /\ Append(tx[p].staged, u) \in Seq(Polled!Advance)
          /\ DOMAIN Append(tx[p].staged, u) = 1..(Len(tx[p].staged) + 1)
          /\ DOMAIN tx[p].staged = 1..Len(tx[p].staged) /\ Len(tx[p].staged) \in Nat
          /\ Append(tx[p].staged, u)[Len(tx[p].staged) + 1] = u
          /\ \A i \in 1..Len(tx[p].staged) : Append(tx[p].staged, u)[i] = tx[p].staged[i]
      BY <3>3, <3>8
    <3> DEFINE booked == Append(tx[p].staged, u)
    <3> HIDE DEF booked
    <3>10. /\ new \in Tx /\ new.rows = tx[p].rows \ {t} /\ new.staged = booked
           /\ new.at = tx[p].at /\ new.stage = "open"
      <4>1. booked \in Seq(Polled!Advance)
        BY <3>9 DEF booked
      <4>2. new = [tx[p] EXCEPT !.rows = tx[p].rows \ {t}, !.staged = booked]
        BY DEF booked
      <4> HIDE DEF new
      <4> QED
        BY <1>0, <2>1, <3>3, <4>1, <4>2 DEF Tx
    <3> HIDE DEF new
    <3>11. \A i \in DOMAIN booked : \/ i \in DOMAIN tx[p].staged /\ booked[i] = tx[p].staged[i]
                                    \/ i = Len(tx[p].staged) + 1 /\ booked[i] = u
      BY <3>9 DEF booked
    <3>12. \A i \in DOMAIN tx[p].staged : tx[p].staged[i].trigger \notin tx[p].rows
      BY <1>1 DEF TxInv
    <3>13. TxInv(new)
      <4>1. \A x \in new.rows : Polled!Held(new.at, trigger[x])
        BY <1>1, <3>10 DEF TxInv
      <4>2. ASSUME NEW i \in DOMAIN booked
            PROVE  /\ booked[i].trigger \notin new.rows
                   /\ Polled!StagedIsNext(new.at, booked[i], trigger[booked[i].trigger])
        BY <1>1, <3>8, <3>10, <3>11, <4>2 DEF TxInv, rec
      <4>3. \A i, j \in DOMAIN booked : booked[i].trigger = booked[j].trigger => i = j
        BY <1>1, <3>2, <3>8, <3>11, <3>12 DEF TxInv
      <4> QED
        BY <3>10, <4>1, <4>2, <4>3 DEF TxInv
    <3>14. TxLocked(new) \subseteq Polled!Locked(p)
      BY <1>1, <3>2, <3>8, <3>10, <3>11 DEF TxLocked
    <3>15. tx' = [tx EXCEPT ![p] = new]
      BY <2>1, <3>1
    <3> QED
      BY <2>1, <3>10, <3>13, <3>14, <3>15, TxChanges
  <2> QED
    BY <2>2, <2>3
<1>7. CASE Polled!Crash(p)
  BY <1>7, ClosedTx, TxChanges DEF Polled!Crash
<1> QED
  BY <1>2, <1>3, <1>5, <1>6, <1>7

\* next_run_at moves to the staged instant; what ran before stays behind it.
LEMMA AdvancedRow ==
  ASSUME NEW rec \in Polled!Row, Polled!Consistent(rec), NEW at \in Nat, NEW u \in Polled!Advance,
         Polled!StagedIsNext(at, u, rec),
         NEW new, new = [rec EXCEPT !.next = u.next]
  PROVE  /\ new \in Polled!Row /\ Polled!Consistent(new) /\ new.next = u.next
         /\ new.edition = rec.edition /\ Polled!Every(new) = Polled!Every(rec)
         /\ rec.enabled /\ rec.next \in Nat /\ Polled!Every(rec) \in Periods
<1>1. u.next \in Nat /\ u.for \in Nat
  BY DEF Polled!Advance
<1>2. /\ new \in Polled!Row /\ new.next = u.next /\ new.edition = rec.edition
      /\ new.exists = rec.exists /\ new.enabled = rec.enabled /\ new.kind = rec.kind
      /\ new.interval = rec.interval /\ new.cron = rec.cron
  <2>1. \A n \in Nat : LET y == [rec EXCEPT !.next = n]
                       IN  /\ y \in Polled!Row /\ y.next = n /\ y.edition = rec.edition
                           /\ y.exists = rec.exists /\ y.enabled = rec.enabled /\ y.kind = rec.kind
                           /\ y.interval = rec.interval /\ y.cron = rec.cron
    BY DEF Polled!Row
  <2> QED
    BY <1>1, <2>1
<1>3. rec.enabled /\ rec.exists /\ rec.next # Polled!Never /\ rec.next \in Nat
  BY DEF Polled!StagedIsNext, Polled!Held, Polled!Consistent, Polled!Row
<1>4. new.enabled /\ new.exists /\ new.next # Polled!Never
  BY <1>1, <1>2, <1>3, PolledConstants
<1>5. Polled!Every(new) = Polled!Every(rec)
  BY <1>2 DEF Polled!Every
<1>6. Polled!Every(rec) \in Periods
  BY <1>3 DEF Polled!Consistent
<1>7. Polled!Consistent(new)
  <2>1. new.kind = "cron" => new.next % new.cron = 0
    BY <1>2 DEF Polled!StagedIsNext
  <2>2. (new.interval = Polled!Null) # (new.cron = Polled!Null)
    BY <1>2, <1>3, Zenon DEF Polled!Consistent
  <2>3. new.enabled = (new.next # Polled!Never)
    <3>1. new.enabled = TRUE
      BY <1>2, <1>4 DEF Polled!Row
    <3> QED
      BY <1>4, <3>1
  <2> QED
    BY <1>4, <1>5, <1>6, <2>1, <2>2, <2>3 DEF Polled!Consistent
<1> QED
  BY <1>2, <1>3, <1>5, <1>6, <1>7

LEMMA AdvancedRuns ==
  ASSUME NEW rec \in Polled!Row, NEW new \in Polled!Row, NEW at \in Nat, NEW u \in Polled!Advance,
         NEW r \in Polled!Run, Polled!StagedIsNext(at, u, rec), rec.next \in Nat,
         new.next = u.next, new.edition = rec.edition, Polled!Every(new) = Polled!Every(rec),
         Polled!Behind(r, rec)
  PROVE  Polled!Behind(r, new)
<1>1. /\ u.next \in Nat /\ u.for = rec.next /\ r.at \in Nat /\ r.for \in Nat
      /\ r.every \in Nat \ {0} /\ rec.next # Polled!Never
  <2>1. u.next \in Nat /\ u.for = rec.next
    BY DEF Polled!Advance, Polled!StagedIsNext
  <2>2. r.at \in Nat /\ r.for \in Nat /\ r.every \in Periods
    BY DEF Polled!Run
  <2>3. r.every \in Nat \ {0}
    BY <2>2, PolledConstants
  <2>4. rec.next # Polled!Never
    BY PolledConstants
  <2> QED
    BY <2>1, <2>2, <2>3, <2>4
<1>2. rec.next <= at /\ u.next > at /\ (u.next - rec.next) % Polled!Every(rec) = 0
  BY <1>1 DEF Polled!StagedIsNext, Polled!Held
<1>3. ASSUME r.edition = rec.edition
      PROVE  /\ r.every = Polled!Every(rec) /\ new.next > r.at /\ (new.next - r.for) % r.every = 0
  <2>1. r.every = Polled!Every(rec) /\ rec.next > r.at /\ (rec.next - r.for) % r.every = 0
    BY <1>1, <1>3 DEF Polled!Behind
  <2>2. ((u.next - rec.next) + (rec.next - r.for)) % r.every = 0
    <3>1. u.next - rec.next \in Int /\ rec.next - r.for \in Int
      BY <1>1
    <3> QED
      BY <1>1, <1>2, <2>1, <3>1, MultiplesAdd
  <2>3. (u.next - rec.next) + (rec.next - r.for) = u.next - r.for /\ u.next > r.at
    BY <1>1, <1>2, <2>1
  <2> QED
    BY <2>1, <2>2, <2>3
<1> QED
  BY <1>3 DEF Polled!Behind

LEMMA PolledCommit ==
  ASSUME Polled!IInv, NEW p \in Processes, Polled!Commit(p)
  PROVE  Polled!IInv' /\ Polled!DispatchIsAtomic
<1> DEFINE at == tx[p].at
           booked == tx[p].staged
           new == [i \in DOMAIN booked |->
                     [trigger |-> booked[i].trigger, for |-> booked[i].for, at |-> at,
                      edition |-> trigger[booked[i].trigger].edition,
                      every |-> Polled!Every(trigger[booked[i].trigger])]]
<1>1. /\ tx \in [Processes -> Tx] /\ tx[p] \in Tx /\ trigger \in [Polled!Triggers -> Polled!Row]
      /\ runs \in Seq(Polled!Run) /\ now \in Nat /\ Polled!RowsInv
      /\ \A k \in DOMAIN runs : Polled!Behind(runs[k], trigger[runs[k].trigger])
  BY DEF Polled!IInv, Polled!TypeInv, Tx, Polled!RunsInv
<1>2. at \in Nat /\ booked \in Seq(Polled!Advance)
  BY <1>1 DEF Tx
<1>3. DOMAIN booked = 1..Len(booked) /\ Len(booked) \in Nat
  BY <1>2
<1>4. \A i \in DOMAIN booked : /\ booked[i] \in Polled!Advance
                               /\ booked[i].trigger \in Polled!Triggers /\ booked[i].for \in Nat
  <2>1. \A i \in DOMAIN booked : booked[i] \in Polled!Advance
    BY <1>2, <1>3
  <2> QED
    BY <2>1 DEF Polled!Advance
<1>5. /\ \A i \in DOMAIN booked :
           Polled!StagedIsNext(at, booked[i], trigger[booked[i].trigger])
      /\ \A i, j \in DOMAIN booked : booked[i].trigger = booked[j].trigger => i = j
      /\ \A i \in DOMAIN booked : booked[i].trigger \in Polled!Locked(p)
  BY DEF Polled!IInv, Polled!LocksInv, Polled!Locked
<1>6. /\ runs' = runs \o new /\ tx' = [tx EXCEPT ![p] = Polled!Closed] /\ UNCHANGED now
      /\ trigger' = [t \in Polled!Triggers |->
                       IF \E i \in DOMAIN booked : booked[i].trigger = t
                       THEN [trigger[t] EXCEPT !.next =
                               booked[CHOOSE i \in DOMAIN booked : booked[i].trigger = t].next]
                       ELSE trigger[t]]
  BY DEF Polled!Commit
<1> HIDE DEF at, booked
<1>7. /\ trigger' \in [Polled!Triggers -> {trigger'[t] : t \in Polled!Triggers}]
      /\ \A t \in Polled!Triggers :
           (\A i \in DOMAIN booked : booked[i].trigger # t) => trigger'[t] = trigger[t]
      /\ \A i \in DOMAIN booked : trigger'[booked[i].trigger] =
           [trigger[booked[i].trigger] EXCEPT !.next = booked[i].next]
  <2>1. ASSUME NEW i \in DOMAIN booked
        PROVE  trigger'[booked[i].trigger] =
                 [trigger[booked[i].trigger] EXCEPT !.next = booked[i].next]
    <3>1. (CHOOSE j \in DOMAIN booked : booked[j].trigger = booked[i].trigger) = i
      BY <1>5
    <3> QED
      BY <1>4, <1>6, <3>1
  <2> QED
    BY <1>6, <2>1
<1>8. ASSUME NEW i \in DOMAIN booked
      PROVE  LET rec == trigger[booked[i].trigger]
                 now1 == trigger'[booked[i].trigger]
             IN  /\ rec \in Polled!Row /\ now1 \in Polled!Row /\ Polled!Consistent(now1)
                 /\ now1.next = booked[i].next /\ now1.edition = rec.edition
                 /\ Polled!Every(now1) = Polled!Every(rec) /\ Polled!Every(rec) \in Periods
                 /\ rec.enabled /\ rec.next \in Nat
  <2> DEFINE rec == trigger[booked[i].trigger]
  <2>1. rec \in Polled!Row /\ Polled!Consistent(rec)
    BY <1>1, <1>4 DEF Polled!RowsInv
  <2>2. trigger'[booked[i].trigger] = [rec EXCEPT !.next = booked[i].next]
    BY <1>7
  <2>3. Polled!StagedIsNext(at, booked[i], rec)
    BY <1>5
  <2> HIDE DEF rec
  <2>4. LET now1 == trigger'[booked[i].trigger]
        IN  /\ now1 \in Polled!Row /\ Polled!Consistent(now1) /\ now1.next = booked[i].next
            /\ now1.edition = rec.edition /\ Polled!Every(now1) = Polled!Every(rec)
            /\ rec.enabled /\ rec.next \in Nat /\ Polled!Every(rec) \in Periods
    BY <1>2, <1>4, <2>1, <2>2, <2>3, AdvancedRow
  <2> QED
    BY <2>1, <2>4 DEF rec
<1>9. \A t \in Polled!Triggers : trigger'[t] \in Polled!Row /\ Polled!Consistent(trigger'[t])
  <2> TAKE t \in Polled!Triggers
  <2>1. CASE \E i \in DOMAIN booked : booked[i].trigger = t
    BY <1>8, <2>1
  <2>2. CASE \A i \in DOMAIN booked : booked[i].trigger # t
    BY <1>1, <1>7, <2>2 DEF Polled!RowsInv
  <2> QED
    BY <2>1, <2>2
<1>10. ASSUME NEW i \in DOMAIN booked
       PROVE  /\ new[i] \in Polled!Run /\ new[i].trigger = booked[i].trigger
              /\ new[i].for = booked[i].for /\ new[i].at = at
              /\ new[i].edition = trigger[booked[i].trigger].edition
              /\ new[i].every = Polled!Every(trigger[booked[i].trigger])
  <2>1. trigger[booked[i].trigger].edition \in Nat
    BY <1>8 DEF Polled!Row
  <2>2. /\ Polled!Every(trigger[booked[i].trigger]) \in Periods
        /\ booked[i].trigger \in Polled!Triggers /\ booked[i].for \in Nat
    BY <1>4, <1>8
  <2> QED
    BY <1>2, <2>1, <2>2 DEF Polled!Run
<1>11. new \in Seq(Polled!Run) /\ Len(new) = Len(booked) /\ DOMAIN new = DOMAIN booked
  <2>1. DOMAIN new = 1..Len(booked) /\ \A i \in 1..Len(booked) : new[i] \in Polled!Run
    BY <1>3, <1>10
  <2>2. new = [i \in 1..Len(booked) |-> new[i]]
    BY <1>3
  <2> HIDE DEF new
  <2>3. new \in [1..Len(booked) -> Polled!Run]
    BY <2>1, <2>2
  <2> QED
    BY <1>3, <2>1, <2>3
<1> HIDE DEF new
<1>12. /\ runs' \in Seq(Polled!Run)
       /\ \A k \in DOMAIN runs' :
            \/ k \in DOMAIN runs /\ runs'[k] = runs[k]
            \/ \E i \in DOMAIN booked : k = Len(runs) + i /\ runs'[k] = new[i]
       /\ DOMAIN runs = 1..Len(runs) /\ Len(runs) \in Nat
  <2>1. /\ runs' \in Seq(Polled!Run) /\ DOMAIN runs = 1..Len(runs) /\ Len(runs) \in Nat
        /\ DOMAIN runs' = 1..(Len(runs) + Len(new)) /\ Len(new) \in Nat
    <3>1. \A r, n \in Seq(Polled!Run) : /\ r \o n \in Seq(Polled!Run)
                                        /\ Len(r \o n) = Len(r) + Len(n)
      OBVIOUS
    <3>2. \A r \in Seq(Polled!Run) : DOMAIN r = 1..Len(r) /\ Len(r) \in Nat
      OBVIOUS
    <3>3. runs' \in Seq(Polled!Run) /\ Len(runs') = Len(runs) + Len(new)
      BY <1>1, <1>6, <1>11, <3>1
    <3> QED
      BY <1>1, <1>11, <3>2, <3>3
  <2>2. ASSUME NEW k \in DOMAIN runs'
        PROVE  \/ k \in DOMAIN runs /\ runs'[k] = runs[k]
               \/ \E i \in DOMAIN booked : k = Len(runs) + i /\ runs'[k] = new[i]
    <3>1. CASE k <= Len(runs)
      BY <1>1, <1>6, <1>11, <2>1, <3>1
    <3>2. CASE ~(k <= Len(runs))
      <4>1. k - Len(runs) \in 1..Len(booked) /\ k = Len(runs) + (k - Len(runs))
        BY <1>11, <2>1, <3>2
      <4>2. runs'[k] = new[k - Len(runs)]
        BY <1>1, <1>6, <1>11, <2>1, <3>2
      <4> QED
        BY <1>3, <4>1, <4>2
    <3> QED
      BY <3>1, <3>2
  <2> QED
    BY <2>1, <2>2
<1>13. tx'[p] = Polled!Closed /\ \A q \in Processes \ {p} : tx'[q] = tx[q]
  BY <1>1, <1>6
<1>14. Polled!TypeInv'
  <2>1. trigger' \in [Polled!Triggers -> Polled!Row]
    BY <1>6, <1>9
  <2>2. tx' \in [Processes -> Tx]
    BY <1>1, <1>6, ClosedTx
  <2> QED
    BY <1>1, <1>6, <1>12, <2>1, <2>2
       DEF Polled!TypeInv, Tx, Polled!Triggers, Polled!Row, Polled!Run, Polled!Advance
<1>15. Polled!RowsInv'
  BY <1>9 DEF Polled!RowsInv, Polled!Triggers
<1>16. \A q \in Processes \ {p} : \A t \in Polled!Locked(q) : t \in Polled!Triggers => trigger'[t] = trigger[t]
  <2>1. \A q \in Processes \ {p} : Polled!Locked(q) \cap Polled!Locked(p) = {}
    BY DEF Polled!IInv, Polled!LocksDiffer
  <2> QED
    BY <1>5, <1>7, <2>1
<1>17. Polled!LocksInv'
  <2>1. ASSUME NEW q \in Processes PROVE TxInv(tx[q])'
    <3>1. CASE q = p
      <4>1. tx'[q].rows = {} /\ tx'[q].staged = <<>>
        BY <1>13, <3>1 DEF Polled!Closed
      <4>2. DOMAIN tx'[q].staged = {}
        BY <4>1
      <4> QED
        BY <4>1, <4>2 DEF TxInv
    <3>2. CASE q # p
      <4>1. tx'[q] = tx[q] /\ TxInv(tx[q])
        BY <1>13, <3>2 DEF Polled!IInv, Polled!LocksInv, TxInv
      <4>2. tx[q].rows \subseteq Polled!Triggers /\ tx[q].staged \in Seq(Polled!Advance)
        BY <1>1 DEF Tx
      <4>3. \A i \in DOMAIN tx[q].staged : tx[q].staged[i].trigger \in Polled!Triggers
        <5>1. \A i \in DOMAIN tx[q].staged : tx[q].staged[i] \in Polled!Advance
          BY <4>2
        <5> QED
          BY <5>1 DEF Polled!Advance
      <4>4. /\ \A t \in tx[q].rows : trigger'[t] = trigger[t]
            /\ \A i \in DOMAIN tx[q].staged :
                 trigger'[tx[q].staged[i].trigger] = trigger[tx[q].staged[i].trigger]
        BY <1>16, <3>2, <4>2, <4>3 DEF Polled!Locked
      <4> QED
        BY <4>1, <4>4 DEF TxInv
    <3> QED
      BY <3>1, <3>2
  <2> QED
    BY <2>1 DEF TxInv, Polled!LocksInv
<1>18. Polled!LocksDiffer'
  <2>1. \A q \in Processes \ {p} : Polled!Locked(q)' = Polled!Locked(q)
    BY <1>13 DEF Polled!Locked
  <2>2. Polled!Locked(p)' = {}
    BY <1>13, ClosedTx DEF Polled!Locked, TxLocked
  <2> QED
    BY <2>1, <2>2 DEF Polled!LocksDiffer, Polled!IInv
<1>19. Polled!RunsInv'
  <2>1. ASSUME NEW k \in DOMAIN runs' PROVE Polled!Behind(runs'[k], trigger'[runs'[k].trigger])
    <3>1. CASE k \in DOMAIN runs /\ runs'[k] = runs[k]
      <4>1. runs[k] \in Polled!Run /\ runs[k].trigger \in Polled!Triggers
        <5>1. runs[k] \in Polled!Run
          BY <1>1, <3>1
        <5> QED
          BY <5>1 DEF Polled!Run
      <4>2. Polled!Behind(runs[k], trigger[runs[k].trigger])
        BY <1>1, <3>1
      <4>3. CASE \A i \in DOMAIN booked : booked[i].trigger # runs[k].trigger
        BY <1>7, <3>1, <4>1, <4>2, <4>3
      <4>4. CASE \E i \in DOMAIN booked : booked[i].trigger = runs[k].trigger
        <5>1. PICK i \in DOMAIN booked : booked[i].trigger = runs[k].trigger
          BY <4>4
        <5> DEFINE rec == trigger[runs[k].trigger]
                   moved == trigger'[runs[k].trigger]
                   u == booked[i]
        <5>2. /\ rec \in Polled!Row /\ moved \in Polled!Row /\ moved.next = u.next
              /\ moved.edition = rec.edition /\ Polled!Every(moved) = Polled!Every(rec)
              /\ rec.next \in Nat
          BY <1>8, <5>1
        <5>3. u \in Polled!Advance /\ Polled!StagedIsNext(at, u, rec) /\ Polled!Behind(runs[k], rec)
          BY <1>4, <1>5, <4>2, <5>1
        <5> HIDE DEF rec, moved, u
        <5>4. Polled!Behind(runs[k], moved)
          BY <1>2, <4>1, <5>2, <5>3, AdvancedRuns
        <5> QED
          BY <3>1, <5>4 DEF moved
      <4> QED
        BY <4>3, <4>4
    <3>2. CASE \E i \in DOMAIN booked : runs'[k] = new[i]
      <4>1. PICK i \in DOMAIN booked : runs'[k] = new[i]
        BY <3>2
      <4> DEFINE rec == trigger[booked[i].trigger]
                 moved == trigger'[booked[i].trigger]
                 u == booked[i]
      <4>2. /\ moved.next = u.next /\ moved.edition = rec.edition
            /\ Polled!Every(moved) = Polled!Every(rec) /\ rec \in Polled!Row
        BY <1>8
      <4>3. Polled!StagedIsNext(at, u, rec)
        BY <1>5
      <4>4. /\ new[i].trigger = u.trigger /\ new[i].for = u.for /\ new[i].at = at
            /\ new[i].edition = rec.edition /\ new[i].every = Polled!Every(rec)
        BY <1>10
      <4>5. trigger'[runs'[k].trigger] = moved
        BY <4>1, <4>4
      <4> HIDE DEF rec, moved, u
      <4>6. rec.edition \in Nat
        BY <4>2 DEF Polled!Row
      <4>7. Polled!Behind(new[i], moved)
        BY <4>2, <4>3, <4>4, <4>6 DEF Polled!Behind, Polled!StagedIsNext
      <4> QED
        BY <4>1, <4>5, <4>7
    <3> QED
      BY <1>12, <3>1, <3>2
  <2> QED
    BY <2>1 DEF Polled!RunsInv
<1>20. Polled!CadenceIsKept'
  <2>1. ASSUME NEW k \in DOMAIN runs', NEW l \in DOMAIN runs', k < l,
               runs'[k].trigger = runs'[l].trigger, runs'[k].edition = runs'[l].edition
        PROVE  /\ runs'[l].for > runs'[k].at
               /\ (runs'[l].for - runs'[k].for) % runs'[k].every = 0
    <3>1. CASE l \in DOMAIN runs /\ runs'[l] = runs[l]
      <4>1. k \in DOMAIN runs /\ runs'[k] = runs[k]
        BY <1>3, <1>12, <2>1, <3>1
      <4> QED
        BY <2>1, <3>1, <4>1 DEF Polled!IInv, Polled!CadenceIsKept
    <3>2. ASSUME NEW j \in DOMAIN booked, l = Len(runs) + j, runs'[l] = new[j]
          PROVE  /\ runs'[l].for > runs'[k].at
                 /\ (runs'[l].for - runs'[k].for) % runs'[k].every = 0
      <4> DEFINE rec == trigger[booked[j].trigger]
      <4>1. /\ new[j].trigger = booked[j].trigger /\ new[j].for = booked[j].for
            /\ new[j].edition = rec.edition
        BY <1>10
      <4>2. k \in DOMAIN runs /\ runs'[k] = runs[k]
        <5>1. ASSUME NEW i \in DOMAIN booked, k = Len(runs) + i, runs'[k] = new[i] PROVE FALSE
          <6>1. booked[i].trigger = booked[j].trigger
            BY <1>10, <2>1, <3>2, <4>1, <5>1
          <6>2. i = j
            BY <1>5, <6>1
          <6> QED
            BY <1>3, <1>12, <2>1, <3>2, <5>1, <6>2
        <5> QED
          BY <1>12, <5>1
      <4>3. Polled!Behind(runs[k], rec) /\ runs[k].edition = rec.edition
        BY <1>1, <2>1, <3>2, <4>1, <4>2
      <4>4. rec.next \in Nat /\ booked[j].for = rec.next
        BY <1>5, <1>8 DEF Polled!StagedIsNext
      <4> HIDE DEF rec
      <4>5. rec.next > runs[k].at /\ (rec.next - runs[k].for) % runs[k].every = 0
        BY <4>3, <4>4, PolledConstants DEF Polled!Behind
      <4> QED
        BY <3>2, <4>1, <4>2, <4>4, <4>5
    <3> QED
      BY <1>12, <3>1, <3>2
  <2> QED
    BY <2>1 DEF Polled!CadenceIsKept
<1>21. Polled!DispatchIsAtomic
  <2>1. ASSUME NEW k \in DOMAIN runs' \ DOMAIN runs
        PROVE  LET t == runs'[k].trigger
               IN  /\ trigger[t].enabled /\ trigger[t].next = runs'[k].for
                   /\ trigger'[t].next > runs'[k].at
    <3>1. PICK i \in DOMAIN booked : runs'[k] = new[i]
      BY <1>12
    <3>2. /\ runs'[k].trigger = booked[i].trigger /\ runs'[k].for = booked[i].for
          /\ runs'[k].at = at
      BY <1>10, <3>1
    <3>3. /\ trigger[booked[i].trigger].enabled
          /\ trigger'[booked[i].trigger].next = booked[i].next
      BY <1>8
    <3>4. booked[i].for = trigger[booked[i].trigger].next /\ booked[i].next > at
      BY <1>5 DEF Polled!StagedIsNext
    <3> QED
      BY <3>2, <3>3, <3>4
  <2> QED
    BY <2>1 DEF Polled!DispatchIsAtomic
<1> QED
  BY <1>14, <1>15, <1>17, <1>18, <1>19, <1>20, <1>21 DEF Polled!IInv

LEMMA PolledStep ==
  ASSUME Polled!IInv, [Polled!Next]_(Polled!vars)
  PROVE  Polled!IInv'
<1>1. CASE Polled!Tick \/ UNCHANGED Polled!vars
  <2>1. now' \in Nat /\ UNCHANGED <<trigger, tx, runs>>
    BY <1>1 DEF Polled!Tick, Polled!vars, Polled!IInv, Polled!TypeInv
  <2>2. Polled!TypeInv'
    BY <2>1 DEF Polled!IInv, Polled!TypeInv, Polled!Triggers, Polled!Row, Polled!Run, Polled!Advance
  <2>3. Polled!RowsInv' /\ Polled!RunsInv' /\ Polled!CadenceIsKept'
    BY <2>1 DEF Polled!IInv, Polled!RowsInv, Polled!RunsInv, Polled!CadenceIsKept
  <2>4. Polled!LocksInv' /\ Polled!LocksDiffer'
    BY <2>1 DEF Polled!IInv, Polled!LocksInv, Polled!LocksDiffer, Polled!Locked
  <2> QED
    BY <2>2, <2>3, <2>4 DEF Polled!IInv
<1>2. CASE \E t \in Polled!Triggers : Polled!Create(t) \/ Polled!Update(t) \/ Polled!Delete(t)
  BY <1>2, PolledEdits
<1>3. CASE \E p \in Processes : Polled!Loop(p) \/ Polled!Fail(p) \/ Polled!Crash(p)
  BY <1>3, PolledTransactions, PolledCommit DEF Polled!Loop
<1> QED
  BY <1>1, <1>2, <1>3 DEF Polled!Next

LEMMA PolledPromises == Polled!IInv => Polled!CadenceIsKept /\ Polled!RowsAreConsistent
  BY DEF Polled!IInv, Polled!RowsInv, Polled!Consistent, Polled!RowsAreConsistent

\* Only a commit adds runs.
LEMMA PolledAtomic ==
  ASSUME Polled!IInv, Polled!Next
  PROVE  Polled!DispatchIsAtomic
<1>1. CASE UNCHANGED runs
  BY <1>1 DEF Polled!DispatchIsAtomic
<1>2. CASE \E p \in Processes : Polled!Commit(p)
  BY <1>2, PolledCommit
<1> QED
  BY <1>1, <1>2 DEF Polled!Next, Polled!Tick, Polled!Create, Polled!Update, Polled!Delete,
     Polled!Loop, Polled!Poll, Polled!Claim, Polled!Dispatch, Polled!Fail, Polled!Crash

-------------------------------------------------------------------------------
(* Versions of a graph: saves number them without a gap, a run without a   *)
(* named version executes a recent one, and a deleted file was in none of  *)
(* those that could be executed.                                           *)

SavedVersion == [number : Nat, files : SUBSET ManagedFiles]
SaveOf == [stage : {"idle", "refused", "locked", "numbered", "failed"},
         files : SUBSET ManagedFiles, number : Nat]
StartOf == [stage : {"idle", "seen", "named", "latest", "refused"}, seen : Nat, found : Nat]
RunOf == [version : Nat, seen : Nat, by : {"named", "latest", "trigger"}]
DeletionOf == [stage : {"idle", "refused", "checked", "deleted", "not_found"},
             file : ManagedFiles \cup {NoFile}, seen : Nat]

(* The types of what the arguments are about. *)
SavedTyped ==
  /\ graph \in BOOLEAN
  /\ version \in Seq(SavedVersion)
  /\ save \in [Savers -> SaveOf]
  /\ start \in [Starters -> StartOf]
  /\ runs \in Seq(RunOf)
  /\ pin \in Nat
  /\ deletion \in [Deleters -> DeletionOf]

(* A saver between its lock and its commit owns the row of the graph, so   *)
(* that the number it took is still the next one.                          *)
Serialised ==
  /\ \A p \in Savers : save[p].stage \in {"locked", "numbered"} => graph /\ lock = p
  /\ \A p \in Savers : save[p].stage = "numbered" => save[p].number = Len(version) + 1
  /\ ~graph => version = <<>>

(* What a request has found does not lie before what it saw on arrival. *)
StartsSee ==
  \A s \in Starters :
    /\ start[s].seen <= Len(version)
    /\ start[s].stage = "latest" => start[s].found >= start[s].seen

(* What a deletion looked at stays as it was. *)
DeletionsSee ==
  \A d \in Deleters : deletion[d].stage \in {"checked", "deleted"} =>
    /\ deletion[d].seen <= Len(version)
    /\ \A i \in 1..deletion[d].seen : deletion[d].file \notin version[i].files

SavedInv ==
  /\ SavedTyped /\ Serialised /\ Saved!SavesNeverCollide
  /\ StartsSee /\ Saved!RunsSeeEarlierSaves /\ DeletionsSee

-------------------------------------------------------------------------------
\* What appending one element to a sequence gives.
LEMMA Appended ==
  ASSUME NEW S, NEW q \in Seq(S), NEW x \in S
  PROVE  /\ Append(q, x) \in Seq(S)
         /\ Len(q) \in Nat /\ Len(Append(q, x)) = Len(q) + 1
         /\ DOMAIN Append(q, x) = 1..(Len(q) + 1)
         /\ Append(q, x)[Len(q) + 1] = x
         /\ \A i \in 1..Len(q) : Append(q, x)[i] = q[i]
  OBVIOUS

\* The highest number up to m is m.
LEMMA HighestOfInterval ==
  ASSUME NEW m \in Nat, m # 0
  PROVE  (CHOOSE n \in 1..m : \A k \in 1..m : k <= n) = m
<1>1. m \in 1..m /\ \A k \in 1..m : k <= m
  OBVIOUS
<1>2. ASSUME NEW n \in 1..m, \A k \in 1..m : k <= n
      PROVE  n = m
  <2>1. m <= n
    BY <1>1, <1>2
  <2> QED
    BY <2>1
<1> QED
  BY <1>1, <1>2

\* Versions numbered without a gap: the highest number is their count, and
\* the version that has it is the last.
LEMMA LatestIsLast ==
  ASSUME SavedTyped, Saved!SavesNeverCollide
  PROVE  /\ Saved!MaxNumber = Len(version) /\ Saved!Latest = Len(version)
         /\ Saved!Numbers = 1..Len(version)
<1>1. Len(version) \in Nat /\ DOMAIN version = 1..Len(version)
  BY DEF SavedTyped
<1>2. Saved!Numbers = 1..Len(version)
  BY <1>1 DEF Saved!SavesNeverCollide, Saved!Numbers
<1>3. version = <<>> <=> Len(version) = 0
  BY DEF SavedTyped
<1>4. ASSUME version # <<>>
      PROVE  (CHOOSE n \in 1..Len(version) : \A k \in 1..Len(version) : k <= n) = Len(version)
  BY <1>1, <1>3, <1>4, HighestOfInterval
<1>5. Saved!MaxNumber = Len(version)
  BY <1>2, <1>3, <1>4 DEF Saved!MaxNumber
<1>6. Saved!Latest = Len(version)
  <2>1. CASE version = <<>>
    BY <2>1, <1>3 DEF Saved!Latest
  <2>2. CASE version # <<>>
    <3>1. Len(version) \in DOMAIN version /\ version[Len(version)].number = Saved!MaxNumber
      BY <2>2, <1>1, <1>3, <1>5 DEF Saved!SavesNeverCollide
    <3>2. \A i \in DOMAIN version : version[i].number = Saved!MaxNumber => i = Len(version)
      BY <1>5 DEF Saved!SavesNeverCollide
    <3> QED
      BY <2>2, <3>1, <3>2 DEF Saved!Latest
  <2> QED
    BY <2>1, <2>2
<1> QED
  BY <1>2, <1>5, <1>6

\* The initial state satisfies the invariant.
LEMMA SavedInit == ASSUME Saved!Init PROVE SavedInv
<1> USE DEF Saved!Init
<1>1. save \in [Savers -> SaveOf] /\ start \in [Starters -> StartOf]
  BY DEF Saved!Idle, SaveOf, StartOf
<1>2. deletion \in [Deleters -> DeletionOf]
  BY DEF DeletionOf
<1>3. version \in Seq(SavedVersion) /\ runs \in Seq(RunOf) /\ Len(version) = 0 /\ Len(runs) = 0
  OBVIOUS
<1>4. SavedTyped
  BY <1>1, <1>2, <1>3 DEF SavedTyped
<1>5. Serialised /\ DeletionsSee
  BY DEF Serialised, DeletionsSee, Saved!Idle
<1>6. Saved!SavesNeverCollide /\ StartsSee /\ Saved!RunsSeeEarlierSaves
  BY <1>3 DEF Saved!SavesNeverCollide, StartsSee, Saved!RunsSeeEarlierSaves, Saved!Idle
<1> QED
  BY <1>4, <1>5, <1>6 DEF SavedInv

\* Every step keeps the types.
LEMMA SavedTypedStep ==
  ASSUME SavedInv, [Saved!Next]_(Saved!vars) PROVE SavedTyped'
<1> USE DEF SavedInv, SavedTyped
<1>1. /\ Saved!Latest \in Nat /\ Saved!MaxNumber \in Nat /\ Len(version) \in Nat
      /\ DOMAIN version = 1..Len(version)
  BY LatestIsLast
<1>2. CASE Saved!CreateGraph \/ Saved!CreateGraphFromTemplate
  <2>1. <<[number |-> 1, files |-> {}]>> \in Seq(SavedVersion)
    BY DEF SavedVersion
  <2> QED
    BY <1>2, <2>1 DEF Saved!CreateGraph, Saved!CreateGraphFromTemplate
<1>3. CASE Saved!CreateTrigger
  BY <1>1, <1>3 DEF Saved!CreateTrigger
<1>10. CASE Saved!Fire
  <2>1. [version |-> pin, seen |-> 0, by |-> "trigger"] \in RunOf
    BY DEF RunOf
  <2>2. runs' \in Seq(RunOf)
    BY <1>10, <2>1, Appended DEF Saved!Fire
  <2> QED
    BY <1>10, <2>2 DEF Saved!Fire
<1>4. ASSUME NEW p \in Savers,
             Saved!SaveRefused(p) \/ Saved!SaveLock(p) \/ Saved!SaveNumber(p) \/ Saved!SaveAborts(p)
      PROVE  SavedTyped'
  <2>1. save' \in [Savers -> SaveOf]
    <3>1. CASE Saved!SaveRefused(p)
      BY <3>1 DEF Saved!SaveRefused, SaveOf
    <3>2. CASE Saved!SaveLock(p)
      BY <3>2 DEF Saved!SaveLock, SaveOf
    <3>3. CASE Saved!SaveNumber(p)
      <4>1. Saved!MaxNumber + 1 \in Nat
        BY <1>1
      <4>2. [save[p] EXCEPT !.stage = "numbered", !.number = Saved!MaxNumber + 1] \in SaveOf
        BY <4>1 DEF SaveOf
      <4>3. save' = [save EXCEPT ![p] = [save[p] EXCEPT !.stage = "numbered",
                                                       !.number = Saved!MaxNumber + 1]]
        BY <3>3 DEF Saved!SaveNumber, SaveOf
      <4> QED
        BY <4>2, <4>3
    <3>4. CASE Saved!SaveAborts(p)
      BY <3>4 DEF Saved!SaveAborts, Saved!Idle, SaveOf
    <3> QED
      BY <1>4, <3>1, <3>2, <3>3, <3>4
  <2> QED
    BY <1>4, <2>1 DEF Saved!SaveRefused, Saved!SaveLock, Saved!SaveNumber, Saved!SaveAborts
<1>5. ASSUME NEW p \in Savers, Saved!SaveCommit(p) PROVE SavedTyped'
  <2>1. [number |-> save[p].number, files |-> save[p].files] \in SavedVersion
    BY DEF SaveOf, SavedVersion
  <2>2. Saved!Idle \in SaveOf /\ [save[p] EXCEPT !.stage = "failed"] \in SaveOf
    BY DEF SaveOf, Saved!Idle
  <2>3. save' \in [Savers -> SaveOf]
    <3>1. \/ save' = [save EXCEPT ![p] = [save[p] EXCEPT !.stage = "failed"]]
          \/ save' = [save EXCEPT ![p] = Saved!Idle]
      BY <1>5 DEF Saved!SaveCommit
    <3> QED
      BY <2>2, <3>1
  <2>4. version' \in Seq(SavedVersion)
    <3>1. \/ version' = version
          \/ version' = Append(version, [number |-> save[p].number, files |-> save[p].files])
      BY <1>5 DEF Saved!SaveCommit
    <3>2. Append(version, [number |-> save[p].number, files |-> save[p].files]) \in Seq(SavedVersion)
      BY <2>1, Appended
    <3> QED
      BY <3>1, <3>2
  <2> QED
    BY <1>5, <2>3, <2>4 DEF Saved!SaveCommit
<1>6. ASSUME NEW s \in Starters,
             Saved!StartRequest(s) \/ Saved!StartNamed(s) \/ Saved!StartLatest(s)
      PROVE  SavedTyped'
  <2>1. start' \in [Starters -> StartOf]
    <3>1. CASE Saved!StartRequest(s)
      BY <1>1, <3>1 DEF Saved!StartRequest, StartOf
    <3>2. CASE Saved!StartNamed(s)
      <4>1. PICK i \in DOMAIN version :
              start' = [start EXCEPT ![s] = [start[s] EXCEPT !.stage = "named", !.found = i]]
        BY <3>2 DEF Saved!StartNamed, StartOf
      <4>2. i \in Nat
        BY <1>1
      <4>3. [start[s] EXCEPT !.stage = "named", !.found = i] \in StartOf
        BY <4>2 DEF StartOf
      <4> QED
        BY <4>1, <4>3
    <3>3. CASE Saved!StartLatest(s)
      <4>1. start' = [start EXCEPT ![s] =
              [start[s] EXCEPT !.stage = IF Saved!Latest = 0 THEN "refused" ELSE "latest",
                               !.found = Saved!Latest]]
        BY <3>3 DEF Saved!StartLatest, StartOf
      <4>2. [start[s] EXCEPT !.stage = IF Saved!Latest = 0 THEN "refused" ELSE "latest",
                             !.found = Saved!Latest] \in StartOf
        BY <1>1 DEF StartOf
      <4> QED
        BY <4>1, <4>2
    <3> QED
      BY <1>6, <3>1, <3>2, <3>3
  <2> QED
    BY <1>6, <2>1 DEF Saved!StartRequest, Saved!StartNamed, Saved!StartLatest
<1>7. ASSUME NEW s \in Starters, Saved!CreateRun(s) PROVE SavedTyped'
  <2>1. [version |-> start[s].found, seen |-> start[s].seen, by |-> start[s].stage] \in RunOf
    BY <1>7 DEF Saved!CreateRun, StartOf, RunOf
  <2> DEFINE new == [version |-> start[s].found, seen |-> start[s].seen, by |-> start[s].stage]
  <2>2. runs' \in Seq(RunOf)
    <3>1. runs' = Append(runs, new) /\ new \in RunOf /\ runs \in Seq(RunOf)
      BY <1>7, <2>1 DEF Saved!CreateRun
    <3> HIDE DEF new, SavedInv, SavedTyped
    <3> QED
      BY <3>1, Appended
  <2>3. start' \in [Starters -> StartOf]
    <3>1. [start[s] EXCEPT !.stage = "idle", !.found = 0, !.seen = 0] \in StartOf
      BY DEF StartOf
    <3>2. start' = [start EXCEPT ![s] = [start[s] EXCEPT !.stage = "idle", !.found = 0, !.seen = 0]]
      BY <1>7 DEF Saved!CreateRun, StartOf
    <3> QED
      BY <3>1, <3>2
  <2> QED
    BY <1>7, <2>2, <2>3 DEF Saved!CreateRun
<1>8. ASSUME NEW d \in Deleters, Saved!CheckFile(d) \/ Saved!RemoveFile(d) PROVE SavedTyped'
  <2>1. CASE Saved!CheckFile(d)
    BY <1>1, <2>1 DEF Saved!CheckFile, DeletionOf
  <2>2. CASE Saved!RemoveFile(d)
    BY <2>2 DEF Saved!RemoveFile, DeletionOf
  <2> QED
    BY <1>8, <2>1, <2>2
<1>9. CASE UNCHANGED Saved!vars
  BY <1>9 DEF Saved!vars
<1> QED
  BY <1>2, <1>3, <1>10, <1>4, <1>5, <1>6, <1>7, <1>8, <1>9 DEF Saved!Next

\* The lock keeps every other saver from the number one has taken.
LEMMA SerialisedStep == ASSUME SavedInv, [Saved!Next]_(Saved!vars) PROVE Serialised'
<1> USE DEF SavedInv, Serialised
<1>1. Saved!MaxNumber = Len(version) /\ Len(version) \in Nat /\ NoOne \notin Savers
  BY ConstantsAreSound, LatestIsLast DEF Saved!VersionsAssumption, SavedTyped
<1>2. CASE Saved!CreateGraph
  BY <1>2 DEF Saved!CreateGraph
<1>3. CASE Saved!CreateGraphFromTemplate
  BY <1>3 DEF Saved!CreateGraphFromTemplate
<1>4. ASSUME NEW p \in Savers,
             \/ Saved!SaveRefused(p) \/ Saved!SaveLock(p) \/ Saved!SaveNumber(p)
             \/ Saved!SaveAborts(p)
      PROVE  Serialised'
  <2>1. \A q \in Savers \ {p} : save'[q] = save[q]
    BY <1>4 DEF Saved!SaveRefused, Saved!SaveLock, Saved!SaveNumber, Saved!SaveAborts, SavedTyped
  <2>2. UNCHANGED <<graph, version>>
    BY <1>4 DEF Saved!SaveRefused, Saved!SaveLock, Saved!SaveNumber, Saved!SaveAborts
  <2>3. CASE Saved!SaveRefused(p)
    <3>1. save'[p].stage = "refused" /\ lock' = lock
      BY <2>3 DEF Saved!SaveRefused, SavedTyped, SaveOf
    <3> QED
      BY <2>1, <2>2, <3>1
  <2>4. CASE Saved!SaveLock(p)
    <3>1. save'[p].stage = "locked" /\ lock' = p /\ lock = NoOne /\ graph
      BY <2>4 DEF Saved!SaveLock, SavedTyped
    <3> QED
      BY <1>1, <2>1, <2>2, <3>1
  <2>5. CASE Saved!SaveNumber(p)
    <3>1. /\ save'[p].stage = "numbered" /\ save'[p].number = Saved!MaxNumber + 1
          /\ lock' = lock /\ save[p].stage = "locked"
      BY <2>5 DEF Saved!SaveNumber, SavedTyped, SaveOf
    <3> QED
      BY <1>1, <2>1, <2>2, <3>1
  <2>6. CASE Saved!SaveAborts(p)
    <3>1. save'[p].stage = "idle" /\ lock = p
      BY <2>6 DEF Saved!SaveAborts, SavedTyped, Saved!Idle
    <3> QED
      BY <2>1, <2>2, <3>1
  <2> QED
    BY <1>4, <2>3, <2>4, <2>5, <2>6
<1>5. ASSUME NEW p \in Savers, Saved!SaveCommit(p) PROVE Serialised'
  <2>1. lock = p /\ graph /\ graph' = graph
    BY <1>5 DEF Saved!SaveCommit
  <2>2. \A q \in Savers \ {p} : save'[q] = save[q] /\ save[q].stage \notin {"locked", "numbered"}
    BY <1>5, <2>1 DEF Saved!SaveCommit, SavedTyped
  <2>3. save'[p].stage \in {"failed", "idle"}
    BY <1>5 DEF Saved!SaveCommit, SavedTyped, SaveOf, Saved!Idle
  <2> QED
    BY <2>1, <2>2, <2>3
<1>6. CASE UNCHANGED <<graph, version, lock, save>>
  BY <1>6
<1> QED
  BY <1>2, <1>3, <1>4, <1>5, <1>6 DEF Saved!Next, Saved!vars, Saved!CreateTrigger, Saved!Fire,
     Saved!StartRequest, Saved!StartNamed,
     Saved!StartLatest, Saved!CreateRun, Saved!CheckFile, Saved!RemoveFile

\* A commit takes the number after the highest, which nobody has.
LEMMA SavesStep == ASSUME SavedInv, [Saved!Next]_(Saved!vars) PROVE Saved!SavesNeverCollide'
<1> USE DEF SavedInv, Saved!SavesNeverCollide
<1>1. Saved!Numbers = 1..Len(version) /\ Len(version) \in Nat
  BY LatestIsLast DEF SavedTyped
<1>2. CASE Saved!CreateGraphFromTemplate
  BY <1>2 DEF Saved!CreateGraphFromTemplate
<1>3. ASSUME NEW p \in Savers,
             \/ Saved!SaveRefused(p) \/ Saved!SaveLock(p) \/ Saved!SaveNumber(p)
             \/ Saved!SaveAborts(p)
      PROVE  Saved!SavesNeverCollide'
  <2>1. \A q \in Savers \ {p} : save'[q] = save[q]
    BY <1>3 DEF Saved!SaveRefused, Saved!SaveLock, Saved!SaveNumber, Saved!SaveAborts, SavedTyped
  <2>2. save'[p].stage # "failed" /\ version' = version
    BY <1>3 DEF Saved!SaveRefused, Saved!SaveLock, Saved!SaveNumber, Saved!SaveAborts,
     SavedTyped, SaveOf, Saved!Idle
  <2> QED
    BY <2>1, <2>2
<1>4. ASSUME NEW p \in Savers, Saved!SaveCommit(p) PROVE Saved!SavesNeverCollide'
  <2> DEFINE new == [number |-> save[p].number, files |-> save[p].files]
  <2>1. save[p].number = Len(version) + 1
    BY <1>4 DEF Saved!SaveCommit, Serialised
  <2>2. save[p].number \notin Saved!Numbers
    BY <1>1, <2>1
  <2>3. save' = [save EXCEPT ![p] = Saved!Idle] /\ version' = Append(version, new)
    BY <1>4, <2>2 DEF Saved!SaveCommit
  <2>4. new \in SavedVersion
    BY DEF SavedTyped, SaveOf, SavedVersion
  <2>5. /\ DOMAIN version' = 1..(Len(version) + 1)
        /\ version'[Len(version) + 1] = new
        /\ \A i \in 1..Len(version) : version'[i] = version[i]
    <3>1. version \in Seq(SavedVersion)
      BY DEF SavedTyped
    <3> HIDE DEF new, SavedInv
    <3> QED
      BY <2>3, <2>4, <3>1, Appended
  <2>6. \A i \in DOMAIN version' : version'[i].number = i
    BY <1>1, <2>1, <2>5 DEF SavedTyped
  <2>7. \A q \in Savers : save'[q].stage # "failed"
    BY <2>3 DEF SavedTyped, Saved!Idle
  <2> QED
    BY <2>6, <2>7
<1>5. CASE UNCHANGED <<version, save>>
  BY <1>5
<1> QED
  BY <1>2, <1>3, <1>4, <1>5 DEF Saved!Next, Saved!vars, Saved!CreateGraph, Saved!CreateTrigger,
     Saved!Fire, Saved!StartRequest,
     Saved!StartNamed, Saved!StartLatest, Saved!CreateRun, Saved!CheckFile, Saved!RemoveFile

\* Versions are only ever appended: what was at an index stays there.
Grows ==
  /\ Len(version) \in Nat /\ Len(version') \in Nat /\ Len(version) <= Len(version')
  /\ \A i \in 1..Len(version) : version'[i] = version[i]
LEMMA VersionsGrow == ASSUME SavedInv, [Saved!Next]_(Saved!vars) PROVE Grows
<1> USE DEF SavedInv, Grows
<1>1. Len(version) \in Nat
  BY DEF SavedTyped
<1>2. CASE Saved!CreateGraphFromTemplate
  BY <1>1, <1>2 DEF Saved!CreateGraphFromTemplate, Serialised
<1>3. ASSUME NEW p \in Savers, Saved!SaveCommit(p)
      PROVE  Grows
  <2> DEFINE new == [number |-> save[p].number, files |-> save[p].files]
  <2>1. new \in SavedVersion
    BY DEF SavedTyped, SaveOf, SavedVersion
  <2>2. version' = version \/ version' = Append(version, new)
    BY <1>3 DEF Saved!SaveCommit
  <2>3. version \in Seq(SavedVersion)
    BY DEF SavedTyped
  <2> HIDE DEF new, SavedInv
  <2>4. CASE version' = version
    BY <1>1, <2>4
  <2>5. CASE version' = Append(version, new)
    <3>1. /\ Len(Append(version, new)) = Len(version) + 1
          /\ \A i \in 1..Len(version) : Append(version, new)[i] = version[i]
      BY <2>1, <2>3, Appended
    <3> QED
      BY <1>1, <2>5, <3>1
  <2> QED
    BY <2>2, <2>4, <2>5
<1>4. CASE UNCHANGED version
  BY <1>1, <1>4
<1> QED
  BY <1>2, <1>3, <1>4 DEF Saved!Next, Saved!vars, Saved!CreateGraph, Saved!CreateTrigger,
     Saved!Fire, Saved!StartRequest, Saved!StartNamed,
     Saved!StartLatest, Saved!CreateRun, Saved!CheckFile, Saved!RemoveFile, Saved!SaveRefused,
     Saved!SaveLock, Saved!SaveNumber, Saved!SaveAborts

\* What a starter found is no older than what it saw when it came in.
LEMMA StartsStep == ASSUME SavedInv, [Saved!Next]_(Saved!vars) PROVE StartsSee'
<1> USE DEF SavedInv, StartsSee
<1>1. Saved!Latest = Len(version) /\ Grows
  BY LatestIsLast, VersionsGrow
<1>2. ASSUME NEW s \in Starters,
             Saved!StartRequest(s) \/ Saved!StartNamed(s) \/ Saved!StartLatest(s) \/ Saved!CreateRun(s)
      PROVE  StartsSee'
  <2>1. \A t \in Starters \ {s} : start'[t] = start[t]
    BY <1>2 DEF Saved!StartRequest, Saved!StartNamed, Saved!StartLatest, Saved!CreateRun,
     SavedTyped
  <2>2. version' = version
    BY <1>2 DEF Saved!StartRequest, Saved!StartNamed, Saved!StartLatest, Saved!CreateRun
  <2>3. /\ start'[s].seen <= Len(version)
        /\ start'[s].stage = "latest" => start'[s].found >= start'[s].seen
    <3>1. Len(version) \in Nat /\ start[s].seen \in Nat /\ start[s].seen <= Len(version)
      BY <1>1 DEF SavedTyped, StartOf, Grows
    <3>2. CASE Saved!StartRequest(s)
      BY <3>1, <3>2 DEF Saved!StartRequest, SavedTyped
    <3>3. CASE Saved!StartNamed(s)
      <4>1. start'[s].seen = start[s].seen /\ start'[s].stage = "named"
        BY <3>3 DEF Saved!StartNamed, SavedTyped, StartOf
      <4> QED
        BY <3>1, <4>1
    <3>4. CASE Saved!StartLatest(s)
      <4>1. /\ start'[s].seen = start[s].seen
            /\ start'[s].found = Saved!Latest
        BY <3>4 DEF Saved!StartLatest, SavedTyped, StartOf
      <4> QED
        BY <1>1, <3>1, <4>1
    <3>5. CASE Saved!CreateRun(s)
      <4>1. start'[s].seen = 0 /\ start'[s].stage = "idle"
        BY <3>5 DEF Saved!CreateRun, SavedTyped, StartOf
      <4> QED
        BY <3>1, <4>1
    <3> QED
      BY <1>2, <3>2, <3>3, <3>4, <3>5
  <2> QED
    BY <2>1, <2>2, <2>3
<1>3. CASE UNCHANGED start
  <2>1. \A s \in Starters : start[s].seen \in Nat
    BY DEF SavedTyped, StartOf
  <2> QED
    BY <1>1, <1>3, <2>1 DEF Grows
<1> QED
  BY <1>2, <1>3 DEF Saved!Next, Saved!vars, Saved!CreateGraph, Saved!CreateGraphFromTemplate,
     Saved!CreateTrigger, Saved!Fire,
     Saved!SaveRefused, Saved!SaveLock, Saved!SaveNumber, Saved!SaveCommit, Saved!SaveAborts,
     Saved!CheckFile, Saved!RemoveFile

\* A run is created with what its request found.
LEMMA RunsStep == ASSUME SavedInv, [Saved!Next]_(Saved!vars) PROVE Saved!RunsSeeEarlierSaves'
<1> USE DEF SavedInv, Saved!RunsSeeEarlierSaves
<1>1. ASSUME NEW new \in RunOf, runs' = Append(runs, new),
             new.by = "latest" => new.version >= new.seen
      PROVE  Saved!RunsSeeEarlierSaves'
  BY <1>1 DEF SavedTyped
<1>2. ASSUME NEW s \in Starters, Saved!CreateRun(s) PROVE Saved!RunsSeeEarlierSaves'
  <2> DEFINE new == [version |-> start[s].found, seen |-> start[s].seen, by |-> start[s].stage]
  <2>1. new \in RunOf /\ runs' = Append(runs, new)
    BY <1>2 DEF Saved!CreateRun, SavedTyped, StartOf, RunOf
  <2>2. new.by = "latest" => new.version >= new.seen
    BY DEF StartsSee
  <2> HIDE DEF new
  <2> QED
    BY <1>1, <2>1, <2>2
<1>3. CASE Saved!Fire
  <2>1. [version |-> pin, seen |-> 0, by |-> "trigger"] \in RunOf
    BY DEF SavedTyped, RunOf
  <2> QED
    BY <1>1, <1>3, <2>1 DEF Saved!Fire
<1>4. CASE UNCHANGED runs
  BY <1>4
<1> QED
  BY <1>2, <1>3, <1>4 DEF Saved!Next, Saved!vars, Saved!CreateGraph,
     Saved!CreateGraphFromTemplate, Saved!CreateTrigger,
     Saved!SaveRefused, Saved!SaveLock, Saved!SaveNumber, Saved!SaveCommit, Saved!SaveAborts,
     Saved!StartRequest, Saved!StartNamed,
     Saved!StartLatest, Saved!CheckFile, Saved!RemoveFile

\* A deletion passes only when no version there is names the file.
LEMMA DeletionsStep == ASSUME SavedInv, [Saved!Next]_(Saved!vars) PROVE DeletionsSee'
<1> USE DEF SavedInv, DeletionsSee
<1>1. Grows /\ DOMAIN version = 1..Len(version)
  BY VersionsGrow DEF SavedTyped
<1>2. ASSUME NEW d \in Deleters, Saved!CheckFile(d) PROVE DeletionsSee'
  <2>1. PICK f \in ManagedFiles : deletion' = [deletion EXCEPT ![d] =
          [stage |-> IF Saved!Referenced(f) THEN "refused" ELSE "checked", file |-> f,
           seen |-> Len(version)]]
    BY <1>2 DEF Saved!CheckFile
  <2>2. ~Saved!Referenced(f) => \A i \in 1..Len(version) : f \notin version[i].files
    BY <1>1 DEF Saved!Referenced
  <2>3. version' = version /\ Len(version) <= Len(version)
    BY <1>1, <1>2 DEF Saved!CheckFile, Grows
  <2> QED
    BY <2>1, <2>2, <2>3 DEF SavedTyped
<1>3. ASSUME NEW d \in Deleters, Saved!RemoveFile(d) PROVE DeletionsSee'
  BY <1>3 DEF Saved!RemoveFile, SavedTyped, DeletionOf
<1>4. CASE UNCHANGED deletion
  <2>1. \A d \in Deleters : deletion[d].seen \in Nat
    BY DEF SavedTyped, DeletionOf
  <2> QED
    BY <1>1, <1>4, <2>1 DEF Grows
<1> QED
  BY <1>2, <1>3, <1>4 DEF Saved!Next, Saved!vars, Saved!CreateGraph,
     Saved!CreateGraphFromTemplate, Saved!CreateTrigger, Saved!Fire,
     Saved!SaveRefused, Saved!SaveLock, Saved!SaveNumber, Saved!SaveCommit, Saved!SaveAborts,
     Saved!StartRequest, Saved!StartNamed,
     Saved!StartLatest, Saved!CreateRun

LEMMA SavedStep == ASSUME SavedInv, [Saved!Next]_(Saved!vars) PROVE SavedInv'
  BY SavedTypedStep, SerialisedStep, SavesStep, StartsStep, RunsStep, DeletionsStep DEF SavedInv

-------------------------------------------------------------------------------
(* The scenarios together                                                  *)

\* What each scenario keeps.
ServicesInv ==
  /\ scenario = "replay" => Replayed!GuardInv /\ Replayed!OneRunPerMessage
  /\ scenario = "webhooks" => Rated!GuardInv /\ Rated!RateInv
  /\ scenario = "uploads" => Stocked!IInv
  /\ scenario = "artifacts" => Stored!IInv
  /\ scenario = "connections" => Edited!EditedInv
  /\ scenario = "connections_serial" => Tested!SerialInv
  /\ scenario = "versions" => SavedInv
  /\ scenario = "feed" => Watched!IInv
  /\ scenario = "deploy" => Started!IInv
  /\ scenario = "schedules" => Polled!IInv

LEMMA ServicesInit == Init => ServicesInv
<1>1. ASSUME Replayed!Init PROVE Replayed!GuardInv /\ Replayed!OneRunPerMessage
  BY <1>1, ConstantsAreSound, Replayed!GuardInit DEF Replayed!Init, Replayed!OneRunPerMessage
<1>2. ASSUME Rated!Init PROVE Rated!GuardInv /\ Rated!RateInv
  BY <1>2, ConstantsAreSound, Rated!GuardInit, Rated!RateInit
<1>3. ASSUME Saved!Init PROVE SavedInv
  BY <1>3, SavedInit
<1>4. CASE WebhooksInit
  BY <1>1, <1>2, <1>4 DEF WebhooksInit, ServicesInv
<1>5. CASE UploadsInit \/ ArtifactsInit
  BY <1>5, StockedInit, StoredInit DEF UploadsInit, ArtifactsInit, ServicesInv
<1>6. CASE ConnectionsInit
  BY <1>6, EditedInit, TestedInit DEF ConnectionsInit, ServicesInv
<1>7. CASE VersionsInit
  BY <1>3, <1>7 DEF VersionsInit, ServicesInv
<1>8. CASE SchedulesInit
  BY <1>8, PolledInit DEF SchedulesInit, ServicesInv
<1>9. CASE FeedInit \/ DeployInit
  BY <1>9, WatchedInit, StartedInit DEF FeedInit, DeployInit, ServicesInv
<1> QED
  BY <1>4, <1>5, <1>6, <1>7, <1>8, <1>9 DEF Init

LEMMA ServicesStep == ServicesInv /\ [Next]_vars => ServicesInv'
<1> SUFFICES ASSUME ServicesInv, [Next]_vars PROVE ServicesInv'
  OBVIOUS
<1>1. ASSUME scenario = "replay", [Replayed!Next]_(Replayed!vars)
      PROVE  Replayed!GuardInv' /\ Replayed!OneRunPerMessage'
  <2>1. Replayed!GuardInv /\ Replayed!OneRunPerMessage
    BY <1>1 DEF ServicesInv
  <2>2. Replayed!GuardInv'
    BY <1>1, <2>1, ConstantsAreSound, Replayed!GuardStep
  <2> QED
    BY <1>1, <2>1, <2>2, ConstantsAreSound, RetentionIsLong, Replayed!OneRunStep
<1>2. ASSUME scenario = "webhooks", [Rated!Next]_(Rated!vars)
      PROVE  Rated!GuardInv' /\ Rated!RateInv'
  <2>1. Rated!GuardInv /\ Rated!RateInv
    BY <1>2 DEF ServicesInv
  <2>2. Rated!GuardInv'
    BY <1>2, <2>1, ConstantsAreSound, Rated!GuardStep
  <2> QED
    BY <1>2, <2>1, <2>2, ConstantsAreSound, RetentionIsLong, Rated!RateStep
<1>3. ASSUME scenario = "uploads", [Stocked!Next]_(Stocked!vars) PROVE Stocked!IInv'
  BY <1>3, StockedStep DEF ServicesInv
<1>4. ASSUME scenario = "artifacts", [Stored!Next]_(Stored!vars) PROVE Stored!IInv'
  BY <1>4, StoredStep DEF ServicesInv
<1>5. ASSUME scenario = "connections", [Edited!Next]_(Edited!vars) PROVE Edited!EditedInv'
  BY <1>5, EditedStep DEF ServicesInv
<1>6. ASSUME scenario = "connections_serial", [Tested!Next]_(Tested!vars) PROVE Tested!SerialInv'
  BY <1>6, TestedStep DEF ServicesInv
<1>7. ASSUME scenario = "versions", [Saved!Next]_(Saved!vars) PROVE SavedInv'
  BY <1>7, SavedStep DEF ServicesInv
<1>8. ASSUME scenario = "feed", [Watched!Next]_(Watched!vars) PROVE Watched!IInv'
  BY <1>8, WatchedStep DEF ServicesInv
<1>9. ASSUME scenario = "deploy", [Started!Next]_(Started!vars) PROVE Started!IInv'
  BY <1>9, StartedStep DEF ServicesInv
<1>10. ASSUME scenario = "schedules", [Polled!Next]_(Polled!vars) PROVE Polled!IInv'
  BY <1>10, PolledStep DEF ServicesInv
<1>11. CASE WebhooksNext
  BY <1>1, <1>2, <1>11 DEF WebhooksNext, ServicesInv
<1>12. CASE UploadsNext \/ ArtifactsNext
  BY <1>3, <1>4, <1>12 DEF UploadsNext, ArtifactsNext, ServicesInv
<1>13. CASE ConnectionsNext
  BY <1>5, <1>6, <1>13 DEF ConnectionsNext, ServicesInv
<1>14. CASE VersionsNext
  BY <1>7, <1>14 DEF VersionsNext, ServicesInv
<1>15. CASE FeedNext
  BY <1>8, <1>15 DEF FeedNext, ServicesInv
<1>16. CASE DeployNext
  BY <1>9, <1>16 DEF DeployNext, ServicesInv
<1>17. CASE SchedulesNext
  BY <1>10, <1>17 DEF SchedulesNext, ServicesInv
<1>18. CASE UNCHANGED vars
  <2>1. UNCHANGED scenario /\ UNCHANGED (Replayed!vars) /\ UNCHANGED (Rated!vars)
    BY <1>18 DEF vars, webhooksVars, commonVars, Replayed!vars, Rated!vars
  <2>2. UNCHANGED (Stocked!vars) /\ UNCHANGED (Stored!vars)
    BY <1>18 DEF vars, uploadsVars, artifactsVars, commonVars, Stocked!vars, Stored!vars
  <2>3. UNCHANGED (Edited!vars) /\ UNCHANGED (Tested!vars) /\ UNCHANGED (Saved!vars)
    BY <1>18 DEF vars, connectionsVars, versionsVars, commonVars, Edited!vars, Tested!vars,
       Saved!vars
  <2>4. UNCHANGED (Watched!vars) /\ UNCHANGED (Started!vars)
    BY <1>18 DEF vars, feedVars, deployVars, commonVars, Watched!vars, Started!vars, Started!db,
       Started!disk
  <2>5. UNCHANGED (Polled!vars)
    BY <1>18 DEF vars, schedulesVars, commonVars, Polled!vars
  <2> QED
    BY <1>1, <1>2, <1>3, <1>4, <1>5, <1>6, <1>7, <1>8, <1>9, <1>10, <2>1, <2>2, <2>3, <2>4, <2>5
       DEF ServicesInv
<1> QED
  BY <1>11, <1>12, <1>13, <1>14, <1>15, <1>16, <1>17, <1>18 DEF Next

LEMMA ServicesInvariant == Spec => []ServicesInv
  BY ServicesInit, ServicesStep, PTL DEF Spec

\* A signed message makes at most one run, no window holds more runs than the
\* highest limit, and a run of the last Retention has its ledger row: for any
\* number of requests, deliveries, receivers and edits.
THEOREM WebhooksStayGuarded == Spec => []WebhooksAreGuarded
<1>1. ServicesInv => WebhooksAreGuarded
  BY DEF ServicesInv, WebhooksAreGuarded, Rated!GuardInv, Rated!RateInv
<1> QED
  BY <1>1, ServicesInvariant, PTL

\* The quota lock and the roll-back of upload_files: any number of requests and
\* files, of any sizes.
THEOREM UploadsStayAtomic == Spec => []UploadsAreAtomic
<1>1. ServicesInv => UploadsAreAtomic
  BY StockedPromises DEF ServicesInv, UploadsAreAtomic
<1> QED
  BY <1>1, ServicesInvariant, PTL

\* A query artifact keeps the run's records until the expiry its node's result
\* named, whoever prunes, queries and executes the node again: after the first
\* execution, and after every one that began with nobody about to delete the file
\* and the file not about to expire.
THEOREM PromisesStayKept == Spec => []PromisesAreKept
<1>1. ServicesInv => PromisesAreKept
  BY DEF ServicesInv, PromisesAreKept, Stored!IInv, Stored!FirstIsCalm, Stored!AfterItRan,
     Stored!PromisesAreKept
<1> QED
  BY <1>1, ServicesInvariant, PTL

\* A connection's configuration is the one saved last, and without overlapping
\* requests it is valid only after it has passed a test.
THEOREM ConnectionsStaySound == Spec => []ConnectionsAreSound
<1>1. ServicesInv => ConnectionsAreSound
  BY DEF ServicesInv, ConnectionsAreSound, Edited!EditedInv, Tested!SerialInv
<1> QED
  BY <1>1, ServicesInvariant, PTL

\* Saves, runs and deletions around the versions of a graph.
THEOREM VersionsStaySound == Spec => []VersionsAreSound
<1>1. ServicesInv => VersionsAreSound
  BY DEF ServicesInv, VersionsAreSound, SavedInv, DeletionsSee,
     Saved!PinnedVersionsKeepTheirFiles
<1> QED
  BY <1>1, ServicesInvariant, PTL

\* Each open connection is listed once, none whose handler ended in order or whose
\* failure a broadcast has seen to its end, and nobody is told twice: any number of
\* connections and senders, and handlers that end without disconnecting.
THEOREM FeedStaysExact == Spec => []FeedIsExact
<1>1. ServicesInv => FeedIsExact
  BY WatchedIsExact DEF ServicesInv, FeedIsExact
<1> QED
  BY <1>1, ServicesInvariant, PTL

\* Wherever earlier starts were cut off, the API serves a whole schema, readable
\* connections and the imported files, and no step replaces a file of the volume.
THEOREM StartsStaySafe == Spec => StartsAreSafe
<1>1. ServicesInv => (scenario = "deploy" => /\ Started!ServesWholeSchema
                                             /\ Started!ConnectionsAreReadable
                                             /\ Started!ImportIsExact)
  BY StartedPromises DEF ServicesInv
<1>2. ServicesInv /\ [Next]_vars => [scenario = "deploy" => Started!OwnFilesAreKept]_vars
  <2> SUFFICES ASSUME ServicesInv, Next, scenario = "deploy" PROVE Started!OwnFilesAreKept
    OBVIOUS
  <2>1. Started!Next
    BY DEF Next, SchedulesNext, WebhooksNext, UploadsNext, ArtifactsNext, FeedNext, DeployNext,
       ConnectionsNext, VersionsNext
  <2> QED
    BY <2>1, StartedKeepsOwn DEF ServicesInv
<1> QED
  BY <1>1, <1>2, ServicesInvariant, PTL DEF Spec, StartsAreSafe

\* An occurrence of a schedule runs once, on the cadence of its edition, and with
\* the advance of its row: any number of processes, triggers and clocks that
\* differ by any Skew.
THEOREM SchedulesStayKept == Spec => SchedulesAreKept
<1>1. ServicesInv => (scenario = "schedules" => Polled!CadenceIsKept /\ Polled!RowsAreConsistent)
  BY PolledPromises DEF ServicesInv
<1>2. ServicesInv /\ [Next]_vars => [scenario = "schedules" => Polled!DispatchIsAtomic]_vars
  <2> SUFFICES ASSUME ServicesInv, Next, scenario = "schedules" PROVE Polled!DispatchIsAtomic
    OBVIOUS
  <2>1. Polled!Next
    BY DEF Next, SchedulesNext, WebhooksNext, UploadsNext, ArtifactsNext, FeedNext, DeployNext,
       ConnectionsNext, VersionsNext
  <2> QED
    BY <2>1, PolledAtomic DEF ServicesInv
<1> QED
  BY <1>1, <1>2, ServicesInvariant, PTL DEF Spec, SchedulesAreKept
===============================================================================
