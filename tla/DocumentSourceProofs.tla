------------------------- MODULE DocumentSourceProofs -------------------------
(***************************************************************************)
(* Proofs about DocumentSource, for any files, parsers and extractions.    *)
(***************************************************************************)
EXTENDS DocumentSource, Recursion, FiniteSetTheorems, TLAPS

-------------------------------------------------------------------------------
(* Two files: checkpoints                                                  *)

Counts == 0..MaxLength

\* The elements a progress accounts for: tombstones go no further.
Bound(it) == IF it.reconcile = None THEN it.next ELSE it.reconcile

Sound(it) ==
  it # None =>
    /\ it \in [path : Paths, doc : Documents, draw : Draws, next : Counts,
               tomb : Nat \cup {None}, reconcile : Counts \cup {None}]
    /\ it.reconcile # None => it.next <= it.reconcile
    /\ it.tomb # None => it.tomb <= Bound(it)

EntriesAreSound(es) ==
  /\ DOMAIN es \subseteq Paths
  /\ \A p \in DOMAIN es : es[p] \in [doc : Documents, draw : Draws, count : Counts]

\* What the path at hand may have in the destination, and what is known of it.
JobIsSound ==
  /\ {"path", "doc", "count", "index"} \subseteq DOMAIN job
  /\ job.path \in Paths /\ job.count \in Counts /\ job.index \in Nat
  /\ At(start, job.path) =>
       start.next <= job.count /\ OrZero(start.reconcile) <= job.count
  /\ (pc = "bury" /\ At(pending, job.path)) => job.count <= Bound(pending)
  /\ (pc = "bury" => job.doc # None) =>
       {"draw", "reconcile"} \subseteq DOMAIN job /\ job.doc \in Documents /\ job.draw \in Draws

DocumentsRun ==
  /\ EntriesAreSound(entries) /\ Sound(start) /\ Sound(pending)
  /\ seen \subseteq Paths /\ todo \subseteq Paths
  /\ pc \in {"remove", "file"} => pending \in {None, start}
  /\ pc \in {"bury", "emit", "commit"} =>
       /\ JobIsSound
       /\ \/ pending \in {None, start}
          \/ At(pending, job.path) /\ (pc = "emit" => pending.tomb = None)

DocumentsInv ==
  /\ files \in [Paths -> Versions \cup {Absent}] /\ parser \in Parsers
  /\ pc \in {"idle", "stopped", "remove", "bury", "file", "emit", "commit"}
  /\ EntriesAreSound(saved.files) /\ Sound(saved.progress)
  /\ message # None => EntriesAreSound(message.files) /\ Sound(message.progress)
  /\ pc \notin {"idle", "stopped"} => DocumentsRun

LEMMA FilesConstants ==
  ASSUME DocumentAssumption
  PROVE  /\ Paths \subseteq Nat /\ None \notin Nat /\ IsFiniteSet(Extractions)
       /\ Extractions # {} /\ Length \in [Documents \X Draws -> Nat]
BY DEF DocumentAssumption, Documents

\* Some extraction is the longest.
LEMMA LongestIs ==
  ASSUME DocumentAssumption
  PROVE  /\ MaxLength \in Nat
       /\ \A e \in Extractions : Length[e] \in Counts
<1> DEFINE E == Extractions
           L == {Length[e] : e \in E}
           n == Cardinality(E)
<1>1. E = Documents \X Draws /\ \A e \in E : Length[e] \in Nat
  BY FilesConstants DEF Extractions, Documents
<1>2. n \in Nat /\ ExistsBijection(1..n, E)
  BY FilesConstants, FS_CardinalityType
<1>3. PICK f : f \in Bijection(1..n, E)
  BY <1>2 DEF ExistsBijection
<1>4. f \in [1..n -> E] /\ \A e \in E : \E i \in 1..n : f[i] = e
  BY <1>3 DEF Bijection, Injection, Surjection
<1> DEFINE o == [i \in 1..n |-> Length[f[i]]]
<1>5. PICK m \in 1..n : \A i \in 1..n : o[i] <= o[m]
  <2>1. \A i \in 1..n : o[i] \in Nat
    BY <1>1, <1>4
  <2>2. 1..n # {} /\ 1..n \in SUBSET (1..n)
    BY <1>4, FilesConstants
  <2> HIDE DEF n, o
  <2> QED
    BY <1>2, <2>1, <2>2, LastInOrder
<1>6. \A e \in E : Length[e] <= Length[f[m]]
  <2> HIDE DEF n, E
  <2> QED
    BY <1>4, <1>5
<1>7. f[m] \in E
  <2> HIDE DEF n, E
  <2> QED
    BY <1>4
<1>8. \E x \in L : \A y \in L : x >= y
  <2>1. Length[f[m]] \in L /\ \A y \in L : Length[f[m]] >= y
    BY <1>1, <1>6, <1>7
  <2> QED
    BY <2>1
<1>9. MaxLength = CHOOSE x \in L : \A y \in L : x >= y
  BY DEF MaxLength, Max
<1>10. MaxLength \in L /\ \A y \in L : MaxLength >= y
  <2> HIDE DEF L
  <2> QED
    BY <1>8, <1>9
<1>11. MaxLength \in Nat
  BY <1>1, <1>10
<1> QED
  BY <1>1, <1>10, <1>11 DEF Counts

LEMMA SoundIsValid ==
  ASSUME DocumentAssumption, NEW st, EntriesAreSound(st.files), Sound(st.progress)
  PROVE  Valid(st)
<1>1. \A p \in DOMAIN st.files :
        st.files[p] \in [doc : Documents, draw : Draws, count : 0..MaxLength]
  BY DEF EntriesAreSound, Counts, MaxLength
<1>2. ASSUME st.progress # None
      PROVE  /\ st.progress.path \in Paths /\ st.progress.doc \in Documents
             /\ st.progress.next \in 0..MaxLength
             /\ st.progress.reconcile # None => st.progress.reconcile >= st.progress.next
             /\ st.progress.tomb # None => st.progress.tomb \in 0..Bound(st.progress)
  <2> DEFINE it == st.progress
  <2>1. /\ it.path \in Paths /\ it.doc \in Documents /\ it.next \in Counts
        /\ it.tomb \in Nat \cup {None} /\ it.reconcile \in Counts \cup {None}
        /\ it.reconcile # None => it.next <= it.reconcile
        /\ it.tomb # None => it.tomb <= Bound(it)
    BY <1>2 DEF Sound
  <2>2. Bound(it) \in Nat /\ it.next \in Nat
    BY <2>1, LongestIs DEF Bound, Counts
  <2> HIDE DEF it
  <2>3. it.reconcile # None => it.reconcile >= it.next
    BY <2>1, LongestIs DEF Counts
  <2>4. it.tomb # None => it.tomb \in 0..Bound(it)
    BY <2>1, <2>2
  <2> QED
    BY <2>1, <2>3, <2>4 DEF it, Counts, MaxLength
<1> QED
  BY <1>1, <1>2 DEF EntriesAreSound, Valid, Bound, Documents

LEMMA FilesInit == ASSUME Init PROVE DocumentsInv
<1>1. saved = [files |-> <<>>, progress |-> None] /\ DOMAIN saved.files = {}
  BY DEF Init
<1>2. EntriesAreSound(saved.files) /\ Sound(saved.progress)
  BY <1>1 DEF EntriesAreSound, Sound
<1> QED
  BY <1>2 DEF Init, DocumentsInv

LEMMA KnownIs ==
  ASSUME DocumentAssumption, EntriesAreSound(entries), Sound(start), NEW p
  PROVE  /\ Known(p) \in Counts
         /\ At(start, p) =>
              start.next <= Known(p) /\ OrZero(start.reconcile) <= Known(p)
<1> DEFINE c == Count(p)
           z == OrZero(start.reconcile)
           a == AtLeast(start.next, z)
<1>1. MaxLength \in Nat /\ c \in Counts
  BY LongestIs DEF Count, EntriesAreSound, Counts
<1>2. CASE ~At(start, p)
  BY <1>1, <1>2 DEF Known, AtLeast, Counts
<1>3. CASE At(start, p)
  <2>1. start.next \in Counts /\ z \in Counts
    BY <1>1, <1>3 DEF At, Sound, OrZero, Counts
  <2>2. Known(p) = AtLeast(c, a)
    BY <1>3 DEF Known
  <2>3. \A x, y \in Counts : /\ AtLeast(x, y) \in Counts
                            /\ x <= AtLeast(x, y) /\ y <= AtLeast(x, y)
    BY <1>1 DEF AtLeast, Counts
  <2>4. a \in Counts /\ start.next <= a /\ z <= a
    BY <2>1, <2>3
  <2>5. Known(p) \in Counts /\ a <= Known(p)
    BY <1>1, <2>2, <2>3, <2>4
  <2>6. start.next \in Int /\ z \in Int /\ a \in Int /\ Known(p) \in Int
    BY <2>1, <2>4, <2>5 DEF Counts
  <2> HIDE DEF a, z
  <2>7. start.next <= Known(p) /\ z <= Known(p)
    BY <2>4, <2>5, <2>6
  <2> QED
    BY <2>5, <2>7 DEF z
<1> QED
  BY <1>2, <1>3

LEMMA NextPathIs ==
  ASSUME DocumentAssumption, NEW S \in SUBSET Paths, S # {}
  PROVE  NextPath(S) \in S
<1>1. PICK m \in S : \A k \in S : m <= k
  <2>1. S \subseteq Nat
    BY FilesConstants
  <2> QED
    BY <2>1, LeastNat
<1>2. Min(S) \in S
  BY <1>1 DEF Min
<1> QED
  BY <1>2 DEF NextPath

LEMMA FilesRemove == ASSUME DocumentAssumption, DocumentsInv, RemovePath PROVE DocumentsRun'
<1> DEFINE p == NextPath(todo)
           n == Known(p)
           own == IF pending = None /\ p \in DOMAIN entries
                  THEN Progress(p, entries[p].doc, entries[p].draw, n, 0, None)
                  ELSE IF At(pending, p)
                  THEN [pending EXCEPT !.next = n,
                          !.reconcile = IF pending.reconcile = None THEN None ELSE n]
                  ELSE pending
<1>0. DocumentsRun /\ pc = "remove" /\ todo # {} /\ pending \in {None, start}
  BY DEF DocumentsInv, RemovePath, DocumentsRun
<1>1. /\ pending' = own /\ todo' \subseteq todo /\ pc' = "bury"
      /\ job' = [path |-> p, count |-> n, doc |-> None,
                 index |-> IF At(own, p) THEN OrZero(own.tomb) ELSE 0]
      /\ UNCHANGED <<start, entries, seen>>
  BY DEF RemovePath
<1>2. p \in Paths /\ p \in todo
  BY <1>0, NextPathIs DEF DocumentsRun
<1>3. /\ n \in Counts /\ MaxLength \in Nat
      /\ At(start, p) => start.next <= n /\ OrZero(start.reconcile) <= n
  BY <1>0, KnownIs, LongestIs DEF DocumentsRun
<1> HIDE DEF p, n
<1>4. /\ Sound(own) /\ (At(own, p) => Bound(own) = n)
      /\ own \in {None, start} \/ At(own, p)
  <2>1. CASE pending = None /\ p \in DOMAIN entries
    <3>1. own = [path |-> p, doc |-> entries[p].doc, draw |-> entries[p].draw, next |-> n,
                 tomb |-> 0, reconcile |-> None]
      BY <2>1 DEF Progress
    <3>2. entries[p].doc \in Documents /\ entries[p].draw \in Draws
      BY <1>0, <2>1 DEF DocumentsRun, EntriesAreSound
    <3> HIDE DEF own
    <3>3. Bound(own) = n /\ 0 <= n
      BY <1>3, <3>1 DEF Bound, Counts
    <3>4. own \in [path : Paths, doc : Documents, draw : Draws, next : Counts,
                   tomb : Nat \cup {None}, reconcile : Counts \cup {None}]
      BY <1>2, <1>3, <3>1, <3>2
    <3>5. Sound(own)
      BY <3>1, <3>3, <3>4 DEF Sound
    <3>6. own.path = p
      BY <3>1
    <3> QED
      BY <3>3, <3>5, <3>6 DEF At
  <2>2. CASE pending # None /\ At(pending, p)
    <3>1. own = [pending EXCEPT !.next = n,
                   !.reconcile = IF pending.reconcile = None THEN None ELSE n]
      BY <2>2
    <3>2. /\ pending = start /\ pending.path = p
          /\ pending \in [path : Paths, doc : Documents, draw : Draws, next : Counts,
                          tomb : Nat \cup {None}, reconcile : Counts \cup {None}]
          /\ pending.tomb # None => pending.tomb <= Bound(pending)
      BY <1>0, <2>2 DEF DocumentsRun, Sound, At
    <3> HIDE DEF own
    <3>3. /\ own \in [path : Paths, doc : Documents, draw : Draws, next : Counts,
                      tomb : Nat \cup {None}, reconcile : Counts \cup {None}]
          /\ own.path = p /\ own.next = n /\ own.tomb = pending.tomb
          /\ own.reconcile = IF pending.reconcile = None THEN None ELSE n
      BY <1>3, <3>1, <3>2
    <3>4. Bound(own) = n
      BY <3>3 DEF Bound
    <3>5. Bound(pending) <= n
      BY <1>3, <2>2, <3>2 DEF Bound, OrZero
    <3>6. own.tomb # None => own.tomb <= n
      <4> SUFFICES ASSUME own.tomb # None PROVE own.tomb <= n
        OBVIOUS
      <4>1. own.tomb \in Nat /\ Bound(pending) \in Nat /\ n \in Nat
        BY <1>3, <3>2, <3>3 DEF Counts, Bound
      <4> QED
        BY <3>2, <3>3, <3>5, <4>1
    <3>7. own.reconcile # None => own.next <= own.reconcile
      BY <1>3, <3>3 DEF Counts
    <3>8. Sound(own)
      BY <3>3, <3>4, <3>6, <3>7 DEF Sound
    <3>9. own = None \/ At(own, p)
      BY <3>3 DEF At
    <3> QED
      BY <3>4, <3>8, <3>9
  <2>3. CASE ~(pending = None /\ p \in DOMAIN entries) /\ ~At(pending, p)
    BY <1>0, <2>3 DEF DocumentsRun
  <2> QED
    BY <2>1, <2>2, <2>3 DEF At
<1> HIDE DEF own
<1>5. (IF At(own, p) THEN OrZero(own.tomb) ELSE 0) \in Nat
  BY <1>4 DEF Sound, At, OrZero
<1>6. /\ job'.path = p /\ job'.count = n /\ job'.doc = None /\ job'.index \in Nat
      /\ {"path", "doc", "count", "index"} \subseteq DOMAIN job'
  BY <1>1, <1>5
<1>7. JobIsSound'
  <2>1. job'.path \in Paths /\ job'.count \in Counts
    BY <1>2, <1>3, <1>6
  <2>2. At(start, job.path)' =>
          start'.next <= job'.count /\ OrZero(start.reconcile)' <= job'.count
    BY <1>1, <1>3, <1>6 DEF At, OrZero
  <2>3. At(pending, job.path)' => job'.count <= Bound(pending)'
    BY <1>1, <1>3, <1>4, <1>6 DEF At, Bound, Counts
  <2> QED
    BY <1>1, <1>6, <2>1, <2>2, <2>3 DEF JobIsSound
<1>8. EntriesAreSound(entries)' /\ Sound(start)' /\ Sound(pending)'
  BY <1>0, <1>1, <1>4 DEF DocumentsRun, EntriesAreSound, Sound, Bound
<1>9. (pending \in {None, start} \/ At(pending, job.path))'
  BY <1>1, <1>4, <1>6 DEF At
<1> QED
  BY <1>0, <1>1, <1>7, <1>8, <1>9 DEF DocumentsRun

\* Steps that leave the run as it is, or visit a path without a trace.
LEMMA FilesKept ==
  ASSUME DocumentsRun, UNCHANGED <<pc, start, entries, pending, seen, job>>, todo' \subseteq todo
  PROVE  DocumentsRun'
<1>1. EntriesAreSound(entries)' /\ Sound(start)' /\ Sound(pending)'
  BY DEF DocumentsRun, EntriesAreSound, Sound, Bound
<1>2. JobIsSound => JobIsSound'
  BY DEF JobIsSound, At, OrZero, Bound, Counts
<1> QED
  BY <1>1, <1>2 DEF DocumentsRun, At

LEMMA FilesStart == ASSUME DocumentsInv, StartRun PROVE DocumentsRun'
<1>1. /\ pc' = "remove" /\ start' = saved.progress /\ pending' = saved.progress
      /\ entries' = saved.files /\ seen' \subseteq Paths /\ todo' \subseteq Paths
  BY DEF StartRun, Discovered
<1>2. EntriesAreSound(saved.files) /\ Sound(saved.progress)
  BY DEF DocumentsInv
<1>3. EntriesAreSound(entries)' /\ Sound(start)' /\ Sound(pending)'
  BY <1>1, <1>2 DEF EntriesAreSound, Sound, Bound
<1> QED
  BY <1>1, <1>3 DEF DocumentsRun

LEMMA FilesBuries ==
  ASSUME DocumentAssumption, DocumentsInv, Tombstone
  PROVE  /\ DocumentsRun'
         /\ message' # None => EntriesAreSound(message'.files) /\ Sound(message'.progress)
<1>1. /\ DocumentsRun /\ JobIsSound /\ pc = "bury" /\ job.index < job.count
      /\ job.index \in Nat /\ job.count \in Counts /\ MaxLength \in Nat
      /\ UNCHANGED <<pc, start, entries, pending, seen, todo>>
      /\ job' = [job EXCEPT !.index = @ + 1]
      /\ Sound(pending) /\ EntriesAreSound(entries)
  BY LongestIs DEF DocumentsInv, Tombstone, DocumentsRun, JobIsSound
<1>2. /\ job'.path = job.path /\ job'.count = job.count /\ job'.doc = job.doc
      /\ job'.index = job.index + 1 /\ DOMAIN job' = DOMAIN job
      /\ "draw" \in DOMAIN job => job'.draw = job.draw
  BY <1>1 DEF JobIsSound
<1>3. JobIsSound'
  <2>1. job'.index \in Nat
    BY <1>1, <1>2
  <2>2. At(start, job.path)' =>
          start'.next <= job'.count /\ OrZero(start.reconcile)' <= job'.count
    BY <1>1, <1>2 DEF JobIsSound, At, OrZero
  <2>3. At(pending, job.path)' => job'.count <= Bound(pending)'
    BY <1>1, <1>2 DEF JobIsSound, At, Bound
  <2> QED
    BY <1>1, <1>2, <2>1, <2>2, <2>3 DEF JobIsSound
<1>4. DocumentsRun'
  <2>1. EntriesAreSound(entries)' /\ Sound(start)' /\ Sound(pending)'
    BY <1>1 DEF DocumentsRun, EntriesAreSound, Sound, Bound
  <2> QED
    BY <1>1, <1>2, <1>3, <2>1 DEF DocumentsRun, At
<1> DEFINE it == IF At(pending, job.path)
                 THEN [pending EXCEPT !.tomb = job.index + 1] ELSE pending
<1>5. Sound(it)
  <2>1. CASE At(pending, job.path)
    <3>1. /\ pending \in [path : Paths, doc : Documents, draw : Draws, next : Counts,
                          tomb : Nat \cup {None}, reconcile : Counts \cup {None}]
          /\ pending.reconcile # None => pending.next <= pending.reconcile
          /\ job.count <= Bound(pending)
      BY <1>1, <2>1 DEF Sound, At, JobIsSound
    <3>2. /\ it \in [path : Paths, doc : Documents, draw : Draws, next : Counts,
                     tomb : Nat \cup {None}, reconcile : Counts \cup {None}]
          /\ it.tomb = job.index + 1 /\ it.next = pending.next
          /\ it.reconcile = pending.reconcile
      BY <1>1, <2>1, <3>1
    <3> HIDE DEF it
    <3>3. Bound(it) = Bound(pending) /\ Bound(pending) \in Int
      BY <1>1, <3>1, <3>2 DEF Bound, Counts
    <3>4. job.count \in Int /\ job.index \in Int
      BY <1>1 DEF Counts
    <3>5. it.tomb <= Bound(it)
      <4> HIDE DEF Bound
      <4> QED
        BY <1>1, <3>1, <3>2, <3>3, <3>4
    <3> QED
      BY <3>1, <3>2, <3>5 DEF Sound
  <2>2. CASE ~At(pending, job.path)
    BY <1>1, <2>2
  <2> QED
    BY <2>1, <2>2
<1>6. message' = message \/ message' = [files |-> entries, progress |-> it]
  BY DEF Tombstone, Checkpoint
<1> HIDE DEF it
<1>7. CASE message' = message
  BY <1>4, <1>7 DEF DocumentsInv
<1>8. CASE message' = [files |-> entries, progress |-> it]
  BY <1>1, <1>4, <1>5, <1>8
<1> QED
  BY <1>6, <1>7, <1>8

\* What is left of the progress once the path at hand is settled.
LEMMA SettledIsSound ==
  ASSUME DocumentsRun, pc \in {"bury", "commit"}, pc' \in {"remove", "file"},
         UNCHANGED <<start, seen, todo>>, NEW es, EntriesAreSound(es), Settle(es)
  PROVE  DocumentsRun' /\ EntriesAreSound(message'.files) /\ Sound(message'.progress)
<1> DEFINE left == IF At(pending, job.path) THEN None ELSE pending
<1>1. /\ entries' = es /\ pending' = left
      /\ message' = [files |-> es, progress |-> left]
  BY DEF Settle, Checkpoint
<1>2. Sound(left) /\ left \in {None, start}
  BY DEF DocumentsRun, Sound
<1> HIDE DEF left
<1>3. EntriesAreSound(message'.files) /\ Sound(message'.progress)
  BY <1>1, <1>2
<1>4. Sound(start)' /\ Sound(pending)'
  BY <1>1, <1>2 DEF DocumentsRun, Sound, Bound
<1>5. EntriesAreSound(entries)'
  BY <1>1 DEF EntriesAreSound
<1> QED
  BY <1>1, <1>2, <1>3, <1>4, <1>5 DEF DocumentsRun

LEMMA FilesBuried ==
  ASSUME DocumentsInv, Buried
  PROVE  /\ DocumentsRun'
         /\ message' # None => EntriesAreSound(message'.files) /\ Sound(message'.progress)
<1>1. DocumentsRun /\ JobIsSound /\ pc = "bury" /\ UNCHANGED <<start, seen, todo>>
  BY DEF DocumentsInv, Buried, DocumentsRun
<1>2. CASE job.doc = None
  <2> DEFINE es == [p \in DOMAIN entries \ {job.path} |-> entries[p]]
  <2>1. pc' = "remove" /\ Settle(es)
    BY <1>2 DEF Buried
  <2>2. EntriesAreSound(es)
    BY <1>1 DEF DocumentsRun, EntriesAreSound
  <2> HIDE DEF es
  <2> QED
    BY <1>1, <2>1, <2>2, SettledIsSound
<1>3. CASE job.doc # None
  <2>1. pc' = "commit" /\ UNCHANGED <<entries, pending, message, job>>
    BY <1>3 DEF Buried
  <2>2. JobIsSound'
    BY <1>1, <1>3, <2>1 DEF JobIsSound, At, OrZero, Bound
  <2>3. EntriesAreSound(entries)' /\ Sound(start)' /\ Sound(pending)'
    BY <1>1, <2>1 DEF DocumentsRun, EntriesAreSound, Sound, Bound
  <2>4. DocumentsRun'
    BY <1>1, <2>1, <2>2, <2>3 DEF DocumentsRun, At
  <2> QED
    BY <2>1, <2>4 DEF DocumentsInv
<1> QED
  BY <1>2, <1>3

LEMMA FilesExtract == ASSUME DocumentAssumption, DocumentsInv, ExtractFile PROVE DocumentsRun'
<1> DEFINE p == NextPath(todo)
           doc == <<Snapshot(p), parser>>
           n == Known(p)
           r == ResumeAt(p, doc)
<1>1. /\ DocumentsRun /\ pc = "file" /\ pc' = "emit" /\ todo # {} /\ todo' \subseteq todo
      /\ pending \in {None, start} /\ files[p] # Absent
      /\ UNCHANGED <<start, entries, seen, pending>>
  BY DEF DocumentsInv, ExtractFile, DocumentsRun
<1>2. PICK d \in Draws :
        job' = [path |-> p, doc |-> doc, draw |-> d, index |-> r, resume |-> r, count |-> n,
                reconcile |-> Reconciles(p, doc)]
  BY DEF ExtractFile
<1>3. p \in Paths
  BY <1>1, NextPathIs DEF DocumentsRun
<1>4. doc \in Documents
  BY <1>1, <1>3 DEF DocumentsInv, Documents, Snapshot
<1>5. /\ n \in Counts
      /\ At(start, p) => start.next <= n /\ OrZero(start.reconcile) <= n
  BY <1>1, KnownIs DEF DocumentsRun
<1>6. r \in Nat
  BY <1>1, LongestIs DEF ResumeAt, Matches, At, DocumentsRun, Sound, Counts
<1> HIDE DEF p, doc, n, r
<1>7. /\ job'.path = p /\ job'.doc = doc /\ job'.draw = d /\ job'.index = r /\ job'.count = n
      /\ {"path", "doc", "count", "index", "draw", "reconcile"} \subseteq DOMAIN job'
  BY <1>2
<1>8. At(start, job.path)' =>
        start'.next <= job'.count /\ OrZero(start.reconcile)' <= job'.count
  BY <1>1, <1>5, <1>7 DEF At, OrZero
<1>9. JobIsSound'
  BY <1>1, <1>3, <1>4, <1>5, <1>6, <1>7, <1>8 DEF JobIsSound
<1>10. EntriesAreSound(entries)' /\ Sound(start)' /\ Sound(pending)'
  BY <1>1 DEF DocumentsRun, EntriesAreSound, Sound, Bound
<1> QED
  BY <1>1, <1>9, <1>10 DEF DocumentsRun

\* What the extraction at hand will emit.
LEMMA ParsedIs ==
  ASSUME DocumentAssumption, DocumentsRun, pc \in {"emit", "commit"}
  PROVE  Parsed \in Counts
<1>1. <<job.doc, job.draw>> \in Extractions
  BY DEF DocumentsRun, JobIsSound, Extractions, Documents
<1> QED
  BY <1>1, LongestIs DEF Parsed

LEMMA FilesEmit ==
  ASSUME DocumentAssumption, DocumentsInv, EmitElement
  PROVE  /\ DocumentsRun'
         /\ message' # None => EntriesAreSound(message'.files) /\ Sound(message'.progress)
<1> DEFINE i == job.index + 1
           it == Progress(job.path, job.doc, job.draw, i, None,
                                   Reconcile(i))
<1>1. /\ DocumentsRun /\ JobIsSound /\ pc = "emit" /\ job.index < Parsed
      /\ job.path \in Paths /\ job.doc \in Documents /\ job.draw \in Draws
      /\ job.index \in Nat /\ job.count \in Counts /\ MaxLength \in Nat
      /\ UNCHANGED <<pc, start, entries, seen, todo>>
      /\ job' = [job EXCEPT !.index = i]
      /\ Sound(pending) /\ EntriesAreSound(entries)
  BY LongestIs DEF DocumentsInv, EmitElement, DocumentsRun, JobIsSound
<1>2. /\ job'.path = job.path /\ job'.count = job.count /\ job'.doc = job.doc
      /\ job'.index = i /\ DOMAIN job' = DOMAIN job
      /\ "draw" \in DOMAIN job => job'.draw = job.draw
  BY <1>1 DEF JobIsSound
<1>3. JobIsSound'
  <2>1. At(start, job.path)' =>
          start'.next <= job'.count /\ OrZero(start.reconcile)' <= job'.count
    BY <1>1, <1>2 DEF JobIsSound, At, OrZero
  <2>2. i \in Nat
    BY <1>1
  <2> HIDE DEF i
  <2> QED
    BY <1>1, <1>2, <2>1, <2>2 DEF JobIsSound
<1>4. i \in Counts
  BY <1>1, ParsedIs DEF Counts
<1> HIDE DEF i
<1>5. /\ Reconcile(i) \in Counts \cup {None}
      /\ Reconcile(i) # None => i <= Reconcile(i)
  BY <1>1, <1>4 DEF Reconcile, Counts
<1>6. it = [path |-> job.path, doc |-> job.doc, draw |-> job.draw, next |-> i, tomb |-> None,
            reconcile |-> Reconcile(i)]
  BY DEF Progress
<1> HIDE DEF it
<1>7. Sound(it) /\ it.path = job.path /\ it.tomb = None
  <2>1. it \in [path : Paths, doc : Documents, draw : Draws, next : Counts,
                tomb : Nat \cup {None}, reconcile : Counts \cup {None}]
    BY <1>1, <1>4, <1>5, <1>6
  <2>2. it.next = i /\ it.tomb = None /\ it.reconcile = Reconcile(i) /\ it.path = job.path
    BY <1>6
  <2>3. Sound(it)
    BY <1>5, <2>1, <2>2 DEF Sound
  <2> QED
    BY <2>2, <2>3
<1>8. EntriesAreSound(entries)' /\ Sound(start)'
  BY <1>1 DEF DocumentsRun, EntriesAreSound, Sound, Bound
<1>9. CASE UNCHANGED <<pending, message>>
  <2>1. Sound(pending)'
    BY <1>1, <1>9 DEF Sound, Bound
  <2>2. DocumentsRun'
    BY <1>1, <1>2, <1>3, <1>8, <1>9, <2>1 DEF DocumentsRun, At
  <2> QED
    BY <1>9, <2>2 DEF DocumentsInv
<1>10. CASE pending' = it /\ message' = [files |-> entries, progress |-> it]
  <2>1. Sound(pending)'
    BY <1>7, <1>10 DEF Sound, Bound
  <2>2. pending' = None \/ (At(pending, job.path)' /\ pending'.tomb = None)
    BY <1>2, <1>7, <1>10 DEF At
  <2>3. DocumentsRun'
    BY <1>1, <1>3, <1>8, <2>1, <2>2 DEF DocumentsRun
  <2> QED
    BY <1>1, <1>7, <1>10, <2>3
<1>11. \/ UNCHANGED <<pending, message>>
       \/ pending' = it /\ message' = [files |-> entries, progress |-> it]
  BY DEF EmitElement, Checkpoint, it, i
<1> QED
  BY <1>9, <1>10, <1>11

LEMMA FilesTail ==
  ASSUME DocumentAssumption, DocumentsInv, EndElements, pc' # "stopped"
  PROVE  DocumentsRun'
<1> DEFINE n == Parsed
           t == IF pending # None /\ pending.reconcile # None THEN pending.tomb ELSE None
           it == Progress(job.path, job.doc, job.draw, n, t, job.count)
<1>1. /\ DocumentsRun /\ JobIsSound /\ pc = "emit" /\ pc' \in {"bury", "commit"}
      /\ job.path \in Paths /\ job.doc \in Documents /\ job.draw \in Draws
      /\ job.count \in Counts /\ MaxLength \in Nat
      /\ UNCHANGED <<start, entries, seen, todo>>
      /\ \E k : job' = [job EXCEPT !.index = k]
      /\ Sound(pending) /\ EntriesAreSound(entries)
  BY LongestIs DEF DocumentsInv, EndElements, Stopped, DocumentsRun, JobIsSound
<1>2. n \in Counts /\ n \in Nat
  BY <1>1, ParsedIs DEF Counts
<1>3. /\ job'.path = job.path /\ job'.count = job.count /\ job'.doc = job.doc
      /\ DOMAIN job' = DOMAIN job
      /\ "draw" \in DOMAIN job => job'.draw = job.draw
  BY <1>1 DEF JobIsSound
<1>4. \/ pc' = "commit" /\ pending' = pending
      \/ /\ pc' = "bury" /\ job.count > n
         /\ IF pending = None \/ At(pending, job.path)
            THEN pending' = it ELSE pending' = pending
  BY <1>1 DEF EndElements, Stopped
<1>5. job'.index = AtLeast(n, IF At(pending, job.path)'
                                       THEN OrZero(pending.tomb)' ELSE 0)
  <2>1. job' = [job EXCEPT !.index = AtLeast(n,
                  IF At(pending', job.path) THEN OrZero(pending'.tomb) ELSE 0)]
    BY <1>1 DEF EndElements, Stopped
  <2>2. job'.index = AtLeast(n,
          IF At(pending', job.path) THEN OrZero(pending'.tomb) ELSE 0)
    BY <2>1 DEF JobIsSound
  <2> QED
    BY <1>3, <2>2 DEF At, OrZero
<1> HIDE DEF n
<1>6. ASSUME pc' = "bury", pending' = it, pending = None \/ At(pending, job.path),
             job.count > n
      PROVE  /\ Sound(pending)' /\ job'.count <= Bound(pending)'
             /\ pending' = None \/ At(pending, job.path)'
  <2>1. /\ t \in Nat \cup {None}
        /\ t # None => t <= job.count
    <3>1. CASE t = None
      BY <3>1
    <3>2. CASE t # None
      <4>1. /\ pending # None /\ pending.reconcile # None /\ t = pending.tomb
            /\ At(pending, job.path)
        BY <1>6, <3>2
      <4>2. pending = start
        BY <1>1, <3>2, <4>1 DEF DocumentsRun
      <4>3. /\ pending.tomb \in Nat \cup {None} /\ pending.tomb <= Bound(pending)
            /\ pending.reconcile \in Counts
        BY <1>1, <3>2, <4>1 DEF Sound
      <4>4. Bound(pending) = pending.reconcile /\ pending.reconcile <= job.count
        BY <1>1, <4>1, <4>2 DEF Bound, JobIsSound, OrZero
      <4>5. t \in Nat /\ job.count \in Nat /\ pending.reconcile \in Nat
        BY <1>1, <3>2, <4>1, <4>3 DEF Counts
      <4> HIDE DEF t, Bound
      <4> QED
        BY <4>1, <4>3, <4>4, <4>5
    <3> QED
      BY <3>1, <3>2
  <2> HIDE DEF t
  <2>2. it = [path |-> job.path, doc |-> job.doc, draw |-> job.draw, next |-> n, tomb |-> t,
              reconcile |-> job.count]
    BY DEF Progress
  <2> HIDE DEF it
  <2>3. it \in [path : Paths, doc : Documents, draw : Draws, next : Counts,
                tomb : Nat \cup {None}, reconcile : Counts \cup {None}]
    BY <1>1, <1>2, <2>1, <2>2
  <2>4. /\ it.path = job.path /\ it.next = n /\ it.tomb = t /\ it.reconcile = job.count
        /\ job.count # None
    BY <1>1, <2>2, <2>3, FilesConstants DEF Counts
  <2>5. n <= job.count
    BY <1>1, <1>2, <1>6 DEF Counts
  <2>6. Bound(it) = job.count
    BY <2>4 DEF Bound
  <2>7. Sound(it)
    BY <2>1, <2>3, <2>4, <2>5, <2>6 DEF Sound
  <2>8. Sound(pending)' /\ Bound(pending)' = job.count
    BY <1>6, <2>6, <2>7 DEF Sound, Bound
  <2>9. pending' = None \/ At(pending, job.path)'
    BY <1>3, <1>6, <2>4 DEF At
  <2> QED
    BY <1>1, <1>3, <2>8, <2>9 DEF Counts
<1> HIDE DEF it
<1>7. EntriesAreSound(entries)' /\ Sound(start)'
  BY <1>1 DEF DocumentsRun, EntriesAreSound, Sound, Bound
<1>8. ASSUME Sound(pending)' PROVE job'.index \in Nat
  <2> DEFINE z == IF At(pending, job.path)'
                  THEN OrZero(pending.tomb)' ELSE 0
  <2>1. z \in Nat
    BY <1>8 DEF Sound, At, OrZero
  <2>2. job'.index = AtLeast(n, z)
    BY <1>5
  <2> HIDE DEF z
  <2> QED
    BY <1>2, <2>1, <2>2 DEF AtLeast
<1>9. ASSUME Sound(pending)',
             (pc' = "bury" /\ At(pending, job.path)') => job'.count <= Bound(pending)',
             (pending \in {None, start} \/ At(pending, job.path))'
      PROVE  DocumentsRun'
  <2>1. At(start, job.path)' =>
          start'.next <= job'.count /\ OrZero(start.reconcile)' <= job'.count
    BY <1>1, <1>3 DEF JobIsSound, At, OrZero
  <2>2. {"draw", "reconcile"} \subseteq DOMAIN job /\ {"path", "doc", "count", "index"} \subseteq DOMAIN job
    BY <1>1 DEF JobIsSound
  <2>3. JobIsSound'
    BY <1>1, <1>3, <1>8, <1>9, <2>1, <2>2 DEF JobIsSound
  <2> QED
    BY <1>1, <1>7, <1>9, <2>3 DEF DocumentsRun
<1>10. CASE pending' = pending /\ (pc' = "bury" => ~At(pending, job.path))
  <2>1. Sound(pending)'
    BY <1>1, <1>10 DEF Sound, Bound
  <2>2. (pc' = "bury" /\ At(pending, job.path)') => job'.count <= Bound(pending)'
    BY <1>3, <1>10 DEF At
  <2>3. (pending \in {None, start} \/ At(pending, job.path))'
    BY <1>1, <1>3, <1>10 DEF DocumentsRun, At
  <2> QED
    BY <1>9, <2>1, <2>2, <2>3
<1>11. CASE pc' = "bury" /\ pending' = it /\ job.count > n
            /\ (pending = None \/ At(pending, job.path))
  BY <1>6, <1>9, <1>11
<1> QED
  BY <1>4, <1>10, <1>11

LEMMA FilesCommit ==
  ASSUME DocumentAssumption, DocumentsInv, CommitFile
  PROVE  DocumentsRun' /\ EntriesAreSound(message'.files) /\ Sound(message'.progress)
<1> DEFINE es == [p \in DOMAIN entries \cup {job.path} |->
                    IF p = job.path THEN Entry ELSE entries[p]]
<1>1. /\ DocumentsRun /\ JobIsSound /\ pc = "commit" /\ pc' = "file"
      /\ UNCHANGED <<start, seen, todo>> /\ Settle(es)
  BY DEF DocumentsInv, CommitFile, DocumentsRun
<1>2. Entry \in [doc : Documents, draw : Draws, count : Counts]
  BY <1>1, ParsedIs DEF JobIsSound, Entry
<1>3. EntriesAreSound(es)
  BY <1>1, <1>2 DEF DocumentsRun, EntriesAreSound, JobIsSound
<1> HIDE DEF es
<1> QED
  BY <1>1, <1>3, SettledIsSound

LEMMA FilesStep ==
  ASSUME DocumentAssumption, DocumentsInv, Next \/ UNCHANGED vars
  PROVE  DocumentsInv'
<1> USE DEF world, locals
<1> DEFINE Kept == /\ EntriesAreSound(saved.files)' /\ Sound(saved.progress)'
                   /\ files' \in [Paths -> Versions \cup {Absent}]
                   /\ parser' \in Parsers
           Told == message' # None => EntriesAreSound(message'.files) /\ Sound(message'.progress)
<1>1. ASSUME UNCHANGED <<files, parser, saved>> PROVE Kept
  BY <1>1 DEF DocumentsInv, EntriesAreSound, Sound, Bound
<1>2. ASSUME UNCHANGED message PROVE Told
  BY <1>2 DEF DocumentsInv
<1>3. ASSUME Kept, Told,
             pc' \in {"idle", "stopped", "remove", "bury", "file", "emit", "commit"},
             pc' \notin {"idle", "stopped"} => DocumentsRun'
      PROVE  DocumentsInv'
  BY <1>3 DEF DocumentsInv, EntriesAreSound, Sound, Bound
<1> HIDE DEF Kept, Told
<1>4. ASSUME UNCHANGED <<pc, start, entries, pending, seen, job>>, todo' \subseteq todo
      PROVE  (pc' \notin {"idle", "stopped"} => DocumentsRun') /\ pc' = pc
  BY <1>4, FilesKept DEF DocumentsInv
<1>5. CASE ChangeFile
  <2>1. Kept
    BY <1>5 DEF ChangeFile, Kept, DocumentsInv, EntriesAreSound, Sound, Bound
  <2>2. UNCHANGED <<pc, start, entries, pending, seen, todo, job, message>>
    BY <1>5 DEF ChangeFile
  <2> QED
    BY <1>2, <1>3, <1>4, <2>1, <2>2 DEF DocumentsInv
<1>6. CASE Reconfigure
  <2>1. Kept
    BY <1>6 DEF Reconfigure, Kept, DocumentsInv, EntriesAreSound, Sound, Bound
  <2>2. UNCHANGED <<pc, start, entries, pending, seen, todo, job, message>>
    BY <1>6 DEF Reconfigure
  <2> QED
    BY <1>2, <1>3, <1>4, <2>1, <2>2 DEF DocumentsInv
<1>7. CASE LoseCache
  <2>1. UNCHANGED <<files, parser, saved, pc, start, entries, pending, seen, todo, job, message>>
    BY <1>7 DEF LoseCache
  <2> QED
    BY <1>1, <1>2, <1>3, <1>4, <2>1 DEF DocumentsInv
<1>8. ASSUME Stopped PROVE DocumentsInv'
  <2>1. UNCHANGED <<files, parser, saved>> /\ pc' = "stopped" /\ message' = None
    BY <1>8 DEF Stopped
  <2> QED
    BY <1>1, <1>3, <2>1 DEF Told
<1>9. CASE Crash
  BY <1>8, <1>9 DEF Crash
<1>10. CASE Write
  <2>1. UNCHANGED <<files, parser, saved, pc, start, entries, pending, seen, todo, job, message>>
    BY <1>10 DEF Write
  <2> QED
    BY <1>1, <1>2, <1>3, <1>4, <2>1 DEF DocumentsInv
<1>11. CASE Save
  <2>1. /\ saved' = message /\ message # None /\ message' = None
        /\ UNCHANGED <<files, parser, pc, start, entries, pending, seen, todo, job>>
    BY <1>11 DEF Save, Suspended
  <2>2. Kept
    BY <2>1 DEF Kept, DocumentsInv, EntriesAreSound, Sound, Bound
  <2> QED
    BY <1>3, <1>4, <2>1, <2>2 DEF DocumentsInv, Told
<1>12. CASE StartRun
  <2>1. UNCHANGED <<files, parser, saved, message>> /\ pc' = "remove"
    BY <1>12 DEF StartRun
  <2> QED
    BY <1>1, <1>2, <1>3, <1>12, <2>1, FilesStart
<1>13. CASE RemovePath
  <2>1. UNCHANGED <<files, parser, saved, message>> /\ pc' = "bury"
    BY <1>13 DEF RemovePath
  <2> QED
    BY <1>1, <1>2, <1>3, <1>13, <2>1, FilesRemove
<1>14. CASE Tombstone
  <2>1. UNCHANGED <<files, parser, saved>> /\ pc' = "bury"
    BY <1>14 DEF Tombstone
  <2> QED
    BY <1>1, <1>3, <1>14, <2>1, FilesBuries DEF Told
<1>15. CASE Buried
  <2>1. UNCHANGED <<files, parser, saved>> /\ pc' \in {"remove", "commit"}
    BY <1>15 DEF Buried
  <2> QED
    BY <1>1, <1>3, <1>15, <2>1, FilesBuried DEF Told
<1>16. CASE RemovedAll
  <2>1. /\ UNCHANGED <<files, parser, saved, message, start, entries, pending, seen, job>>
        /\ pc = "remove" /\ pc' = "file" /\ todo' = seen
    BY <1>16 DEF RemovedAll
  <2>2. DocumentsRun'
    BY <2>1 DEF DocumentsInv, DocumentsRun, EntriesAreSound, Sound, Bound
  <2> QED
    BY <1>1, <1>2, <1>3, <2>1, <2>2
<1>17. CASE SkipFile
  <2>1. /\ UNCHANGED <<files, parser, saved, message, pc, start, entries, pending, seen, job>>
        /\ todo' \subseteq todo
    BY <1>17 DEF SkipFile
  <2> QED
    BY <1>1, <1>2, <1>3, <1>4, <2>1 DEF DocumentsInv
<1>18. CASE ExtractFile
  <2>1. UNCHANGED <<files, parser, saved, message>> /\ pc' = "emit"
    BY <1>18 DEF ExtractFile
  <2> QED
    BY <1>1, <1>2, <1>3, <1>18, <2>1, FilesExtract
<1>19. CASE EmitElement
  <2>1. UNCHANGED <<files, parser, saved>> /\ pc' = "emit"
    BY <1>19 DEF EmitElement
  <2> QED
    BY <1>1, <1>3, <1>19, <2>1, FilesEmit DEF Told
<1>20. CASE EndElements
  <2>1. CASE Stopped
    BY <1>8, <2>1
  <2>2. CASE ~Stopped
    <3>1. UNCHANGED <<files, parser, saved, message>> /\ pc' \in {"bury", "commit"}
      BY <1>20, <2>2 DEF EndElements
    <3> QED
      BY <1>1, <1>2, <1>3, <1>20, <3>1, FilesTail
  <2> QED
    BY <2>1, <2>2
<1>21. CASE CommitFile
  <2>1. UNCHANGED <<files, parser, saved>> /\ pc' = "file"
    BY <1>21 DEF CommitFile
  <2> QED
    BY <1>1, <1>3, <1>21, <2>1, FilesCommit DEF Told
<1>22. CASE Finish
  <2>1. /\ UNCHANGED <<files, parser, saved>> /\ pc = "file" /\ pc' = "idle"
        /\ message' = [files |-> entries, progress |-> pending]
    BY <1>22 DEF Finish, Checkpoint
  <2> QED
    BY <1>1, <1>3, <2>1 DEF Told, DocumentsInv, DocumentsRun
<1>23. CASE FailFile
  <2>1. CASE Stopped
    BY <1>8, <2>1
  <2>2. CASE ~Stopped
    <3>1. /\ UNCHANGED <<files, parser, saved, message, pc, start, entries, pending, seen, job>>
          /\ todo' \subseteq todo
      BY <1>23, <2>2 DEF FailFile
    <3> QED
      BY <1>1, <1>2, <1>3, <1>4, <3>1 DEF DocumentsInv
  <2> QED
    BY <2>1, <2>2
<1>24. CASE UNCHANGED vars
  <2>1. UNCHANGED <<files, parser, saved, pc, start, entries, pending, seen, todo, job, message>>
    BY <1>24 DEF vars
  <2> QED
    BY <1>1, <1>2, <1>3, <1>4, <2>1 DEF DocumentsInv
<1> QED
  BY <1>5, <1>6, <1>7, <1>9, <1>10, <1>11, <1>12, <1>13, <1>14, <1>15, <1>16, <1>17, <1>18,
     <1>19, <1>20, <1>21, <1>22, <1>23, <1>24
  DEF Next, Run, Source

-------------------------------------------------------------------------------
(* Two files: what is left in the destination                              *)

\* The destination once the buffered records are written.
Reached == Written(dest)

\* No element of the path at an index or behind it.
Held(d, p, n) == \A i \in Indexes : i >= n => d[p][i] = Absent

\* How many elements of a path a checkpoint accounts for.
Tally(es, p) == IF p \in DOMAIN es THEN es[p].count ELSE 0
Upto(es, it, p) ==
  IF At(it, p) THEN AtLeast(Tally(es, p), AtLeast(it.next, OrZero(it.reconcile)))
  ELSE Tally(es, p)

\* Behind them the destination is empty.
Clean(es, it, d) == \A p \in Paths : Held(d, p, Upto(es, it, p))
CleanBut(p, es, it, d) == \A q \in Paths \ {p} : Held(d, q, Upto(es, it, q))

Contents == {Absent} \cup (Versions \X Parsers \X Draws)
Records == [path : Paths, index : Nat, content : Contents]

\* The first element to bury of the path at hand.
Floor == IF job.doc = None THEN 0 ELSE Parsed

Burial ==
  /\ Clean(entries, pending, Reached)
  /\ Held(Reached, job.path, job.count)
  /\ \A i \in Indexes : (Floor <= i /\ i < job.index) => Reached[job.path][i] = Absent
  /\ job.doc # None => Parsed \in Counts /\ Parsed < job.count

\* A file that reconciles nothing had no more elements than are settled or emitted.
Emission ==
  /\ CleanBut(job.path, entries, pending, Reached)
  /\ Held(Reached, job.path, AtLeast(job.count, job.index))
  /\ job.doc # None /\ job.resume \in Nat /\ job.reconcile \in BOOLEAN
  /\ {"resume"} \subseteq DOMAIN job
  /\ ~job.reconcile => job.count <= AtLeast(Tally(entries, job.path), job.index)
  /\ job.index <= AtLeast(job.resume, Parsed)
  /\ ~At(start, job.path) => job.count <= Tally(entries, job.path)

StaleRun ==
  /\ entries \in [DOMAIN entries -> Entries]
  /\ start # None => start.tomb = None
  /\ pc \in {"remove", "file"} => Clean(entries, pending, Reached)
  /\ pc = "bury" => Burial
  /\ pc = "emit" => Emission
  /\ pc = "commit" => /\ CleanBut(job.path, entries, pending, Reached)
                      /\ Held(Reached, job.path, Parsed) /\ job.doc # None

\* The checkpoint accounts for all that is there, and so will the next one; only while
\* a tail is buried does it say how far the tombstones are.
StaleInv ==
  /\ buffer \in Seq(Records)
  /\ saved.files \in [DOMAIN saved.files -> Entries]
  /\ message # None => message.files \in [DOMAIN message.files -> Entries]
  /\ message = None \/ buffer # <<>> => Clean(saved.files, saved.progress, dest)
  /\ message # None => Clean(message.files, message.progress, Reached)
  /\ (message = None /\ pc \in {"idle", "stopped"}) => buffer = <<>>
  /\ (saved.progress # None /\ saved.progress.tomb # None) =>
       /\ pc \in {"bury", "commit"} \/ message # None
       /\ \A k \in DOMAIN buffer : buffer[k].content = Absent
  /\ (message # None /\ message.progress # None /\ message.progress.tomb # None) => pc = "bury"
  /\ pc \notin {"idle", "stopped"} => StaleRun

\* Nothing that can be saved is None.
LEMMA NotNone ==
  ASSUME DocumentAssumption
  PROVE  /\ \A d \in Documents : d # None
       /\ \A it \in Progresses : it # None
BY DEF DocumentAssumption, Documents

LEMMA ToldIs ==
  ASSUME DocumentAssumption, NEW es, NEW it, EntriesAreSound(es), es \in [DOMAIN es -> Entries], Sound(it)
  PROVE  Checkpoint(es, it) # None
<1> DEFINE S == DOMAIN es
           C(T) == [files : [T -> Entries], progress : Progresses \cup {None}]
<1>1. S \in SUBSET Paths
  BY DEF EntriesAreSound
<1>2. \A T \in SUBSET Paths : None \notin C(T)
  BY DEF DocumentAssumption
<1>3. it \in Progresses \cup {None}
  <2>1. it # None => it \in Progresses
    BY LongestIs DEF Sound, Progresses, Counts, Documents
  <2> QED
    BY <2>1
<1>4. Checkpoint(es, it) \in C(S)
  BY <1>3 DEF Checkpoint
<1> HIDE DEF C, S
<1> QED
  BY <1>1, <1>2, <1>4

\* What the destination comes to hold when a record is buffered.
LEMMA ReachedAppends ==
  ASSUME NEW r \in Records, buffer \in Seq(Records), buffer' = Append(buffer, r), dest' = dest,
         NEW p \in Paths, NEW i \in Indexes
  PROVE  Reached'[p][i] = IF r.path = p /\ r.index = i THEN r.content ELSE Reached[p][i]
<1> DEFINE n == Len(buffer)
           m == n + 1
           mine == {k \in DOMAIN buffer : buffer[k].path = p /\ buffer[k].index = i}
           mine1 == {k \in DOMAIN buffer' : buffer'[k].path = p /\ buffer'[k].index = i}
           match == r.path = p /\ r.index = i
<1>1. /\ n \in Nat /\ DOMAIN buffer = 1..n /\ DOMAIN buffer' = 1..m
      /\ buffer'[m] = r /\ \A k \in 1..n : buffer'[k] = buffer[k]
  OBVIOUS
<1>2. /\ Reached[p][i] = IF mine = {} THEN dest[p][i] ELSE buffer[Max(mine)].content
      /\ Reached'[p][i] = IF mine1 = {} THEN dest[p][i] ELSE buffer'[Max(mine1)].content
  BY DEF Reached, Written
<1>3. mine \subseteq 1..n /\ mine1 = mine \cup (IF match THEN {m} ELSE {})
  BY <1>1
<1> HIDE DEF mine, mine1, match, m
<1>4. CASE match
  <2> DEFINE upTo == 1..n
  <2>0. /\ m \in Int /\ m \in mine1 /\ mine1 = mine \cup {m} /\ mine \subseteq upTo
        /\ \A y \in upTo : y \in Int /\ m >= y
    <3>1. m \in Int /\ \A y \in 1..n : y \in Int /\ m >= y
      BY <1>1 DEF m
    <3>2. mine1 = mine \cup {m}
      BY <1>3, <1>4
    <3> QED
      BY <1>3, <3>1, <3>2
  <2> HIDE DEF upTo
  <2>1. m \in mine1 /\ \A y \in mine1 : m >= y
    <3>1. m >= m
      BY <2>0
    <3> QED
      BY <2>0, <3>1
  <2>2. \A x \in mine1 : (\A y \in mine1 : x >= y) => x = m
    <3>1. \A x \in mine1 : x \in Int
      BY <2>0
    <3>2. m \in Int /\ \A x \in mine1 : (\A y \in mine1 : x >= y) => (x >= m /\ m >= x)
      BY <2>1, <3>1
    <3> QED
      BY <3>1, <3>2
  <2>3. Max(mine1) = m
    BY <2>1, <2>2 DEF Max
  <2> QED
    BY <1>1, <1>2, <1>4, <2>1, <2>3 DEF match
<1>5. CASE ~match
  <2>1. mine1 = mine
    BY <1>3, <1>5
  <2>2. CASE mine = {}
    BY <1>2, <1>5, <2>1, <2>2 DEF match
  <2>3. CASE mine # {}
    <3>1. PICK x \in mine : \A y \in mine : y <= x
      <4> DEFINE o == [k \in 1..n |-> k]
      <4>1. \A k \in 1..n : o[k] \in Nat
        BY <1>1
      <4>2. mine \in SUBSET (1..n)
        BY <1>3
      <4> HIDE DEF o
      <4>3. \E x \in mine : \A y \in mine : o[y] <= o[x]
        BY <1>1, <2>3, <4>1, <4>2, LastInOrder
      <4> QED
        BY <4>2, <4>3 DEF o
    <3>2. \A y \in mine : x >= y
      BY <1>1, <1>3, <3>1
    <3>3. Max(mine) \in mine
      BY <3>2 DEF Max
    <3> QED
      BY <1>1, <1>2, <1>3, <1>5, <2>1, <2>3, <3>3 DEF match
  <2> QED
    BY <2>2, <2>3
<1> QED
  BY <1>4, <1>5 DEF match

\* Writing the buffer changes nothing of it.
LEMMA ReachedWrites ==
  ASSUME buffer' = <<>>, dest' = Reached, NEW p \in Paths, NEW i \in Indexes
  PROVE  Reached'[p][i] = Reached[p][i]
<1>1. DOMAIN buffer' = {}
  OBVIOUS
<1>2. {k \in DOMAIN buffer' : buffer'[k].path = p /\ buffer'[k].index = i} = {}
  BY <1>1
<1>3. Reached'[p][i] = dest'[p][i]
  BY <1>2 DEF Reached, Written
<1> QED
  BY <1>3

LEMMA ReachedEmpty ==
  ASSUME buffer = <<>>, NEW p \in Paths, NEW i \in Indexes
  PROVE  Reached[p][i] = dest[p][i]
<1>1. DOMAIN buffer = {}
  OBVIOUS
<1>2. {k \in DOMAIN buffer : buffer[k].path = p /\ buffer[k].index = i} = {}
  BY <1>1
<1> QED
  BY <1>2 DEF Reached, Written

\* What is held stays held where nothing is put behind it.
LEMMA HeldIs ==
  ASSUME DocumentAssumption, NEW d, NEW e, NEW p \in Paths, NEW n \in Nat, NEW k \in Nat, n <= k, Held(d, p, n),
         \A i \in Indexes : i >= k => e[p][i] = d[p][i] \/ e[p][i] = Absent
  PROVE  Held(e, p, k)
<1>1. \A i \in Indexes : i \in Int
  BY LongestIs DEF Indexes, MaxLength
<1>2. \A i \in Indexes : i >= k => i >= n
  BY <1>1
<1> QED
  BY <1>2 DEF Held

LEMMA CleanIs ==
  ASSUME NEW es, NEW it, NEW d, NEW e, Clean(es, it, d),
         \A p \in Paths : \A i \in Indexes : e[p][i] = d[p][i] \/ e[p][i] = Absent
  PROVE  Clean(es, it, e)
BY DEF Clean, Held

LEMMA UptoIs ==
  ASSUME DocumentAssumption, NEW es, NEW it, EntriesAreSound(es), Sound(it), NEW p
  PROVE  /\ Tally(es, p) \in Counts /\ Upto(es, it, p) \in Counts /\ Tally(es, p) <= Upto(es, it, p)
         /\ At(it, p) => it.next <= Upto(es, it, p) /\ OrZero(it.reconcile) <= Upto(es, it, p)
<1> DEFINE z == OrZero(it.reconcile)
           t == Tally(es, p)
           a == AtLeast(it.next, z)
<1>1. MaxLength \in Nat /\ t \in Counts
  BY LongestIs DEF Tally, EntriesAreSound, Counts
<1>2. \A x, y \in Counts : AtLeast(x, y) \in Counts /\ x <= AtLeast(x, y) /\ y <= AtLeast(x, y)
  BY <1>1 DEF AtLeast, Counts
<1>3. CASE ~At(it, p)
  BY <1>1, <1>3 DEF Upto, Counts
<1>4. CASE At(it, p)
  <2>1. it.next \in Counts /\ z \in Counts
    BY <1>1, <1>4 DEF At, Sound, OrZero, Counts
  <2>2. Upto(es, it, p) = AtLeast(t, a)
    BY <1>4 DEF Upto
  <2>3. a \in Counts /\ it.next <= a /\ z <= a
    BY <1>2, <2>1
  <2>4. Upto(es, it, p) \in Counts /\ t <= Upto(es, it, p) /\ a <= Upto(es, it, p)
    BY <1>1, <1>2, <2>2, <2>3
  <2>5. \A x \in {it.next, z, a, Upto(es, it, p)} : x \in Int
    BY <2>1, <2>3, <2>4 DEF Counts
  <2> HIDE DEF a, z
  <2>6. it.next <= Upto(es, it, p) /\ z <= Upto(es, it, p)
    BY <2>3, <2>4, <2>5
  <2> QED
    BY <1>1, <2>4, <2>6 DEF z
<1> QED
  BY <1>3, <1>4

\* A count behind which nothing is may grow.
LEMMA HeldGrows ==
  ASSUME DocumentAssumption, NEW d, NEW p \in Paths, NEW n \in Nat, NEW k \in Nat, n <= k, Held(d, p, n)
  PROVE  Held(d, p, k)
BY HeldIs

LEMMA StaleKept ==
  ASSUME StaleInv, UNCHANGED <<saved, message, buffer, dest, pc, start, entries, pending, job>>
  PROVE  StaleInv'
<1>1. Reached' = Reached
  BY DEF Reached, Written
<1>2. Parsed' = Parsed /\ Floor' = Floor
  BY DEF Parsed, Floor
<1>3. StaleRun => StaleRun'
  <2>1. Burial => Burial'
    BY <1>1, <1>2 DEF Burial
  <2>2. Emission => Emission'
    BY <1>1, <1>2 DEF Emission
  <2> QED
    BY <1>1, <1>2, <2>1, <2>2 DEF StaleRun
<1> QED
  BY <1>1, <1>3 DEF StaleInv

LEMMA StaleStopped ==
  ASSUME StaleInv, Stopped, message = None \/ buffer # <<>>,
         saved.progress # None => saved.progress.tomb = None
  PROVE  StaleInv'
<1>1. /\ saved' = saved /\ dest' = dest /\ buffer' = <<>> /\ message' = None /\ pc' = "stopped"
  BY DEF Stopped
<1>2. Clean(saved.files, saved.progress, dest)
  BY DEF StaleInv
<1> QED
  BY <1>1, <1>2 DEF StaleInv

LEMMA StaleQuietly ==
  ASSUME StaleInv, message = None, UNCHANGED <<saved, message, buffer, dest>>,
         pc' \notin {"idle", "stopped"}, pc \in {"bury", "commit"} => pc' \in {"bury", "commit"},
         StaleRun'
  PROVE  StaleInv'
<1>1. Reached' = Reached
  BY DEF Reached, Written
<1> QED
  BY <1>1 DEF StaleInv

\* A checkpoint of all that is there goes out.
LEMMA StaleTells ==
  ASSUME DocumentAssumption, StaleInv, message = None, UNCHANGED <<saved, buffer, dest>>,
         NEW es, NEW it, message' = Checkpoint(es, it), EntriesAreSound(es), Sound(it),
         es \in [DOMAIN es -> Entries], it # None => it.tomb = None,
         Clean(es, it, Reached), pc' \notin {"idle", "stopped"} => StaleRun'
  PROVE  StaleInv'
<1>1. Reached' = Reached
  BY DEF Reached, Written
<1>2. message' # None /\ message'.files = es /\ message'.progress = it
  BY ToldIs DEF Checkpoint
<1>3. Clean(message'.files, message'.progress, Reached')
  BY <1>1, <1>2
<1> QED
  BY <1>2, <1>3 DEF StaleInv

LEMMA StaleWrites == ASSUME DocumentsInv, StaleInv, Write PROVE StaleInv'
<1>1. /\ message # None /\ dest' = Reached /\ buffer' = <<>>
      /\ UNCHANGED <<saved, message, pc, start, entries, pending, job>>
  BY DEF Write, Suspended, Reached
<1>2. \A p \in Paths : \A i \in Indexes : Reached'[p][i] = Reached[p][i]
  BY <1>1, ReachedWrites
<1>3. \A es, it : Clean(es, it, Reached) => Clean(es, it, Reached')
  BY <1>2, CleanIs
<1>4. \A p, es, it : CleanBut(p, es, it, Reached) => CleanBut(p, es, it, Reached')
  BY <1>2 DEF CleanBut, Held
<1>5. \A p \in Paths : \A n : Held(Reached, p, n) => Held(Reached', p, n)
  BY <1>2 DEF Held
<1>6. Parsed' = Parsed /\ Floor' = Floor
  BY <1>1 DEF Parsed, Floor
<1>7. ASSUME pc \in {"bury", "emit", "commit"} PROVE job.path \in Paths
  BY <1>7 DEF DocumentsInv, DocumentsRun, JobIsSound
<1>8. ASSUME StaleRun PROVE StaleRun'
  <2>1. ASSUME pc = "bury" PROVE Burial'
    <3>1. Burial /\ job.path \in Paths
      BY <1>7, <1>8, <2>1 DEF StaleRun
    <3> QED
      BY <1>1, <1>2, <1>3, <1>5, <1>6, <3>1 DEF Burial
  <2>2. ASSUME pc = "emit" PROVE Emission'
    <3>1. Emission /\ job.path \in Paths
      BY <1>7, <1>8, <2>2 DEF StaleRun
    <3> QED
      BY <1>1, <1>4, <1>5, <1>6, <3>1 DEF Emission
  <2>3. ASSUME pc = "commit"
        PROVE  /\ CleanBut(job.path, entries, pending, Reached)'
               /\ Held(Reached, job.path, Parsed)' /\ job'.doc # None
    <3>1. CleanBut(job.path, entries, pending, Reached) /\ Held(Reached, job.path, Parsed) /\ job.doc # None
      BY <1>8, <2>3 DEF StaleRun
    <3> QED
      BY <1>1, <1>4, <1>5, <1>6, <1>7, <2>3, <3>1
  <2> QED
    BY <1>1, <1>3, <1>8, <2>1, <2>2, <2>3 DEF StaleRun
<1> QED
  BY <1>1, <1>3, <1>8 DEF StaleInv

LEMMA StaleCrashes == ASSUME Stops = {"reading"}, StaleInv, Crash PROVE StaleInv'
<1>1. Place = "reading" /\ Stopped
  BY DEF Crash
<1>2. /\ message = None \/ buffer # <<>>
      /\ pc \notin {"bury", "commit"}
      /\ \A k \in DOMAIN buffer : buffer[k].content # Absent
  BY <1>1 DEF Place, Burying, Suspended
<1>3. ASSUME saved.progress # None PROVE saved.progress.tomb = None
  <2> SUFFICES ASSUME saved.progress.tomb # None PROVE FALSE
    OBVIOUS
  <2>1. message # None /\ \A k \in DOMAIN buffer : buffer[k].content = Absent
    BY <1>2, <1>3 DEF StaleInv
  <2>2. buffer \in Seq(Records) /\ buffer # <<>>
    BY <1>2, <2>1 DEF StaleInv
  <2>3. 1 \in DOMAIN buffer
    BY <2>2
  <2> QED
    BY <1>2, <2>1, <2>3
<1> QED
  BY <1>1, <1>2, <1>3, StaleStopped

\* No run stops between tombstones, and none is begun with some unwritten.
LEMMA TombIs ==
  ASSUME StaleInv, message = None, pc \notin {"bury", "commit"}
  PROVE  saved.progress # None => saved.progress.tomb = None
BY DEF StaleInv

LEMMA StaleSaves == ASSUME DocumentsInv, StaleInv, Save PROVE StaleInv'
<1>1. /\ message # None /\ buffer = <<>> /\ saved' = message /\ message' = None
      /\ UNCHANGED <<pc, start, entries, pending, job, buffer, dest>>
  BY DEF Save, Suspended
<1>2. Reached' = Reached /\ Parsed' = Parsed /\ Floor' = Floor
  BY <1>1 DEF Reached, Written, Parsed, Floor
<1>3. StaleRun => StaleRun'
  <2>1. Burial => Burial'
    BY <1>1, <1>2 DEF Burial
  <2>2. Emission => Emission'
    BY <1>1, <1>2 DEF Emission
  <2> QED
    BY <1>1, <1>2, <2>1, <2>2 DEF StaleRun
<1>4. Clean(message.files, message.progress, dest)
  <2>1. \A p \in Paths : \A i \in Indexes : dest[p][i] = Reached[p][i]
    BY <1>1, ReachedEmpty
  <2>2. Clean(message.files, message.progress, Reached)
    BY <1>1 DEF StaleInv
  <2> QED
    BY <2>1, <2>2, CleanIs
<1>5. DOMAIN buffer = {}
  BY <1>1
<1> QED
  BY <1>1, <1>3, <1>4, <1>5 DEF StaleInv

LEMMA StaleStarts == ASSUME DocumentsInv, StaleInv, StartRun PROVE StaleInv'
<1>1. /\ pc \in {"idle", "stopped"} /\ message = None /\ pc' = "remove"
      /\ start' = saved.progress /\ pending' = saved.progress /\ entries' = saved.files
      /\ UNCHANGED <<saved, message, buffer, dest>>
  BY DEF StartRun, Suspended
<1>2. buffer = <<>> /\ Clean(saved.files, saved.progress, dest)
      /\ saved.files \in [DOMAIN saved.files -> Entries]
  BY <1>1 DEF StaleInv
<1>3. saved.progress # None => saved.progress.tomb = None
  BY <1>1, TombIs
<1>4. Clean(saved.files, saved.progress, Reached)
  <2>1. \A p \in Paths : \A i \in Indexes : Reached[p][i] = dest[p][i]
    BY <1>2, ReachedEmpty
  <2> QED
    BY <1>2, <2>1, CleanIs
<1>5. Reached' = Reached
  BY <1>1 DEF Reached, Written
<1>6. StaleRun'
  BY <1>1, <1>2, <1>3, <1>4, <1>5 DEF StaleRun
<1> QED
  BY <1>1, <1>6, StaleQuietly

LEMMA KnownCovers ==
  ASSUME DocumentAssumption, DocumentsRun, pending \in {None, start}, NEW p \in Paths, Held(Reached, p, Upto(entries, pending, p))
  PROVE  Held(Reached, p, Known(p))
<1>1. EntriesAreSound(entries) /\ Sound(start) /\ Sound(pending) /\ MaxLength \in Nat
  BY LongestIs DEF DocumentsRun
<1>2. Known(p) \in Nat /\ Upto(entries, pending, p) \in Nat /\ Tally(entries, p) \in Nat
  BY <1>1, KnownIs, UptoIs DEF Counts
<1>3. Count(p) = Tally(entries, p)
  BY DEF Count, Tally
<1>4. Upto(entries, pending, p) <= Known(p)
  <2>1. CASE At(pending, p)
    <3>1. pending = start
      BY <2>1 DEF At
    <3>2. Known(p) = Upto(entries, pending, p)
      BY <1>3, <2>1, <3>1 DEF Known, Upto
    <3> QED
      BY <1>2, <3>2
  <2>2. CASE ~At(pending, p)
    <3>1. Upto(entries, pending, p) = Tally(entries, p)
      BY <2>2 DEF Upto
    <3> DEFINE b == IF At(start, p) THEN AtLeast(start.next, OrZero(start.reconcile)) ELSE 0
    <3>2. Known(p) = IF Tally(entries, p) > b THEN Tally(entries, p) ELSE b
      BY <1>3 DEF Known, AtLeast
    <3>3. b \in Nat
      BY <1>1 DEF Sound, At, AtLeast, OrZero, Counts
    <3> HIDE DEF b
    <3> QED
      BY <1>2, <3>1, <3>2, <3>3
  <2> QED
    BY <2>1, <2>2
<1> QED
  BY <1>2, <1>4, HeldGrows

LEMMA StaleRemoves == ASSUME DocumentAssumption, DocumentsInv, StaleInv, RemovePath PROVE StaleInv'
<1> DEFINE p == NextPath(todo)
           n == Known(p)
           own == IF pending = None /\ p \in DOMAIN entries
                  THEN Progress(p, entries[p].doc, entries[p].draw, n, 0, None)
                  ELSE IF At(pending, p)
                  THEN [pending EXCEPT !.next = n,
                          !.reconcile = IF pending.reconcile = None THEN None ELSE n]
                  ELSE pending
<1>1. /\ DocumentsRun /\ StaleRun /\ pc = "remove" /\ message = None /\ todo # {}
      /\ pending \in {None, start} /\ Clean(entries, pending, Reached)
      /\ start # None => start.tomb = None
      /\ EntriesAreSound(entries) /\ Sound(start) /\ Sound(pending) /\ MaxLength \in Nat
  BY LongestIs DEF DocumentsInv, RemovePath, DocumentsRun, StaleInv, StaleRun, Suspended
<1>2. /\ pending' = own /\ pc' = "bury"
      /\ job' = [path |-> p, count |-> n, doc |-> None,
                 index |-> IF At(own, p) THEN OrZero(own.tomb) ELSE 0]
      /\ UNCHANGED <<saved, start, entries, buffer, message, dest>>
  BY DEF RemovePath
<1>3. p \in Paths /\ n \in Counts /\ n \in Nat
  BY <1>1, NextPathIs, KnownIs DEF DocumentsRun, Counts
<1>4. Held(Reached, p, n)
  BY <1>1, <1>3, KnownCovers DEF Clean
<1> HIDE DEF p, n
<1>5. /\ At(own, p) => (OrZero(own.tomb) = 0 /\ n <= Upto(entries, own, p)
                        /\ Upto(entries, own, p) \in Nat)
      /\ ~At(own, p) => own = pending
      /\ \A q \in Paths \ {p} : Upto(entries, own, q) = Upto(entries, pending, q)
  <2>1. CASE pending = None /\ p \in DOMAIN entries
    <3>1. own = Progress(p, entries[p].doc, entries[p].draw, n, 0, None)
      BY <2>1
    <3>2. own = [path |-> p, doc |-> entries[p].doc, draw |-> entries[p].draw, next |-> n,
                 tomb |-> 0, reconcile |-> None]
      BY <3>1 DEF Progress
    <3> HIDE DEF own
    <3>3. own.path = p /\ own.tomb = 0 /\ own.next = n /\ own.reconcile = None
      BY <3>2
    <3>4. own # None
      <4>1. entries[p].doc \in Documents /\ entries[p].draw \in Draws
        BY <1>1, <2>1 DEF EntriesAreSound
      <4>2. own \in Progresses
        BY <1>3, <3>2, <4>1 DEF Progresses, Documents
      <4> QED
        BY <4>2, NotNone
    <3>5. Tally(entries, p) \in Nat
      BY <1>1, UptoIs DEF Counts
    <3>6. n <= Upto(entries, own, p) /\ Upto(entries, own, p) \in Nat
      BY <1>3, <3>3, <3>4, <3>5, FilesConstants DEF Upto, At, AtLeast, OrZero
    <3>7. \A q \in Paths \ {p} : ~At(own, q) /\ ~At(pending, q)
      BY <2>1, <3>3 DEF At
    <3> QED
      BY <3>3, <3>4, <3>6, <3>7, FilesConstants DEF At, Upto, OrZero
  <2>2. CASE pending # None /\ At(pending, p)
    <3>1. own = [pending EXCEPT !.next = n,
                   !.reconcile = IF pending.reconcile = None THEN None ELSE n]
      BY <2>2
    <3>2. /\ pending = start /\ pending.path = p /\ pending.tomb = None
          /\ pending \in [path : Paths, doc : Documents, draw : Draws, next : Counts,
                          tomb : Nat \cup {None}, reconcile : Counts \cup {None}]
      BY <1>1, <2>2 DEF Sound, At
    <3> HIDE DEF own
    <3>3. /\ own.path = p /\ own.tomb = None /\ own.next = n
          /\ own.reconcile \in {None, n}
      BY <3>1, <3>2
    <3>4. Tally(entries, p) \in Nat
      BY <1>1, UptoIs DEF Counts
    <3>5. At(own, p) => (n <= Upto(entries, own, p) /\ Upto(entries, own, p) \in Nat)
      BY <1>3, <3>3, <3>4 DEF Upto, AtLeast, OrZero
    <3>6. own # None
      <4>1. own \in [path : Paths, doc : Documents, draw : Draws, next : Nat,
                     tomb : Nat \cup {None}, reconcile : Nat \cup {None}]
        BY <1>3, <3>1, <3>2 DEF Counts
      <4> QED
        BY <4>1, NotNone DEF Progresses, Documents
    <3>7. \A q \in Paths \ {p} : ~At(own, q) /\ ~At(pending, q)
      BY <3>2, <3>3 DEF At
    <3> QED
      BY <3>3, <3>5, <3>6, <3>7 DEF At, OrZero, Upto
  <2>3. CASE ~(pending = None /\ p \in DOMAIN entries) /\ ~At(pending, p)
    <3>1. own = pending
      BY <2>3
    <3> QED
      BY <2>3, <3>1
  <2> QED
    BY <2>1, <2>2, <2>3 DEF At
<1> HIDE DEF own
<1>6. job'.path = p /\ job'.count = n /\ job'.doc = None /\ job'.index = 0
  BY <1>2, <1>5
<1>7. Clean(entries, own, Reached)
  <2>1. \A q \in Paths \ {p} : Held(Reached, q, Upto(entries, own, q))
    BY <1>1, <1>5 DEF Clean
  <2>2. CASE At(own, p)
    BY <1>3, <1>4, <1>5, <2>1, <2>2, HeldGrows DEF Clean
  <2>3. CASE ~At(own, p)
    BY <1>1, <1>5, <2>3
  <2> QED
    BY <2>2, <2>3
<1>8. Reached' = Reached
  BY <1>2 DEF Reached, Written
<1>9. Burial'
  <2>1. Floor' = 0
    BY <1>6 DEF Floor
  <2>2. \A i \in Indexes : ~(0 <= i /\ i < 0)
    BY LongestIs DEF Indexes, MaxLength
  <2> QED
    BY <1>2, <1>4, <1>6, <1>7, <1>8, <2>1, <2>2 DEF Burial
<1>10. StaleRun'
  BY <1>1, <1>2, <1>9 DEF StaleRun
<1> QED
  BY <1>1, <1>2, <1>10, StaleQuietly

LEMMA StaleBuries == ASSUME DocumentAssumption, DocumentsInv, StaleInv, Tombstone PROVE StaleInv'
<1> DEFINE r == [path |-> job.path, index |-> job.index, content |-> Absent]
           it == IF At(pending, job.path)
                 THEN [pending EXCEPT !.tomb = job.index + 1] ELSE pending
<1>1. /\ DocumentsRun /\ JobIsSound /\ StaleRun /\ Burial /\ pc = "bury" /\ message = None
      /\ job.path \in Paths /\ job.index \in Nat /\ job.count \in Nat /\ job.index < job.count
      /\ EntriesAreSound(entries) /\ Sound(pending)
  BY LongestIs DEF DocumentsInv, Tombstone, DocumentsRun, JobIsSound, StaleInv, StaleRun, Suspended, Counts
<1>2. /\ buffer' = Append(buffer, r) /\ job' = [job EXCEPT !.index = @ + 1]
      /\ UNCHANGED <<saved, pc, start, entries, pending, dest>>
      /\ message' = Checkpoint(entries, it) \/ UNCHANGED message
  BY DEF Tombstone
<1>3. /\ job'.path = job.path /\ job'.count = job.count /\ job'.doc = job.doc
      /\ job'.index = job.index + 1
      /\ job.doc # None => job'.draw = job.draw
  BY <1>1, <1>2 DEF JobIsSound
<1>4. r \in Records /\ buffer \in Seq(Records)
  BY <1>1 DEF Records, Contents, StaleInv
<1>5. /\ buffer' \in Seq(Records)
      /\ (\A k \in DOMAIN buffer : buffer[k].content = Absent)
           => \A k \in DOMAIN buffer' : buffer'[k].content = Absent
  <2>1. /\ DOMAIN buffer' = 1..(Len(buffer) + 1) /\ Len(buffer) \in Nat
        /\ DOMAIN buffer = 1..Len(buffer) /\ buffer' \in Seq(Records)
        /\ \A k \in 1..Len(buffer) : buffer'[k] = buffer[k]
        /\ buffer'[Len(buffer) + 1] = r
    BY <1>2, <1>4
  <2> QED
    BY <2>1
<1>6. \A p \in Paths : \A i \in Indexes :
        Reached'[p][i] = IF job.path = p /\ job.index = i THEN Absent ELSE Reached[p][i]
  BY <1>2, <1>4, ReachedAppends
<1>7. Clean(entries, pending, Reached') /\ Held(Reached', job.path, job.count)
  <2>1. \A p \in Paths : \A i \in Indexes :
          Reached'[p][i] = Reached[p][i] \/ Reached'[p][i] = Absent
    BY <1>6
  <2>2. Clean(entries, pending, Reached')
    BY <1>1, <2>1, CleanIs DEF Burial
  <2>3. Held(Reached', job.path, job.count)
    BY <1>1, <2>1 DEF Held, Burial
  <2> QED
    BY <2>2, <2>3
<1>8. Floor' = Floor /\ (job.doc # None => Parsed' = Parsed)
  BY <1>3 DEF Floor, Parsed
<1>9. Burial'
  <2>1. \A i \in Indexes : (Floor <= i /\ i < job.index + 1) => Reached'[job.path][i] = Absent
    <3> TAKE i \in Indexes
    <3>1. i \in Int
      BY LongestIs DEF Indexes, MaxLength
    <3>2. CASE i = job.index
      BY <1>1, <1>6, <3>2
    <3>3. CASE i # job.index
      <4>1. i < job.index + 1 => i < job.index
        BY <1>1, <3>1, <3>3
      <4> QED
        BY <1>1, <1>6, <4>1 DEF Burial
    <3> QED
      BY <3>2, <3>3
  <2> QED
    BY <1>1, <1>2, <1>3, <1>7, <1>8, <2>1 DEF Burial
<1>10. StaleRun'
  BY <1>1, <1>2, <1>9 DEF StaleRun
<1>11. ASSUME message' = Checkpoint(entries, it)
       PROVE  /\ message'.files \in [DOMAIN message'.files -> Entries]
              /\ Clean(message'.files, message'.progress, Reached')
  <2>1. message'.files = entries /\ message'.progress = it
    BY <1>11 DEF Checkpoint
  <2>2. CASE At(pending, job.path)
    <3>1. /\ pending # None /\ pending.path = job.path
          /\ pending \in [path : Paths, doc : Documents, draw : Draws, next : Counts,
                          tomb : Nat \cup {None}, reconcile : Counts \cup {None}]
      BY <1>1, <2>2 DEF Sound, At
    <3>2. it = [pending EXCEPT !.tomb = job.index + 1]
      BY <2>2
    <3> HIDE DEF it
    <3>3. it.path = pending.path /\ it.next = pending.next /\ it.reconcile = pending.reconcile
      BY <3>1, <3>2
    <3>4. it \in Progresses
      BY <1>1, <3>1, <3>2, LongestIs DEF Progresses, Counts, Documents
    <3>5. it # None
      BY <3>4, NotNone
    <3>6. \A p : Upto(entries, it, p) = Upto(entries, pending, p)
      BY <3>1, <3>3, <3>5 DEF Upto, At
    <3> QED
      BY <1>1, <1>7, <2>1, <3>6 DEF Clean, StaleRun
  <2>3. CASE ~At(pending, job.path)
    BY <1>1, <1>7, <2>1, <2>3 DEF StaleRun
  <2> QED
    BY <2>2, <2>3
<1> HIDE DEF it, r
<1> QED
  BY <1>1, <1>2, <1>5, <1>10, <1>11 DEF StaleInv

\* Nothing is left of the path once its tombstones are out.
LEMMA BuriedIs ==
  ASSUME DocumentAssumption, DocumentsInv, StaleRun, pc = "bury", job.index >= job.count
  PROVE  /\ job.doc = None => Held(Reached, job.path, 0)
         /\ job.doc # None => Held(Reached, job.path, Parsed)
<1>1. /\ Burial /\ job.path \in Paths /\ job.index \in Nat /\ job.count \in Nat
  BY LongestIs DEF DocumentsInv, DocumentsRun, JobIsSound, StaleRun, Counts
<1>2. \A i \in Indexes : i \in Int
  BY LongestIs DEF Indexes, MaxLength
<1>3. \A i \in Indexes : i < job.index \/ i >= job.count
  BY <1>1, <1>2
<1>4. \A i \in Indexes : i >= Floor => Reached[job.path][i] = Absent
  <2> TAKE i \in Indexes
  <2>1. Floor \in Int
    BY <1>1, LongestIs DEF Floor, Burial, Counts
  <2>2. i >= Floor => Floor <= i
    BY <1>2, <2>1
  <2>3. CASE i < job.index
    BY <1>1, <2>2, <2>3 DEF Burial
  <2>4. CASE i >= job.count
    BY <1>1, <2>4 DEF Burial, Held
  <2> QED
    BY <1>3, <2>3, <2>4
<1> QED
  BY <1>4 DEF Held, Floor

\* A settled path accounts for itself, and the progress of another stays as it is.
LEMMA SettlesCleanly ==
  ASSUME DocumentAssumption, DocumentsRun, job.path \in Paths, NEW es, EntriesAreSound(es), es \in [DOMAIN es -> Entries],
         Sound(pending), pending # None => (pending.tomb = None \/ At(pending, job.path)),
         CleanBut(job.path, entries, pending, Reached),
         \A q \in Paths \ {job.path} : Tally(es, q) = Tally(entries, q),
         Held(Reached, job.path, Tally(es, job.path)), Settle(es),
         StaleInv, message = None, UNCHANGED <<saved, buffer, dest, start>>,
         pc' \in {"remove", "file"}, start # None => start.tomb = None
  PROVE  StaleInv'
<1> DEFINE left == IF At(pending, job.path) THEN None ELSE pending
<1>1. entries' = es /\ pending' = left /\ message' = Checkpoint(es, left)
  BY DEF Settle
<1>2. Sound(left) /\ (left # None => left.tomb = None)
  BY DEF Sound
<1>3. \A q \in Paths \ {job.path} : Upto(es, left, q) = Upto(entries, pending, q)
  BY DEF Upto, At
<1>4. ~At(left, job.path)
  BY DEF At
<1> HIDE DEF left
<1>5. Clean(es, left, Reached)
  <2>1. Upto(es, left, job.path) = Tally(es, job.path)
    BY <1>4 DEF Upto
  <2> QED
    BY <1>3, <2>1 DEF Clean, CleanBut
<1>6. Reached' = Reached
  BY DEF Reached, Written
<1>7. StaleRun'
  BY <1>1, <1>5, <1>6 DEF StaleRun
<1> QED
  BY <1>1, <1>2, <1>5, <1>7, StaleTells

LEMMA StaleBuried == ASSUME DocumentAssumption, DocumentsInv, StaleInv, Buried PROVE StaleInv'
<1>1. /\ DocumentsRun /\ JobIsSound /\ StaleRun /\ Burial /\ pc = "bury" /\ message = None
      /\ job.path \in Paths /\ job.index >= job.count
      /\ EntriesAreSound(entries) /\ Sound(pending)
      /\ UNCHANGED <<saved, buffer, dest, start>>
      /\ start # None => start.tomb = None
  BY DEF DocumentsInv, Buried, DocumentsRun, JobIsSound, StaleInv, StaleRun, Suspended
<1>2. /\ job.doc = None => Held(Reached, job.path, 0)
      /\ job.doc # None => Held(Reached, job.path, Parsed)
  BY <1>1, BuriedIs
<1>3. CleanBut(job.path, entries, pending, Reached)
  BY <1>1 DEF Burial, Clean, CleanBut
<1>4. CASE job.doc = None
  <2> DEFINE S == DOMAIN entries \ {job.path}
             es == [p \in S |-> entries[p]]
  <2>1. pc' = "remove" /\ Settle(es)
    BY <1>4 DEF Buried
  <2>2. es = [q \in S |-> entries[q]]
    OBVIOUS
  <2>3. entries \in [DOMAIN entries -> Entries]
    BY <1>1 DEF StaleRun
  <2> HIDE DEF es
  <2>4. DOMAIN es = S /\ (\A q \in S : es[q] = entries[q]) /\ es \in [DOMAIN es -> Entries]
    BY <2>2, <2>3
  <2>5. EntriesAreSound(es)
    BY <1>1, <2>4 DEF EntriesAreSound
  <2>6. /\ \A q \in Paths \ {job.path} : Tally(es, q) = Tally(entries, q)
        /\ Tally(es, job.path) = 0
    BY <2>4 DEF Tally
  <2>7. pending # None => (pending.tomb = None \/ At(pending, job.path))
    BY <1>1 DEF DocumentsRun
  <2> QED
    BY <1>1, <1>2, <1>3, <1>4, <2>1, <2>4, <2>5, <2>6, <2>7, SettlesCleanly
<1>5. CASE job.doc # None
  <2>1. pc' = "commit" /\ UNCHANGED <<entries, pending, message, job>>
    BY <1>5 DEF Buried
  <2>2. Reached' = Reached /\ Parsed' = Parsed
    BY <1>1, <2>1 DEF Reached, Written, Parsed
  <2>3. StaleRun'
    BY <1>1, <1>2, <1>3, <1>5, <2>1, <2>2 DEF StaleRun
  <2> QED
    BY <1>1, <2>1, <2>3, StaleQuietly
<1> QED
  BY <1>4, <1>5

\* A file that is extracted is new, changed or half done: what is known of it is to be
\* reconciled, or settled and emitted already.
LEMMA StaleExtracts == ASSUME DocumentAssumption, DocumentsInv, StaleInv, ExtractFile PROVE StaleInv'
<1> DEFINE p == NextPath(todo)
           doc == <<Snapshot(p), parser>>
           n == Known(p)
           k == ResumeAt(p, doc)
<1>1. /\ DocumentsRun /\ StaleRun /\ pc = "file" /\ message = None /\ todo # {}
      /\ pending \in {None, start} /\ Clean(entries, pending, Reached)
      /\ start # None => start.tomb = None
      /\ EntriesAreSound(entries) /\ Sound(start) /\ MaxLength \in Nat
  BY LongestIs DEF DocumentsInv, ExtractFile, DocumentsRun, StaleInv, StaleRun, Suspended
<1>2. /\ pc' = "emit" /\ UNCHANGED <<saved, start, entries, pending, buffer, message, dest>>
      /\ ~Unchanged(p, doc) /\ files[p] # Absent
      /\ \E d \in Draws : job' = [path |-> p, doc |-> doc, draw |-> d, index |-> k,
                                  resume |-> k, count |-> n, reconcile |-> Reconciles(p, doc)]
  BY DEF ExtractFile
<1>3. p \in Paths /\ n \in Counts /\ n \in Nat
  BY <1>1, NextPathIs, KnownIs DEF DocumentsRun, Counts
<1>4. Held(Reached, p, n)
  BY <1>1, <1>3, KnownCovers DEF Clean
<1>5. doc \in Documents /\ doc # None
  <2>1. files[p] \in Versions /\ parser \in Parsers
    BY <1>2, <1>3 DEF DocumentsInv
  <2> QED
    BY <2>1, NotNone DEF Snapshot, Documents
<1>6. Tally(entries, p) \in Nat /\ Count(p) = Tally(entries, p)
  BY <1>1, UptoIs DEF Counts, Count, Tally
<1>7. k = IF At(start, p) /\ start.doc = doc THEN start.next ELSE 0
  BY <1>1 DEF ResumeAt, Matches, At
<1>8. At(start, p) => /\ start.next \in Nat /\ OrZero(start.reconcile) \in Nat
                      /\ n = AtLeast(Tally(entries, p), AtLeast(start.next, OrZero(start.reconcile)))
  BY <1>1, <1>6 DEF Sound, At, Counts, OrZero, Known
<1>9. ~At(start, p) => n = Tally(entries, p)
  BY <1>6 DEF Known, AtLeast
<1>10. Reconciles(p, doc) \in BOOLEAN /\ k \in Nat
  BY <1>7, <1>8 DEF Reconciles
<1>11. ASSUME ~Reconciles(p, doc) PROVE n <= AtLeast(Tally(entries, p), k)
  <2>1. CASE n = 0
    BY <1>6, <1>10, <2>1 DEF AtLeast
  <2>2. CASE n > 0
    <3>1. /\ ~(At(start, p) /\ (OrZero(start.reconcile) > 0 \/ start.doc # doc))
          /\ ~(p \in DOMAIN entries /\ entries[p].doc # doc)
      BY <1>11, <2>2 DEF Reconciles
    <3>2. At(start, p)
      <4> SUFFICES ASSUME ~At(start, p) PROVE FALSE
        OBVIOUS
      <4>1. p \in DOMAIN entries
        BY <1>9, <2>2 DEF Tally
      <4> QED
        BY <1>2, <3>1, <4>1 DEF Unchanged
    <3>3. k = start.next /\ OrZero(start.reconcile) = 0
      BY <1>7, <1>8, <3>1, <3>2
    <3> QED
      BY <1>6, <1>8, <3>2, <3>3 DEF AtLeast
  <2> QED
    BY <1>3, <2>1, <2>2
<1> HIDE DEF p, doc, n, k
<1>12. PICK d \in Draws : job' = [path |-> p, doc |-> doc, draw |-> d, index |-> k,
                                  resume |-> k, count |-> n, reconcile |-> Reconciles(p, doc)]
  BY <1>2
<1>13. /\ job'.path = p /\ job'.doc = doc /\ job'.draw = d /\ job'.index = k /\ job'.resume = k
       /\ job'.count = n /\ job'.reconcile = Reconciles(p, doc) /\ {"resume"} \subseteq DOMAIN job'
  BY <1>12
<1>14. Reached' = Reached
  BY <1>2 DEF Reached, Written
<1>15. Held(Reached, p, AtLeast(n, k))
  BY <1>3, <1>4, <1>10, HeldGrows DEF AtLeast
<1>16. CleanBut(p, entries, pending, Reached)
  BY <1>1 DEF Clean, CleanBut
<1>17. Parsed' \in Nat
  <2>1. <<doc, d>> \in Extractions
    BY <1>5 DEF Extractions, Documents
  <2>2. Parsed' = Length[<<doc, d>>]
    BY <1>13 DEF Parsed
  <2> QED
    BY <2>1, <2>2, LongestIs DEF Counts
<1>18. k <= AtLeast(k, Parsed')
  BY <1>10, <1>17 DEF AtLeast
<1>19. (At(start, job.path)') => At(start, p)
  BY <1>2, <1>13 DEF At
<1>20. n <= Tally(entries, p) \/ At(start, p)
  BY <1>6, <1>9
<1>21. Emission'
  BY <1>2, <1>5, <1>10, <1>11, <1>13, <1>14, <1>15, <1>16, <1>18, <1>20 DEF Emission, At
<1>22. StaleRun'
  BY <1>1, <1>2, <1>21 DEF StaleRun
<1> QED
  BY <1>1, <1>2, <1>22, StaleQuietly

LEMMA StaleEmits == ASSUME DocumentAssumption, DocumentsInv, StaleInv, EmitElement PROVE StaleInv'
<1> DEFINE r == [path |-> job.path, index |-> job.index, content |-> Content]
           k == job.index + 1
           it == Progress(job.path, job.doc, job.draw, k, None, Reconcile(k))
<1>1. /\ DocumentsRun /\ JobIsSound /\ StaleRun /\ Emission /\ pc = "emit" /\ message = None
      /\ job.path \in Paths /\ job.index \in Nat /\ job.count \in Counts /\ job.count \in Nat
      /\ job.index < Parsed /\ job.doc \in Documents /\ job.draw \in Draws
      /\ EntriesAreSound(entries) /\ entries \in [DOMAIN entries -> Entries]
      /\ start # None => start.tomb = None
  BY LongestIs DEF DocumentsInv, EmitElement, DocumentsRun, JobIsSound, StaleInv, StaleRun, Suspended, Counts
<1>2. Parsed \in Nat /\ Tally(entries, job.path) \in Nat /\ job.resume \in Nat /\ job.reconcile \in BOOLEAN
  BY <1>1, ParsedIs, LongestIs, UptoIs DEF Counts, Emission, DocumentsRun
<1>3. /\ buffer' = Append(buffer, r) /\ job' = [job EXCEPT !.index = @ + 1]
      /\ UNCHANGED <<saved, pc, start, entries, dest>>
      /\ \/ UNCHANGED <<pending, message>>
         \/ /\ pending' = it /\ message' = Checkpoint(entries, it)
            /\ pending = None \/ pending.path = job.path
  BY DEF EmitElement
<1>4. /\ job'.path = job.path /\ job'.count = job.count /\ job'.doc = job.doc
      /\ job'.index = k /\ job'.draw = job.draw /\ job'.resume = job.resume
      /\ job'.reconcile = job.reconcile /\ DOMAIN job' = DOMAIN job
  BY <1>1, <1>3 DEF JobIsSound, Emission
<1>5. r \in Records /\ buffer \in Seq(Records)
  <2>1. Content \in Contents
    BY <1>1 DEF Content, Contents, Documents
  <2> QED
    BY <1>1, <2>1 DEF Records, StaleInv
<1>6. buffer' \in Seq(Records)
  BY <1>3, <1>5
<1>7. \A p \in Paths : \A i \in Indexes :
        Reached'[p][i] = IF job.path = p /\ job.index = i THEN r.content ELSE Reached[p][i]
  BY <1>3, <1>5, ReachedAppends
<1> HIDE DEF r
<1>8. \A p \in Paths \ {job.path} : \A i \in Indexes : Reached'[p][i] = Reached[p][i]
  BY <1>7
<1>9. \A p \in Paths \ {job.path} : Held(Reached', p, Upto(entries, pending, p))
  BY <1>1, <1>8 DEF Emission, CleanBut, Held
<1>10. Held(Reached', job.path, AtLeast(job.count, k))
  <2> SUFFICES ASSUME NEW i \in Indexes, i >= AtLeast(job.count, k)
               PROVE  Reached'[job.path][i] = Absent
    BY DEF Held
  <2>1. i \in Int
    BY LongestIs DEF Indexes, MaxLength
  <2>2. i # job.index /\ i >= AtLeast(job.count, job.index)
    BY <1>1, <2>1 DEF AtLeast
  <2> QED
    BY <1>1, <1>7, <2>2 DEF Emission, Held
<1>11. Parsed' = Parsed
  BY <1>4 DEF Parsed
<1>12. /\ ~job.reconcile => job.count <= AtLeast(Tally(entries, job.path), k)
       /\ k <= AtLeast(job.resume, Parsed)
  BY <1>1, <1>2 DEF Emission, AtLeast
<1>13. saved.progress # None => saved.progress.tomb = None
  BY <1>1, TombIs
<1>14. ASSUME CleanBut(job.path, entries, pending', Reached') PROVE StaleRun'
  <2>1. Emission'
    BY <1>1, <1>3, <1>4, <1>10, <1>11, <1>12, <1>14 DEF Emission, At
  <2> QED
    BY <1>1, <1>3, <2>1 DEF StaleRun
<1>15. CASE UNCHANGED <<pending, message>>
  <2>1. StaleRun'
    BY <1>9, <1>14, <1>15 DEF CleanBut
  <2> QED
    BY <1>1, <1>3, <1>6, <1>13, <1>15, <2>1 DEF StaleInv
<1>16. CASE pending' = it /\ message' = Checkpoint(entries, it) /\ (pending = None \/ pending.path = job.path)
  <2>1. it = [path |-> job.path, doc |-> job.doc, draw |-> job.draw, next |-> k, tomb |-> None,
              reconcile |-> Reconcile(k)]
    BY DEF Progress
  <2>2. Reconcile(k) = IF job.reconcile /\ job.count > k THEN job.count ELSE None
    BY DEF Reconcile
  <2> HIDE DEF it
  <2>3. /\ it.path = job.path /\ it.next = k /\ it.reconcile = Reconcile(k) /\ it.tomb = None
        /\ it \in Progresses
    BY <1>1, <2>1, <2>2 DEF Progresses, Documents
  <2>4. At(it, job.path) /\ \A q \in Paths \ {job.path} : ~At(it, q) /\ ~At(pending, q)
    BY <1>16, <2>3, NotNone DEF At
  <2>5. \A q \in Paths \ {job.path} : Upto(entries, it, q) = Upto(entries, pending, q)
    BY <2>4 DEF Upto
  <2> DEFINE z == OrZero(it.reconcile)
             u == AtLeast(Tally(entries, job.path), AtLeast(k, z))
  <2>6. Upto(entries, it, job.path) = u
    BY <2>3, <2>4 DEF Upto
  <2>7. z \in Nat /\ (job.reconcile /\ job.count > k => z = job.count)
    BY <1>1, <2>2, <2>3, FilesConstants DEF OrZero
  <2> HIDE DEF z
  <2>8. u \in Nat /\ k <= u /\ z <= u /\ Tally(entries, job.path) <= u
    BY <1>1, <1>2, <2>7 DEF AtLeast
  <2>9. job.count <= u
    <3>1. CASE ~job.reconcile
      BY <1>1, <1>2, <1>12, <2>7, <3>1 DEF AtLeast
    <3>2. CASE job.reconcile
      <4> HIDE DEF u
      <4> QED
        BY <1>1, <2>7, <2>8, <3>2
    <3> QED
      BY <3>1, <3>2
  <2> HIDE DEF u
  <2>10. Held(Reached', job.path, u)
    <3>1. AtLeast(job.count, k) \in Nat /\ AtLeast(job.count, k) <= u
      BY <1>1, <2>8, <2>9 DEF AtLeast
    <3> QED
      BY <1>1, <1>10, <2>8, <3>1, HeldGrows
  <2>11. Clean(entries, it, Reached')
    BY <1>9, <2>5, <2>6, <2>10 DEF Clean
  <2>12. StaleRun'
    BY <1>14, <1>16, <2>11 DEF Clean, CleanBut
  <2>13. message'.files = entries /\ message'.progress = it
    BY <1>16 DEF Checkpoint
  <2> QED
    BY <1>1, <1>3, <1>6, <1>13, <2>3, <2>11, <2>12, <2>13 DEF StaleInv
<1> QED
  BY <1>3, <1>15, <1>16

LEMMA StaleEnds ==
  ASSUME DocumentAssumption, DocumentsInv, StaleInv, EndElements, ~Stopped
  PROVE  StaleInv'
<1> DEFINE n == Parsed
           t == IF pending # None /\ pending.reconcile # None THEN pending.tomb ELSE None
           it == Progress(job.path, job.doc, job.draw, n, t, job.count)
           tail == pending = None \/ At(pending, job.path)
<1>1. /\ DocumentsRun /\ JobIsSound /\ StaleRun /\ Emission /\ pc = "emit" /\ message = None
      /\ job.path \in Paths /\ job.index \in Nat /\ job.count \in Counts /\ job.count \in Nat
      /\ job.index >= Parsed /\ job.doc \in Documents /\ job.draw \in Draws /\ job.doc # None
      /\ EntriesAreSound(entries) /\ Sound(pending)
      /\ start # None => start.tomb = None
      /\ pending # None => pending.tomb = None
      /\ pending \in {None, start} \/ At(pending, job.path)
  BY LongestIs DEF DocumentsInv, EndElements, DocumentsRun, JobIsSound, StaleInv, StaleRun, Suspended,
                   Counts, Emission
<1>2. n \in Counts /\ n \in Nat /\ Tally(entries, job.path) \in Nat /\ job.resume \in Nat
  BY <1>1, ParsedIs, LongestIs, UptoIs DEF Counts, Emission, DocumentsRun
<1>3. /\ job.resume <= n /\ UNCHANGED <<saved, start, entries, buffer, message, dest>>
      /\ \/ /\ pc' = "bury" /\ job.count > n
            /\ pending' = IF tail THEN it ELSE pending
         \/ pc' = "commit" /\ pending' = pending /\ ~(job.count > n)
      /\ job' = [job EXCEPT !.index = AtLeast(n,
                   IF At(pending', job.path) THEN OrZero(pending'.tomb) ELSE 0)]
  BY <1>1, <1>2 DEF EndElements
<1>4. t = None
  BY <1>1
<1>5. pending' # None => pending'.tomb = None
  <2>1. it.tomb = None
    BY <1>4 DEF Progress
  <2> HIDE DEF it
  <2> QED
    BY <1>1, <1>3, <2>1
<1>6. /\ job'.path = job.path /\ job'.count = job.count /\ job'.doc = job.doc
      /\ job'.index = n /\ job'.draw = job.draw
  <2>1. (IF At(pending', job.path) THEN OrZero(pending'.tomb) ELSE 0) = 0
    BY <1>5 DEF At, OrZero
  <2>2. AtLeast(n, 0) = n
    BY <1>2 DEF AtLeast
  <2> HIDE DEF n
  <2> QED
    BY <1>1, <1>3, <2>1, <2>2 DEF JobIsSound
<1>7. Parsed' = n /\ Floor' = n /\ Reached' = Reached
  BY <1>1, <1>3, <1>6 DEF Parsed, Floor, Reached, Written
<1>8. job.index = n
  BY <1>1, <1>2, <1>3 DEF Emission, AtLeast
<1>9. CleanBut(job.path, entries, pending, Reached) /\ Held(Reached, job.path, AtLeast(job.count, n))
  BY <1>1, <1>8 DEF Emission
<1> HIDE DEF n
<1>10. CASE pc' = "commit" /\ pending' = pending /\ ~(job.count > n)
  <2>1. AtLeast(job.count, n) = n
    BY <1>1, <1>2, <1>10 DEF AtLeast
  <2>2. StaleRun'
    BY <1>1, <1>3, <1>6, <1>7, <1>9, <1>10, <2>1 DEF StaleRun
  <2> QED
    BY <1>1, <1>3, <1>10, <2>2, StaleQuietly
<1>11. CASE pc' = "bury" /\ job.count > n /\ pending' = (IF tail THEN it ELSE pending)
  <2>1. Held(Reached, job.path, job.count)
    <3>1. AtLeast(job.count, n) = job.count
      BY <1>1, <1>2, <1>11 DEF AtLeast
    <3> QED
      BY <1>9, <3>1
  <2>2. /\ \A q \in Paths \ {job.path} : Upto(entries, pending', q) = Upto(entries, pending, q)
        /\ Upto(entries, pending', job.path) \in Nat /\ job.count <= Upto(entries, pending', job.path)
    <3>1. CASE tail
      <4>1. it = [path |-> job.path, doc |-> job.doc, draw |-> job.draw, next |-> n, tomb |-> None,
                  reconcile |-> job.count]
        BY <1>4 DEF Progress
      <4> HIDE DEF it
      <4>2. it.path = job.path /\ it.next = n /\ it.reconcile = job.count /\ it \in Progresses
        BY <1>1, <1>2, <4>1 DEF Progresses, Documents
      <4>3. At(it, job.path) /\ \A q \in Paths \ {job.path} : ~At(it, q) /\ ~At(pending, q)
        BY <3>1, <4>2, NotNone DEF At
      <4>4. Upto(entries, it, job.path) = AtLeast(Tally(entries, job.path), AtLeast(n, job.count))
        BY <1>1, <4>2, <4>3, FilesConstants DEF Upto, OrZero
      <4>5. Upto(entries, it, job.path) \in Nat /\ job.count <= Upto(entries, it, job.path)
        BY <1>1, <1>2, <4>4 DEF AtLeast
      <4>6. \A q \in Paths \ {job.path} : Upto(entries, it, q) = Upto(entries, pending, q)
        BY <4>3 DEF Upto
      <4> QED
        BY <1>11, <3>1, <4>5, <4>6
    <3>2. CASE ~tail
      <4>1. pending' = pending /\ ~At(pending, job.path) /\ pending = start
        BY <1>1, <1>11, <3>2
      <4>2. job.count <= Tally(entries, job.path)
        BY <1>1, <4>1 DEF Emission
      <4> QED
        BY <1>2, <4>1, <4>2 DEF Upto
    <3> QED
      BY <3>1, <3>2
  <2> HIDE DEF it, tail
  <2>3. Clean(entries, pending', Reached)
    <3>1. Held(Reached, job.path, Upto(entries, pending', job.path))
      BY <1>1, <2>1, <2>2, HeldGrows
    <3> QED
      BY <1>9, <2>2, <3>1 DEF Clean, CleanBut
  <2>4. \A i \in Indexes : ~(n <= i /\ i < n)
    BY <1>2, LongestIs DEF Indexes, MaxLength
  <2>5. Burial'
    BY <1>1, <1>2, <1>3, <1>6, <1>7, <1>11, <2>1, <2>3, <2>4 DEF Burial, Counts, MaxLength
  <2>6. StaleRun'
    BY <1>1, <1>3, <1>11, <2>5 DEF StaleRun
  <2> QED
    BY <1>1, <1>3, <1>11, <2>6, StaleQuietly
<1> QED
  BY <1>3, <1>10, <1>11

LEMMA StaleCommits == ASSUME DocumentAssumption, DocumentsInv, StaleInv, CommitFile PROVE StaleInv'
<1> DEFINE es == [p \in DOMAIN entries \cup {job.path} |->
                    IF p = job.path THEN Entry ELSE entries[p]]
<1>1. /\ DocumentsRun /\ JobIsSound /\ StaleRun /\ pc = "commit" /\ message = None
      /\ job.path \in Paths /\ job.doc \in Documents /\ job.draw \in Draws
      /\ EntriesAreSound(entries) /\ Sound(pending) /\ entries \in [DOMAIN entries -> Entries]
      /\ CleanBut(job.path, entries, pending, Reached) /\ Held(Reached, job.path, Parsed)
      /\ start # None => start.tomb = None
      /\ pending # None => (pending.tomb = None \/ At(pending, job.path))
  BY DEF DocumentsInv, CommitFile, DocumentsRun, JobIsSound, StaleInv, StaleRun, Suspended
<1>2. pc' = "file" /\ Settle(es) /\ UNCHANGED <<saved, start, buffer, dest>>
  BY DEF CommitFile
<1>3. /\ Entry \in [doc : Documents, draw : Draws, count : Counts] /\ Entry.count = Parsed
      /\ Entry \in Entries
  BY <1>1, ParsedIs, LongestIs DEF Entry, Entries, Counts, Documents
<1>4. /\ DOMAIN es = DOMAIN entries \cup {job.path} /\ es[job.path] = Entry
      /\ \A q \in DOMAIN entries \ {job.path} : es[q] = entries[q]
      /\ es \in [DOMAIN es -> Entries]
  BY <1>1, <1>3
<1> HIDE DEF es
<1>5. EntriesAreSound(es)
  BY <1>1, <1>3, <1>4 DEF EntriesAreSound
<1>6. /\ \A q \in Paths \ {job.path} : Tally(es, q) = Tally(entries, q)
      /\ Tally(es, job.path) = Parsed
  BY <1>3, <1>4 DEF Tally
<1> QED
  BY <1>1, <1>2, <1>4, <1>5, <1>6, SettlesCleanly

LEMMA StaleFinishes == ASSUME DocumentAssumption, DocumentsInv, StaleInv, Finish PROVE StaleInv'
<1>1. /\ DocumentsRun /\ StaleRun /\ pc = "file" /\ message = None /\ pc' = "idle"
      /\ EntriesAreSound(entries) /\ Sound(pending) /\ entries \in [DOMAIN entries -> Entries]
      /\ Clean(entries, pending, Reached)
      /\ pending # None => pending.tomb = None
  BY DEF DocumentsInv, Finish, DocumentsRun, StaleInv, StaleRun, Suspended
<1>2. message' = Checkpoint(entries, pending) /\ UNCHANGED <<saved, buffer, dest>>
  BY DEF Finish
<1> QED
  BY <1>1, <1>2, StaleTells

LEMMA StaleStep ==
  ASSUME DocumentAssumption, Stops = {"reading"}, DocumentsInv, StaleInv, Next \/ UNCHANGED vars
  PROVE  StaleInv'
<1> USE DEF world, locals
<1>1. CASE ChangeFile
  BY <1>1, StaleKept DEF ChangeFile
<1>2. CASE Reconfigure
  BY <1>2, StaleKept DEF Reconfigure
<1>3. CASE LoseCache
  BY <1>3, StaleKept DEF LoseCache
<1>4. CASE RemovedAll
  <2>1. /\ UNCHANGED <<saved, message, buffer, dest, start, entries, pending>>
        /\ pc = "remove" /\ pc' = "file" /\ message = None
    BY <1>4 DEF RemovedAll, Suspended
  <2>2. Reached' = Reached
    BY <2>1 DEF Reached, Written
  <2>3. StaleRun'
    BY <2>1, <2>2 DEF StaleInv, StaleRun
  <2> QED
    BY <2>1, <2>3, StaleQuietly
<1>5. CASE SkipFile
  BY <1>5, StaleKept DEF SkipFile
<1>6. ASSUME pc \in {"emit", "file"}, message = None, Stopped PROVE StaleInv'
  BY <1>6, TombIs, StaleStopped
<1>7. CASE EndElements
  <2>1. pc = "emit" /\ message = None
    BY <1>7 DEF EndElements, Suspended
  <2> QED
    BY <1>6, <1>7, <2>1, StaleEnds
<1>8. CASE FailFile
  <2>1. pc = "file" /\ message = None
    BY <1>8 DEF FailFile, Suspended
  <2>2. CASE ~Stopped
    BY <1>8, <2>2, StaleKept DEF FailFile
  <2> QED
    BY <1>6, <2>1, <2>2
<1>9. CASE UNCHANGED vars
  BY <1>9, StaleKept DEF vars
<1> QED
  BY <1>1, <1>2, <1>3, <1>4, <1>5, <1>7, <1>8, <1>9, StaleCrashes, StaleWrites, StaleSaves,
     StaleStarts, StaleRemoves, StaleBuries, StaleBuried, StaleExtracts, StaleEmits,
     StaleCommits, StaleFinishes
  DEF Next, Run, Source

LEMMA StaleInit == ASSUME Init PROVE StaleInv
<1>1. /\ saved = [files |-> <<>>, progress |-> None] /\ message = None /\ pc = "idle"
      /\ buffer = <<>> /\ dest = [p \in Paths |-> [i \in Indexes |-> Absent]]
  BY DEF Init
<1>2. saved.files = <<>> /\ saved.progress = None
  BY <1>1
<1>3. saved.files \in [DOMAIN saved.files -> Entries]
  BY <1>2
<1>4. Clean(saved.files, saved.progress, dest)
  BY <1>1 DEF Clean, Held
<1> QED
  BY <1>1, <1>2, <1>3, <1>4 DEF StaleInv

LEMMA StaleSafe == ASSUME StaleInv PROVE NoStaleElements
<1> SUFFICES ASSUME Quiet, NEW p \in Paths, ~At(saved.progress, p)
             PROVE  Held(dest, p, Tally(saved.files, p))
  BY DEF NoStaleElements, Held, Tally
<1>1. Clean(saved.files, saved.progress, dest)
  BY DEF StaleInv, Quiet
<1> QED
  BY <1>1 DEF Clean, Upto

-------------------------------------------------------------------------------
(* What the checkpoint has passed is in the destination                    *)

\* The documents a path has been through, and those it has left behind for good: a file
\* that does not return has gone, or it and the parser only move on.
Passed ==
  {e \in Paths \X Documents :
     e[1] \in gone \/ (files[e[1]] # Absent /\ e[2][1] <= files[e[1]] /\ e[2][2] <= parser)}
Outdated == {e \in Passed : e[1] \in gone \/ e[2][1] < files[e[1]] \/ e[2][2] < parser}

\* The first elements of a path are those of one extraction.
Shown(d, p, doc, draw, n) == \A i \in Indexes : i < n => d[p][i] = <<doc[1], doc[2], draw>>
InPlace(d, es, p) == Shown(d, p, es[p].doc, es[p].draw, es[p].count)

\* A checkpoint's documents are of the past or the present.
HasPassed(it, passed) == it # None => <<it.path, it.doc>> \in passed
HavePassed(es, passed) == \A p \in DOMAIN es : <<p, es[p].doc>> \in passed

\* What it accounts for is there unless it is outdated: the elements of every file that
\* is done, those of the one half done up to where it has come.
EntriesAreShown(es, d, old) == \A p \in DOMAIN es : <<p, es[p].doc>> \in old \/ InPlace(d, es, p)
ProgressIsShown(it, d, old) ==
  it # None =>
    \/ <<it.path, it.doc>> \in old
    \/ it.next <= Length[<<it.doc, it.draw>>] /\ Shown(d, it.path, it.doc, it.draw, it.next)
\* A file is half done only if its entry is outdated.
IsAhead(es, it, old) ==
  (it # None /\ it.path \in DOMAIN es) => <<it.path, es[it.path].doc>> \in old
Accounted(es, it, d, old) ==
  EntriesAreShown(es, d, old) /\ ProgressIsShown(it, d, old) /\ IsAhead(es, it, old)

\* Progresses of the same elements.
Like(it, other) ==
  \/ it = other
  \/ /\ it # None /\ other # None
     /\ it.path = other.path /\ it.doc = other.doc /\ it.draw = other.draw /\ it.next = other.next

\* Files that have gone are buried before the others are visited.
Removing == pc = "remove" \/ (pc = "bury" /\ job.doc = None)
Working == pc \in {"emit", "commit"} \/ (pc = "bury" /\ job.doc # None)

\* A progress of the path at hand is outdated or of the extraction at hand.
Ours(it, p, doc, draw, old) ==
  At(it, p) => <<p, it.doc>> \in old \/ (it.doc = doc /\ it.draw = draw)

JobIsShown ==
  /\ job.doc \in Documents /\ job.draw \in Draws /\ {"draw"} \subseteq DOMAIN job
  /\ <<job.path, job.doc>> \in Passed /\ job.path \notin todo
  /\ job.path \in DOMAIN entries => <<job.path, entries[job.path].doc>> \in Outdated
  /\ \A it \in {start, pending, saved.progress} : Ours(it, job.path, job.doc, job.draw, Outdated)
  /\ Shown(Reached, job.path, job.doc, job.draw, IF pc = "emit" THEN job.index ELSE Parsed)
  /\ pc = "emit" => job.index <= Parsed
  /\ pc = "bury" => Parsed <= job.index

ShownRun ==
  /\ HasPassed(start, Passed) /\ ProgressIsShown(start, Reached, Outdated)
  /\ (start # None /\ (Removing \/ start.path \in todo)) => IsAhead(entries, start, Outdated)
  /\ Removing => todo \subseteq gone
  /\ (pc = "bury" /\ job.doc = None) => job.path \in gone
  /\ Working => JobIsShown
  /\ pc \in {"remove", "file"} =>
       (IF message = None THEN saved.progress ELSE message.progress) = pending

\* In strict mode a run that ends well has seen to every file.
StrictRun ==
  /\ pc = "remove" => DOMAIN entries \subseteq seen \cup todo
  /\ (pc = "bury" /\ job.doc = None) => DOMAIN entries \subseteq seen \cup todo \cup {job.path}
  /\ pc = "file" => \A p \in DOMAIN entries : p \in todo \/ InPlace(Reached, entries, p)
  /\ Working =>
       \A p \in DOMAIN entries : p \in todo \/ p = job.path \/ InPlace(Reached, entries, p)
  /\ pc = "idle" => \A p \in DOMAIN entries : InPlace(Reached, entries, p)

\* Between a checkpoint and the message of the next one nothing is settled.
CheckpointIsNear ==
  /\ message = None => entries = saved.files
  /\ message # None => message.files = entries /\ Like(message.progress, pending)
  /\ (message = None /\ pc \in {"idle", "stopped"}) => buffer = <<>>

CheckpointIsShown ==
  /\ HavePassed(saved.files, Passed) /\ HasPassed(saved.progress, Passed)
  /\ HavePassed(entries, Passed) /\ HasPassed(pending, Passed)
  /\ Accounted(saved.files, saved.progress, dest, Outdated)
  /\ Accounted(saved.files, saved.progress, Reached, Outdated)
  /\ Accounted(entries, pending, Reached, Outdated)

ShownInv ==
  /\ buffer \in Seq(Records)
  /\ gone \subseteq Paths /\ \A p \in gone : files[p] = Absent
  /\ EntriesAreSound(entries) /\ Sound(pending)
  /\ entries \in [DOMAIN entries -> Entries] /\ saved.files \in [DOMAIN saved.files -> Entries]
  /\ CheckpointIsNear
  /\ CheckpointIsShown
  /\ pc \notin {"idle", "stopped"} => ShownRun
  /\ Strict => StrictRun

\* The world's changes only add to what is past and outdated.
LEMMA WorldMovesOn ==
  ASSUME DocumentAssumption, ~Return, DocumentsInv, gone \subseteq Paths,
         \A p \in gone : files[p] = Absent,
         ChangeFile \/ Reconfigure \/ UNCHANGED <<files, gone, parser>>
  PROVE  /\ gone \subseteq gone' /\ gone' \subseteq Paths /\ \A p \in gone' : files'[p] = Absent
         /\ Passed \subseteq Passed' /\ Outdated \subseteq Outdated'
<1>0. /\ Versions \subseteq Nat /\ Parsers \subseteq Nat /\ Absent \notin Versions
      /\ files \in [Paths -> Versions \cup {Absent}] /\ parser \in Parsers
  BY DEF DocumentAssumption, DocumentsInv
<1> DEFINE At1(e) == e[1] \in gone \/ (files[e[1]] # Absent /\ e[2][1] <= files[e[1]] /\ e[2][2] <= parser)
           Old(e) == e[1] \in gone \/ e[2][1] < files[e[1]] \/ e[2][2] < parser
<1>1. ASSUME gone' = gone, files' = files, parser' \in Parsers, parser' >= parser
      PROVE  Passed \subseteq Passed' /\ Outdated \subseteq Outdated'
  <2>1. \A e \in Paths \X Documents : e[2][2] \in Nat
    BY <1>0 DEF Documents
  <2>2. \A e \in Passed : e \in Passed'
    BY <1>0, <1>1, <2>1 DEF Passed
  <2>3. \A e \in Outdated : e \in Outdated'
    BY <1>0, <1>1, <2>1, <2>2 DEF Outdated, Passed
  <2> QED
    BY <2>2, <2>3
<1>2. CASE UNCHANGED <<files, gone, parser>>
  BY <1>0, <1>1, <1>2
<1>3. CASE Reconfigure
  <2>1. parser' \in Parsers /\ parser' >= parser /\ gone' = gone /\ files' = files
    BY <1>0, <1>3 DEF Reconfigure, world, locals
  <2> QED
    BY <1>1, <2>1
<1>4. CASE ChangeFile
  <2>1. PICK p \in Paths, v \in Versions \cup {Absent} :
          /\ IF files[p] = Absent THEN p \notin gone ELSE v # Absent => v > files[p]
          /\ files' = [files EXCEPT ![p] = v] /\ parser' = parser
          /\ gone' = IF v = Absent THEN gone \cup {p} ELSE gone
    BY <1>4 DEF ChangeFile
  <2>2. gone \subseteq gone' /\ gone' \subseteq Paths /\ \A q \in gone' : files'[q] = Absent
    BY <1>0, <2>1
  <2>3. \A e \in Passed : e \in Paths \X Documents /\ e[1] \in Paths /\ e[2][1] \in Nat
    BY <1>0 DEF Passed, Documents
  <2>4. \A e \in Passed : e[1] # p => files'[e[1]] = files[e[1]]
    BY <1>0, <2>1, <2>3
  <2>5. \A e \in Passed : e[1] = p =>
          \/ p \in gone'
          \/ files[p] # Absent /\ files[p] \in Nat /\ v \in Nat /\ v > files[p] /\ files'[p] = v
             /\ v # Absent
    BY <1>0, <2>1, <2>3 DEF Passed
  <2>6. \A e \in Passed : e \in Passed'
    <3> TAKE e \in Passed
    <3>1. CASE e[1] # p
      BY <2>1, <2>2, <2>3, <2>4, <3>1 DEF Passed
    <3>2. CASE e[1] = p /\ p \in gone'
      BY <2>3, <3>2 DEF Passed
    <3>3. CASE e[1] = p /\ p \notin gone'
      BY <2>1, <2>2, <2>3, <2>5, <3>3 DEF Passed
    <3> QED
      BY <3>1, <3>2, <3>3
  <2>7. \A e \in Outdated : e \in Outdated'
    <3> TAKE e \in Outdated
    <3>0. e \in Passed /\ e \in Passed'
      BY <2>6 DEF Outdated
    <3>1. CASE e[1] # p
      BY <2>1, <2>2, <2>4, <3>0, <3>1 DEF Outdated
    <3>2. CASE e[1] = p /\ p \in gone'
      BY <3>0, <3>2 DEF Outdated
    <3>3. CASE e[1] = p /\ p \notin gone'
      BY <2>1, <2>2, <2>3, <2>5, <3>0, <3>3 DEF Outdated
    <3> QED
      BY <3>1, <3>2, <3>3
  <2> QED
    BY <2>2, <2>6, <2>7
<1> QED
  BY <1>2, <1>3, <1>4 DEF Reconfigure

\* The document that is there is of the present; whatever else was read is outdated.
LEMMA PresentIs ==
  ASSUME DocumentAssumption, DocumentsInv, \A p \in gone : files[p] = Absent,
         NEW p \in Paths, files[p] # Absent
  PROVE  /\ <<files[p], parser>> \in Documents /\ <<p, <<files[p], parser>>>> \in Passed
         /\ <<p, <<files[p], parser>>>> \notin Outdated /\ p \notin gone
         /\ \A doc \in Documents :
              <<p, doc>> \in Passed /\ doc # <<files[p], parser>> => <<p, doc>> \in Outdated
<1>0. /\ Versions \subseteq Nat /\ Parsers \subseteq Nat
      /\ files[p] \in Versions /\ parser \in Parsers /\ p \notin gone
  BY DEF DocumentAssumption, DocumentsInv
<1>1. /\ files[p] \in Versions /\ parser \in Parsers /\ p \notin gone
      /\ files[p] \in Nat /\ parser \in Nat
  BY <1>0
<1>2. \A v \in Versions, q \in Parsers :
        /\ <<v, q>> \in Documents /\ <<v, q>>[1] = v /\ <<v, q>>[2] = q
        /\ <<p, <<v, q>>>>[1] = p /\ <<p, <<v, q>>>>[2] = <<v, q>>
  BY DEF Documents
<1> DEFINE now == <<files[p], parser>>
           e == <<p, now>>
<1>3. e \in Paths \X Documents /\ e[1] = p /\ e[2] = now /\ e[2][1] = files[p] /\ e[2][2] = parser
  BY <1>1, <1>2
<1>4. now \in Documents /\ e \in Passed /\ e \notin Outdated
  <2>1. now \in Documents
    BY <1>1, <1>2
  <2> HIDE DEF e, now
  <2>2. files[p] <= files[p] /\ parser <= parser /\ ~(files[p] < files[p]) /\ ~(parser < parser)
    BY <1>1
  <2> QED
    BY <1>1, <1>3, <2>1, <2>2 DEF Passed, Outdated
<1>5. ASSUME NEW doc \in Documents, <<p, doc>> \in Passed, doc # <<files[p], parser>>
      PROVE  <<p, doc>> \in Outdated
  <2>1. PICK v \in Versions, q \in Parsers : doc = <<v, q>>
    BY DEF Documents
  <2>2. doc[1] = v /\ doc[2] = q /\ v \in Nat /\ q \in Nat
    BY <1>0, <2>1
  <2>3. v <= files[p] /\ q <= parser
    BY <1>1, <1>5, <2>2 DEF Passed
  <2>4. v # files[p] \/ q # parser
    BY <1>5, <2>1
  <2>5. v < files[p] \/ q < parser
    BY <1>1, <2>2, <2>3, <2>4
  <2> QED
    BY <1>5, <2>2, <2>5 DEF Outdated
<1> QED
  BY <1>1, <1>4, <1>5

LEMMA GoneIs ==
  ASSUME NEW p \in gone, p \in Paths, NEW doc \in Documents
  PROVE  <<p, doc>> \in Passed /\ <<p, doc>> \in Outdated
BY DEF Passed, Outdated

LEMMA AccountedGrows ==
  ASSUME NEW es, NEW it, NEW d, NEW old, NEW new, old \subseteq new, Accounted(es, it, d, old)
  PROVE  Accounted(es, it, d, new)
BY DEF Accounted, EntriesAreShown, ProgressIsShown, IsAhead

LEMMA ShownGrows ==
  ASSUME NEW d, NEW e, NEW p, NEW doc, NEW draw, NEW n, Shown(d, p, doc, draw, n),
         \A i \in Indexes : e[p][i] = d[p][i]
  PROVE  Shown(e, p, doc, draw, n)
BY DEF Shown

\* Another destination that differs at one path, whose entry is outdated.
LEMMA AccountedElsewhere ==
  ASSUME NEW es, NEW it, NEW d, NEW e, NEW old, NEW q \in Paths,
         EntriesAreSound(es), Sound(it), Accounted(es, it, d, old),
         \A p \in Paths \ {q} : \A i \in Indexes : e[p][i] = d[p][i],
         q \in DOMAIN es => <<q, es[q].doc>> \in old,
         At(it, q) => \/ <<q, it.doc>> \in old
                      \/ Shown(d, q, it.doc, it.draw, it.next) => Shown(e, q, it.doc, it.draw, it.next)
  PROVE  Accounted(es, it, e, old)
<1>1. ASSUME NEW p \in DOMAIN es, <<p, es[p].doc>> \notin old PROVE InPlace(e, es, p)
  <2>1. p \in Paths \ {q} /\ InPlace(d, es, p)
    BY <1>1 DEF Accounted, EntriesAreShown, EntriesAreSound
  <2> QED
    BY <2>1, ShownGrows DEF InPlace
<1>2. ProgressIsShown(it, e, old)
  <2>1. CASE it = None
    BY <2>1 DEF ProgressIsShown
  <2>2. CASE At(it, q)
    BY <2>2 DEF At, ProgressIsShown, Accounted
  <2>3. CASE it # None /\ it.path # q
    <3>1. it.path \in Paths \ {q}
      BY <2>3 DEF Sound
    <3>2. Shown(d, it.path, it.doc, it.draw, it.next) => Shown(e, it.path, it.doc, it.draw, it.next)
      BY <3>1, ShownGrows
    <3> QED
      BY <2>3, <3>2 DEF ProgressIsShown, Accounted
  <2> QED
    BY <2>1, <2>2, <2>3 DEF At
<1>3. EntriesAreShown(es, e, old)
  BY <1>1 DEF EntriesAreShown
<1> QED
  BY <1>2, <1>3 DEF Accounted

\* The same everywhere.
LEMMA AccountedSame ==
  ASSUME NEW es, NEW it, NEW d, NEW e, NEW old,
         EntriesAreSound(es), Sound(it), Accounted(es, it, d, old),
         \A p \in Paths : \A i \in Indexes : e[p][i] = d[p][i]
  PROVE  Accounted(es, it, e, old)
<1>1. \A p \in DOMAIN es : InPlace(d, es, p) => InPlace(e, es, p)
  BY ShownGrows DEF InPlace, EntriesAreSound
<1>2. it # None => it.path \in Paths
  BY DEF Sound
<1>3. it # None => (Shown(d, it.path, it.doc, it.draw, it.next)
                      => Shown(e, it.path, it.doc, it.draw, it.next))
  BY <1>2, ShownGrows
<1> QED
  BY <1>1, <1>3 DEF Accounted, EntriesAreShown, ProgressIsShown

LEMMA ReachedSame == ASSUME UNCHANGED <<buffer, dest>> PROVE Reached' = Reached
BY DEF Reached, Written

LEMMA WorldStays ==
  ASSUME UNCHANGED <<files, gone, parser>> PROVE Passed' = Passed /\ Outdated' = Outdated
BY DEF Passed, Outdated

\* The environment moves on, and nothing else does.
LEMMA ShownMovesOn ==
  ASSUME ShownInv, gone \subseteq gone', gone' \subseteq Paths,
         \A p \in gone' : files'[p] = Absent,
         Passed \subseteq Passed', Outdated \subseteq Outdated',
         UNCHANGED <<saved, pc, start, entries, pending, seen, todo, job, message, buffer, dest>>
  PROVE  ShownInv'
<1>1. Reached' = Reached /\ (Working <=> Working') /\ (Removing <=> Removing') /\ Parsed' = Parsed
  BY ReachedSame DEF Working, Removing, Parsed
<1>2. \A it : HasPassed(it, Passed) => HasPassed(it, Passed')
  BY DEF HasPassed
<1>3. \A es : HavePassed(es, Passed) => HavePassed(es, Passed')
  BY DEF HavePassed
<1>4. \A es, it, d : Accounted(es, it, d, Outdated) => Accounted(es, it, d, Outdated')
  BY AccountedGrows
<1>5. CheckpointIsShown'
  BY <1>1, <1>2, <1>3, <1>4 DEF ShownInv, CheckpointIsShown
<1>6. JobIsShown => JobIsShown'
  BY <1>1 DEF JobIsShown, Ours
<1>7. ShownRun => ShownRun'
  <2>1. \A it, d : ProgressIsShown(it, d, Outdated) => ProgressIsShown(it, d, Outdated')
    BY DEF ProgressIsShown
  <2>2. \A es, it : IsAhead(es, it, Outdated) => IsAhead(es, it, Outdated')
    BY DEF IsAhead
  <2> QED
    BY <1>1, <1>2, <1>6, <2>1, <2>2 DEF ShownRun
<1>8. StrictRun => StrictRun'
  BY <1>1 DEF StrictRun
<1>9. CheckpointIsNear' /\ EntriesAreSound(entries)' /\ Sound(pending)'
  BY DEF ShownInv, CheckpointIsNear, EntriesAreSound, Sound, Bound
<1> QED
  BY <1>5, <1>7, <1>8, <1>9 DEF ShownInv

\* Steps of the source that emit nothing.
LEMMA ShownQuietly ==
  ASSUME ShownInv, UNCHANGED <<files, gone, parser, saved, buffer, dest>>,
         EntriesAreSound(entries'), Sound(pending'), entries' \in [DOMAIN entries' -> Entries],
         HavePassed(entries', Passed), HasPassed(pending', Passed),
         Accounted(entries', pending', Reached, Outdated),
         CheckpointIsNear', pc' \notin {"idle", "stopped"} => ShownRun', Strict => StrictRun'
  PROVE  ShownInv'
<1>1. Reached' = Reached /\ Passed' = Passed /\ Outdated' = Outdated
  BY ReachedSame, WorldStays
<1>2. CheckpointIsShown'
  BY <1>1 DEF ShownInv, CheckpointIsShown
<1>3. EntriesAreSound(entries)' /\ Sound(pending)'
  BY DEF EntriesAreSound, Sound, Bound
<1> QED
  BY <1>2, <1>3 DEF ShownInv

LEMMA ShownStopped ==
  ASSUME DocumentsInv, ShownInv, UNCHANGED <<files, gone, parser>>, Stopped
  PROVE  ShownInv'
<1>1. /\ pc' = "stopped" /\ message' = None /\ buffer' = <<>> /\ pending' = None
      /\ entries' = saved.files /\ saved' = saved /\ dest' = dest
  BY DEF Stopped
<1>2. \A p \in Paths : \A i \in Indexes : Reached'[p][i] = dest[p][i]
  <2>1. \A p \in Paths : \A i \in Indexes : (Reached[p][i] = dest[p][i])'
    <3>1. DOMAIN buffer' = {}
      BY <1>1
    <3>2. \A p, i : {k \in DOMAIN buffer' : buffer'[k].path = p /\ buffer'[k].index = i} = {}
      BY <3>1
    <3> QED
      BY <3>2 DEF Reached, Written
  <2> QED
    BY <1>1, <2>1
<1>3. Passed' = Passed /\ Outdated' = Outdated
  BY WorldStays
<1>4. EntriesAreSound(saved.files) /\ Sound(saved.progress)
  BY DEF DocumentsInv
<1>5. /\ Accounted(saved.files, saved.progress, dest, Outdated)
      /\ HavePassed(saved.files, Passed) /\ HasPassed(saved.progress, Passed)
  BY DEF ShownInv, CheckpointIsShown
<1>6. Accounted(saved.files, saved.progress, Reached', Outdated)
  BY <1>2, <1>4, <1>5, AccountedSame
<1>7. Accounted(saved.files, None, Reached', Outdated) /\ HasPassed(None, Passed)
  BY <1>6 DEF Accounted, ProgressIsShown, IsAhead, HasPassed
<1>8. CheckpointIsShown'
  BY <1>1, <1>3, <1>5, <1>6, <1>7 DEF CheckpointIsShown
<1>9. StrictRun'
  BY <1>1 DEF StrictRun, Working
<1>10. CheckpointIsNear' /\ EntriesAreSound(entries)' /\ Sound(pending)' /\ buffer' \in Seq(Records)
  BY <1>1, <1>4 DEF CheckpointIsNear, EntriesAreSound, Sound
<1>11. (gone \subseteq Paths /\ \A p \in gone : files[p] = Absent)'
  BY DEF ShownInv
<1> QED
  BY <1>1, <1>8, <1>9, <1>10, <1>11 DEF ShownInv

\* Writing what is buffered.
LEMMA ShownWrites == ASSUME DocumentsInv, ShownInv, Write PROVE ShownInv'
<1>1. /\ message # None /\ buffer' = <<>> /\ dest' = Reached
      /\ UNCHANGED <<files, gone, parser, saved, pc, start, entries, pending, seen, todo, job,
                     message>>
  BY DEF Write, Reached, Suspended, world
<1>2. \A p \in Paths : \A i \in Indexes : Reached'[p][i] = Reached[p][i]
  BY <1>1, ReachedWrites
<1>3. /\ Passed' = Passed /\ Outdated' = Outdated /\ (Working <=> Working')
      /\ (Removing <=> Removing') /\ Parsed' = Parsed
  BY <1>1, WorldStays DEF Working, Removing, Parsed
<1>4. EntriesAreSound(saved.files) /\ Sound(saved.progress) /\ EntriesAreSound(entries)
      /\ Sound(pending) /\ CheckpointIsShown
  BY DEF DocumentsInv, ShownInv
<1>5. CheckpointIsShown'
  <2>1. /\ Accounted(saved.files, saved.progress, Reached', Outdated)
        /\ Accounted(entries, pending, Reached', Outdated)
    BY <1>2, <1>4, AccountedSame DEF CheckpointIsShown
  <2> QED
    BY <1>1, <1>3, <1>4, <2>1 DEF CheckpointIsShown
<1>6. ASSUME pc \notin {"idle", "stopped"} PROVE ShownRun'
  <2>1. ShownRun /\ DocumentsRun
    BY <1>6 DEF ShownInv, DocumentsInv
  <2>2. ProgressIsShown(start, Reached', Outdated)
    <3>1. start # None => start.path \in Paths
      BY <2>1 DEF DocumentsRun, Sound
    <3>2. start # None => (Shown(Reached, start.path, start.doc, start.draw, start.next)
                             => Shown(Reached', start.path, start.doc, start.draw, start.next))
      BY <1>2, <3>1, ShownGrows
    <3> QED
      BY <2>1, <3>2 DEF ShownRun, ProgressIsShown
  <2>3. Working => JobIsShown'
    <3> SUFFICES ASSUME Working PROVE JobIsShown'
      OBVIOUS
    <3>1. job.path \in Paths /\ JobIsShown
      BY <2>1 DEF Working, DocumentsRun, JobIsSound, ShownRun
    <3> DEFINE n == IF pc = "emit" THEN job.index ELSE Parsed
    <3>2. Shown(Reached', job.path, job.doc, job.draw, n)
      BY <1>2, <3>1, ShownGrows DEF JobIsShown
    <3> QED
      BY <1>1, <1>3, <3>1, <3>2 DEF JobIsShown
  <2> QED
    BY <1>1, <1>3, <2>1, <2>2, <2>3 DEF ShownRun
<1>7. StrictRun => StrictRun'
  <2>1. \A p \in DOMAIN entries : InPlace(Reached, entries, p) => InPlace(Reached', entries, p)
    BY <1>2, <1>4, ShownGrows DEF InPlace, EntriesAreSound
  <2> QED
    BY <1>1, <1>3, <2>1 DEF StrictRun
<1>8. CheckpointIsNear' /\ EntriesAreSound(entries)' /\ Sound(pending)' /\ buffer' \in Seq(Records)
  BY <1>1, <1>4 DEF ShownInv, CheckpointIsNear, EntriesAreSound, Sound, Bound
<1> QED
  BY <1>1, <1>5, <1>6, <1>7, <1>8 DEF ShownInv

\* A progress of the same elements is as good.
LEMMA LikeIs ==
  ASSUME NEW it, NEW other, Like(it, other)
  PROVE  /\ \A passed : HasPassed(other, passed) => HasPassed(it, passed)
         /\ \A es, d, old : Accounted(es, other, d, old) => Accounted(es, it, d, old)
         /\ \A p, doc, draw, old : Ours(other, p, doc, draw, old) => Ours(it, p, doc, draw, old)
<1>1. \A passed : HasPassed(other, passed) => HasPassed(it, passed)
  BY DEF Like, HasPassed
<1>2. \A es, d, old : Accounted(es, other, d, old) => Accounted(es, it, d, old)
  BY DEF Like, Accounted, ProgressIsShown, IsAhead
<1>3. \A p, doc, draw, old : Ours(other, p, doc, draw, old) => Ours(it, p, doc, draw, old)
  BY DEF Like, Ours, At
<1> QED
  BY <1>1, <1>2, <1>3

LEMMA ShownSaves == ASSUME DocumentsInv, ShownInv, Save PROVE ShownInv'
<1>1. /\ message # None /\ buffer = <<>> /\ saved' = message /\ message' = None
      /\ UNCHANGED <<files, gone, parser, pc, start, entries, pending, seen, todo, job, buffer, dest>>
  BY DEF Save, Suspended, world
<1>2. /\ Reached' = Reached /\ Passed' = Passed /\ Outdated' = Outdated
      /\ (Working <=> Working') /\ (Removing <=> Removing') /\ Parsed' = Parsed
  BY <1>1, ReachedSame, WorldStays DEF Working, Removing, Parsed
<1>3. /\ saved'.files = entries /\ Like(saved'.progress, pending)
      /\ EntriesAreSound(entries) /\ Sound(message.progress)
  BY <1>1 DEF ShownInv, CheckpointIsNear, DocumentsInv
<1>4. /\ HavePassed(entries, Passed) /\ HasPassed(pending, Passed)
      /\ Accounted(entries, pending, Reached, Outdated)
  BY DEF ShownInv, CheckpointIsShown
<1>5. HasPassed(saved'.progress, Passed) /\ Accounted(entries, saved'.progress, Reached, Outdated)
  BY <1>3, <1>4, LikeIs
<1>6. Accounted(entries, saved'.progress, dest, Outdated)
  <2>1. \A p \in Paths : \A i \in Indexes : dest[p][i] = Reached[p][i]
    BY <1>1, ReachedEmpty
  <2> QED
    BY <1>1, <1>3, <1>5, <2>1, AccountedSame
<1>7. CheckpointIsShown'
  BY <1>1, <1>2, <1>3, <1>4, <1>5, <1>6 DEF CheckpointIsShown
<1>8. ASSUME pc \notin {"idle", "stopped"} PROVE ShownRun'
  <2>1. ShownRun
    BY <1>8 DEF ShownInv
  <2>2. Working => JobIsShown'
    BY <1>1, <1>2, <1>3, <2>1, LikeIs DEF ShownRun, JobIsShown
  <2>3. pc \in {"remove", "file"} => saved'.progress = pending
    BY <1>1, <2>1 DEF ShownRun
  <2> QED
    BY <1>1, <1>2, <2>1, <2>2, <2>3 DEF ShownRun
<1>9. StrictRun => StrictRun'
  BY <1>1, <1>2 DEF StrictRun
<1>10. CheckpointIsNear' /\ EntriesAreSound(entries)' /\ Sound(pending)'
  BY <1>1, <1>3 DEF ShownInv, CheckpointIsNear, EntriesAreSound, Sound, Bound
<1>11. (saved.files \in [DOMAIN saved.files -> Entries] /\ entries \in [DOMAIN entries -> Entries])'
  BY <1>1, <1>3 DEF ShownInv
<1> QED
  BY <1>1, <1>7, <1>8, <1>9, <1>10, <1>11 DEF ShownInv

LEMMA ShownStarts == ASSUME DocumentAssumption, DocumentsInv, ShownInv, StartRun PROVE ShownInv'
<1>1. /\ pc \in {"idle", "stopped"} /\ message = None /\ pc' = "remove"
      /\ start' = saved.progress /\ pending' = saved.progress /\ entries' = saved.files
      /\ seen' = Discovered /\ message' = None
      /\ todo' = {p \in Paths : p \in DOMAIN saved.files \/ At(saved.progress, p)} \ seen'
      /\ UNCHANGED <<files, gone, parser, saved, buffer, dest>>
  BY DEF StartRun, Suspended, world
<1>2. /\ EntriesAreSound(saved.files) /\ Sound(saved.progress)
      /\ files \in [Paths -> Versions \cup {Absent}] /\ CheckpointIsShown
      /\ saved.files \in [DOMAIN saved.files -> Entries]
  BY DEF DocumentsInv, ShownInv
<1>3. Reached' = Reached /\ Passed' = Passed /\ Outdated' = Outdated
  BY <1>1, ReachedSame, WorldStays
<1>4. todo' \subseteq gone
  <2> SUFFICES ASSUME NEW p \in todo' PROVE p \in gone
    OBVIOUS
  <2>1. p \in Paths /\ files[p] = Absent /\ (p \in DOMAIN saved.files \/ At(saved.progress, p))
    BY <1>1 DEF Discovered
  <2>2. \E doc : <<p, doc>> \in Passed
    BY <1>2, <2>1 DEF CheckpointIsShown, HavePassed, HasPassed, At
  <2> QED
    BY <2>1, <2>2 DEF Passed
<1>5. ShownRun'
  BY <1>1, <1>2, <1>3, <1>4 DEF CheckpointIsShown, Accounted, ShownRun, Working, Removing
<1>6. StrictRun'
  BY <1>1, <1>2 DEF StrictRun, Working, Discovered, EntriesAreSound
<1>7. CheckpointIsNear'
  BY <1>1 DEF CheckpointIsNear
<1> QED
  BY <1>1, <1>2, <1>5, <1>6, <1>7, ShownQuietly DEF CheckpointIsShown

LEMMA ShownRemoves ==
  ASSUME DocumentAssumption, DocumentsInv, ShownInv, RemovePath PROVE ShownInv'
<1> DEFINE p == NextPath(todo)
<1>1. /\ DocumentsRun /\ ShownRun /\ pc = "remove" /\ message = None /\ todo # {} /\ Removing
      /\ pc' = "bury" /\ todo' = todo \ {p} /\ message' = None
      /\ job'.path = p /\ job'.doc = None
      /\ UNCHANGED <<files, gone, parser, saved, start, entries, seen, buffer, dest>>
  BY DEF DocumentsInv, ShownInv, RemovePath, Suspended, Removing, world
<1>2. p \in Paths /\ p \in todo /\ p \in gone
  BY <1>1, NextPathIs DEF DocumentsRun, ShownRun
<1>3. /\ EntriesAreSound(entries) /\ CheckpointIsShown /\ entries \in [DOMAIN entries -> Entries]
      /\ entries = saved.files
  BY <1>1 DEF ShownInv, CheckpointIsNear
<1>4. pending' = pending \/ (At(pending', p) /\ pending'.doc \in Documents)
  <2>1. CASE pending = None /\ p \in DOMAIN entries
    BY <1>3, <2>1, NotNone DEF RemovePath, EntriesAreSound, Progress, At
  <2>2. CASE At(pending, p)
    <3> DEFINE n == Known(p)
               r == IF pending.reconcile = None THEN None ELSE Known(p)
    <3>1. pending # None /\ pending.path = p
      BY <2>2 DEF At
    <3>2. /\ pending.doc \in Documents /\ pending.path = p
          /\ {"path", "doc"} \subseteq DOMAIN pending
      BY <1>1, <3>1 DEF DocumentsRun, Sound
    <3>3. pending' = [pending EXCEPT !.next = n, !.reconcile = r]
      BY <2>2, <3>1 DEF RemovePath
    <3> HIDE DEF n, r
    <3>4. pending'.path = p /\ pending'.doc = pending.doc
      BY <3>2, <3>3
    <3>5. pending' # None
      <4>1. n \in Nat /\ r \in Nat \cup {None}
        BY <1>1, KnownIs, LongestIs DEF n, r, DocumentsRun, Counts
      <4>2. pending \in Progresses
        BY <1>1, <3>1, LongestIs DEF DocumentsRun, Sound, Progresses, Counts
      <4>3. pending' \in Progresses
        BY <3>3, <4>1, <4>2 DEF Progresses
      <4> QED
        BY <4>3, NotNone
    <3> QED
      BY <3>2, <3>4, <3>5 DEF At
  <2> QED
    BY <2>1, <2>2 DEF RemovePath
<1> HIDE DEF p
<1>5. HasPassed(pending', Passed)
  <2>1. At(pending', p) /\ pending'.doc \in Documents => <<p, pending'.doc>> \in Passed
    BY <1>2, GoneIs
  <2> QED
    BY <1>3, <1>4, <2>1 DEF CheckpointIsShown, HasPassed, At
<1>6. Accounted(entries, pending', Reached, Outdated)
  <2>1. Accounted(entries, pending, Reached, Outdated)
    BY <1>3 DEF CheckpointIsShown
  <2>2. ASSUME At(pending', p), pending'.doc \in Documents
        PROVE  /\ <<p, pending'.doc>> \in Outdated
               /\ p \in DOMAIN entries => <<p, entries[p].doc>> \in Outdated
    BY <1>2, <1>3, <2>2, GoneIs DEF EntriesAreSound
  <2> QED
    BY <1>4, <2>1, <2>2 DEF Accounted, ProgressIsShown, IsAhead, At
<1>7. Sound(pending')
  BY FilesRemove DEF DocumentsRun, Sound, Bound
<1>8. ShownRun'
  <2>1. Reached' = Reached /\ Passed' = Passed /\ Outdated' = Outdated
    BY <1>1, ReachedSame, WorldStays
  <2>2. Removing' /\ ~Working'
    BY <1>1 DEF Removing, Working
  <2> QED
    BY <1>1, <1>2, <2>1, <2>2 DEF ShownRun
<1>9. Strict => StrictRun'
  BY <1>1 DEF ShownInv, StrictRun, Working
<1>10. CheckpointIsNear'
  BY <1>1, <1>3 DEF CheckpointIsNear
<1> QED
  BY <1>1, <1>3, <1>5, <1>6, <1>7, <1>8, <1>9, <1>10, ShownQuietly DEF CheckpointIsShown

\* A settled path accounts for itself; the progress of another stays as it is.
LEMMA SettlesInPlace ==
  ASSUME DocumentAssumption, DocumentsInv, ShownInv, NEW es, Settle(es),
         DOMAIN es \subseteq Paths, es \in [DOMAIN es -> Entries], EntriesAreSound(es),
         \A q \in DOMAIN es \ {job.path} : q \in DOMAIN entries /\ es[q] = entries[q],
         job.path \in DOMAIN es =>
           <<job.path, es[job.path].doc>> \in Passed /\ InPlace(Reached, es, job.path),
         UNCHANGED <<files, gone, parser, saved, buffer, dest>>,
         pc' \in {"remove", "file"}, ShownRun', Strict => StrictRun'
  PROVE  ShownInv'
<1> DEFINE left == IF At(pending, job.path) THEN None ELSE pending
<1>1. entries' = es /\ pending' = left /\ message' = Checkpoint(es, left)
  BY DEF Settle
<1>2. /\ Sound(pending) /\ HasPassed(pending, Passed) /\ HavePassed(entries, Passed)
      /\ Accounted(entries, pending, Reached, Outdated)
  BY DEF ShownInv, CheckpointIsShown
<1>3. Sound(left) /\ HasPassed(left, Passed)
  BY <1>2 DEF Sound, HasPassed
<1>4. HavePassed(es, Passed)
  BY <1>2 DEF HavePassed
<1>5. Accounted(es, left, Reached, Outdated)
  <2>1. EntriesAreShown(es, Reached, Outdated)
    BY <1>2 DEF Accounted, EntriesAreShown, InPlace
  <2>2. left # None => left = pending /\ left.path # job.path
    BY DEF At
  <2> HIDE DEF left
  <2> QED
    BY <1>2, <2>1, <2>2 DEF Accounted, ProgressIsShown, IsAhead
<1> HIDE DEF left
<1>6. Checkpoint(es, left) # None
  BY <1>3, ToldIs
<1>7. CheckpointIsNear'
  BY <1>1, <1>6 DEF CheckpointIsNear, Checkpoint, Like
<1> QED
  BY <1>1, <1>3, <1>4, <1>5, <1>7, ShownQuietly

LEMMA ShownBuried == ASSUME DocumentAssumption, DocumentsInv, ShownInv, Buried PROVE ShownInv'
<1>1. /\ DocumentsRun /\ ShownRun /\ pc = "bury" /\ message = None
      /\ UNCHANGED <<files, gone, parser, saved, buffer, dest, start, seen, todo>>
      /\ EntriesAreSound(entries) /\ entries \in [DOMAIN entries -> Entries] /\ CheckpointIsShown
      /\ entries = saved.files /\ Sound(pending)
  BY DEF DocumentsInv, Buried, ShownInv, CheckpointIsNear, Suspended, world
<1>2. Reached' = Reached /\ Passed' = Passed /\ Outdated' = Outdated
  BY <1>1, ReachedSame, WorldStays
<1>3. CASE job.doc = None
  <2> DEFINE S == DOMAIN entries \ {job.path}
             es == [p \in S |-> entries[p]]
  <2>1. pc' = "remove" /\ Settle(es)
    BY <1>3 DEF Buried
  <2>2. es = [q \in S |-> entries[q]]
    OBVIOUS
  <2> HIDE DEF es
  <2>3. DOMAIN es = S /\ (\A q \in S : es[q] = entries[q]) /\ es \in [DOMAIN es -> Entries]
    BY <1>1, <2>2
  <2>4. EntriesAreSound(es)
    BY <1>1, <2>3 DEF EntriesAreSound
  <2>5. /\ entries' = es /\ message'.files = es /\ message'.progress = pending'
        /\ message' = Checkpoint(es, pending')
    BY <2>1 DEF Settle, Checkpoint
  <2>6. Removing /\ Removing' /\ ~Working'
    BY <1>1, <1>3, <2>1 DEF Removing, Working
  <2>7. \A it, old : IsAhead(entries, it, old) => IsAhead(es, it, old)
    BY <2>3 DEF IsAhead
  <2>8. (IF message' = None THEN saved.progress ELSE message'.progress) = pending'
    <3>1. Sound(pending')
      BY <1>1, <2>1 DEF Settle, Sound, Bound
    <3>2. message' # None
      BY <2>3, <2>4, <2>5, <3>1, ToldIs
    <3> QED
      BY <2>5, <3>2
  <2>9. ShownRun'
    BY <1>1, <1>2, <2>1, <2>5, <2>6, <2>7, <2>8 DEF ShownRun
  <2>10. Strict => StrictRun'
    BY <1>1, <1>3, <2>1, <2>3, <2>5, <2>6 DEF ShownInv, StrictRun
  <2> QED
    BY <1>1, <2>1, <2>3, <2>4, <2>9, <2>10, SettlesInPlace DEF EntriesAreSound
<1>4. CASE job.doc # None
  <2>1. pc' = "commit" /\ UNCHANGED <<entries, pending, message, job>>
    BY <1>4 DEF Buried
  <2>2. Working /\ Working' /\ ~Removing /\ ~Removing' /\ Parsed' = Parsed
    BY <1>1, <1>4, <2>1 DEF Removing, Working, Parsed
  <2>3. JobIsShown'
    BY <1>1, <1>2, <2>1, <2>2 DEF ShownRun, JobIsShown
  <2>4. ShownRun'
    BY <1>1, <1>2, <2>1, <2>2, <2>3 DEF ShownRun
  <2>5. Strict => StrictRun'
    BY <1>1, <1>2, <2>1, <2>2 DEF ShownInv, StrictRun
  <2>6. CheckpointIsNear'
    BY <1>1, <2>1 DEF CheckpointIsNear
  <2> QED
    BY <1>1, <2>1, <2>4, <2>5, <2>6, ShownQuietly DEF CheckpointIsShown
<1> QED
  BY <1>3, <1>4

LEMMA ShownRemovedAll ==
  ASSUME DocumentAssumption, DocumentsInv, ShownInv, RemovedAll PROVE ShownInv'
<1>1. /\ ShownRun /\ pc = "remove" /\ message = None /\ todo = {} /\ pc' = "file" /\ todo' = seen
      /\ UNCHANGED <<files, gone, parser, saved, start, entries, pending, seen, job, buffer,
                     message, dest>>
      /\ EntriesAreSound(entries) /\ entries \in [DOMAIN entries -> Entries] /\ CheckpointIsShown
      /\ entries = saved.files /\ Sound(pending)
  BY DEF ShownInv, RemovedAll, CheckpointIsNear, Suspended, world
<1>2. Reached' = Reached /\ Passed' = Passed /\ Outdated' = Outdated
  BY <1>1, ReachedSame, WorldStays
<1>3. Removing /\ ~Removing' /\ ~Working'
  BY <1>1 DEF Removing, Working
<1>4. ShownRun'
  BY <1>1, <1>2, <1>3 DEF ShownRun
<1>5. Strict => StrictRun'
  BY <1>1, <1>3 DEF ShownInv, StrictRun
<1>6. CheckpointIsNear'
  BY <1>1 DEF CheckpointIsNear
<1> QED
  BY <1>1, <1>4, <1>5, <1>6, ShownQuietly DEF CheckpointIsShown

\* Files that are left out: those the checkpoint is of, and in best effort those that fail.
LEMMA ShownPassesOver ==
  ASSUME DocumentAssumption, DocumentsInv, ShownInv, pc = "file", message = None, NEW p \in todo,
         Strict => (p \in DOMAIN entries => InPlace(Reached, entries, p)),
         todo' = todo \ {p},
         UNCHANGED <<files, gone, parser, saved, pc, start, entries, pending, seen, job, buffer,
                     message, dest>>
  PROVE  ShownInv'
<1>1. /\ ShownRun /\ EntriesAreSound(entries) /\ entries \in [DOMAIN entries -> Entries]
      /\ CheckpointIsShown /\ entries = saved.files /\ Sound(pending)
  BY DEF ShownInv, CheckpointIsNear
<1>2. Reached' = Reached /\ Passed' = Passed /\ Outdated' = Outdated
  BY ReachedSame, WorldStays
<1>3. ~Removing /\ ~Removing' /\ ~Working'
  BY DEF Removing, Working
<1>4. ShownRun'
  BY <1>1, <1>2, <1>3 DEF ShownRun
<1>5. Strict => StrictRun'
  BY <1>2, <1>3 DEF ShownInv, StrictRun
<1>6. CheckpointIsNear'
  BY <1>1 DEF CheckpointIsNear
<1> QED
  BY <1>1, <1>4, <1>5, <1>6, ShownQuietly DEF CheckpointIsShown

LEMMA ShownSkips == ASSUME DocumentAssumption, DocumentsInv, ShownInv, SkipFile PROVE ShownInv'
<1> DEFINE p == NextPath(todo)
<1>1. /\ DocumentsRun /\ pc = "file" /\ message = None /\ todo # {} /\ files[p] # Absent
      /\ Unchanged(p, <<files[p], parser>>) /\ todo' = todo \ {p}
      /\ UNCHANGED <<files, gone, parser, saved, pc, start, entries, pending, seen, job, buffer,
                     message, dest>>
  BY DEF DocumentsInv, SkipFile, Suspended, Snapshot, world
<1>2. p \in Paths /\ p \in todo
  BY <1>1, NextPathIs DEF DocumentsRun
<1> HIDE DEF p
<1>3. <<p, entries[p].doc>> \notin Outdated /\ p \in DOMAIN entries
  BY <1>1, <1>2, PresentIs DEF Unchanged, ShownInv
<1>4. InPlace(Reached, entries, p)
  BY <1>3 DEF ShownInv, CheckpointIsShown, Accounted, EntriesAreShown
<1> QED
  BY <1>1, <1>2, <1>4, ShownPassesOver

\* A file that is extracted is new, changed, or half done from this very extraction.
LEMMA ShownExtracts ==
  ASSUME DocumentAssumption, DocumentsInv, ShownInv, ExtractFile PROVE ShownInv'
<1> DEFINE p == NextPath(todo)
           doc == <<files[p], parser>>
           k == ResumeAt(p, doc)
<1>1. /\ DocumentsRun /\ ShownRun /\ pc = "file" /\ message = None /\ todo # {} /\ pc' = "emit"
      /\ files[p] # Absent /\ ~Unchanged(p, doc) /\ ~ManifestMissing(p, doc)
      /\ todo' = todo \ {p}
      /\ UNCHANGED <<files, gone, parser, saved, start, entries, pending, seen, buffer, message,
                     dest>>
  BY DEF DocumentsInv, ShownInv, ExtractFile, Suspended, Snapshot, world
<1>2. PICK d \in Draws :
        /\ (RequiresManifest /\ cache[doc] # None) => d = cache[doc]
        /\ job' = [path |-> p, doc |-> doc, draw |-> d, index |-> k, resume |-> k,
                   count |-> Known(p), reconcile |-> Reconciles(p, doc)]
  BY DEF ExtractFile, Snapshot
<1>3. p \in Paths /\ p \in todo
  BY <1>1, NextPathIs DEF DocumentsRun
<1>4. /\ EntriesAreSound(entries) /\ entries \in [DOMAIN entries -> Entries] /\ CheckpointIsShown
      /\ entries = saved.files /\ Sound(pending) /\ Sound(start) /\ pending \in {None, start}
      /\ saved.progress = pending /\ \A q \in gone : files[q] = Absent
  BY <1>1 DEF ShownInv, CheckpointIsNear, ShownRun, DocumentsRun
<1> HIDE DEF p
<1>5. /\ doc \in Documents /\ <<p, doc>> \in Passed /\ <<p, doc>> \notin Outdated
      /\ \A other \in Documents :
           <<p, other>> \in Passed /\ other # doc => <<p, other>> \in Outdated
  BY <1>1, <1>3, <1>4, PresentIs
<1>6. Matches(p, doc) => start.draw = d
  <2> SUFFICES ASSUME Matches(p, doc) PROVE start.draw = d
    OBVIOUS
  <2>1. start.draw \in Draws /\ start.draw # None
    BY <1>4 DEF Matches, At, Sound, DocumentAssumption
  <2>2. CASE RequiresManifest
    BY <1>1, <1>2, <2>1, <2>2 DEF ManifestMissing
  <2>3. CASE ~RequiresManifest
    <3>1. IsFiniteSet(Draws)
      <4>1. IsFiniteSet(Extractions)
        BY DEF DocumentAssumption
      <4>2. {<<doc, x>> : x \in Draws} \subseteq Extractions
        BY <1>5 DEF Extractions, Documents
      <4>3. IsFiniteSet({<<doc, x>> : x \in Draws})
        BY <4>1, <4>2, FS_Subset
      <4> DEFINE f == [e \in {<<doc, x>> : x \in Draws} |-> e[2]]
      <4>4. f \in Surjection({<<doc, x>> : x \in Draws}, Draws)
        <5>1. \A x \in Draws : <<doc, x>> \in {<<doc, z>> : z \in Draws} /\ f[<<doc, x>>] = x
          OBVIOUS
        <5>2. \A e \in {<<doc, z>> : z \in Draws} : f[e] \in Draws
          OBVIOUS
        <5> QED
          BY <5>1, <5>2 DEF Surjection
      <4> QED
        BY <4>3, <4>4, FS_Surjection
    <3>2. Cardinality(Draws) \in Nat
      BY <3>1, FS_CardinalityType
    <3>3. Cardinality(Draws) <= 1
      BY <2>3, <3>2 DEF RequiresManifest
    <3>4. \A x, y \in Draws : x = y
      <4> SUFFICES ASSUME NEW x \in Draws, NEW y \in Draws, x # y PROVE FALSE
        OBVIOUS
      <4>1. IsFiniteSet({x}) /\ Cardinality({x}) = 1
        BY FS_Singleton
      <4>2. IsFiniteSet({x} \cup {y}) /\ Cardinality({x} \cup {y}) = 2
        <5>1. y \notin {x}
          OBVIOUS
        <5> HIDE DEF doc
        <5>2. Cardinality({x} \cup {y}) = Cardinality({x}) + 1 /\ IsFiniteSet({x} \cup {y})
          BY <4>1, <5>1, FS_AddElement
        <5> QED
          BY <4>1, <5>2
      <4>3. Cardinality({x} \cup {y}) <= Cardinality(Draws)
        BY <3>1, FS_Subset
      <4> QED
        BY <3>2, <3>3, <4>2, <4>3
    <3> QED
      BY <2>1, <3>4
  <2> QED
    BY <2>2, <2>3
<1>7. At(start, p) => /\ start.path = p /\ start.doc \in Documents /\ start.next \in Nat
                      /\ <<p, start.doc>> \in Passed
  BY <1>1, <1>4, LongestIs DEF At, Sound, ShownRun, HasPassed, Counts
<1>8. p \in DOMAIN entries => <<p, entries[p].doc>> \in Outdated
  <2> SUFFICES ASSUME p \in DOMAIN entries PROVE <<p, entries[p].doc>> \in Outdated
    OBVIOUS
  <2>1. entries[p].doc \in Documents /\ <<p, entries[p].doc>> \in Passed
    BY <1>4 DEF EntriesAreSound, CheckpointIsShown, HavePassed
  <2>2. CASE entries[p].doc = doc
    BY <1>1, <1>3, <2>2 DEF Unchanged, At, ShownRun, IsAhead
  <2> QED
    BY <1>5, <2>1, <2>2
<1>9. Ours(start, p, doc, d, Outdated)
  BY <1>5, <1>6, <1>7 DEF Ours, Matches
<1>10. <<doc, d>> \in Extractions /\ Length[<<doc, d>>] \in Nat
  BY <1>5, LongestIs DEF Extractions, Documents, Counts
<1>11. k \in Nat /\ k <= Length[<<doc, d>>] /\ Shown(Reached, p, doc, d, k)
  <2>1. CASE k = 0
    <3>1. \A i \in Indexes : ~(i < 0)
      BY LongestIs DEF Indexes, MaxLength
    <3> QED
      BY <1>10, <2>1, <3>1 DEF Shown
  <2>2. CASE Matches(p, doc) /\ k = start.next
    <3>1. At(start, p) /\ start # None /\ start.doc = doc /\ start.draw = d
      BY <1>6, <2>2 DEF Matches, At
    <3>2. ProgressIsShown(start, Reached, Outdated)
      BY <1>1 DEF ShownRun
    <3> QED
      BY <1>5, <1>7, <2>2, <3>1, <3>2 DEF ProgressIsShown
  <2> QED
    BY <2>1, <2>2 DEF ResumeAt
<1> HIDE DEF doc, k
<1>12. /\ job'.path = p /\ job'.doc = doc /\ job'.draw = d /\ job'.index = k
       /\ {"draw"} \subseteq DOMAIN job'
  BY <1>2
<1>13. Reached' = Reached /\ Passed' = Passed /\ Outdated' = Outdated
  BY <1>1, ReachedSame, WorldStays
<1>14. ~Removing /\ ~Removing' /\ Working' /\ Parsed' = Length[<<doc, d>>]
  BY <1>1, <1>12 DEF Removing, Working, Parsed
<1>15. JobIsShown'
  <2>1. \A it \in {start, pending, saved.progress} : Ours(it, p, doc, d, Outdated)
    BY <1>4, <1>9 DEF Ours, At
  <2> QED
    BY <1>1, <1>5, <1>8, <1>11, <1>12, <1>13, <1>14, <2>1 DEF JobIsShown
<1>16. ShownRun'
  BY <1>1, <1>13, <1>14, <1>15 DEF ShownRun
<1>17. Strict => StrictRun'
  BY <1>1, <1>12, <1>13, <1>14 DEF ShownInv, StrictRun
<1>18. CheckpointIsNear'
  BY <1>1, <1>4 DEF CheckpointIsNear
<1> QED
  BY <1>1, <1>4, <1>16, <1>17, <1>18, ShownQuietly DEF CheckpointIsShown

LEMMA ShownEnds ==
  ASSUME DocumentAssumption, DocumentsInv, ShownInv, EndElements, ~Stopped
  PROVE  ShownInv'
<1> DEFINE n == Parsed
           t == IF pending # None /\ pending.reconcile # None THEN pending.tomb ELSE None
           it == Progress(job.path, job.doc, job.draw, n, t, job.count)
           k == IF At(pending', job.path) THEN OrZero(pending'.tomb) ELSE 0
<1>1. /\ DocumentsRun /\ ShownRun /\ JobIsSound /\ pc = "emit" /\ message = None
      /\ job.path \in Paths /\ job.index \in Nat /\ job.index >= Parsed
      /\ pc' \in {"bury", "commit"} /\ pending' \in {pending, it}
      /\ job' = [job EXCEPT !.index = AtLeast(n, k)]
      /\ UNCHANGED <<files, gone, parser, saved, start, entries, seen, todo, buffer, message, dest>>
  BY DEF DocumentsInv, ShownInv, EndElements, DocumentsRun, JobIsSound, Suspended, world
<1>2. /\ JobIsShown /\ Working /\ ~Removing /\ CheckpointIsShown /\ entries = saved.files
      /\ EntriesAreSound(entries) /\ entries \in [DOMAIN entries -> Entries]
  BY <1>1 DEF ShownRun, Working, Removing, ShownInv, CheckpointIsNear
<1>3. n \in Nat /\ job.index = n
  BY <1>1, <1>2, ParsedIs, LongestIs DEF Counts, JobIsShown
<1>4. DocumentsRun'
  BY <1>1, FilesTail
<1>5. Sound(pending')
  BY <1>4 DEF DocumentsRun, Sound, Bound
<1>6. k \in Nat
  <2>1. At(pending', job.path) => pending'.tomb \in Nat \cup {None}
    BY <1>5 DEF At, Sound
  <2> QED
    BY <2>1 DEF OrZero
<1>7. n <= AtLeast(n, k)
  <2> HIDE DEF k, n
  <2> QED
    BY <1>3, <1>6 DEF AtLeast
<1>8. /\ it.path = job.path /\ it.doc = job.doc /\ it.draw = job.draw /\ it.next = n
  BY DEF Progress
<1> HIDE DEF it, k
<1>9. HasPassed(it, Passed) /\ Accounted(entries, it, Reached, Outdated)
      /\ Ours(it, job.path, job.doc, job.draw, Outdated)
  <2>1. Shown(Reached, job.path, job.doc, job.draw, n)
    BY <1>1, <1>2, <1>3 DEF JobIsShown
  <2>2. n <= Length[<<it.doc, it.draw>>]
    BY <1>3, <1>8 DEF Parsed
  <2> HIDE DEF n
  <2> QED
    BY <1>2, <1>8, <2>1, <2>2
    DEF JobIsShown, CheckpointIsShown, HasPassed, Ours, Accounted, ProgressIsShown, IsAhead
<1>10. /\ HasPassed(pending', Passed) /\ Accounted(entries, pending', Reached, Outdated)
       /\ Ours(pending', job.path, job.doc, job.draw, Outdated)
  BY <1>1, <1>2, <1>9 DEF CheckpointIsShown, JobIsShown
<1>11. /\ job'.path = job.path /\ job'.doc = job.doc /\ job'.draw = job.draw
       /\ job'.index = AtLeast(n, k) /\ DOMAIN job' = DOMAIN job
  BY <1>1, <1>2 DEF JobIsSound, JobIsShown
<1>12. Reached' = Reached /\ Passed' = Passed /\ Outdated' = Outdated
  BY <1>1, ReachedSame, WorldStays
<1>13. Working' /\ ~Removing' /\ Parsed' = Parsed
  BY <1>1, <1>2, <1>11, NotNone DEF Removing, Working, Parsed, JobIsShown
<1>14. JobIsShown'
  <2>1. pc' # "emit" /\ Shown(Reached, job.path, job.doc, job.draw, Parsed)
    BY <1>1, <1>2, <1>3 DEF JobIsShown
  <2>2. Parsed <= job'.index
    BY <1>7, <1>11
  <2> QED
    BY <1>1, <1>2, <1>10, <1>11, <1>12, <1>13, <2>1, <2>2 DEF JobIsShown
<1>15. ShownRun'
  BY <1>1, <1>2, <1>12, <1>13, <1>14 DEF ShownRun, Removing
<1>16. Strict => StrictRun'
  BY <1>1, <1>2, <1>11, <1>12, <1>13 DEF ShownInv, StrictRun, Working
<1>17. CheckpointIsNear'
  BY <1>1, <1>2 DEF CheckpointIsNear
<1> QED
  BY <1>1, <1>2, <1>5, <1>10, <1>15, <1>16, <1>17, ShownQuietly DEF CheckpointIsShown

LEMMA ShownCommits ==
  ASSUME DocumentAssumption, DocumentsInv, ShownInv, CommitFile PROVE ShownInv'
<1> DEFINE D == DOMAIN entries \cup {job.path}
           es == [p \in D |-> IF p = job.path THEN Entry ELSE entries[p]]
<1>1. /\ DocumentsRun /\ ShownRun /\ JobIsSound /\ pc = "commit" /\ pc' = "file" /\ Settle(es)
      /\ UNCHANGED <<files, gone, parser, saved, start, seen, todo, buffer, dest>>
  BY DEF DocumentsInv, ShownInv, CommitFile, DocumentsRun, world
<1>2. /\ JobIsShown /\ Working /\ ~Removing /\ job.path \in Paths
      /\ EntriesAreSound(entries) /\ entries \in [DOMAIN entries -> Entries] /\ Sound(pending)
  BY <1>1 DEF ShownRun, Working, Removing, ShownInv, JobIsSound
<1>3. /\ Entry \in [doc : Documents, draw : Draws, count : Counts] /\ Entry \in Entries
      /\ Entry.doc = job.doc /\ Entry.draw = job.draw /\ Entry.count = Parsed
  BY <1>1, ParsedIs, LongestIs DEF JobIsSound, Entry, Entries, Counts
<1>4. /\ DOMAIN es = D /\ D \subseteq Paths /\ es[job.path] = Entry
      /\ \A q \in D \ {job.path} : q \in DOMAIN entries /\ es[q] = entries[q]
      /\ EntriesAreSound(es)
  BY <1>2, <1>3 DEF EntriesAreSound
<1>5. es \in [DOMAIN es -> Entries]
  BY <1>2, <1>3
<1> HIDE DEF es
<1>6. /\ <<job.path, es[job.path].doc>> \in Passed /\ InPlace(Reached, es, job.path)
  BY <1>1, <1>2, <1>3, <1>4 DEF JobIsShown, InPlace
<1>7. Reached' = Reached /\ Passed' = Passed /\ Outdated' = Outdated
  BY <1>1, ReachedSame, WorldStays
<1>8. /\ entries' = es /\ message' = Checkpoint(es, pending') /\ message'.progress = pending'
  BY <1>1 DEF Settle, Checkpoint
<1>9. message' # None
  <2>1. Sound(pending')
    BY <1>1, <1>2 DEF Settle, Sound, Bound
  <2> QED
    BY <1>4, <1>5, <1>8, <2>1, ToldIs
<1>10. ~Removing' /\ ~Working'
  BY <1>1 DEF Removing, Working
<1>11. ShownRun'
  <2>1. start # None /\ start.path \in todo => IsAhead(es, start, Outdated)
    BY <1>1, <1>2, <1>4 DEF ShownRun, JobIsShown, IsAhead
  <2> QED
    BY <1>1, <1>7, <1>8, <1>9, <1>10, <2>1 DEF ShownRun
<1>12. Strict => StrictRun'
  <2>1. \A q \in D \ {job.path} : InPlace(Reached, entries, q) => InPlace(Reached, es, q)
    BY <1>4 DEF InPlace
  <2> QED
    BY <1>1, <1>2, <1>4, <1>6, <1>7, <1>8, <1>10, <2>1 DEF ShownInv, StrictRun
<1> QED
  BY <1>1, <1>4, <1>5, <1>6, <1>11, <1>12, SettlesInPlace

LEMMA ShownFinishes ==
  ASSUME DocumentAssumption, DocumentsInv, ShownInv, Finish PROVE ShownInv'
<1>1. /\ pc = "file" /\ message = None /\ todo = {} /\ pc' = "idle"
      /\ message' = Checkpoint(entries, pending)
      /\ UNCHANGED <<files, gone, parser, saved, start, entries, pending, seen, todo, job, buffer,
                     dest>>
  BY DEF Finish, Suspended, world
<1>2. /\ EntriesAreSound(entries) /\ entries \in [DOMAIN entries -> Entries] /\ CheckpointIsShown
      /\ Sound(pending)
  BY <1>1 DEF ShownInv
<1>3. message' # None
  BY <1>1, <1>2, ToldIs
<1>4. CheckpointIsNear'
  BY <1>1, <1>3 DEF CheckpointIsNear, Checkpoint, Like
<1>5. Strict => StrictRun'
  <2>1. Reached' = Reached
    BY <1>1, ReachedSame
  <2> QED
    BY <1>1, <2>1 DEF ShownInv, StrictRun, Working
<1> QED
  BY <1>1, <1>2, <1>4, <1>5, ShownQuietly DEF CheckpointIsShown

\* A record that is buffered leaves alone what the checkpoints account for.
LEMMA ShownAppends ==
  ASSUME DocumentAssumption, DocumentsInv, DocumentsRun, ShownInv, ShownRun, message = None,
         NEW r \in Records, buffer' = Append(buffer, r), dest' = dest,
         r.path \in DOMAIN entries => <<r.path, entries[r.path].doc>> \in Outdated,
         \A it \in {start, pending, saved.progress} :
           At(it, r.path) =>
             \/ <<r.path, it.doc>> \in Outdated
             \/ Shown(Reached, r.path, it.doc, it.draw, it.next)
                  => Shown(Reached', r.path, it.doc, it.draw, it.next)
  PROVE  /\ \A p \in Paths \ {r.path} : \A i \in Indexes : Reached'[p][i] = Reached[p][i]
         /\ Accounted(saved.files, saved.progress, Reached', Outdated)
         /\ Accounted(entries, pending, Reached', Outdated)
         /\ ProgressIsShown(start, Reached', Outdated)
<1> DEFINE q == r.path
<1>1. /\ q \in Paths /\ buffer \in Seq(Records) /\ entries = saved.files
      /\ EntriesAreSound(entries) /\ Sound(start) /\ Sound(pending) /\ Sound(saved.progress)
      /\ Accounted(entries, saved.progress, Reached, Outdated)
      /\ Accounted(entries, pending, Reached, Outdated)
      /\ ProgressIsShown(start, Reached, Outdated)
  BY DEF Records, ShownInv, CheckpointIsNear, DocumentsInv, DocumentsRun, CheckpointIsShown, ShownRun
<1>2. \A p \in Paths \ {q} : \A i \in Indexes : Reached'[p][i] = Reached[p][i]
  BY <1>1, ReachedAppends
<1>6. ASSUME NEW es, NEW it \in {start, pending, saved.progress},
              EntriesAreSound(es), Sound(it), Accounted(es, it, Reached, Outdated),
              q \in DOMAIN es => <<q, es[q].doc>> \in Outdated
       PROVE  Accounted(es, it, Reached', Outdated)
  <2>1. At(it, q) => \/ <<q, it.doc>> \in Outdated
                     \/ Shown(Reached, q, it.doc, it.draw, it.next)
                          => Shown(Reached', q, it.doc, it.draw, it.next)
    OBVIOUS
  <2> HIDE DEF q
  <2> QED
    BY <1>1, <1>2, <1>6, <2>1, AccountedElsewhere
<1>3. Accounted(entries, saved.progress, Reached', Outdated)
  BY <1>1, <1>6
<1>4. Accounted(entries, pending, Reached', Outdated)
  BY <1>1, <1>6
<1>5. ProgressIsShown(start, Reached', Outdated)
  <2> DEFINE none == [p \in {} |-> p]
  <2>1. DOMAIN none = {}
    OBVIOUS
  <2> HIDE DEF none
  <2>2. EntriesAreSound(none) /\ Accounted(none, start, Reached, Outdated)
    BY <1>1, <2>1 DEF EntriesAreSound, Accounted, EntriesAreShown, IsAhead
  <2>3. Accounted(none, start, Reached', Outdated)
    BY <1>1, <1>6, <2>1, <2>2
  <2> QED
    BY <2>3 DEF Accounted
<1> QED
  BY <1>1, <1>2, <1>3, <1>4, <1>5

LEMMA ShownBuries ==
  ASSUME DocumentAssumption, DocumentsInv, ShownInv, Tombstone PROVE ShownInv'
<1> DEFINE r == [path |-> job.path, index |-> job.index, content |-> Absent]
           told == IF At(pending, job.path)
                   THEN [pending EXCEPT !.tomb = job.index + 1] ELSE pending
<1>1. /\ DocumentsRun /\ ShownRun /\ JobIsSound /\ pc = "bury" /\ message = None
      /\ job.path \in Paths /\ job.index \in Nat /\ buffer' = Append(buffer, r)
      /\ job' = [job EXCEPT !.index = @ + 1]
      /\ message' \in {None, Checkpoint(entries, told)}
      /\ UNCHANGED <<files, gone, parser, saved, pc, start, entries, pending, seen, todo, dest>>
  BY DEF DocumentsInv, ShownInv, DocumentsRun, JobIsSound, Tombstone, Suspended, world
<1>2. /\ EntriesAreSound(entries) /\ entries \in [DOMAIN entries -> Entries] /\ CheckpointIsShown
      /\ entries = saved.files /\ Sound(pending) /\ Sound(start) /\ Sound(saved.progress)
      /\ buffer \in Seq(Records)
  BY <1>1 DEF ShownInv, CheckpointIsNear, DocumentsRun, DocumentsInv
<1>3. r \in Records /\ r.path = job.path /\ r.index = job.index
  BY <1>1 DEF Records, Contents
<1>4. /\ job'.path = job.path /\ job'.index = job.index + 1 /\ DOMAIN job' = DOMAIN job
      /\ job'.doc = job.doc /\ ("draw" \in DOMAIN job => job'.draw = job.draw)
  BY <1>1 DEF JobIsSound
<1> HIDE DEF r
<1>5. \A i \in Indexes : i \in Int
  BY LongestIs DEF Indexes, MaxLength
<1>6. \A p \in Paths, i \in Indexes : p # job.path \/ i # job.index => Reached'[p][i] = Reached[p][i]
  BY <1>1, <1>2, <1>3, ReachedAppends
<1>7. /\ job.path \in DOMAIN entries => <<job.path, entries[job.path].doc>> \in Outdated
      /\ \A it \in {start, pending, saved.progress} :
           At(it, job.path) =>
             \/ <<job.path, it.doc>> \in Outdated
             \/ Shown(Reached, job.path, it.doc, it.draw, it.next)
                  => Shown(Reached', job.path, it.doc, it.draw, it.next)
  <2>1. CASE job.doc = None
    <3>1. job.path \in gone
      BY <1>1, <2>1 DEF ShownRun
    <3>2. \A it : Sound(it) /\ At(it, job.path) => <<job.path, it.doc>> \in Outdated
      BY <1>1, <3>1, GoneIs DEF Sound, At
    <3>3. job.path \in DOMAIN entries => <<job.path, entries[job.path].doc>> \in Outdated
      BY <1>1, <1>2, <3>1, GoneIs DEF EntriesAreSound
    <3> QED
      BY <1>2, <3>2, <3>3
  <2>2. CASE job.doc # None
    <3>1. JobIsShown
      BY <1>1, <2>2 DEF Working, ShownRun
    <3>2. ASSUME NEW it \in {start, pending, saved.progress}, At(it, job.path),
                 <<job.path, it.doc>> \notin Outdated,
                 Shown(Reached, job.path, it.doc, it.draw, it.next)
          PROVE  Shown(Reached', job.path, it.doc, it.draw, it.next)
      <4>1. it.doc = job.doc /\ it.draw = job.draw
        BY <3>1, <3>2 DEF JobIsShown, Ours
      <4>2. Sound(it) /\ it # None /\ it.path = job.path /\ ProgressIsShown(it, Reached, Outdated)
        BY <1>1, <1>2, <3>2 DEF At, CheckpointIsShown, Accounted, ShownRun
      <4>3. it.next <= Parsed
        BY <3>2, <4>1, <4>2 DEF ProgressIsShown, Parsed
      <4>4. it.next \in Int /\ Parsed \in Int
        <5>1. <<job.doc, job.draw>> \in Extractions
          BY <3>1 DEF JobIsShown, Extractions, Documents
        <5> QED
          BY <4>2, <5>1, LongestIs DEF Parsed, Sound, Counts
      <4>5. \A i \in Indexes : i < it.next => i # job.index
        BY <1>1, <1>5, <3>1, <4>3, <4>4 DEF JobIsShown
      <4> QED
        BY <1>1, <1>6, <3>2, <4>5 DEF Shown
    <3> QED
      BY <3>1, <3>2 DEF JobIsShown
  <2> QED
    BY <2>1, <2>2
<1>8. /\ \A p \in Paths \ {job.path} : \A i \in Indexes : Reached'[p][i] = Reached[p][i]
      /\ Accounted(saved.files, saved.progress, Reached', Outdated)
      /\ Accounted(entries, pending, Reached', Outdated)
      /\ ProgressIsShown(start, Reached', Outdated)
  BY <1>1, <1>3, <1>7, ShownAppends
<1>9. Passed' = Passed /\ Outdated' = Outdated
  BY <1>1, WorldStays
<1>10. Parsed' = Parsed \/ job.doc = None
  BY <1>1, <1>4 DEF Parsed, JobIsSound
<1>11. ASSUME Working PROVE JobIsShown'
  <2>1. JobIsShown /\ job.doc # None /\ Parsed' = Parsed
    BY <1>1, <1>4, <1>11 DEF ShownRun, Working, Parsed, JobIsShown
  <2>2. Shown(Reached', job.path, job.doc, job.draw, Parsed)
    <3>1. \A i \in Indexes : i < Parsed => i # job.index
      <4>1. <<job.doc, job.draw>> \in Extractions
        BY <2>1 DEF JobIsShown, Extractions, Documents
      <4>2. Parsed \in Int
        BY <4>1, LongestIs DEF Parsed, Counts
      <4> QED
        BY <1>1, <1>5, <2>1, <4>2 DEF JobIsShown
    <3> QED
      BY <1>1, <1>6, <2>1, <3>1 DEF JobIsShown, Shown
  <2>3. Parsed <= job'.index
    <3>1. <<job.doc, job.draw>> \in Extractions
      BY <2>1 DEF JobIsShown, Extractions, Documents
    <3>2. Parsed \in Int
      BY <3>1, LongestIs DEF Parsed, Counts
    <3> QED
      BY <1>1, <1>4, <2>1, <3>2 DEF JobIsShown
  <2> QED
    BY <1>1, <1>4, <1>9, <2>1, <2>2, <2>3 DEF JobIsShown
<1>12. (Working <=> Working') /\ (Removing <=> Removing')
  BY <1>1, <1>4 DEF Working, Removing
<1>13. ShownRun'
  BY <1>1, <1>4, <1>8, <1>9, <1>11, <1>12 DEF ShownRun
<1>14. Strict => StrictRun'
  <2>1. \A p \in DOMAIN entries \ {job.path} :
          InPlace(Reached, entries, p) => InPlace(Reached', entries, p)
    BY <1>2, <1>8, ShownGrows DEF InPlace, EntriesAreSound
  <2> QED
    BY <1>1, <1>4, <1>12, <2>1 DEF ShownInv, StrictRun
<1>15. CheckpointIsNear'
  <2>1. Like(told, pending)
    <3>1. CASE At(pending, job.path)
      <4>1. pending \in Progresses /\ pending # None
        BY <1>2, <3>1, LongestIs DEF At, Sound, Progresses, Counts
      <4> DEFINE n == job.index + 1
      <4>2. told = [pending EXCEPT !.tomb = n] /\ n \in Nat
        BY <1>1, <3>1
      <4> HIDE DEF n, told
      <4>3. told \in Progresses
        BY <4>1, <4>2 DEF Progresses
      <4>4. told # None
        BY <4>3, NotNone
      <4>5. /\ told.path = pending.path /\ told.doc = pending.doc /\ told.draw = pending.draw
            /\ told.next = pending.next
        BY <4>1, <4>2 DEF Progresses
      <4> QED
        BY <4>1, <4>4, <4>5 DEF Like
    <3> QED
      BY <3>1 DEF Like
  <2> HIDE DEF told
  <2>2. Checkpoint(entries, told).files = entries /\ Checkpoint(entries, told).progress = told
    BY DEF Checkpoint
  <2> QED
    BY <1>1, <1>2, <2>1, <2>2 DEF CheckpointIsNear
<1>16. CheckpointIsShown'
  BY <1>1, <1>2, <1>8, <1>9 DEF CheckpointIsShown
<1>17. (EntriesAreSound(entries) /\ Sound(pending))' /\ buffer' \in Seq(Records)
  BY <1>1, <1>2, <1>3 DEF EntriesAreSound, Sound, Bound
<1> QED
  BY <1>1, <1>13, <1>14, <1>15, <1>16, <1>17 DEF ShownInv

LEMMA ShownEmits ==
  ASSUME DocumentAssumption, DocumentsInv, ShownInv, EmitElement PROVE ShownInv'
<1> DEFINE r == [path |-> job.path, index |-> job.index, content |-> Content]
           n == job.index + 1
           it == Progress(job.path, job.doc, job.draw, n, None, Reconcile(n))
<1>1. /\ DocumentsRun /\ ShownRun /\ JobIsSound /\ pc = "emit" /\ message = None
      /\ job.path \in Paths /\ job.index \in Nat /\ job.index < Parsed
      /\ buffer' = Append(buffer, r) /\ job' = [job EXCEPT !.index = n]
      /\ \/ pending' = pending /\ message' = None
         \/ pending' = it /\ message' = Checkpoint(entries, it)
      /\ UNCHANGED <<files, gone, parser, saved, pc, start, entries, seen, todo, dest>>
  BY DEF DocumentsInv, ShownInv, DocumentsRun, JobIsSound, EmitElement, Suspended, world
<1>2. /\ EntriesAreSound(entries) /\ entries \in [DOMAIN entries -> Entries] /\ CheckpointIsShown
      /\ entries = saved.files /\ Sound(pending) /\ buffer \in Seq(Records)
      /\ Working /\ ~Removing /\ JobIsShown
  BY <1>1 DEF ShownInv, CheckpointIsNear, DocumentsRun, Working, Removing, ShownRun
<1>3. /\ job.doc \in Documents /\ job.draw \in Draws
      /\ job.doc[1] \in Versions /\ job.doc[2] \in Parsers
      /\ Parsed \in Int /\ <<job.doc, job.draw>> \in Extractions
  BY <1>1, <1>2, ParsedIs, LongestIs DEF JobIsShown, Documents, Counts, Extractions
<1>4. r \in Records /\ r.path = job.path /\ r.index = job.index /\ r.content = Content
  BY <1>1, <1>3 DEF Records, Contents, Content
<1>5. /\ job'.path = job.path /\ job'.index = n /\ DOMAIN job' = DOMAIN job
      /\ job'.doc = job.doc /\ job'.draw = job.draw
  BY <1>1, <1>2 DEF JobIsSound, JobIsShown
<1>6. /\ it.path = job.path /\ it.doc = job.doc /\ it.draw = job.draw /\ it.next = n
  BY DEF Progress
<1>7. Sound(pending')
  <2>1. DocumentsRun'
    BY FilesEmit
  <2> QED
    BY <2>1 DEF DocumentsRun, Sound, Bound
<1>8. pending' = it => it # None
  <2>1. n \in Nat
    BY <1>1
  <2>2. Reconcile(n) \in Nat \cup {None}
    BY <1>1, LongestIs DEF Reconcile, JobIsSound, Counts
  <2> HIDE DEF n
  <2>3. it \in Progresses
    BY <1>1, <1>3, <2>1, <2>2 DEF Progress, Progresses
  <2> QED
    BY <2>3, NotNone
<1> HIDE DEF r, it
<1>9. \A i \in Indexes : i \in Int
  BY LongestIs DEF Indexes, MaxLength
<1>10. /\ \A p \in Paths, i \in Indexes :
            p # job.path \/ i # job.index => Reached'[p][i] = Reached[p][i]
       /\ job.index \in Indexes => Reached'[job.path][job.index] = Content
  BY <1>1, <1>2, <1>4, ReachedAppends
<1>11. \A k : Shown(Reached, job.path, job.doc, job.draw, k)
                => Shown(Reached', job.path, job.doc, job.draw, k)
  BY <1>1, <1>10 DEF Shown, Content
<1>12. /\ job.path \in DOMAIN entries => <<job.path, entries[job.path].doc>> \in Outdated
       /\ \A other \in {start, pending, saved.progress} :
            At(other, job.path) =>
              \/ <<job.path, other.doc>> \in Outdated
              \/ Shown(Reached, job.path, other.doc, other.draw, other.next)
                   => Shown(Reached', job.path, other.doc, other.draw, other.next)
  BY <1>2, <1>11 DEF JobIsShown, Ours
<1>13. /\ \A p \in Paths \ {job.path} : \A i \in Indexes : Reached'[p][i] = Reached[p][i]
       /\ Accounted(saved.files, saved.progress, Reached', Outdated)
       /\ Accounted(entries, pending, Reached', Outdated)
       /\ ProgressIsShown(start, Reached', Outdated)
  BY <1>1, <1>4, <1>12, ShownAppends
<1>14. Passed' = Passed /\ Outdated' = Outdated /\ Parsed' = Parsed /\ Working' /\ ~Removing'
  BY <1>1, <1>5, WorldStays DEF Parsed, Working, Removing
<1>15. Shown(Reached', job.path, job.doc, job.draw, n) /\ n <= Parsed
  <2>1. Shown(Reached, job.path, job.doc, job.draw, job.index)
    BY <1>1, <1>2 DEF JobIsShown
  <2>2. \A i \in Indexes : i < n => i < job.index \/ i = job.index
    BY <1>1, <1>9
  <2>3. ASSUME NEW i \in Indexes, i < n PROVE Reached'[job.path][i] = Content
    <3>1. CASE i < job.index
      BY <1>1, <1>9, <1>10, <2>1, <3>1 DEF Shown, Content
    <3>2. CASE i = job.index
      BY <1>10, <2>3, <3>2
    <3> QED
      BY <2>2, <2>3, <3>1, <3>2
  <2>4. n <= Parsed
    BY <1>1, <1>3
  <2> HIDE DEF n
  <2> QED
    BY <2>3, <2>4 DEF Shown, Content
<1>16. ASSUME pending' = it
       PROVE  /\ HasPassed(it, Passed) /\ Accounted(entries, it, Reached', Outdated)
              /\ Ours(it, job.path, job.doc, job.draw, Outdated)
  <2>1. it.next <= Length[<<it.doc, it.draw>>]
    BY <1>6, <1>15 DEF Parsed
  <2> HIDE DEF n
  <2>2. ProgressIsShown(it, Reached', Outdated)
    BY <1>6, <1>15, <2>1 DEF ProgressIsShown
  <2> QED
    BY <1>2, <1>6, <1>13, <2>2 DEF JobIsShown, HasPassed, Ours, Accounted, IsAhead
<1>17. /\ HasPassed(pending', Passed) /\ Accounted(entries, pending', Reached', Outdated)
       /\ Ours(pending', job.path, job.doc, job.draw, Outdated)
  BY <1>1, <1>2, <1>13, <1>16 DEF CheckpointIsShown, JobIsShown
<1>18. JobIsShown'
  BY <1>1, <1>2, <1>5, <1>14, <1>15, <1>17 DEF JobIsShown
<1>19. ShownRun'
  BY <1>1, <1>2, <1>13, <1>14, <1>18 DEF ShownRun, Removing
<1>20. Strict => StrictRun'
  <2>1. \A p \in DOMAIN entries \ {job.path} :
          InPlace(Reached, entries, p) => InPlace(Reached', entries, p)
    BY <1>2, <1>13, ShownGrows DEF InPlace, EntriesAreSound
  <2> QED
    BY <1>1, <1>2, <1>5, <1>14, <2>1 DEF ShownInv, StrictRun
<1>21. CheckpointIsNear'
  <2>1. Checkpoint(entries, it).files = entries /\ Checkpoint(entries, it).progress = it
    BY DEF Checkpoint
  <2> QED
    BY <1>1, <1>2, <2>1 DEF CheckpointIsNear, Like
<1>22. CheckpointIsShown'
  BY <1>1, <1>2, <1>13, <1>14, <1>17 DEF CheckpointIsShown
<1>23. (EntriesAreSound(entries) /\ Sound(pending))' /\ buffer' \in Seq(Records)
  BY <1>1, <1>2, <1>4, <1>7 DEF EntriesAreSound, Sound, Bound
<1> QED
  BY <1>1, <1>2, <1>19, <1>20, <1>21, <1>22, <1>23 DEF ShownInv

LEMMA ShownStep ==
  ASSUME DocumentAssumption, ~Return, DocumentsInv, ShownInv, Next \/ UNCHANGED vars
  PROVE  ShownInv'
<1> USE DEF world, locals
<1>0. gone \subseteq Paths /\ \A p \in gone : files[p] = Absent
  BY DEF ShownInv
<1>1. ASSUME ChangeFile \/ Reconfigure \/ UNCHANGED <<files, gone, parser>>,
             UNCHANGED <<saved, pc, start, entries, pending, seen, todo, job, message, buffer, dest>>
      PROVE  ShownInv'
  BY <1>0, <1>1, WorldMovesOn, ShownMovesOn
<1>2. CASE ChangeFile
  BY <1>1, <1>2 DEF ChangeFile
<1>3. CASE Reconfigure
  BY <1>1, <1>3 DEF Reconfigure
<1>4. CASE LoseCache
  BY <1>1, <1>4 DEF LoseCache
<1>5. CASE UNCHANGED vars
  BY <1>1, <1>5 DEF vars
<1>6. ASSUME Stopped PROVE ShownInv'
  BY <1>6, ShownStopped DEF Stopped
<1>7. CASE Crash
  BY <1>6, <1>7 DEF Crash
<1>8. CASE EndElements
  BY <1>6, <1>8, ShownEnds
<1>9. CASE FailFile
  <2> DEFINE p == NextPath(todo)
  <2>1. pc = "file" /\ message = None /\ todo # {} /\ DocumentsRun
    BY <1>9 DEF FailFile, Suspended, DocumentsInv
  <2>2. CASE ~Stopped
    <3>1. /\ ~Strict /\ todo' = todo \ {p}
          /\ UNCHANGED <<files, gone, parser, saved, pc, start, entries, pending, seen, job,
                         buffer, message, dest>>
      BY <1>9, <2>2 DEF FailFile
    <3>2. p \in todo
      BY <2>1, NextPathIs DEF DocumentsRun
    <3> HIDE DEF p
    <3> QED
      BY <2>1, <3>1, <3>2, ShownPassesOver
  <2> QED
    BY <1>6, <2>2
<1> QED
  BY <1>2, <1>3, <1>4, <1>5, <1>7, <1>8, <1>9, ShownWrites, ShownSaves, ShownStarts, ShownRemoves,
     ShownBuries, ShownBuried, ShownRemovedAll, ShownSkips, ShownExtracts, ShownEmits,
     ShownCommits, ShownFinishes
  DEF Next, Run, Source

LEMMA ShownInit == ASSUME Init PROVE ShownInv
<1>1. /\ saved = [files |-> <<>>, progress |-> None] /\ message = None /\ pc = "idle"
      /\ buffer = <<>> /\ entries = <<>> /\ pending = None /\ gone = {}
  BY DEF Init
<1>2. saved.files = <<>> /\ saved.progress = None /\ DOMAIN saved.files = {}
  BY <1>1
<1>3. \A d : Accounted(saved.files, saved.progress, d, Outdated)
  BY <1>2 DEF Accounted, EntriesAreShown, ProgressIsShown, IsAhead
<1>4. CheckpointIsShown
  BY <1>1, <1>2, <1>3 DEF CheckpointIsShown, HavePassed, HasPassed
<1>5. StrictRun
  BY <1>1, <1>2 DEF StrictRun, Working
<1>6. CheckpointIsNear /\ EntriesAreSound(entries) /\ Sound(pending)
  BY <1>1, <1>2 DEF CheckpointIsNear, EntriesAreSound, Sound
<1> QED
  BY <1>1, <1>2, <1>4, <1>5, <1>6 DEF ShownInv

LEMMA ShownSafe ==
  ASSUME DocumentAssumption, DocumentsInv, ShownInv PROVE CommittedIsDelivered
<1> SUFFICES ASSUME Quiet, NEW p \in DOMAIN saved.files, ~At(saved.progress, p),
                    Strict \/ saved.files[p].doc = <<files[p], parser>>
             PROVE  \A i \in 0..saved.files[p].count - 1 :
                      dest[p][i] = <<saved.files[p].doc[1], saved.files[p].doc[2], saved.files[p].draw>>
  BY DEF CommittedIsDelivered
<1>1. /\ pc = "idle" /\ message = None /\ buffer = <<>> /\ entries = saved.files
      /\ EntriesAreSound(saved.files) /\ p \in Paths
  BY DEF Quiet, ShownInv, CheckpointIsNear, EntriesAreSound
<1>2. InPlace(dest, saved.files, p)
  <2>1. CASE Strict
    <3>1. InPlace(Reached, entries, p)
      BY <1>1, <2>1 DEF ShownInv, StrictRun
    <3>2. \A i \in Indexes : dest[p][i] = Reached[p][i]
      BY <1>1, ReachedEmpty
    <3> QED
      BY <1>1, <3>1, <3>2, ShownGrows DEF InPlace
  <2>2. CASE saved.files[p].doc = <<files[p], parser>>
    <3>1. saved.files[p].doc \in Documents
      BY <1>1 DEF EntriesAreSound
    <3>2. files[p] # Absent
      <4>1. files[p] \in Versions
        BY <2>2, <3>1 DEF Documents
      <4> QED
        BY <4>1 DEF DocumentAssumption
    <3>3. <<p, saved.files[p].doc>> \notin Outdated
      BY <1>1, <2>2, <3>2, PresentIs DEF ShownInv
    <3> QED
      BY <3>3 DEF ShownInv, CheckpointIsShown, Accounted, EntriesAreShown
  <2> QED
    BY <2>1, <2>2
<1>3. 0..saved.files[p].count - 1 \subseteq {i \in Indexes : i < saved.files[p].count}
  <2>1. saved.files[p].count \in Counts /\ MaxLength \in Nat
    BY <1>1, LongestIs DEF EntriesAreSound
  <2> DEFINE c == saved.files[p].count
  <2>2. c \in Nat /\ c <= MaxLength
    BY <2>1 DEF Counts
  <2> HIDE DEF c
  <2>3. \A i \in 0..c - 1 : i \in 0..MaxLength - 1 /\ i < c
    BY <2>1, <2>2
  <2> QED
    BY <2>3 DEF Indexes, MaxLength, c
<1> QED
  BY <1>2, <1>3 DEF InPlace, Shown
===============================================================================
