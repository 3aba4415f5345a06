----------------------- MODULE ConnectorScenariosProofs -----------------------
(***************************************************************************)
(* Proofs about ConnectorScenarios, for every value of its constants.      *)
(***************************************************************************)
EXTENDS ConnectorScenarios, Recursion, Sequences, FiniteSetTheorems, TLAPS

-------------------------------------------------------------------------------
(* A growing file: the checkpoints                                         *)

Chars == Log!Objects \cup {NL, Torn}

LogTypes ==
  /\ file \in Seq(Chars) /\ saved \in [offset : Nat, line : Nat, prefix : Seq(Chars)]
  /\ pc \in {"idle", "read", "write", "save"} /\ pos \in Nat /\ line \in Nat

\* What the reader of a run has passed is at least what the checkpoint has, is whole
\* lines, and begins with the checkpointed prefix.
ReaderIsBeyond ==
  /\ saved.offset <= pos /\ pos <= Len(file)
  /\ \A i \in 1..saved.offset : file[i] = saved.prefix[i]
  /\ \A i \in 1..pos : file[i] # Torn

LogInv ==
  /\ LogTypes
  /\ Len(saved.prefix) = saved.offset
  /\ \A i \in 1..saved.offset : saved.prefix[i] # Torn
  /\ pc # "idle" => ReaderIsBeyond

\* The line behind the position ends at a newline or the end of the file.
LEMMA LineEndIs ==
  ASSUME NEW C, file \in Seq(C), pos \in Nat, pos < Len(file)
  PROVE  /\ Log!LineEnd \in (pos + 1)..Len(file)
         /\ \A i \in (pos + 1)..(Log!LineEnd - 1) : file[i] # NL
         /\ file[Log!LineEnd] = NL \/ Log!LineEnd = Len(file)
<1> DEFINE T == {e \in (pos + 1)..Len(file) : file[e] = NL \/ e = Len(file)}
<1>1. T \subseteq Nat /\ Len(file) \in T
  OBVIOUS
<1>2. PICK m \in T : \A k \in T : m <= k
  <2> HIDE DEF T
  <2> QED
    BY <1>1, LeastNat
<1>3. \A i \in (pos + 1)..(m - 1) : file[i] # NL
  BY <1>2
<1> QED
  BY <1>2, <1>3 DEF Log!LineEnd

\* A line that is blank, or one object, holds nothing torn.
LEMMA LineIsWhole ==
  ASSUME file \in Seq(Chars), pos \in Nat, pos < Len(file),
         Log!Content = <<>> \/ (Len(Log!Content) = 1 /\ Log!IsObject(Log!Content[1]))
  PROVE  \A i \in (pos + 1)..Log!LineEnd : file[i] # Torn
<1> DEFINE e == Log!LineEnd
           to == IF file[e] = NL THEN e - 1 ELSE e
<1>1. e \in (pos + 1)..Len(file)
  BY LineEndIs
<1>2. /\ Len(Log!Content) = to - pos
      /\ \A i \in 1..(to - pos) : Log!Content[i] = file[pos + i]
  BY <1>1 DEF Log!Content
<1>3. NL # Torn
  BY ConstantsAreSound DEF Log!PipelineAssumption
<1> HIDE DEF e
<1>4. CASE Log!Content = <<>>
  <2>1. e = pos + 1 /\ file[e] = NL
    BY <1>1, <1>2, <1>4
  <2> QED
    BY <1>3, <2>1 DEF e
<1>5. CASE Len(Log!Content) = 1 /\ Log!IsObject(Log!Content[1])
  <2>1. to = pos + 1 /\ file[pos + 1] # Torn
    <3>1. to - pos = 1 /\ to = pos + 1
      <4>1. to \in Int /\ Len(Log!Content) = to - pos /\ pos \in Int
        BY <1>1, <1>2
      <4>2. Len(Log!Content) = 1
        BY <1>5
      <4>3. to - pos = 1
        BY <4>1, <4>2
      <4> HIDE DEF to
      <4> QED
        BY <4>1, <4>3
    <3>2. Log!Content[1] = file[pos + 1]
      BY <1>2, <3>1
    <3> QED
      BY <1>5, <3>1, <3>2 DEF Log!IsObject
  <2>2. e = pos + 1 \/ (e = pos + 2 /\ file[e] = NL)
    BY <1>1, <2>1
  <2> QED
    BY <1>1, <1>3, <2>1, <2>2 DEF e
<1> QED
  BY <1>4, <1>5

LEMMA LogInit == ASSUME Log!Init PROVE LogInv
  BY DEF Log!Init, Log!NoCheckpoint, LogInv, LogTypes

LEMMA LogStep ==
  ASSUME LogInv, [Log!Next]_(Log!vars)
  PROVE  LogInv' /\ Log!CheckpointOnlyExtends
<1> USE DEF LogTypes
<1>0. LogTypes
  BY DEF LogInv
<1>1. ASSUME UNCHANGED saved PROVE Log!CheckpointOnlyExtends
  BY <1>0, <1>1 DEF Log!CheckpointOnlyExtends
<1>2. ASSUME UNCHANGED saved, file' \in Seq(Chars), pc' = "idle", pos' \in Nat, line' \in Nat
      PROVE  LogInv'
  BY <1>2 DEF LogInv
<1>3. CASE Log!AppendChar
  <2>1. PICK ch \in Chars : file' = Append(file, ch)
    BY <1>3 DEF Log!AppendChar, Chars
  <2>2. /\ file' \in Seq(Chars) /\ Len(file') = Len(file) + 1
        /\ \A i \in 1..Len(file) : file'[i] = file[i]
    BY <1>0, <2>1
  <2>3. UNCHANGED <<saved, pc, pos, line>>
    BY <1>3 DEF Log!AppendChar, Log!reader
  <2>4. ASSUME ReaderIsBeyond PROVE ReaderIsBeyond'
    <3>1. /\ pos <= Len(file) /\ saved.offset <= pos /\ saved.offset \in Nat /\ Len(file) \in Nat
          /\ UNCHANGED <<saved, pos>>
      BY <1>0, <2>3, <2>4 DEF ReaderIsBeyond
    <3>2. \A i \in 1..pos : i \in 1..Len(file)
      BY <1>0, <3>1
    <3>3. \A i \in 1..saved.offset : i \in 1..Len(file)
      BY <1>0, <3>1
    <3>4. Len(file') = Len(file) + 1 /\ pos <= Len(file')
      BY <1>0, <2>2, <3>1
    <3>5. \A i \in 1..saved.offset : file'[i] = saved.prefix[i]
      BY <2>2, <2>4, <3>3 DEF ReaderIsBeyond
    <3>6. \A i \in 1..pos : file'[i] # Torn
      BY <2>2, <2>4, <3>2 DEF ReaderIsBeyond
    <3> QED
      BY <3>1, <3>4, <3>5, <3>6 DEF ReaderIsBeyond
  <2> QED
    BY <1>0, <1>1, <2>2, <2>3, <2>4 DEF LogInv
<1>4. CASE Log!CompleteObject
  <2>1. /\ file # <<>> /\ file[Len(file)] = Torn
        /\ \E o \in Chars : file' = Append(SubSeq(file, 1, Len(file) - 1), o)
    BY <1>4 DEF Log!CompleteObject, Log!LineOpen, Chars
  <2>2. PICK o \in Chars : file' = Append(SubSeq(file, 1, Len(file) - 1), o)
    BY <2>1
  <2>3. Len(file) \in Nat /\ Len(file) # 0
    BY <1>0, <2>1
  <2>4. /\ SubSeq(file, 1, Len(file) - 1) \in Seq(Chars)
        /\ Len(SubSeq(file, 1, Len(file) - 1)) = Len(file) - 1
        /\ \A i \in 1..(Len(file) - 1) : SubSeq(file, 1, Len(file) - 1)[i] = file[i]
    <3> DEFINE n == Len(file) - 1
    <3>1. n \in Nat /\ n <= Len(file) /\ file \in Seq(Chars)
      BY <1>0, <2>3
    <3>2. SubSeq(file, 1, n) \in Seq(Chars) /\ Len(SubSeq(file, 1, n)) = n
      <4> HIDE DEF n
      <4> QED
        BY <3>1
    <3>3. \A i \in 1..n : SubSeq(file, 1, n)[i] = file[i]
      <4> HIDE DEF n
      <4> QED
        BY <3>1
    <3> QED
      BY <3>2, <3>3
  <2>5. /\ file' \in Seq(Chars) /\ Len(file') = Len(file)
        /\ \A i \in 1..(Len(file) - 1) : file'[i] = file[i]
    BY <2>2, <2>3, <2>4
  <2>6. UNCHANGED <<saved, pc, pos, line>>
    BY <1>4 DEF Log!CompleteObject, Log!reader
  <2>7. ASSUME ReaderIsBeyond PROVE ReaderIsBeyond'
    <3>1. pos < Len(file) /\ saved.offset \in Nat
      BY <1>0, <2>1, <2>3, <2>7 DEF ReaderIsBeyond
    <3>2. \A i \in 1..pos : i \in 1..(Len(file) - 1)
      BY <1>0, <2>3, <3>1
    <3>3. \A i \in 1..saved.offset : i \in 1..(Len(file) - 1)
      BY <1>0, <2>3, <2>7, <3>1 DEF ReaderIsBeyond
    <3>4. UNCHANGED <<saved, pos>> /\ saved.offset <= pos /\ pos <= Len(file)
      BY <2>6, <2>7 DEF ReaderIsBeyond
    <3> QED
      BY <2>5, <2>7, <3>2, <3>3, <3>4 DEF ReaderIsBeyond
  <2> QED
    BY <1>0, <1>1, <2>5, <2>6, <2>7 DEF LogInv
<1>5. CASE Log!Rotate
  <2>1. file' \in Seq(Chars)
    <3>1. \A o \in Chars : <<o, NL>> \in Seq(Chars)
      BY DEF Chars
    <3>2. \A o \in Log!Objects : o \in Chars
      BY DEF Chars
    <3>3. <<>> \in Seq(Chars)
      OBVIOUS
    <3>4. file' = <<>> \/ \E o \in Log!Objects : file' = <<o, NL>>
      BY <1>5 DEF Log!Rotate
    <3> QED
      BY <3>1, <3>2, <3>3, <3>4
  <2> QED
    BY <1>0, <1>1, <1>2, <1>5, <2>1 DEF Log!Rotate, Log!reader
<1>6. CASE Log!Start
  <2>1. /\ Len(file) >= saved.offset /\ SubSeq(file, 1, saved.offset) = saved.prefix
        /\ pc' = "read" /\ pos' = saved.offset /\ line' = saved.line /\ UNCHANGED <<file, saved>>
    BY <1>6 DEF Log!Start, Log!PrefixMatches, Log!source
  <2>2. \A i \in 1..saved.offset : file[i] = saved.prefix[i]
    BY <1>0, <2>1
  <2>3. ReaderIsBeyond'
    BY <1>0, <2>1, <2>2 DEF ReaderIsBeyond, LogInv
  <2> QED
    BY <1>0, <1>1, <2>1, <2>3 DEF LogInv
<1>7. CASE Log!SkipBlank \/ Log!ReadObject
  <2>1. /\ pc = "read" /\ pos < Len(file) /\ pos' = Log!LineEnd /\ line' = line + 1
        /\ UNCHANGED <<file, saved>> /\ pc' \in {"read", "write"}
        /\ Log!Content = <<>> \/ (Len(Log!Content) = 1 /\ Log!IsObject(Log!Content[1]))
    BY <1>7 DEF Log!SkipBlank, Log!ReadObject, Log!source
  <2>2. Log!LineEnd \in (pos + 1)..Len(file) /\ \A i \in (pos + 1)..Log!LineEnd : file[i] # Torn
    BY <1>0, <2>1, LineEndIs, LineIsWhole
  <2>3. ReaderIsBeyond
    BY <2>1 DEF LogInv
  <2>4. ReaderIsBeyond'
    BY <1>0, <2>1, <2>2, <2>3 DEF ReaderIsBeyond
  <2> QED
    BY <1>0, <1>1, <2>1, <2>2, <2>4 DEF LogInv
<1>8. CASE Log!EndOfFile \/ Log!WriteView \/ Log!WriteLog
  <2>1. pc # "idle" /\ UNCHANGED <<file, saved, pos, line>> /\ pc' \in {"write", "save"}
    BY <1>8 DEF Log!EndOfFile, Log!WriteView, Log!WriteLog, Log!source
  <2> QED
    BY <1>0, <1>1, <2>1 DEF LogInv, ReaderIsBeyond
<1>9. CASE Log!RefuseLine \/ Log!RefuseLog \/ Log!Stop \/ Log!StopInAppend
  BY <1>0, <1>1, <1>2, <1>9
     DEF Log!RefuseLine, Log!RefuseLog, Log!Stop, Log!StopInAppend, Log!Idle, Log!source
<1>10. CASE Log!Save
  <2>1. /\ pc = "save" /\ file' = file
        /\ saved' = [offset |-> pos, line |-> line, prefix |-> SubSeq(file, 1, pos)]
        /\ \/ pc' = "idle" /\ pos' = 0 /\ line' = 0
           \/ pc' = "read" /\ pos' = pos /\ line' = line
    BY <1>10 DEF Log!Save, Log!StoreSave, Log!NewCheckpoint
  <2>2. ReaderIsBeyond
    BY <2>1 DEF LogInv
  <2>3. /\ SubSeq(file, 1, pos) \in Seq(Chars) /\ Len(SubSeq(file, 1, pos)) = pos
        /\ \A i \in 1..pos : SubSeq(file, 1, pos)[i] = file[i]
    BY <1>0, <2>2 DEF ReaderIsBeyond
  <2>4. saved' \in [offset : Nat, line : Nat, prefix : Seq(Chars)]
    BY <1>0, <2>1, <2>3
  <2>5. Log!CheckpointOnlyExtends
    <3> DEFINE p == saved.prefix
               n == SubSeq(file, 1, pos)
    <3>1. p \in Seq(Chars) /\ Len(p) = saved.offset /\ saved.offset \in Nat /\ saved.offset <= pos
      BY <1>0, <2>2 DEF LogInv, ReaderIsBeyond
    <3>2. \A i \in 1..Len(p) : n[i] = p[i]
      BY <1>0, <2>2, <2>3, <3>1 DEF ReaderIsBeyond
    <3>3. SubSeq(p, 1, Len(p)) = SubSeq(n, 1, Len(p))
      <4> HIDE DEF p, n
      <4>1. Len(n) >= Len(p) /\ n \in Seq(Chars)
        BY <2>3, <3>1 DEF n
      <4> QED
        BY <3>1, <3>2, <4>1
    <3>4. Len(p) <= Len(n) /\ saved'.prefix = n
      BY <2>1, <2>3, <3>1
    <3>5. SubSeq(saved'.prefix, 1, Len(saved.prefix)) = saved.prefix
      BY <1>0, <3>3, <3>4
    <3> QED
      BY <3>4, <3>5 DEF Log!CheckpointOnlyExtends
  <2>6. ReaderIsBeyond' \/ pc' = "idle"
    BY <1>0, <2>1, <2>2, <2>3 DEF ReaderIsBeyond
  <2> QED
    BY <1>0, <2>1, <2>2, <2>3, <2>4, <2>5, <2>6 DEF LogInv, ReaderIsBeyond
<1>11. CASE UNCHANGED (Log!vars)
  BY <1>1, <1>11 DEF Log!vars, LogInv, ReaderIsBeyond
<1> QED
  BY <1>3, <1>4, <1>5, <1>6, <1>7, <1>8, <1>9, <1>10, <1>11 DEF Log!Next, Log!Run

-------------------------------------------------------------------------------
(* A growing file: the change log                                          *)

Envelopes == [id : RecordIds \cup Nat, op : {"upsert", "delete"}, val : LogValues,
              cursor : Nat, line : Nat]
Entries == Envelopes \cup {NL, Torn}

\* The versions of a batch that the log is not known to have, each once.
LEMMA FreshIs ==
  ASSUME pending \in Seq(Envelopes)
  PROVE  /\ CrashLog!Fresh \in Seq(Envelopes)
         /\ \A i, j \in 1..Len(CrashLog!Fresh) :
              CrashLog!Fresh[i] = CrashLog!Fresh[j] => i = j
         /\ \A i \in 1..Len(CrashLog!Fresh) : CrashLog!Fresh[i] \notin CrashLog!Versions
         /\ \A i \in 1..Len(pending) :
              \/ pending[i] \in CrashLog!Versions
              \/ \E x \in 1..Len(CrashLog!Fresh) : pending[i] = CrashLog!Fresh[x]
<1> DEFINE m == Len(pending)
           A == Seq(Envelopes)
           V == CrashLog!Versions
           Kept(r, e) == IF e \in V \cup {r[x] : x \in DOMAIN r} THEN r ELSE Append(r, e)
           f == CHOOSE g : g = [k \in 0..m |->
                  IF k = 0 THEN <<>> ELSE Kept(g[k - 1], pending[k])]
<1>1. m \in Nat /\ DOMAIN pending = 1..m /\ \A k \in 1..m : pending[k] \in Envelopes
  OBVIOUS
<1>2. CrashLog!Fresh = f[m]
  BY DEF CrashLog!Fresh, CrashLog!Range
<1>3. f = [k \in 0..m |-> IF k = 0 THEN <<>> ELSE Kept(f[k - 1], pending[k])]
  <2> DEFINE step == [a \in (1..m) \X A |-> Kept(a[2], pending[a[1]])]
  <2>1. <<>> \in A /\ step \in [(1..m) \X A -> A]
    <3>1. ASSUME NEW k \in 1..m, NEW r \in A PROVE Kept(r, pending[k]) \in A
      BY <1>1
    <3>2. \A a \in (1..m) \X A : a[1] \in 1..m /\ a[2] \in A
      OBVIOUS
    <3>3. <<>> \in A
      OBVIOUS
    <3> HIDE DEF A, Kept
    <3>4. \A a \in (1..m) \X A : Kept(a[2], pending[a[1]]) \in A
      BY <3>1, <3>2
    <3> QED
      BY <3>3, <3>4
  <2>2. PICK h \in [0..m -> A] : IsRun(h, <<>>, step, m)
    <3> DEFINE D == 1..m
    <3>1. step \in [D \X A -> A] /\ \A k \in 1..m : k \in D
      BY <2>1
    <3> HIDE DEF A, D, m, step
    <3> QED
      BY <1>1, <2>1, <3>1, RunsExist
  <2>3. ASSUME NEW k \in 0..m, k # 0
        PROVE  step[<<k, h[k - 1]>>] = Kept(h[k - 1], pending[k])
    <3>1. k \in 1..m /\ k - 1 \in 0..m
      BY <1>1, <2>3
    <3>2. h[k - 1] \in A
      <4> HIDE DEF A, step
      <4> QED
        BY <2>2, <3>1
    <3> HIDE DEF A, Kept
    <3> QED
      BY <3>1, <3>2
  <2>4. h = [k \in 0..m |-> IF k = 0 THEN <<>> ELSE Kept(h[k - 1], pending[k])]
    <3> HIDE DEF A, step, Kept
    <3> QED
      BY <2>2, <2>3 DEF IsRun
  <2> HIDE DEF Kept
  <2> QED
    BY <2>4
<1> HIDE DEF f
<1>4. f[0] = <<>> /\ \A k \in 1..m : f[k] = Kept(f[k - 1], pending[k])
  <2>1. 0 \in 0..m /\ \A k \in 1..m : k \in 0..m /\ k # 0
    BY <1>1
  <2> HIDE DEF Kept
  <2> QED
    BY <1>3, <2>1
<1> DEFINE Good(r) == /\ r \in A
                      /\ \A i, j \in 1..Len(r) : r[i] = r[j] => i = j
                      /\ \A i \in 1..Len(r) : r[i] \notin V
           Has(r, n) == \A i \in 1..n : pending[i] \in V \/ \E x \in 1..Len(r) : pending[i] = r[x]
           T == {n \in Nat : n <= m => Good(f[n]) /\ Has(f[n], n)}
<1>5. 0 \in T
  <2>1. Good(<<>>) /\ Has(<<>>, 0)
    OBVIOUS
  <2> HIDE DEF Good, Has
  <2> QED
    BY <1>4, <2>1
<1>6. ASSUME NEW n \in Nat, n \in T PROVE n + 1 \in T
  <2>1. SUFFICES ASSUME n + 1 <= m PROVE Good(f[n + 1]) /\ Has(f[n + 1], n + 1)
    OBVIOUS
  <2> DEFINE r == f[n]
  <2>2. Good(r) /\ Has(r, n) /\ n + 1 \in 1..m /\ (n + 1) - 1 = n /\ f[n + 1] = Kept(r, pending[n + 1])
    <3>1. n + 1 \in 1..m /\ (n + 1) - 1 = n /\ n <= m
      BY <1>1, <2>1
    <3> HIDE DEF Kept, Has, Good
    <3> QED
      BY <1>4, <1>6, <3>1
  <2>3. ASSUME NEW q, Good(q), NEW e \in Envelopes PROVE Good(Kept(q, e))
    <3>1. CASE e \in V \cup {q[x] : x \in DOMAIN q}
      BY <2>3, <3>1
    <3>2. CASE e \notin V \cup {q[x] : x \in DOMAIN q}
      <4>1. DOMAIN q = 1..Len(q) /\ Len(q) \in Nat /\ Append(q, e) \in A
        BY <2>3
      <4>2. /\ Len(Append(q, e)) = Len(q) + 1 /\ Append(q, e)[Len(q) + 1] = e
            /\ \A i \in 1..Len(q) : Append(q, e)[i] = q[i]
        BY <2>3
      <4>3. \A i \in 1..(Len(q) + 1) : i \in 1..Len(q) \/ i = Len(q) + 1
        BY <4>1
      <4> HIDE DEF A, V
      <4> QED
        BY <2>3, <3>2, <4>1, <4>2, <4>3
    <3> QED
      BY <3>1, <3>2
  <2>4. Has(Kept(r, pending[n + 1]), n + 1)
    <3>1. r \in Seq(Envelopes) /\ pending[n + 1] \in Envelopes
      BY <1>1, <2>2
    <3> DEFINE q == Kept(r, pending[n + 1])
    <3>2. \A x \in 1..Len(r) : x \in 1..Len(q) /\ q[x] = r[x]
      <4>1. DOMAIN r = 1..Len(r) /\ Len(r) \in Nat
        BY <3>1
      <4>2. CASE q = r
        BY <4>2
      <4>3. CASE q = Append(r, pending[n + 1])
        BY <3>1, <4>1, <4>3
      <4> QED
        BY <4>2, <4>3
    <3>3. pending[n + 1] \in V \/ \E x \in 1..Len(q) : pending[n + 1] = q[x]
      <4>1. DOMAIN r = 1..Len(r) /\ Len(r) \in Nat
        BY <3>1
      <4>2. CASE pending[n + 1] \in V \cup {r[x] : x \in DOMAIN r}
        BY <3>2, <4>1, <4>2
      <4>3. CASE pending[n + 1] \notin V \cup {r[x] : x \in DOMAIN r}
        <5>1. q = Append(r, pending[n + 1])
          BY <4>3
        <5>2. Len(q) = Len(r) + 1 /\ q[Len(r) + 1] = pending[n + 1]
          <6> HIDE DEF q
          <6> QED
            BY <3>1, <5>1
        <5>3. Len(r) + 1 \in 1..Len(q)
          BY <4>1, <5>2
        <5> QED
          BY <5>2, <5>3
      <4> QED
        BY <4>2, <4>3
    <3>4. \A i \in 1..(n + 1) : i \in 1..n \/ i = n + 1
      OBVIOUS
    <3>5. \A i \in 1..n : pending[i] \in V \/ \E x \in 1..Len(r) : pending[i] = r[x]
      BY <2>2
    <3> HIDE DEF V, q
    <3>6. \A i \in 1..(n + 1) : pending[i] \in V \/ \E x \in 1..Len(q) : pending[i] = q[x]
      BY <3>2, <3>3, <3>4, <3>5
    <3> QED
      BY <3>6 DEF q
  <2> HIDE DEF Good, Has, Kept, r
  <2> QED
    BY <1>1, <2>2, <2>3, <2>4
<1>7. m \in T
  <2> HIDE DEF T
  <2> QED
    BY <1>1, <1>5, <1>6, SetInduction
<1>8. Good(CrashLog!Fresh) /\ Has(CrashLog!Fresh, m)
  <2> HIDE DEF Good, Has
  <2> QED
    BY <1>1, <1>2, <1>7
<1> QED
  BY <1>8

\* Every object of the log is a version WriteLog knows.
Remembered == \A i \in 1..Len(log) : CrashLog!IsObject(log[i]) => log[i] \in CrashLog!Versions

AppendInv ==
  /\ file \in Seq(Chars) /\ pos \in Nat /\ line \in Nat
  /\ saved.offset \in Nat /\ saved.line \in Nat
  /\ pending \in Seq(Envelopes) /\ log \in Seq(Entries)
  /\ CrashLog!LogIsIdempotent
  /\ known # CrashLog!NotLoaded => Remembered

\* Each envelope is on a line of its own.
LEMMA LinesAre ==
  ASSUME NEW fresh \in Seq(Envelopes)
  PROVE  /\ CrashLog!Lines(fresh) \in Seq(Entries)
         /\ \A i \in 1..Len(CrashLog!Lines(fresh)) :
              \/ CrashLog!Lines(fresh)[i] = NL
              \/ \E k \in 1..Len(fresh) : i = 2 * k - 1 /\ CrashLog!Lines(fresh)[i] = fresh[k]
         /\ Len(CrashLog!Lines(fresh)) = 2 * Len(fresh)
         /\ \A k \in 1..Len(fresh) : /\ CrashLog!Lines(fresh)[2 * k - 1] = fresh[k]
                                     /\ CrashLog!Lines(fresh)[2 * k] = NL
<1> DEFINE n == Len(fresh)
           l == [i \in 1..(2 * n) |-> IF i % 2 = 1 THEN fresh[(i + 1) \div 2] ELSE NL]
<1>1. CrashLog!Lines(fresh) = l /\ n \in Nat
  BY DEF CrashLog!Lines
<1>2. ASSUME NEW i \in 1..(2 * n)
      PROVE  l[i] = NL \/ \E k \in 1..n : i = 2 * k - 1 /\ l[i] = fresh[k]
  <2>1. CASE i % 2 = 1
    <3>1. (i + 1) \div 2 \in 1..n /\ i = 2 * ((i + 1) \div 2) - 1
      <4>1. \A x \in Nat : x % 2 = 1 => x + 1 = 2 * ((x + 1) \div 2) /\ (x + 1) \div 2 \in Int
        OBVIOUS
      <4>2. i + 1 = 2 * ((i + 1) \div 2) /\ (i + 1) \div 2 \in Int
        BY <1>1, <2>1, <4>1
      <4>3. \A q \in Int : i + 1 = 2 * q => q \in 1..n /\ i = 2 * q - 1
        <5> HIDE DEF n
        <5> QED
          BY <1>1
      <4> QED
        BY <4>2, <4>3
    <3> QED
      BY <2>1, <3>1
  <2>2. CASE i % 2 # 1
    BY <2>2
  <2> QED
    BY <2>1, <2>2
<1>7. ASSUME NEW k \in 1..n PROVE l[2 * k - 1] = fresh[k] /\ l[2 * k] = NL
  <2>1. /\ 2 * k - 1 \in 1..(2 * n) /\ 2 * k \in 1..(2 * n) /\ (2 * k - 1) % 2 = 1
        /\ (2 * k) % 2 = 0 /\ ((2 * k - 1) + 1) \div 2 = k
    <3> HIDE DEF n
    <3> QED
      BY <1>1
  <2> HIDE DEF n
  <2> QED
    BY <2>1
<1>3. \A k \in 1..n : fresh[k] \in Entries
  BY DEF Entries
<1>4. \A i \in 1..(2 * n) : l[i] \in Entries
  BY <1>2, <1>3 DEF Entries
<1>5. l \in [1..(2 * n) -> Entries]
  BY <1>4
<1>6. 2 * n \in Nat /\ l \in Seq(Entries) /\ Len(l) = 2 * n
  <2>1. 2 * n \in Nat
    BY <1>1
  <2> HIDE DEF l, n
  <2> QED
    BY <1>5, <2>1
<1> HIDE DEF l
<1> QED
  BY <1>1, <1>2, <1>6, <1>7

\* What an interruption leaves of the lines holds no other objects.
LEMMA InterruptedAre ==
  ASSUME NEW fresh \in Seq(Envelopes), NEW chars \in CrashLog!Interrupted(CrashLog!Lines(fresh))
  PROVE  /\ chars \in Seq(Entries)
         /\ \A i \in 1..Len(chars) :
              \/ ~CrashLog!IsObject(chars[i])
              \/ \E k \in 1..Len(fresh) : i = 2 * k - 1 /\ chars[i] = fresh[k]
<1> DEFINE l == CrashLog!Lines(fresh)
           cut(n) == SubSeq(l, 1, n)
<1>1. /\ l \in Seq(Entries)
      /\ \A i \in 1..Len(l) : \/ ~CrashLog!IsObject(l[i])
                              \/ \E k \in 1..Len(fresh) : i = 2 * k - 1 /\ l[i] = fresh[k]
  BY LinesAre DEF CrashLog!IsObject
<1>2. \E n \in 0..Len(l) : chars = cut(n) \/ chars = Append(cut(n), Torn)
  <2>1. \/ \E n \in 0..Len(l) : chars = cut(n)
        \/ \E n \in 0..(Len(l) - 1) : chars = Append(cut(n), Torn)
    BY DEF CrashLog!Interrupted
  <2>2. \A n \in 0..(Len(l) - 1) : n \in 0..Len(l)
    BY <1>1
  <2> HIDE DEF l, cut
  <2> QED
    BY <2>1, <2>2
<1>3. PICK n \in 0..Len(l) : chars = cut(n) \/ chars = Append(cut(n), Torn)
  BY <1>2
<1> HIDE DEF l
<1>4. cut(n) \in Seq(Entries) /\ Len(cut(n)) = n /\ \A i \in 1..n : cut(n)[i] = l[i]
  BY <1>1, <1>3
<1>5. CASE chars = cut(n)
  BY <1>1, <1>4, <1>5
<1>6. CASE chars = Append(cut(n), Torn)
  <2>1. chars \in Seq(Entries) /\ Len(chars) = n + 1 /\ chars[n + 1] = Torn
        /\ \A i \in 1..n : chars[i] = l[i]
    BY <1>4, <1>6 DEF Entries
  <2>2. \A i \in 1..(n + 1) : i = n + 1 \/ (i \in 1..n /\ i \in 1..Len(l))
    BY <1>1, <1>3
  <2> QED
    BY <1>1, <2>1, <2>2 DEF CrashLog!IsObject
<1> QED
  BY <1>3, <1>5, <1>6

\* Lines of versions the log does not have keep it without duplicates.
LEMMA AppendsOnce ==
  ASSUME log \in Seq(Entries), CrashLog!LogIsIdempotent, Remembered,
         NEW fresh \in Seq(Envelopes),
         \A i, j \in 1..Len(fresh) : fresh[i] = fresh[j] => i = j,
         \A i \in 1..Len(fresh) : fresh[i] \notin CrashLog!Versions,
         NEW chars \in Seq(Entries),
         \A i \in 1..Len(chars) :
           \/ ~CrashLog!IsObject(chars[i])
           \/ \E k \in 1..Len(fresh) : i = 2 * k - 1 /\ chars[i] = fresh[k],
         log' = log \o chars
  PROVE  /\ log' \in Seq(Entries) /\ CrashLog!LogIsIdempotent'
         /\ \A i \in 1..Len(log') : CrashLog!IsObject(log'[i]) =>
              \/ log'[i] \in CrashLog!Versions
              \/ \E k \in 1..Len(fresh) : log'[i] = fresh[k]
<1> DEFINE m == Len(log)
           n == Len(chars)
<1>1. m \in Nat /\ n \in Nat
  OBVIOUS
<1>2. /\ log' \in Seq(Entries) /\ Len(log') = m + n
      /\ \A i \in 1..m : log'[i] = log[i]
      /\ \A i \in 1..n : log'[m + i] = chars[i]
  OBVIOUS
<1>3. \A i \in 1..(m + n) : i \in 1..m \/ (i - m \in 1..n /\ i = m + (i - m))
  BY <1>1
<1> DEFINE Old(i) == i \in 1..m /\ log'[i] = log[i] /\ log'[i] \in CrashLog!Versions
           New(i) == \E k \in 1..Len(fresh) : i - m = 2 * k - 1 /\ log'[i] = fresh[k]
<1>4. ASSUME NEW i \in 1..Len(log'), CrashLog!IsObject(log'[i]) PROVE Old(i) \/ New(i)
  <2>1. CASE i \in 1..m
    BY <1>2, <1>4, <2>1 DEF Remembered
  <2>2. CASE i - m \in 1..n /\ i = m + (i - m)
    <3>1. log'[i] = chars[i - m]
      BY <1>2, <2>2
    <3> QED
      BY <1>4, <2>2, <3>1
  <2> QED
    BY <1>2, <1>3, <2>1, <2>2
<1>5. ASSUME NEW i \in 1..Len(log'), NEW j \in 1..Len(log'), i # j, CrashLog!IsObject(log'[i])
      PROVE  log'[i] # log'[j]
  <2>0. SUFFICES ASSUME log'[i] = log'[j] PROVE FALSE
    OBVIOUS
  <2>1. CrashLog!IsObject(log'[j]) /\ i \in Int /\ j \in Int
    BY <1>5, <2>0
  <2>2. (Old(i) \/ New(i)) /\ (Old(j) \/ New(j))
    <3> HIDE DEF Old, New
    <3> QED
      BY <1>4, <1>5, <2>1
  <2>3. ASSUME Old(i), Old(j) PROVE FALSE
    BY <1>5, <2>0, <2>3 DEF CrashLog!LogIsIdempotent
  <2>4. ~(Old(i) /\ New(j)) /\ ~(Old(j) /\ New(i))
    BY <2>0
  <2>5. ASSUME New(i), New(j) PROVE FALSE
    <3>1. PICK k \in 1..Len(fresh) : i - m = 2 * k - 1 /\ log'[i] = fresh[k]
      BY <2>5
    <3>2. PICK l \in 1..Len(fresh) : j - m = 2 * l - 1 /\ log'[j] = fresh[l]
      BY <2>5
    <3>3. k = l
      BY <2>0, <3>1, <3>2
    <3>4. i - m = j - m
      BY <3>1, <3>2, <3>3
    <3> QED
      BY <1>1, <1>5, <2>1, <3>4
  <2> HIDE DEF Old, New
  <2> QED
    BY <2>2, <2>3, <2>4, <2>5
<1>6. CrashLog!LogIsIdempotent'
  BY <1>5 DEF CrashLog!LogIsIdempotent, CrashLog!IsObject
<1>7. ASSUME NEW i \in 1..Len(log'), CrashLog!IsObject(log'[i])
      PROVE  log'[i] \in CrashLog!Versions \/ \E k \in 1..Len(fresh) : log'[i] = fresh[k]
  BY <1>4, <1>7
<1> QED
  BY <1>2, <1>6, <1>7

LEMMA AppendInit == ASSUME CrashLog!Init PROVE AppendInv
  BY DEF CrashLog!Init, CrashLog!NoCheckpoint, AppendInv, CrashLog!LogIsIdempotent

\* When the versions are known, or can be loaded, every object is among them.
LEMMA LoadedIsRemembered ==
  ASSUME AppendInv, known # CrashLog!NotLoaded \/ CrashLog!Loadable
  PROVE  Remembered
<1>1. CASE known # CrashLog!NotLoaded
  BY <1>1 DEF AppendInv
<1>2. CASE known = CrashLog!NotLoaded /\ CrashLog!Loadable
  BY <1>2 DEF Remembered, CrashLog!Loadable, CrashLog!Versions, CrashLog!Logged
<1> QED
  BY <1>1, <1>2

LEMMA AppendStep ==
  ASSUME AppendInv, [CrashLog!Next]_(CrashLog!vars)
  PROVE  AppendInv'
<1> DEFINE Reading == /\ file \in Seq(Chars) /\ pos \in Nat /\ line \in Nat
                      /\ saved.offset \in Nat /\ saved.line \in Nat
                      /\ pending \in Seq(Envelopes)
           Writing == /\ log \in Seq(Entries) /\ CrashLog!LogIsIdempotent
                      /\ known # CrashLog!NotLoaded => Remembered
<1>0. Reading /\ Writing /\ (AppendInv' <=> Reading' /\ Writing')
  BY DEF AppendInv
<1> HIDE DEF Reading, Writing
<1>1. ASSUME UNCHANGED log, known' = known \/ known' = CrashLog!NotLoaded PROVE Writing'
  BY <1>0, <1>1 DEF Writing, Remembered, CrashLog!LogIsIdempotent, CrashLog!Versions,
     CrashLog!NotLoaded
<1>2. ASSUME CrashLog!Idle, UNCHANGED <<file, saved>> PROVE Reading'
  BY <1>0, <1>2 DEF Reading, CrashLog!Idle
<1>3. CASE CrashLog!AppendChar
  <2>1. \E ch \in Chars : file' = Append(file, ch)
    BY <1>3 DEF CrashLog!AppendChar, Chars, CrashLog!Objects, Log!Objects
  <2>2. file' \in Seq(Chars)
    BY <1>0, <2>1 DEF Reading
  <2> QED
    BY <1>0, <1>1, <1>3, <2>2 DEF CrashLog!AppendChar, CrashLog!reader, Reading
<1>4. CASE CrashLog!CompleteObject
  <2>1. /\ file # <<>>
        /\ \E o \in Chars : file' = Append(SubSeq(file, 1, Len(file) - 1), o)
    BY <1>4 DEF CrashLog!CompleteObject, CrashLog!LineOpen, Chars,
       CrashLog!Objects, Log!Objects
  <2>2. file' \in Seq(Chars)
    <3>1. file \in Seq(Chars) /\ Len(file) - 1 \in Nat
      BY <1>0, <2>1 DEF Reading
    <3>2. SubSeq(file, 1, Len(file) - 1) \in Seq(Chars)
      <4> DEFINE n == Len(file) - 1
      <4>1. n \in Nat /\ n <= Len(file)
        BY <3>1
      <4> HIDE DEF n
      <4>2. SubSeq(file, 1, n) \in Seq(Chars)
        BY <3>1, <4>1
      <4> QED
        BY <4>2 DEF n
    <3> QED
      BY <2>1, <3>2
  <2> QED
    BY <1>0, <1>1, <1>4, <2>2 DEF CrashLog!CompleteObject, CrashLog!reader, Reading
<1>5. CASE CrashLog!Start \/ CrashLog!EndOfFile
  BY <1>0, <1>1, <1>5 DEF CrashLog!Start, CrashLog!EndOfFile, CrashLog!source, Reading
<1>6. CASE CrashLog!SkipBlank \/ CrashLog!ReadObject
  <2>1. pos < Len(file) /\ file \in Seq(Chars) /\ pos \in Nat /\ line \in Nat
    BY <1>0, <1>6 DEF CrashLog!SkipBlank, CrashLog!ReadObject, Reading
  <2>2. CrashLog!LineEnd \in (pos + 1)..Len(file)
    BY <2>1, LineEndIs DEF Log!LineEnd, CrashLog!LineEnd
  <2>3. pos' \in Nat /\ line' \in Nat /\ UNCHANGED <<file, saved, log, known>>
    BY <1>6, <2>1, <2>2 DEF CrashLog!SkipBlank, CrashLog!ReadObject, CrashLog!source
  <2>4. ASSUME CrashLog!ReadObject PROVE pending' \in Seq(Envelopes)
    <3>1. CrashLog!Content[1] \in CrashLog!Objects
      <4>1. CrashLog!Content \in Seq(Chars) /\ Len(CrashLog!Content) = 1
        <5> DEFINE e == CrashLog!LineEnd
                   to == IF file[e] = NL THEN e - 1 ELSE e
        <5>1. to \in pos..Len(file)
          <6>1. e \in (pos + 1)..Len(file) /\ Len(file) \in Nat
            BY <2>1, <2>2
          <6> HIDE DEF e
          <6> QED
            BY <2>1, <6>1
        <5>2. CrashLog!Content = SubSeq(file, pos + 1, to)
          BY DEF CrashLog!Content
        <5> HIDE DEF to
        <5>3. SubSeq(file, pos + 1, to) \in Seq(Chars)
          BY <2>1, <5>1
        <5> QED
          BY <2>4, <5>2, <5>3 DEF CrashLog!ReadObject
      <4>2. CrashLog!Content[1] \in Chars
        BY <4>1
      <4> QED
        BY <2>4, <4>2 DEF CrashLog!ReadObject, CrashLog!IsObject, Chars, Log!Objects,
           CrashLog!Objects
    <3>2. \A o \in CrashLog!Objects : CrashLog!Envelope(o, CrashLog!LineEnd, line + 1) \in Envelopes
      <4>1. CrashLog!LineEnd \in Nat /\ line + 1 \in Nat
        BY <2>1, <2>2
      <4> QED
        BY <4>1 DEF CrashLog!Envelope, CrashLog!Objects, Envelopes
    <3>3. CrashLog!Envelope(CrashLog!Content[1], CrashLog!LineEnd, line + 1) \in Envelopes
      BY <3>1, <3>2
    <3>4. pending' = Append(pending, CrashLog!Envelope(CrashLog!Content[1], CrashLog!LineEnd, line + 1))
      BY <2>4 DEF CrashLog!ReadObject
    <3> QED
      BY <1>0, <3>3, <3>4 DEF Reading
  <2>5. pending' \in Seq(Envelopes)
    BY <1>0, <1>6, <2>4 DEF CrashLog!SkipBlank, Reading
  <2> QED
    BY <1>0, <1>1, <2>3, <2>5 DEF Reading
<1>7. CASE CrashLog!WriteLog
  <2>1. /\ log' = log \o CrashLog!Lines(CrashLog!Fresh) /\ UNCHANGED <<file, saved, pos, line, pending>>
        /\ known' = CrashLog!Versions \cup CrashLog!Range(CrashLog!Fresh)
        /\ known # CrashLog!NotLoaded \/ CrashLog!Loadable
    BY <1>7 DEF CrashLog!WriteLog, CrashLog!source
  <2>2. Remembered
    BY <2>1, LoadedIsRemembered
  <2>3. /\ CrashLog!Fresh \in Seq(Envelopes)
        /\ \A i, j \in 1..Len(CrashLog!Fresh) :
             CrashLog!Fresh[i] = CrashLog!Fresh[j] => i = j
        /\ \A i \in 1..Len(CrashLog!Fresh) : CrashLog!Fresh[i] \notin CrashLog!Versions
    BY <1>0, FreshIs DEF Reading
  <2>4. /\ CrashLog!Lines(CrashLog!Fresh) \in Seq(Entries)
        /\ \A i \in 1..Len(CrashLog!Lines(CrashLog!Fresh)) :
             \/ ~CrashLog!IsObject(CrashLog!Lines(CrashLog!Fresh)[i])
             \/ \E k \in 1..Len(CrashLog!Fresh) :
                  i = 2 * k - 1 /\ CrashLog!Lines(CrashLog!Fresh)[i] = CrashLog!Fresh[k]
    BY <2>3, LinesAre DEF CrashLog!IsObject
  <2>5. /\ log' \in Seq(Entries) /\ CrashLog!LogIsIdempotent'
        /\ \A i \in 1..Len(log') : CrashLog!IsObject(log'[i]) =>
             \/ log'[i] \in CrashLog!Versions
             \/ \E k \in 1..Len(CrashLog!Fresh) : log'[i] = CrashLog!Fresh[k]
    BY <1>0, <2>1, <2>2, <2>3, <2>4, AppendsOnce DEF Writing
  <2>6. known' # CrashLog!NotLoaded => Remembered'
    <3> SUFFICES ASSUME known' # CrashLog!NotLoaded PROVE Remembered'
      OBVIOUS
    <3>1. CrashLog!Versions' = CrashLog!Versions \cup CrashLog!Range(CrashLog!Fresh)
      BY <2>1 DEF CrashLog!Versions, CrashLog!NotLoaded
    <3>2. \A k \in 1..Len(CrashLog!Fresh) : CrashLog!Fresh[k] \in CrashLog!Range(CrashLog!Fresh)
      BY <2>3 DEF CrashLog!Range
    <3>3. \A i \in 1..Len(log') : CrashLog!IsObject(log'[i]) => log'[i] \in CrashLog!Versions'
      BY <2>5, <3>1, <3>2
    <3> QED
      BY <3>3 DEF Remembered, CrashLog!IsObject
  <2>7. Reading'
    BY <1>0, <2>1 DEF Reading
  <2>8. Writing'
    BY <2>5, <2>6 DEF Writing, CrashLog!NotLoaded
  <2> QED
    BY <1>0, <2>7, <2>8
<1>8. CASE CrashLog!StopInAppend
  <2>1. PICK chars \in CrashLog!Interrupted(CrashLog!Lines(CrashLog!Fresh)) : log' = log \o chars
    BY <1>8 DEF CrashLog!StopInAppend
  <2>2. Remembered /\ known' = CrashLog!NotLoaded /\ CrashLog!Idle /\ UNCHANGED <<file, saved>>
    BY <1>8, LoadedIsRemembered DEF CrashLog!StopInAppend, CrashLog!source
  <2>3. /\ CrashLog!Fresh \in Seq(Envelopes)
        /\ \A i, j \in 1..Len(CrashLog!Fresh) :
             CrashLog!Fresh[i] = CrashLog!Fresh[j] => i = j
        /\ \A i \in 1..Len(CrashLog!Fresh) : CrashLog!Fresh[i] \notin CrashLog!Versions
    BY <1>0, FreshIs DEF Reading
  <2>4. /\ chars \in Seq(Entries)
        /\ \A i \in 1..Len(chars) :
             \/ ~CrashLog!IsObject(chars[i])
             \/ \E k \in 1..Len(CrashLog!Fresh) : i = 2 * k - 1 /\ chars[i] = CrashLog!Fresh[k]
    BY <2>1, <2>3, InterruptedAre
  <2>5. log' \in Seq(Entries) /\ CrashLog!LogIsIdempotent'
    BY <1>0, <2>1, <2>2, <2>3, <2>4, AppendsOnce DEF Writing
  <2>6. Reading' /\ Writing'
    BY <1>2, <2>2, <2>5 DEF Writing, CrashLog!NotLoaded
  <2> QED
    BY <1>0, <2>6
<1>9. CASE CrashLog!RefuseLine \/ CrashLog!RefuseLog \/ CrashLog!Stop
  BY <1>0, <1>1, <1>2, <1>9
     DEF CrashLog!RefuseLine, CrashLog!RefuseLog, CrashLog!Stop, CrashLog!source
<1>10. CASE CrashLog!Save
  <2>1. /\ saved' = [offset |-> pos, line |-> line, prefix |-> SubSeq(file, 1, pos)]
        /\ pending' = <<>> /\ UNCHANGED <<file, log, known>>
        /\ (pos' = 0 \/ pos' = pos) /\ (line' = 0 \/ line' = line)
    BY <1>10 DEF CrashLog!Save, CrashLog!StoreSave, CrashLog!NewCheckpoint
  <2> QED
    BY <1>0, <1>1, <2>1 DEF Reading
<1>11. CASE CrashLog!Rotate \/ CrashLog!WriteView
  BY <1>11 DEF CrashLog!Rotate, CrashLog!WriteView
<1>12. CASE UNCHANGED (CrashLog!vars)
  BY <1>0, <1>1, <1>12 DEF CrashLog!vars, Reading
<1> QED
  BY <1>3, <1>4, <1>5, <1>6, <1>7, <1>8, <1>9, <1>10, <1>11, <1>12
     DEF CrashLog!Next, CrashLog!Run

-------------------------------------------------------------------------------
(* A growing file: what the change log has                                 *)

\* Every object up to a place is among some envelopes.
IsTold(chars, n, envelopes) ==
  \A i \in 1..n : Log!IsObject(chars[i]) =>
    \E e \in envelopes :
      e.op = chars[i].op /\ e.val = chars[i].val /\ (e.cursor = i \/ e.cursor = i + 1)

\* The log is whole lines, since no append is interrupted.
LinesUpTo(l, n) == Len(l) = 2 * n /\ \A k \in 1..n : l[2 * k - 1] \in Envelopes /\ l[2 * k] = NL
IsLines(l) == l \in Seq(Entries) /\ \E n \in Nat : LinesUpTo(l, n)
On(l) == {e \in Envelopes : \E i \in 1..Len(l) : l[i] = e}
Buffered == IF pc = "save" THEN {} ELSE {pending[i] : i \in 1..Len(pending)}

LoggedInv ==
  /\ IsLines(log) /\ pending \in Seq(Envelopes)
  /\ known # Log!NotLoaded => known \subseteq On(log)
  /\ IsTold(saved.prefix, saved.offset, On(log))
  /\ pc = "read" \/ pc = "write" \/ pc = "save" => IsTold(file, pos, On(log) \cup Buffered)

LEMMA NotLines == /\ NL \notin Envelopes /\ Torn \notin Envelopes
  BY ConstantsAreSound DEF Log!PipelineAssumption, Log!Envelopes, Envelopes

LEMMA LoggedIs ==
  ASSUME IsLines(log) PROVE Log!Logged = On(log) /\ Log!Loadable
<1>1. PICK n \in Nat : LinesUpTo(log, n)
  BY DEF IsLines
<1>2. Len(log) = 2 * n /\ \A k \in 1..n : log[2 * k - 1] \in Envelopes /\ log[2 * k] = NL
  BY <1>1 DEF LinesUpTo
<1>3. \A i \in 1..(2 * n) : \E k \in 1..n : i = 2 * k - 1 \/ i = 2 * k
  <2> SUFFICES ASSUME NEW i \in 1..(2 * n) PROVE \E k \in 1..n : i = 2 * k - 1 \/ i = 2 * k
    OBVIOUS
  <2>1. \E k \in Nat : i = 2 * k - 1 \/ i = 2 * k
    <3>1. i = 2 * ((i + 1) \div 2) - 1 \/ i = 2 * ((i + 1) \div 2)
      OBVIOUS
    <3>2. (i + 1) \div 2 \in Nat
      OBVIOUS
    <3> QED
      BY <3>1, <3>2
  <2> QED
    BY <2>1
<1>4. ASSUME NEW k \in 1..n PROVE Log!IsObject(log[2 * k - 1]) /\ Log!OwnLine(2 * k - 1)
  <2>1. Log!IsObject(log[2 * k - 1])
    BY <1>2, NotLines DEF Log!IsObject
  <2>2. 2 * k - 1 > 1 => log[(2 * k - 1) - 1] = NL
    <3> SUFFICES ASSUME 2 * k - 1 > 1 PROVE log[(2 * k - 1) - 1] = NL
      OBVIOUS
    <3>1. k - 1 \in 1..n /\ (2 * k - 1) - 1 = 2 * (k - 1)
      OBVIOUS
    <3> QED
      BY <1>2, <3>1
  <2>3. log[(2 * k - 1) + 1] = NL
    <3>1. (2 * k - 1) + 1 = 2 * k
      OBVIOUS
    <3> QED
      BY <1>2, <3>1
  <2> QED
    BY <2>1, <2>2, <2>3 DEF Log!OwnLine
<1>5. ASSUME NEW i \in 1..Len(log), log[i] # NL
      PROVE  log[i] \in Envelopes /\ Log!IsObject(log[i]) /\ Log!OwnLine(i)
  BY <1>2, <1>3, <1>4, <1>5
<1>6. Log!Loadable
  <2> SUFFICES ASSUME NEW i \in 1..Len(log)
               PROVE  log[i] # Torn /\ (Log!IsObject(log[i]) => Log!OwnLine(i))
    BY DEF Log!Loadable
  <2>1. NL # Torn
    BY ConstantsAreSound DEF Log!PipelineAssumption
  <2>2. CASE log[i] = NL
    BY <2>1, <2>2 DEF Log!IsObject
  <2>3. CASE log[i] # NL
    BY <1>5, <2>3, NotLines
  <2> QED
    BY <2>2, <2>3
<1>7. ASSUME NEW e PROVE e \in Log!Logged <=> e \in On(log)
  <2>1. ASSUME e \in Log!Logged PROVE e \in On(log)
    <3>1. PICK i \in 1..Len(log) : e = log[i] /\ Log!IsObject(log[i]) /\ Log!OwnLine(i)
      BY <2>1 DEF Log!Logged
    <3>2. log[i] # NL
      BY <3>1 DEF Log!IsObject
    <3> QED
      BY <1>5, <3>1, <3>2 DEF On
  <2>2. ASSUME e \in On(log) PROVE e \in Log!Logged
    <3>1. PICK i \in 1..Len(log) : e = log[i] /\ e \in Envelopes
      BY <2>2 DEF On
    <3>2. log[i] # NL
      BY <3>1, NotLines
    <3>3. Log!IsObject(log[i]) /\ Log!OwnLine(i)
      BY <1>5, <3>2
    <3> QED
      BY <3>1, <3>3 DEF Log!Logged
  <2> QED
    BY <2>1, <2>2
<1> QED
  BY <1>6, <1>7

\* A line that is read is blank, or one object.
LEMMA LineHolds ==
  ASSUME NEW C, file \in Seq(C), pos \in Nat, pos < Len(file)
  PROVE  /\ Log!Content = <<>> => Log!LineEnd = pos + 1 /\ file[pos + 1] = NL
         /\ Len(Log!Content) = 1 =>
              /\ Log!Content[1] = file[pos + 1]
              /\ Log!LineEnd = pos + 1 \/ (Log!LineEnd = pos + 2 /\ file[pos + 2] = NL)
<1> DEFINE e == Log!LineEnd
           to == IF file[e] = NL THEN e - 1 ELSE e
<1>1. e \in (pos + 1)..Len(file)
  BY LineEndIs
<1>2. /\ Len(Log!Content) = to - pos
      /\ \A i \in 1..(to - pos) : Log!Content[i] = file[pos + i]
  BY <1>1 DEF Log!Content
<1> HIDE DEF e
<1>3. Log!Content = <<>> => e = pos + 1 /\ file[pos + 1] = NL
  BY <1>1, <1>2
<1>4. ASSUME Len(Log!Content) = 1
      PROVE  /\ Log!Content[1] = file[pos + 1]
             /\ e = pos + 1 \/ (e = pos + 2 /\ file[pos + 2] = NL)
  <2>1. to - pos = 1 /\ to \in Int
    <3>1. to \in Int
      BY <1>1
    <3> HIDE DEF to
    <3> QED
      BY <1>2, <1>4, <3>1
  <2>2. Log!Content[1] = file[pos + 1]
    BY <1>2, <2>1
  <2> QED
    BY <1>1, <2>1, <2>2
<1> QED
  BY <1>3, <1>4 DEF e

\* The objects of a file that was read up to a place stay where they are.
LEMMA ReadStays ==
  ASSUME LogInv, ReaderIsBeyond, Log!AppendChar \/ Log!CompleteObject
  PROVE  \A i \in 1..pos : file'[i] = file[i]
<1>0. LogTypes /\ pos <= Len(file)
  BY DEF LogInv, ReaderIsBeyond
<1>1. CASE Log!AppendChar
  <2>1. PICK ch \in Chars : file' = Append(file, ch)
    BY <1>1 DEF Log!AppendChar, Chars
  <2>2. \A i \in 1..Len(file) : file'[i] = file[i]
    BY <1>0, <2>1 DEF LogTypes
  <2> QED
    BY <1>0, <2>2 DEF LogTypes
<1>2. CASE Log!CompleteObject
  <2> DEFINE n == Len(file) - 1
  <2>1. /\ file # <<>> /\ file[Len(file)] = Torn
        /\ \E o \in Chars : file' = Append(SubSeq(file, 1, n), o)
    BY <1>2 DEF Log!CompleteObject, Log!LineOpen, Chars
  <2>2. PICK o \in Chars : file' = Append(SubSeq(file, 1, n), o)
    BY <2>1
  <2>3. n \in Nat /\ n <= Len(file) /\ file \in Seq(Chars) /\ Len(file) = n + 1
    BY <1>0, <2>1 DEF LogTypes
  <2>4. pos <= n
    BY <1>0, <2>1, <2>3 DEF LogTypes, ReaderIsBeyond
  <2> HIDE DEF n
  <2>5. /\ SubSeq(file, 1, n) \in Seq(Chars) /\ Len(SubSeq(file, 1, n)) = n
        /\ \A i \in 1..n : SubSeq(file, 1, n)[i] = file[i]
    BY <2>3
  <2>6. \A i \in 1..n : file'[i] = file[i]
    BY <2>2, <2>3, <2>5
  <2> QED
    BY <1>0, <2>3, <2>4, <2>6 DEF LogTypes
<1> QED
  BY <1>1, <1>2

LEMMA LoggedInit == ASSUME Log!Init PROVE LoggedInv
<1>1. /\ saved.offset = 0 /\ pc = "idle" /\ pending = <<>> /\ log = <<>> /\ known = Log!NotLoaded
  BY DEF Log!Init, Log!NoCheckpoint
<1>2. LinesUpTo(log, 0) /\ log \in Seq(Entries) /\ 0 \in Nat
  BY <1>1 DEF LinesUpTo
<1> QED
  BY <1>1, <1>2 DEF LoggedInv, IsLines, IsTold

\* The lines of a batch are appended, and all its versions are in the log.
LEMMA LoggedWrites == ASSUME LoggedInv, Log!WriteLog PROVE LoggedInv'
<1> DEFINE fresh == CrashLog!Fresh
           new == CrashLog!Lines(fresh)
           m == Len(fresh)
<1>1. CrashLog!Versions = Log!Versions
  BY DEF CrashLog!Versions, Log!Versions, CrashLog!NotLoaded, Log!NotLoaded, CrashLog!Logged,
         Log!Logged, CrashLog!IsObject, Log!IsObject, CrashLog!OwnLine, Log!OwnLine
<1>2. Log!Fresh = fresh
  BY DEF CrashLog!Versions, Log!Versions, CrashLog!NotLoaded, Log!NotLoaded, CrashLog!Logged,
         Log!Logged, CrashLog!IsObject, Log!IsObject, CrashLog!OwnLine, Log!OwnLine,
         Log!Fresh, CrashLog!Fresh, CrashLog!Range, Log!Range
<1>3. /\ pc = "write" /\ pc' = "save" /\ log' = log \o new
      /\ known' = Log!Versions \cup Log!Range(fresh)
      /\ UNCHANGED <<file, saved, pos, line, pending>>
  <2>1. /\ log' = log \o Log!Lines(Log!Fresh) /\ known' = Log!Versions \cup Log!Range(Log!Fresh)
        /\ pc = "write" /\ pc' = "save" /\ UNCHANGED <<file, saved, pos, line, pending>>
    BY DEF Log!WriteLog, Log!source
  <2>2. Log!Lines(fresh) = new
    BY DEF Log!Lines, CrashLog!Lines
  <2> HIDE DEF fresh, new
  <2> QED
    BY <1>2, <2>1, <2>2
<1>4. IsLines(log) /\ pending \in Seq(Envelopes)
  BY DEF LoggedInv
<1>5. /\ fresh \in Seq(Envelopes)
      /\ \A i \in 1..Len(pending) :
           pending[i] \in Log!Versions \/ \E x \in 1..m : pending[i] = fresh[x]
  BY <1>1, <1>4, FreshIs
<1> HIDE DEF fresh
<1>6. /\ new \in Seq(Entries) /\ Len(new) = 2 * m
      /\ \A k \in 1..m : new[2 * k - 1] = fresh[k] /\ new[2 * k] = NL
      /\ \A i \in 1..Len(new) : new[i] = NL \/ \E k \in 1..m : i = 2 * k - 1 /\ new[i] = fresh[k]
  BY <1>5, LinesAre
<1> HIDE DEF new
<1>7. /\ log \in Seq(Entries) /\ log' \in Seq(Entries) /\ Len(log') = Len(log) + Len(new)
      /\ \A i \in 1..Len(log) : log'[i] = log[i]
      /\ \A i \in 1..Len(new) : log'[Len(log) + i] = new[i]
      /\ m \in Nat /\ \A k \in 1..m : fresh[k] \in Envelopes
  <2>1. log \in Seq(Entries) /\ fresh \in Seq(Envelopes)
    BY <1>4, <1>5 DEF IsLines
  <2>2. /\ log' \in Seq(Entries) /\ Len(log') = Len(log) + Len(new)
        /\ \A i \in 1..Len(log) : log'[i] = log[i]
        /\ \A i \in 1..Len(new) : log'[Len(log) + i] = new[i]
    <3>1. new \in Seq(Entries) /\ log' = log \o new
      BY <1>3, <1>6
    <3>2. \A a, b \in Seq(Entries) :
            /\ a \o b \in Seq(Entries) /\ Len(a \o b) = Len(a) + Len(b)
            /\ \A i \in 1..Len(a) : (a \o b)[i] = a[i]
            /\ \A i \in 1..Len(b) : (a \o b)[Len(a) + i] = b[i]
      OBVIOUS
    <3> QED
      BY <2>1, <3>1, <3>2
  <2>3. m \in Nat /\ \A k \in 1..m : fresh[k] \in Envelopes
    BY <2>1
  <2> QED
    BY <2>1, <2>2, <2>3
<1>8. IsLines(log)'
  <2>1. PICK n \in Nat : LinesUpTo(log, n)
    BY <1>4 DEF IsLines
  <2>2. Len(log) = 2 * n /\ \A k \in 1..n : log[2 * k - 1] \in Envelopes /\ log[2 * k] = NL
    BY <2>1 DEF LinesUpTo
  <2>3. ASSUME NEW k \in 1..(n + m) PROVE log'[2 * k - 1] \in Envelopes /\ log'[2 * k] = NL
    <3>1. CASE k <= n
      <4>1. k \in 1..n /\ 2 * k - 1 \in 1..Len(log) /\ 2 * k \in 1..Len(log)
        BY <1>7, <2>2, <3>1
      <4> QED
        BY <1>7, <2>2, <4>1
    <3>2. CASE k > n
      <4> DEFINE j == k - n
      <4>1. /\ j \in 1..m /\ 2 * j - 1 \in 1..Len(new) /\ 2 * j \in 1..Len(new)
            /\ 2 * k - 1 = Len(log) + (2 * j - 1) /\ 2 * k = Len(log) + 2 * j
        BY <1>6, <1>7, <2>2, <3>2
      <4> HIDE DEF j
      <4> QED
        BY <1>6, <1>7, <4>1
    <3> QED
      BY <1>7, <3>1, <3>2
  <2>4. Len(log') = 2 * (n + m) /\ n + m \in Nat
    BY <1>6, <1>7, <2>2
  <2>5. LinesUpTo(log', n + m)
    BY <2>3, <2>4 DEF LinesUpTo
  <2> QED
    BY <1>7, <2>4, <2>5 DEF IsLines
<1>9. On(log) \subseteq On(log')
  <2> SUFFICES ASSUME NEW i \in 1..Len(log), log[i] \in Envelopes
               PROVE  \E j \in 1..Len(log') : log'[j] = log[i]
    BY DEF On
  <2>1. i \in 1..Len(log') /\ log'[i] = log[i]
    BY <1>7
  <2> QED
    BY <2>1
<1>10. \A k \in 1..m : fresh[k] \in On(log')
  <2> SUFFICES ASSUME NEW k \in 1..m PROVE \E j \in 1..Len(log') : log'[j] = fresh[k]
    BY <1>7 DEF On
  <2>1. /\ 2 * k - 1 \in 1..Len(new)
        /\ Len(log) + (2 * k - 1) \in 1..Len(log')
    BY <1>6, <1>7
  <2>2. log'[Len(log) + (2 * k - 1)] = fresh[k]
    BY <1>6, <1>7, <2>1
  <2> QED
    BY <2>1, <2>2
<1>11. Log!Versions \subseteq On(log)
  BY <1>4, LoggedIs DEF LoggedInv, Log!Versions
<1>12. known' \subseteq On(log')
  <2>1. \A e \in Log!Range(fresh) : \E k \in 1..m : e = fresh[k]
    BY <1>5 DEF Log!Range
  <2> QED
    BY <1>3, <1>9, <1>10, <1>11, <2>1
<1>13. IsTold(saved.prefix, saved.offset, On(log))'
  BY <1>3, <1>9 DEF LoggedInv, IsTold
<1>14. IsTold(file, pos, On(log) \cup Buffered)'
  <2>1. IsTold(file, pos, On(log) \cup {pending[i] : i \in 1..Len(pending)})
    BY <1>3 DEF LoggedInv, Buffered
  <2>2. {pending[i] : i \in 1..Len(pending)} \subseteq On(log')
    BY <1>5, <1>9, <1>10, <1>11
  <2>3. On(log) \cup {pending[i] : i \in 1..Len(pending)} \subseteq On(log')
    BY <1>9, <2>2
  <2>4. \A s, t : s \subseteq t /\ IsTold(file, pos, s) => IsTold(file, pos, t)
    BY DEF IsTold
  <2>5. IsTold(file, pos, On(log'))
    BY <2>1, <2>3, <2>4
  <2> QED
    BY <1>3, <2>5 DEF Buffered, IsTold
<1> QED
  BY <1>3, <1>4, <1>8, <1>12, <1>13, <1>14 DEF LoggedInv

LEMMA LoggedStep ==
  ASSUME LogInv, LoggedInv, [Log!Next]_(Log!vars)
  PROVE  LoggedInv'
<1>0. /\ LogTypes /\ LogInv' /\ IsLines(log) /\ pending \in Seq(Envelopes)
      /\ known # Log!NotLoaded => known \subseteq On(log)
      /\ IsTold(saved.prefix, saved.offset, On(log))
  BY LogStep DEF LogInv, LoggedInv
<1>1. ASSUME UNCHANGED <<saved, log>>, pc' = "idle", pending' = <<>> \/ UNCHANGED pending,
             known' = known \/ known' = Log!NotLoaded
      PROVE  LoggedInv'
  <2>1. pending' \in Seq(Envelopes)
    <3>1. <<>> \in Seq(Envelopes)
      OBVIOUS
    <3> QED
      BY <1>0, <1>1, <3>1
  <2>2. (known # Log!NotLoaded => known \subseteq On(log))'
    BY <1>0, <1>1 DEF Log!NotLoaded
  <2> QED
    BY <1>0, <1>1, <2>1, <2>2 DEF LoggedInv, IsTold
<1>2. ASSUME UNCHANGED <<saved, log, known>>, pending' \in Seq(Envelopes),
             IsTold(file, pos, On(log) \cup Buffered)'
      PROVE  LoggedInv'
  <2>1. IsTold(saved.prefix, saved.offset, On(log))' /\ IsLines(log)'
        /\ (known # Log!NotLoaded => known \subseteq On(log))'
    BY <1>0, <1>2 DEF IsTold, Log!NotLoaded
  <2> QED
    BY <1>2, <2>1 DEF LoggedInv
<1>3. CASE Log!AppendChar \/ Log!CompleteObject
  <2>1. UNCHANGED <<saved, log, known, pc, pos, line, pending>>
    BY <1>3 DEF Log!AppendChar, Log!CompleteObject, Log!reader
  <2>2. CASE pc = "idle"
    BY <1>1, <2>1, <2>2
  <2>3. CASE pc # "idle"
    <3>1. ReaderIsBeyond /\ IsTold(file, pos, On(log) \cup Buffered)
      BY <1>0, <2>3 DEF LogInv, LoggedInv, LogTypes
    <3>2. \A i \in 1..pos : file'[i] = file[i]
      BY <1>3, <3>1, ReadStays
    <3>3. IsTold(file', pos, On(log) \cup Buffered)
      BY <3>1, <3>2 DEF IsTold
    <3>4. Buffered' = Buffered
      BY <2>1 DEF Buffered
    <3>5. IsTold(file, pos, On(log) \cup Buffered)'
      BY <2>1, <3>3, <3>4 DEF IsTold
    <3> QED
      BY <1>0, <1>2, <2>1, <3>5
  <2> QED
    BY <2>2, <2>3
<1>4. CASE Log!Rotate
  BY <1>1, <1>4 DEF Log!Rotate, Log!reader
<1>5. CASE Log!Start
  <2>1. /\ UNCHANGED <<file, saved, log, known, pending>> /\ pc' = "read" /\ pos' = saved.offset
        /\ Len(file) >= saved.offset /\ SubSeq(file, 1, saved.offset) = saved.prefix
    BY <1>5 DEF Log!Start, Log!PrefixMatches, Log!source
  <2>2. \A i \in 1..saved.offset : file[i] = saved.prefix[i]
    BY <1>0, <2>1 DEF LogTypes
  <2>3. IsTold(file, saved.offset, On(log))
    BY <1>0, <2>2 DEF IsTold
  <2>4. \A s, t : s \subseteq t /\ IsTold(file, saved.offset, s) => IsTold(file, saved.offset, t)
    BY DEF IsTold
  <2>5. IsTold(file, saved.offset, On(log) \cup Buffered')
    BY <2>3, <2>4
  <2>6. IsTold(file, pos, On(log) \cup Buffered)'
    BY <2>1, <2>5 DEF IsTold
  <2> QED
    BY <1>0, <1>2, <2>1, <2>6
<1>6. CASE Log!SkipBlank
  <2>1. /\ pc = "read" /\ pc' = "read" /\ pos < Len(file) /\ Log!Content = <<>> /\ pos' = Log!LineEnd
        /\ UNCHANGED <<file, saved, log, known, pending>>
    BY <1>6 DEF Log!SkipBlank, Log!source
  <2>2. pos' = pos + 1 /\ file[pos + 1] = NL /\ pos \in Nat
    BY <1>0, <2>1, LineHolds DEF LogTypes
  <2>3. IsTold(file, pos, On(log) \cup Buffered)
    BY <2>1 DEF LoggedInv
  <2>4. IsTold(file, pos + 1, On(log) \cup Buffered)
    <3>1. \A i \in 1..(pos + 1) : i \in 1..pos \/ i = pos + 1
      BY <2>2
    <3>2. ~Log!IsObject(file[pos + 1])
      BY <2>2 DEF Log!IsObject
    <3> QED
      BY <2>3, <3>1, <3>2 DEF IsTold
  <2>5. IsTold(file, pos, On(log) \cup Buffered)'
    BY <2>1, <2>2, <2>4 DEF IsTold, Buffered
  <2> QED
    BY <1>0, <1>2, <2>1, <2>5
<1>7. CASE Log!ReadObject
  <2> DEFINE o == Log!Content[1]
             e == Log!Envelope(o, Log!LineEnd, line + 1)
  <2>1. /\ pc = "read" /\ pos < Len(file) /\ Len(Log!Content) = 1 /\ Log!IsObject(o)
        /\ pos' = Log!LineEnd /\ pending' = Append(pending, e)
        /\ pc' \in {"read", "write"} /\ UNCHANGED <<file, saved, log, known>>
    BY <1>7 DEF Log!ReadObject, Log!source
  <2>2. /\ o = file[pos + 1] /\ pos \in Nat /\ line \in Nat
        /\ pos' = pos + 1 \/ (pos' = pos + 2 /\ file[pos + 2] = NL)
        /\ pos' \in 1..Len(file)
    BY <1>0, <2>1, LineHolds, LineEndIs DEF LogTypes
  <2>3. o \in Log!Objects
    <3>1. file[pos + 1] \in Chars
      BY <1>0, <2>1, <2>2 DEF LogTypes
    <3> QED
      BY <2>1, <2>2, <3>1 DEF Chars, Log!IsObject
  <2>4. e \in Envelopes /\ e.op = o.op /\ e.val = o.val /\ e.cursor = pos'
    BY <2>1, <2>2, <2>3 DEF Log!Envelope, Envelopes, Log!Objects
  <2> HIDE DEF e, o
  <2>5. /\ pending' \in Seq(Envelopes) /\ Len(pending') = Len(pending) + 1 /\ Len(pending) \in Nat
        /\ \A i \in 1..Len(pending) : pending'[i] = pending[i]
        /\ pending'[Len(pending) + 1] = e
    BY <1>0, <2>1, <2>4
  <2>6. e \in Buffered' /\ Buffered \subseteq Buffered'
    <3>1. Buffered' = {pending'[i] : i \in 1..Len(pending')} /\ Buffered = {pending[i] : i \in 1..Len(pending)}
      BY <2>1 DEF Buffered
    <3>2. \A i \in 1..Len(pending) : i \in 1..Len(pending')
      BY <2>5
    <3>3. Len(pending) + 1 \in 1..Len(pending')
      BY <2>5
    <3> QED
      BY <2>5, <3>1, <3>2, <3>3
  <2>7. IsTold(file, pos, On(log) \cup Buffered)
    BY <2>1 DEF LoggedInv
  <2>8. IsTold(file, pos', On(log) \cup Buffered')
    <3> SUFFICES ASSUME NEW i \in 1..pos', Log!IsObject(file[i])
                 PROVE  \E d \in On(log) \cup Buffered' :
                          d.op = file[i].op /\ d.val = file[i].val /\ (d.cursor = i \/ d.cursor = i + 1)
      BY DEF IsTold
    <3>1. CASE i \in 1..pos
      BY <2>6, <2>7, <3>1 DEF IsTold
    <3>2. CASE i = pos + 1
      <4>1. e.cursor = i \/ e.cursor = i + 1
        BY <2>2, <2>4, <3>2
      <4>2. e.op = file[i].op /\ e.val = file[i].val
        BY <2>2, <2>4, <3>2
      <4> QED
        BY <2>6, <4>1, <4>2
    <3>3. CASE i = pos + 2
      <4>1. file[i] = NL
        BY <2>2, <3>3
      <4> QED
        BY <4>1 DEF Log!IsObject
    <3>4. i \in 1..pos \/ i = pos + 1 \/ i = pos + 2
      BY <2>2
    <3> QED
      BY <3>1, <3>2, <3>3, <3>4
  <2>9. IsTold(file, pos, On(log) \cup Buffered)'
    BY <2>1, <2>8 DEF IsTold
  <2> QED
    BY <1>2, <2>1, <2>5, <2>9
<1>8. CASE Log!EndOfFile
  <2>1. /\ pc = "read" /\ UNCHANGED <<file, saved, log, known, pending, pos>>
        /\ pc' = IF pending = <<>> THEN "save" ELSE "write"
    BY <1>8 DEF Log!EndOfFile, Log!source
  <2>2. IsTold(file, pos, On(log) \cup {pending[i] : i \in 1..Len(pending)})
    BY <2>1 DEF LoggedInv, Buffered
  <2>3. Buffered' = {pending[i] : i \in 1..Len(pending)}
    <3>1. CASE pending = <<>>
      <4>1. {pending[i] : i \in 1..Len(pending)} = {}
        BY <3>1
      <4> QED
        BY <2>1, <3>1, <4>1 DEF Buffered
    <3>2. CASE pending # <<>>
      BY <2>1, <3>2 DEF Buffered
    <3> QED
      BY <3>1, <3>2
  <2>4. IsTold(file, pos, On(log) \cup Buffered)'
    BY <2>1, <2>2, <2>3 DEF IsTold
  <2> QED
    BY <1>0, <1>2, <2>1, <2>4
<1>9. CASE Log!WriteLog
  BY <1>9, LoggedWrites
<1>10. CASE Log!WriteView
  BY <1>10 DEF Log!WriteView
<1>11. CASE Log!StopInAppend
  BY <1>11 DEF Log!StopInAppend
<1>12. CASE Log!RefuseLine \/ Log!RefuseLog \/ Log!Stop
  BY <1>1, <1>12 DEF Log!RefuseLine, Log!RefuseLog, Log!Stop, Log!Idle, Log!source
<1>13. CASE Log!Save
  <2>1. /\ pc = "save" /\ UNCHANGED <<file, log, known>> /\ pending' = <<>>
        /\ saved' = [offset |-> pos, line |-> line, prefix |-> SubSeq(file, 1, pos)]
        /\ \/ pc' = "idle"
           \/ pc' = "read" /\ pos' = pos
    BY <1>13 DEF Log!Save, Log!StoreSave, Log!NewCheckpoint
  <2>2. ReaderIsBeyond /\ IsTold(file, pos, On(log))
    BY <2>1 DEF LogInv, LoggedInv, Buffered
  <2>3. \A i \in 1..pos : SubSeq(file, 1, pos)[i] = file[i]
    BY <1>0, <2>2 DEF ReaderIsBeyond, LogTypes
  <2>4. IsTold(saved.prefix, saved.offset, On(log))'
    BY <2>1, <2>2, <2>3 DEF IsTold
  <2>5. pc' = "read" => IsTold(file, pos, On(log) \cup Buffered)'
    <3>1. \A s, t : s \subseteq t /\ IsTold(file, pos, s) => IsTold(file, pos, t)
      BY DEF IsTold
    <3>2. IsTold(file, pos, On(log) \cup Buffered')
      BY <2>2, <3>1
    <3> QED
      BY <2>1, <3>2 DEF IsTold
  <2>6. (known # Log!NotLoaded => known \subseteq On(log))' /\ IsLines(log)' /\ pending' \in Seq(Envelopes)
    BY <1>0, <2>1 DEF Log!NotLoaded
  <2> QED
    BY <2>1, <2>4, <2>5, <2>6 DEF LoggedInv
<1>14. CASE UNCHANGED (Log!vars)
  BY <1>0, <1>14 DEF Log!vars, LoggedInv, IsTold, Buffered, Log!NotLoaded
<1> QED
  BY <1>3, <1>4, <1>5, <1>6, <1>7, <1>8, <1>9, <1>10, <1>11, <1>12, <1>13, <1>14
     DEF Log!Next, Log!Run

\* Every object before the checkpoint is in the change log.
LEMMA LoggedSafe == ASSUME LoggedInv PROVE Log!CheckpointedIsLogged
<1>1. IsTold(saved.prefix, saved.offset, Log!Logged)
  <2>1. Log!Logged = On(log)
    BY LoggedIs DEF LoggedInv
  <2> QED
    BY <2>1 DEF LoggedInv, IsTold
<1> QED
  BY <1>1 DEF Log!CheckpointedIsLogged, IsTold

-------------------------------------------------------------------------------
(* A growing file: the collection and what its readers are promised        *)

Symbols == View!Objects \cup {NL, Torn}
Record == View!Records \cup {Absent}

\* What reading one more character adds to the changes.
LEMMA ChangesAre ==
  ASSUME NEW s \in Seq(Symbols)
  PROVE  \E g \in [0..Len(s) -> Seq(View!Objects)] :
           /\ g[0] = <<>> /\ g[Len(s)] = View!Changes(s)
           /\ \A k \in 1..Len(s) :
                g[k] = IF View!IsObject(s[k]) THEN Append(g[k - 1], s[k]) ELSE g[k - 1]
<1> DEFINE m == Len(s)
           A == Seq(View!Objects)
           Add(r, ch) == IF View!IsObject(ch) THEN Append(r, ch) ELSE r
           g == CHOOSE g : g = [k \in 0..m |-> IF k = 0 THEN <<>> ELSE Add(g[k - 1], s[k])]
<1>1. m \in Nat /\ DOMAIN s = 1..m /\ \A k \in 1..m : s[k] \in Symbols
  OBVIOUS
<1>2. View!Changes(s) = g[m]
  BY DEF View!Changes
<1>3. \A r \in A, k \in 1..m : Add(r, s[k]) \in A
  <2> SUFFICES ASSUME NEW r \in A, NEW k \in 1..m, View!IsObject(s[k]) PROVE Append(r, s[k]) \in A
    OBVIOUS
  <2>1. s[k] \in View!Objects
    BY <1>1 DEF Symbols, View!IsObject
  <2> QED
    BY <2>1
<1>4. \E h : h = [k \in 0..m |-> IF k = 0 THEN <<>> ELSE Add(h[k - 1], s[k])]
  <2> DEFINE step == [a \in (1..m) \X A |-> Add(a[2], s[a[1]])]
  <2>1. <<>> \in A /\ step \in [(1..m) \X A -> A]
    <3>1. <<>> \in A
      OBVIOUS
    <3> HIDE DEF A, Add
    <3> QED
      BY <1>3, <3>1
  <2>2. PICK h \in [0..m -> A] : IsRun(h, <<>>, step, m)
    <3> DEFINE D == 1..m
    <3>1. step \in [D \X A -> A] /\ \A k \in 1..m : k \in D
      BY <2>1
    <3> HIDE DEF A, D, m, step
    <3> QED
      BY <1>1, <2>1, <3>1, RunsExist
  <2>3. ASSUME NEW k \in 0..m, k # 0
        PROVE  step[<<k, h[k - 1]>>] = Add(h[k - 1], s[k])
    <3>1. k \in 1..m /\ k - 1 \in 0..m
      BY <1>1, <2>3
    <3>2. h[k - 1] \in A
      <4> HIDE DEF A, step
      <4> QED
        BY <2>2, <3>1
    <3> HIDE DEF A, Add
    <3> QED
      BY <3>1, <3>2
  <2> HIDE DEF A, step, Add
  <2> QED
    BY <2>2, <2>3 DEF IsRun
<1>5. g = [k \in 0..m |-> IF k = 0 THEN <<>> ELSE Add(g[k - 1], s[k])]
  <2> HIDE DEF Add
  <2> QED
    BY <1>4
<1> HIDE DEF g
<1>7. /\ g[0] = <<>> /\ \A k \in 1..m : g[k] = Add(g[k - 1], s[k])
      /\ g[m] = View!Changes(s)
  <2>1. 0 \in 0..m /\ \A k \in 1..m : k \in 0..m /\ k # 0
    BY <1>1
  <2> HIDE DEF Add
  <2> QED
    BY <1>2, <1>5, <2>1
<1>8. \A k \in 0..m : g[k] \in A
  <2> DEFINE T == {k \in Nat : k <= m => g[k] \in A}
  <2>1. 0 \in T
    <3>1. <<>> \in A
      OBVIOUS
    <3> QED
      BY <1>7, <3>1
  <2>2. ASSUME NEW k \in Nat, k \in T PROVE k + 1 \in T
    <3> SUFFICES ASSUME k + 1 <= m PROVE g[k + 1] \in A
      OBVIOUS
    <3>1. k + 1 \in 1..m /\ (k + 1) - 1 = k /\ k <= m
      BY <1>1
    <3> HIDE DEF g, A, Add
    <3> QED
      BY <1>3, <1>7, <2>2, <3>1
  <2> HIDE DEF T, g
  <2>3. \A k \in Nat : k \in T
    BY <2>1, <2>2, SetInduction
  <2> QED
    BY <1>1, <2>3 DEF T
<1>9. g \in [0..m -> A]
  <2> HIDE DEF A, Add
  <2> QED
    BY <1>5, <1>8
<1> HIDE DEF A
<1> QED
  BY <1>7, <1>9 DEF A, Add

\* The changes up to a place.
Told(s, n) == View!Changes(SubSeq(s, 1, n))

\* Files that agree up to a place tell the same up to there.
LEMMA ToldAgree ==
  ASSUME NEW s \in Seq(Symbols), NEW t \in Seq(Symbols), NEW n \in Nat, n <= Len(s), n <= Len(t),
         \A i \in 1..n : s[i] = t[i]
  PROVE  Told(s, n) = Told(t, n)
<1>1. SubSeq(s, 1, n) = SubSeq(t, 1, n)
  OBVIOUS
<1> QED
  BY <1>1 DEF Told

LEMMA ToldIs ==
  ASSUME NEW s \in Seq(Symbols)
  PROVE  /\ \A n \in 0..Len(s) : Told(s, n) \in Seq(View!Objects) /\ Len(Told(s, n)) \in Nat
         /\ Told(s, 0) = <<>> /\ Told(s, Len(s)) = View!Changes(s)
         /\ \A n \in 1..Len(s) : Told(s, n) =
              IF View!IsObject(s[n]) THEN Append(Told(s, n - 1), s[n]) ELSE Told(s, n - 1)
<1> DEFINE m == Len(s)
<1>1. m \in Nat
  OBVIOUS
<1>2. PICK g \in [0..m -> Seq(View!Objects)] :
        /\ g[0] = <<>> /\ g[m] = View!Changes(s)
        /\ \A k \in 1..m : g[k] = IF View!IsObject(s[k]) THEN Append(g[k - 1], s[k]) ELSE g[k - 1]
  BY ChangesAre
<1>3. ASSUME NEW n \in 0..m PROVE Told(s, n) = g[n]
  <2> DEFINE t == SubSeq(s, 1, n)
  <2>1. t \in Seq(Symbols) /\ Len(t) = n /\ \A k \in 1..n : t[k] = s[k]
    BY <1>1
  <2> HIDE DEF t
  <2>2. PICK h \in [0..n -> Seq(View!Objects)] :
          /\ h[0] = <<>> /\ h[n] = View!Changes(t)
          /\ \A k \in 1..n : h[k] = IF View!IsObject(t[k]) THEN Append(h[k - 1], t[k]) ELSE h[k - 1]
    BY <2>1, ChangesAre
  <2> DEFINE T == {k \in Nat : k <= n => h[k] = g[k]}
  <2>3. 0 \in T
    BY <1>2, <2>2
  <2>4. ASSUME NEW k \in Nat, k \in T PROVE k + 1 \in T
    <3> SUFFICES ASSUME k + 1 <= n PROVE h[k + 1] = g[k + 1]
      OBVIOUS
    <3>1. k + 1 \in 1..n /\ k + 1 \in 1..m /\ (k + 1) - 1 = k /\ k <= n
      BY <1>1
    <3> QED
      BY <1>2, <2>1, <2>2, <2>4, <3>1
  <2> HIDE DEF T
  <2>5. \A k \in Nat : k \in T
    BY <2>3, <2>4, SetInduction
  <2>6. h[n] = g[n]
    BY <2>5 DEF T
  <2> QED
    BY <2>2, <2>6 DEF Told, t
<1>4. \A n \in 0..m : Told(s, n) \in Seq(View!Objects)
  BY <1>2, <1>3
<1>5. \A q \in Seq(View!Objects) : Len(q) \in Nat
  OBVIOUS
<1>6. \A n \in 1..m : n \in 0..m /\ n - 1 \in 0..m
  BY <1>1
<1>7. 0 \in 0..m /\ m \in 0..m
  BY <1>1
<1> QED
  BY <1>2, <1>3, <1>4, <1>5, <1>6, <1>7

\* What was told stays, and more is told behind it.
LEMMA ToldGrows ==
  ASSUME NEW s \in Seq(Symbols), NEW a \in 0..Len(s), NEW b \in 0..Len(s), a <= b
  PROVE  /\ Len(Told(s, a)) <= Len(Told(s, b))
         /\ Told(s, a) = SubSeq(Told(s, b), 1, Len(Told(s, a)))
<1> DEFINE m == Len(s)
           O == View!Objects
           u == Told(s, a)
           Is(c) == Len(u) <= Len(Told(s, c)) /\ u = SubSeq(Told(s, c), 1, Len(u))
           T == {k \in Nat : a <= k /\ k <= m => Is(k)}
<1>1. m \in Nat /\ \A n \in 0..m : Told(s, n) \in Seq(O) /\ Len(Told(s, n)) \in Nat
  BY ToldIs
<1>2. \A v \in Seq(O) : v = SubSeq(v, 1, Len(v))
  OBVIOUS
<1>3. Is(a)
  BY <1>1, <1>2
<1>4. 0 \in T
  <2>1. a <= 0 => a = 0
    OBVIOUS
  <2> HIDE DEF Is
  <2> QED
    BY <1>3, <2>1
<1>5. ASSUME NEW k \in Nat, k \in T PROVE k + 1 \in T
  <2> SUFFICES ASSUME a <= k + 1, k + 1 <= m PROVE Is(k + 1)
    OBVIOUS
  <2>1. CASE a = k + 1
    <3> HIDE DEF Is
    <3> QED
      BY <1>3, <2>1
  <2>2. CASE a # k + 1
    <3>1. a <= k /\ k <= m /\ k \in 0..m /\ k + 1 \in 1..m /\ (k + 1) - 1 = k
      BY <1>1, <2>2
    <3>2. Is(k)
      BY <1>5, <3>1
    <3> DEFINE v == Told(s, k)
               w == Told(s, k + 1)
    <3>3. w = v \/ (w = Append(v, s[k + 1]) /\ s[k + 1] \in O)
      <4>1. s[k + 1] \in Symbols
        BY <3>1
      <4>2. View!IsObject(s[k + 1]) => s[k + 1] \in O
        BY <4>1 DEF Symbols, View!IsObject
      <4> QED
        BY <3>1, <4>2, ToldIs
    <3>4. v \in Seq(O) /\ u \in Seq(O) /\ Len(u) \in Nat
      BY <1>1, <3>1
    <3>5. Len(u) <= Len(v) /\ u = SubSeq(v, 1, Len(u))
      BY <3>2
    <3> HIDE DEF u, v, w, O
    <3>6. CASE w = v
      BY <3>5, <3>6 DEF w
    <3>7. CASE w = Append(v, s[k + 1]) /\ s[k + 1] \in O
      <4>1. Len(w) = Len(v) + 1 /\ \A i \in 1..Len(v) : w[i] = v[i]
        BY <3>4, <3>7
      <4>2. SubSeq(w, 1, Len(u)) = SubSeq(v, 1, Len(u))
        BY <3>4, <3>5, <3>7, <4>1
      <4> QED
        BY <3>4, <3>5, <4>1, <4>2 DEF w
    <3> QED
      BY <3>3, <3>6, <3>7
  <2> QED
    BY <2>1, <2>2
<1> HIDE DEF T, Is
<1>6. \A k \in Nat : k \in T
  BY <1>4, <1>5, SetInduction
<1>7. Is(b)
  BY <1>1, <1>6 DEF T
<1> QED
  BY <1>7 DEF Is

Replay(c) == View!PV!Replay(c)
Value(e) == IF e.op = "delete" THEN Absent ELSE e.val

LEMMA LastIs ==
  ASSUME NEW n \in Nat, NEW M \in SUBSET (1..n), M # {}
  PROVE  \E i \in M : \A j \in M : j <= i
<1> DEFINE o == [k \in 1..n |-> k]
<1>1. \A k \in 1..n : o[k] = k /\ o[k] \in Nat
  OBVIOUS
<1> HIDE DEF o
<1>2. PICK m \in M : \A k \in M : o[k] <= o[m]
  BY <1>1, LastInOrder
<1> QED
  BY <1>1, <1>2

\* A key is shown as its changes say, and no other.
LEMMA ReplayOf ==
  ASSUME NEW c \in Seq(View!Objects), NEW d \in Seq(View!Objects), NEW k \in RecordIds,
         \A i \in 1..Len(c) : c[i].key = k => i \in 1..Len(d) /\ d[i] = c[i],
         \A i \in 1..Len(d) : d[i].key = k => i \in 1..Len(c) /\ d[i] = c[i]
  PROVE  Replay(c)[k] = Replay(d)[k]
<1> DEFINE M == {i \in 1..Len(c) : c[i].key = k}
           N == {i \in 1..Len(d) : d[i].key = k}
           x == CHOOSE i \in M : \A j \in M : j <= i
           y == CHOOSE i \in N : \A j \in N : j <= i
<1>1. M = N /\ \A i \in M : c[i] = d[i]
  OBVIOUS
<1>2. /\ Replay(c)[k] = IF M = {} \/ c[x].op = "delete" THEN Absent ELSE c[x].val
      /\ Replay(d)[k] = IF N = {} \/ d[y].op = "delete" THEN Absent ELSE d[y].val
  BY DEF Replay, View!PV!Replay
<1>3. x = y
  BY <1>1
<1>4. CASE M = {}
  <2> HIDE DEF M, N, x, y
  <2> QED
    BY <1>1, <1>2, <1>4
<1>5. CASE M # {}
  <2>1. M \subseteq 1..Len(c)
    OBVIOUS
  <2>2. c[x] = d[x]
    <3>1. x \in M
      <4>1. M \in SUBSET (1..Len(c)) /\ Len(c) \in Nat
        OBVIOUS
      <4> HIDE DEF M
      <4> QED
        BY <1>5, <4>1, LastIs
    <3> QED
      BY <1>1, <3>1
  <2> HIDE DEF M, N, x, y
  <2> QED
    BY <1>1, <1>2, <1>3, <2>2
<1> QED
  BY <1>4, <1>5

\* One change more is shown at its key, and the rest stays.
LEMMA ReplayAdds ==
  ASSUME NEW c \in Seq(View!Objects), NEW e \in View!Objects, NEW k \in RecordIds
  PROVE  Replay(Append(c, e))[k] = IF e.key = k THEN Value(e) ELSE Replay(c)[k]
<1> DEFINE d == Append(c, e)
           n == Len(c) + 1
           N == {i \in 1..Len(d) : d[i].key = k}
           y == CHOOSE i \in N : \A j \in N : j <= i
<1>1. /\ d \in Seq(View!Objects) /\ Len(d) = n /\ n \in Nat /\ d[n] = e
      /\ \A i \in 1..Len(c) : d[i] = c[i] /\ i \in 1..Len(d)
      /\ \A i \in 1..Len(d) : i = n \/ i \in 1..Len(c)
  OBVIOUS
<1> HIDE DEF d
<1>2. CASE e.key = k
  <2>1. n \in N /\ \A j \in N : j <= n
    BY <1>1, <1>2
  <2>2. y = n
    <3>1. y \in N /\ n <= y
      BY <2>1
    <3>2. y \in Nat /\ y <= n
      BY <1>1, <2>1, <3>1
    <3> QED
      BY <1>1, <3>1, <3>2
  <2>3. Replay(d)[k] = IF N = {} \/ d[y].op = "delete" THEN Absent ELSE d[y].val
    BY DEF Replay, View!PV!Replay
  <2> HIDE DEF N, y
  <2> QED
    BY <1>1, <1>2, <2>1, <2>2, <2>3 DEF Value, d
<1>3. CASE e.key # k
  <2>1. Replay(d)[k] = Replay(c)[k]
    BY <1>1, <1>3, ReplayOf
  <2> QED
    BY <1>3, <2>1 DEF d
<1> QED
  BY <1>2, <1>3

\* What the collection shows of a record after a batch.
LEMMA WrittenIs ==
  ASSUME view \in [View!Ids -> Record], pending \in Seq(View!Envelopes),
         \A i \in 1..Len(pending) : pending[i].id \in RecordIds
  PROVE  \E v \in [0..Len(pending) -> [View!Ids -> Record]] :
           /\ v[0] = view /\ v[Len(pending)] = View!Written
           /\ \A j \in 1..Len(pending) : v[j] = View!Stored(v[j - 1], pending[j])
<1> DEFINE m == Len(pending)
           A == [View!Ids -> Record]
           v == CHOOSE v : v = [k \in 0..m |->
                  IF k = 0 THEN view ELSE View!Stored(v[k - 1], pending[k])]
<1>1. m \in Nat /\ DOMAIN pending = 1..m /\ \A k \in 1..m : pending[k] \in View!Envelopes
  OBVIOUS
<1>2. View!Written = v[m]
  BY DEF View!Written
<1>3. \A r \in A, k \in 1..m : View!Stored(r, pending[k]) \in A
  <2> SUFFICES ASSUME NEW r \in A, NEW k \in 1..m PROVE View!Stored(r, pending[k]) \in A
    OBVIOUS
  <2>1. Absent \in Record /\ View!Version(pending[k]) \in Record
    BY <1>1 DEF Record, View!Version, View!Envelopes, View!Records
  <2> QED
    BY <2>1 DEF View!Stored
<1>4. \E h : h = [k \in 0..m |-> IF k = 0 THEN view ELSE View!Stored(h[k - 1], pending[k])]
  <2> DEFINE step == [a \in (1..m) \X A |-> View!Stored(a[2], pending[a[1]])]
  <2>1. view \in A /\ step \in [(1..m) \X A -> A]
    <3>1. view \in A
      OBVIOUS
    <3> HIDE DEF A
    <3> QED
      BY <1>3, <3>1
  <2>2. PICK h \in [0..m -> A] : IsRun(h, view, step, m)
    <3> DEFINE D == 1..m
    <3>1. step \in [D \X A -> A] /\ \A k \in 1..m : k \in D
      BY <2>1
    <3> HIDE DEF A, D, m, step
    <3> QED
      BY <1>1, <2>1, <3>1, RunsExist
  <2>3. ASSUME NEW k \in 0..m, k # 0
        PROVE  step[<<k, h[k - 1]>>] = View!Stored(h[k - 1], pending[k])
    <3>1. k \in 1..m /\ k - 1 \in 0..m
      BY <1>1, <2>3
    <3>2. h[k - 1] \in A
      <4> HIDE DEF A, step
      <4> QED
        BY <2>2, <3>1
    <3> HIDE DEF A
    <3> QED
      BY <3>1, <3>2
  <2> HIDE DEF A, step
  <2> QED
    BY <2>2, <2>3 DEF IsRun
<1>5. v = [k \in 0..m |-> IF k = 0 THEN view ELSE View!Stored(v[k - 1], pending[k])]
  BY <1>4
<1> HIDE DEF v
<1>7. /\ v[0] = view /\ \A k \in 1..m : v[k] = View!Stored(v[k - 1], pending[k])
      /\ v[m] = View!Written
  <2>1. 0 \in 0..m /\ \A k \in 1..m : k \in 0..m /\ k # 0
    BY <1>1
  <2> QED
    BY <1>2, <1>5, <2>1
<1>8. \A k \in 0..m : v[k] \in A
  <2> DEFINE T == {k \in Nat : k <= m => v[k] \in A}
  <2>1. 0 \in T
    BY <1>7
  <2>2. ASSUME NEW k \in Nat, k \in T PROVE k + 1 \in T
    <3> SUFFICES ASSUME k + 1 <= m PROVE v[k + 1] \in A
      OBVIOUS
    <3>1. k + 1 \in 1..m /\ (k + 1) - 1 = k /\ k <= m
      BY <1>1
    <3> HIDE DEF v, A
    <3> QED
      BY <1>3, <1>7, <2>2, <3>1
  <2> HIDE DEF T, v
  <2>3. \A k \in Nat : k \in T
    BY <2>1, <2>2, SetInduction
  <2> QED
    BY <1>1, <2>3 DEF T
<1>9. v \in [0..m -> A]
  <2> HIDE DEF A
  <2> QED
    BY <1>5, <1>8
<1> HIDE DEF A
<1> QED
  BY <1>7, <1>9 DEF A

\* What readers see of the records of a collection.
Showing(v) == [k \in RecordIds |-> IF v[k] = Absent THEN Absent ELSE v[k].val]

LEMMA StoredShows ==
  ASSUME NEW v \in [View!Ids -> Record], NEW e \in View!Envelopes, e.id \in RecordIds,
         NEW k \in RecordIds
  PROVE  Showing(View!Stored(v, e))[k] = IF e.id = k THEN Value(e) ELSE Showing(v)[k]
<1>1. RecordIds \subseteq View!Ids
  BY DEF View!Ids
<1>2. View!Version(e) # Absent /\ View!Version(e).val = e.val
  BY ConstantsAreSound DEF View!PipelineAssumption, View!Version, View!Envelopes, View!Records
<1>3. \A x \in RecordIds : View!Stored(v, e)[x] =
        IF e.id = x THEN (IF e.op = "delete" THEN Absent ELSE View!Version(e)) ELSE v[x]
  BY <1>1 DEF View!Stored
<1> QED
  BY <1>2, <1>3 DEF Showing, Value

\* Writing a batch over a collection that may have some of it already.
LEMMA BatchShows ==
  ASSUME NEW s \in Seq(View!Objects), NEW from \in Nat, NEW a \in Nat, from <= a, a <= Len(s),
         view \in [View!Ids -> Record], pending \in Seq(View!Envelopes),
         Len(s) = from + Len(pending),
         \A i \in 1..Len(pending) : /\ pending[i].id = s[from + i].key
                                    /\ pending[i].op = s[from + i].op
                                    /\ pending[i].val = s[from + i].val,
         Showing(view) = Replay(SubSeq(s, 1, a))
  PROVE  View!Written \in [View!Ids -> Record] /\ Showing(View!Written) = Replay(s)
<1> DEFINE m == Len(pending)
           R(n) == Replay(SubSeq(s, 1, n))
           Has(j, k) == \E i \in 1..j : s[from + i].key = k
<1>1. /\ m \in Nat /\ Len(s) \in Nat /\ \A i \in 1..m : pending[i] \in View!Envelopes
      /\ \A i \in 1..Len(s) : s[i] \in View!Objects
  OBVIOUS
<1>2. \A i \in 1..m : from + i \in 1..Len(s)
  BY <1>1
<1>3. \A i \in 1..m : pending[i].id \in RecordIds /\ Value(pending[i]) = Value(s[from + i])
  BY <1>1, <1>2 DEF Value, View!Objects
<1>4. PICK v \in [0..m -> [View!Ids -> Record]] :
        /\ v[0] = view /\ v[m] = View!Written
        /\ \A j \in 1..m : v[j] = View!Stored(v[j - 1], pending[j])
  BY <1>3, WrittenIs
<1> DEFINE Is(j) == \A k \in RecordIds : Showing(v[j])[k] = IF Has(j, k) THEN R(from + j)[k] ELSE R(a)[k]
           T == {j \in Nat : j <= m => Is(j)}
<1>5. 0 \in T
  <2>1. \A k \in RecordIds : ~Has(0, k)
    OBVIOUS
  <2> HIDE DEF R, Has
  <2> QED
    BY <1>4, <2>1 DEF R
<1>6. ASSUME NEW j \in Nat, j \in T PROVE j + 1 \in T
  <2> SUFFICES ASSUME j + 1 <= m, NEW k \in RecordIds
               PROVE  Showing(v[j + 1])[k] = IF Has(j + 1, k) THEN R(from + (j + 1))[k] ELSE R(a)[k]
    OBVIOUS
  <2> DEFINE e == s[from + (j + 1)]
             p == pending[j + 1]
  <2>1. /\ j + 1 \in 1..m /\ (j + 1) - 1 = j /\ j \in 0..m /\ j <= m
        /\ from + j \in Nat /\ from + j + 1 <= Len(s) /\ from + (j + 1) = from + j + 1
    BY <1>1
  <2>2. /\ v[j] \in [View!Ids -> Record] /\ v[j + 1] = View!Stored(v[j], p)
        /\ p \in View!Envelopes /\ p.id \in RecordIds /\ p.id = e.key /\ Value(p) = Value(e)
        /\ e \in View!Objects
    BY <1>1, <1>2, <1>3, <1>4, <2>1
  <2>3. Showing(v[j + 1])[k] = IF e.key = k THEN Value(e) ELSE Showing(v[j])[k]
    <3> HIDE DEF e, p
    <3>1. Showing(View!Stored(v[j], p))[k] = IF p.id = k THEN Value(p) ELSE Showing(v[j])[k]
      BY <2>2, StoredShows
    <3> QED
      BY <2>2, <3>1
  <2>4. R(from + (j + 1))[k] = IF e.key = k THEN Value(e) ELSE R(from + j)[k]
    <3> DEFINE n == from + j
    <3>1. n \in Nat /\ n + 1 <= Len(s) /\ from + (j + 1) = n + 1 /\ e = s[n + 1]
      BY <2>1
    <3> HIDE DEF n
    <3>2. /\ SubSeq(s, 1, n + 1) = Append(SubSeq(s, 1, n), s[n + 1])
          /\ SubSeq(s, 1, n) \in Seq(View!Objects)
      <4>1. s \in Seq(View!Objects) /\ n \in Nat /\ n + 1 \in 1..Len(s)
        BY <1>1, <3>1
      <4>2. SubSeq(s, 1, n + 1) = Append(SubSeq(s, 1, n), s[n + 1])
        BY ONLY <4>1
      <4>3. SubSeq(s, 1, n) \in Seq(View!Objects)
        BY ONLY <4>1
      <4> QED
        BY <4>2, <4>3
    <3>3. Replay(SubSeq(s, 1, n + 1))[k] = IF e.key = k THEN Value(e) ELSE Replay(SubSeq(s, 1, n))[k]
      <4>1. s[n + 1] \in View!Objects
        BY <1>1, <3>1
      <4>2. Replay(Append(SubSeq(s, 1, n), s[n + 1]))[k] =
              IF s[n + 1].key = k THEN Value(s[n + 1]) ELSE Replay(SubSeq(s, 1, n))[k]
        BY <3>2, <4>1, ReplayAdds
      <4> HIDE DEF e
      <4> QED
        BY <3>1, <3>2, <4>2
    <3> QED
      BY <3>1, <3>3 DEF n
  <2>5. Has(j + 1, k) <=> Has(j, k) \/ e.key = k
    <3>1. \A i \in 1..(j + 1) : i \in 1..j \/ i = j + 1
      OBVIOUS
    <3>2. \A i \in 1..j : i \in 1..(j + 1)
      OBVIOUS
    <3>3. j + 1 \in 1..(j + 1)
      OBVIOUS
    <3> QED
      BY <3>1, <3>2, <3>3
  <2>6. Showing(v[j])[k] = IF Has(j, k) THEN R(from + j)[k] ELSE R(a)[k]
    BY <1>6, <2>1
  <2> HIDE DEF R, Has, e
  <2> QED
    BY <2>3, <2>4, <2>5, <2>6
<1>7. Is(m)
  <2> HIDE DEF T, Is
  <2>1. \A j \in Nat : j \in T
    BY <1>5, <1>6, SetInduction
  <2> QED
    BY <1>1, <2>1 DEF T
<1>8. SubSeq(s, 1, from + m) = s
  BY <1>1
<1>9. ASSUME NEW k \in RecordIds, ~Has(m, k) PROVE R(a)[k] = Replay(s)[k]
  <2> DEFINE c == SubSeq(s, 1, a)
  <2>1. /\ c \in Seq(View!Objects) /\ Len(c) = a /\ \A i \in 1..a : c[i] = s[i] /\ i \in 1..Len(s)
    BY <1>1
  <2>2. ASSUME NEW i \in 1..Len(s), s[i].key = k PROVE i \in 1..a
    <3> SUFFICES ASSUME i > a PROVE FALSE
      BY <1>1
    <3>1. i - from \in 1..m /\ from + (i - from) = i
      BY <1>1
    <3> QED
      BY <1>9, <2>2, <3>1
  <2> HIDE DEF c
  <2> QED
    BY <2>1, <2>2, ReplayOf DEF c
<1>10. \A k \in RecordIds : Showing(View!Written)[k] = Replay(s)[k]
  <2> HIDE DEF R, Has
  <2> QED
    BY <1>4, <1>7, <1>8, <1>9 DEF R
<1>11. DOMAIN Replay(s) = RecordIds /\ Replay(s) = [k \in RecordIds |-> Replay(s)[k]]
  BY DEF Replay, View!PV!Replay
<1>12. Showing(View!Written) = [k \in RecordIds |-> Showing(View!Written)[k]]
  BY DEF Showing
<1>13. Showing(View!Written) = Replay(s)
  BY <1>10, <1>11, <1>12
<1> QED
  BY <1>1, <1>4, <1>13

Count(n) == Len(Told(file, n))
Whole(n) == \A i \in 1..n : file[i] # Torn

ViewTypes ==
  /\ file \in Seq(Symbols) /\ saved.offset \in Nat /\ pos \in Nat /\ line \in Nat /\ saved.line \in Nat
  /\ pc \in {"idle", "read", "write", "save"} /\ view \in [View!Ids -> Record]

\* What is pending is what the reader was told behind the checkpoint.
ViewRun ==
  /\ saved.offset <= pos /\ pos <= Len(file) /\ Whole(pos)
  /\ pending \in Seq(View!Envelopes) /\ Len(pending) <= LineBatch
  /\ Count(pos) = Count(saved.offset) + Len(pending)
  /\ \A i \in 1..Len(pending) :
       /\ pending[i].id = Told(file, pos)[Count(saved.offset) + i].key
       /\ pending[i].op = Told(file, pos)[Count(saved.offset) + i].op
       /\ pending[i].val = Told(file, pos)[Count(saved.offset) + i].val
  /\ pc = "read" => Len(pending) < LineBatch

\* The collection shows the input up to a place, at most a batch behind the checkpoint.
\* A batch is only written whole, so that the place never moves back.
UpTo(n) ==
  /\ saved.offset <= n /\ n <= Len(file) /\ Whole(n)
  /\ Showing(view) = Replay(Told(file, n))
  /\ Count(n) <= Count(saved.offset) + LineBatch
  /\ pc = "write" => Count(n) <= Count(pos)
  /\ pc = "save" => Count(n) = Count(pos)

ViewInv ==
  /\ ViewTypes
  /\ IF pc = "idle" THEN pending = <<>> ELSE ViewRun
  /\ \E n \in Nat : UpTo(n)

LEMMA ViewConstants ==
  /\ LineBatch \in Nat /\ LineBatch # 0 /\ NL # Torn /\ NoKey \notin RecordIds
  BY ConstantsAreSound DEF View!PipelineAssumption

LEMMA ViewInit == ASSUME View!Init PROVE ViewInv
<1>1. /\ file = <<>> /\ saved.offset = 0 /\ saved.line = 0 /\ pc = "idle" /\ pos = 0 /\ line = 0
      /\ pending = <<>> /\ view = [i \in View!Ids |-> Absent]
  BY DEF View!Init, View!NoCheckpoint
<1>2. file \in Seq(Symbols) /\ Len(file) = 0 /\ view \in [View!Ids -> Record]
  <2>1. <<>> \in Seq(Symbols) /\ Len(<<>>) = 0
    OBVIOUS
  <2>2. Absent \in Record
    BY DEF Record
  <2> QED
    BY <1>1, <2>1, <2>2
<1>3. Told(file, 0) = <<>> /\ Count(0) = 0
  <2>1. Told(file, 0) = <<>>
    BY <1>2, ToldIs
  <2>2. Len(<<>>) = 0
    OBVIOUS
  <2> QED
    BY <2>1, <2>2 DEF Count
<1>4. Showing(view) = Replay(Told(file, 0))
  <2>1. Replay(<<>>) = [k \in RecordIds |-> Absent]
    BY DEF Replay, View!PV!Replay
  <2>2. \A k \in RecordIds : view[k] = Absent
    BY <1>1 DEF View!Ids
  <2> QED
    BY <1>3, <2>1, <2>2 DEF Showing
<1>5. UpTo(0)
  BY <1>1, <1>2, <1>3, <1>4, ViewConstants DEF UpTo, Whole
<1> QED
  BY <1>1, <1>2, <1>5 DEF ViewInv, ViewTypes

\* Writers only add behind what is whole.
LEMMA FileGrows ==
  ASSUME file \in Seq(Symbols), View!AppendChar \/ View!CompleteObject
  PROVE  /\ file' \in Seq(Symbols)
         /\ \A n \in Nat : n <= Len(file) /\ Whole(n) =>
              n <= Len(file') /\ (\A i \in 1..n : file'[i] = file[i]) /\ Told(file', n) = Told(file, n)
         /\ \/ \E o \in View!Objects : View!Changes(file') = Append(View!Changes(file), o)
            \/ View!Changes(file') = View!Changes(file)
<1> DEFINE m == IF View!AppendChar THEN Len(file) ELSE Len(file) - 1
<1>1. /\ m \in Nat /\ m <= Len(file) /\ Told(file, m) = View!Changes(file)
      /\ \E ch \in Symbols : file' = Append(SubSeq(file, 1, m), ch)
      /\ \A n \in Nat : n <= Len(file) /\ Whole(n) => n <= m
  <2>1. CASE View!AppendChar
    <3>1. PICK ch \in Symbols : file' = Append(file, ch)
      BY <2>1 DEF View!AppendChar, Symbols
    <3>2. m = Len(file) /\ m \in Nat /\ SubSeq(file, 1, Len(file)) = file
      BY <2>1
    <3> HIDE DEF m
    <3> QED
      BY <3>1, <3>2, ToldIs
  <2>2. CASE ~View!AppendChar
    <3>1. /\ file # <<>> /\ file[Len(file)] = Torn
          /\ \E o \in Symbols : file' = Append(SubSeq(file, 1, Len(file) - 1), o)
      BY <2>2 DEF View!CompleteObject, View!LineOpen, Symbols
    <3>2. m = Len(file) - 1 /\ m \in Nat /\ Len(file) \in 1..Len(file)
      BY <2>2, <3>1
    <3>3. Told(file, Len(file)) = Told(file, Len(file) - 1)
      BY <3>1, <3>2, ToldIs DEF View!IsObject
    <3>4. \A n \in Nat : n <= Len(file) /\ Whole(n) => n # Len(file)
      BY <3>1, <3>2 DEF Whole
    <3> HIDE DEF m
    <3>5. \A n \in Nat : n <= Len(file) /\ Whole(n) => n <= m
      BY <3>2, <3>4
    <3> QED
      BY <3>1, <3>2, <3>3, <3>5, ToldIs
  <2> QED
    BY <2>1, <2>2
<1> HIDE DEF m
<1>2. PICK ch \in Symbols : file' = Append(SubSeq(file, 1, m), ch)
  BY <1>1
<1>3. /\ file' \in Seq(Symbols) /\ Len(file') = m + 1 /\ file'[m + 1] = ch
      /\ \A i \in 1..m : file'[i] = file[i]
  <2>1. /\ SubSeq(file, 1, m) \in Seq(Symbols) /\ Len(SubSeq(file, 1, m)) = m
        /\ \A i \in 1..m : SubSeq(file, 1, m)[i] = file[i]
    BY <1>1
  <2> DEFINE t == SubSeq(file, 1, m)
  <2> HIDE DEF t
  <2>2. t \in Seq(Symbols) /\ Len(t) = m /\ \A i \in 1..m : t[i] = file[i]
    BY <2>1 DEF t
  <2>3. file' = Append(t, ch)
    BY <1>2 DEF t
  <2> QED
    BY <1>1, <2>2, <2>3
<1>4. ASSUME NEW n \in Nat, n <= Len(file), Whole(n)
      PROVE  n <= Len(file') /\ (\A i \in 1..n : file'[i] = file[i]) /\ Told(file', n) = Told(file, n)
  <2>1. n <= m
    BY <1>1, <1>4
  <2>2. n <= Len(file') /\ \A i \in 1..n : file'[i] = file[i]
    BY <1>1, <1>3, <2>1
  <2> QED
    BY <1>3, <1>4, <2>2, ToldAgree
<1>5. \/ \E o \in View!Objects : View!Changes(file') = Append(View!Changes(file), o)
      \/ View!Changes(file') = View!Changes(file)
  <2>1. Told(file', m) = Told(file, m)
    <3>1. m \in Nat /\ m <= Len(file) /\ m <= Len(file')
      BY <1>1, <1>3
    <3>2. file \in Seq(Symbols) /\ file' \in Seq(Symbols) /\ \A i \in 1..m : file'[i] = file[i]
      BY <1>3
    <3> QED
      BY <3>1, <3>2, ToldAgree
  <2>2. m + 1 \in 1..Len(file') /\ (m + 1) - 1 = m
    BY <1>1, <1>3
  <2>3. View!Changes(file') = Told(file', m + 1)
    BY <1>3, ToldIs
  <2>4. Told(file', m + 1) = IF View!IsObject(ch) THEN Append(Told(file', m), ch) ELSE Told(file', m)
    BY <1>3, <2>2, ToldIs
  <2>5. View!IsObject(ch) => ch \in View!Objects
    BY DEF Symbols, View!IsObject
  <2> QED
    BY <1>1, <2>1, <2>3, <2>4, <2>5
<1> QED
  BY <1>3, <1>4, <1>5

\* A line that is read: nothing, or one object more is told.
LEMMA LineTells ==
  ASSUME file \in Seq(Symbols), pos \in Nat, pos < Len(file), Whole(pos)
  PROVE  /\ View!Content = <<>> =>
              /\ View!LineEnd \in (pos + 1)..Len(file) /\ Whole(View!LineEnd)
              /\ Told(file, View!LineEnd) = Told(file, pos)
         /\ Len(View!Content) = 1 /\ View!IsObject(View!Content[1]) =>
              /\ View!LineEnd \in (pos + 1)..Len(file) /\ Whole(View!LineEnd)
              /\ View!Content[1] \in View!Objects
              /\ Told(file, View!LineEnd) = Append(Told(file, pos), View!Content[1])
<1> DEFINE e == View!LineEnd
<1>1. View!LineEnd = Log!LineEnd /\ View!Content = Log!Content
  BY DEF View!LineEnd, Log!LineEnd, View!Content, Log!Content
<1>2. e \in (pos + 1)..Len(file) /\ e \in Nat /\ Len(file) \in Nat
  BY <1>1, LineEndIs
<1>3. View!Content = <<>> => e = pos + 1 /\ file[pos + 1] = NL
  BY <1>1, LineHolds
<1>4. Len(View!Content) = 1 =>
        /\ View!Content[1] = file[pos + 1]
        /\ e = pos + 1 \/ (e = pos + 2 /\ file[pos + 2] = NL)
  BY <1>1, LineHolds
<1>9. View!Content = <<>> => Len(View!Content) # 1
  <2>1. Len(<<>>) # 1
    OBVIOUS
  <2> QED
    BY <2>1
<1> HIDE DEF e
<1>5. pos + 1 \in 1..Len(file) /\ (pos + 1) - 1 = pos
  BY <1>2
<1>6. file[pos + 1] # Torn => Whole(pos + 1)
  <2>1. \A i \in 1..(pos + 1) : i \in 1..pos \/ i = pos + 1
    OBVIOUS
  <2> QED
    BY <2>1 DEF Whole
<1>7. CASE View!Content = <<>>
  <2>1. Told(file, pos + 1) = Told(file, pos)
    BY <1>3, <1>5, <1>7, ToldIs DEF View!IsObject
  <2> QED
    BY <1>2, <1>3, <1>6, <1>7, <1>9, <2>1, ViewConstants DEF e
<1>8. CASE Len(View!Content) = 1 /\ View!IsObject(View!Content[1])
  <2>1. View!IsObject(file[pos + 1]) /\ file[pos + 1] \in Symbols
    BY <1>4, <1>5, <1>8
  <2>2. file[pos + 1] \in View!Objects /\ Whole(pos + 1)
    BY <1>6, <2>1 DEF View!IsObject, Symbols
  <2>3. Told(file, pos + 1) = Append(Told(file, pos), file[pos + 1])
    BY <1>5, <2>1, ToldIs
  <2>4. CASE e = pos + 1
    <3>1. View!Content # <<>>
      BY <1>8, <1>9
    <3> QED
      BY <1>2, <1>4, <1>8, <2>2, <2>3, <2>4, <3>1 DEF e
  <2>5. CASE e = pos + 2 /\ file[pos + 2] = NL
    <3>1. pos + 2 \in 1..Len(file) /\ (pos + 2) - 1 = pos + 1
      BY <1>2, <2>5
    <3>2. Told(file, pos + 2) = Told(file, pos + 1)
      BY <2>5, <3>1, ToldIs DEF View!IsObject
    <3>3. Whole(pos + 2)
      <4>1. \A i \in 1..(pos + 2) : i \in 1..(pos + 1) \/ i = pos + 2
        OBVIOUS
      <4> QED
        BY <2>2, <2>5, <4>1, ViewConstants DEF Whole
    <3>4. View!Content # <<>>
      BY <1>8, <1>9
    <3> QED
      BY <1>2, <1>4, <1>8, <2>2, <2>3, <2>5, <3>2, <3>3, <3>4 DEF e
  <2> QED
    BY <1>4, <1>8, <2>4, <2>5
<1> QED
  BY <1>7, <1>8

LEMMA ViewWrites == ASSUME ViewInv, View!WriteView PROVE ViewInv'
<1>1. /\ pc = "write" /\ pc' = "save" /\ view' = View!Written
      /\ UNCHANGED <<file, saved, pos, line, pending>>
  BY DEF View!WriteView, View!source
<1>2. ViewTypes /\ ViewRun
  BY <1>1 DEF ViewInv
<1>3. PICK n \in Nat : UpTo(n)
  BY DEF ViewInv
<1> DEFINE s == Told(file, pos)
           from == Count(saved.offset)
           a == Count(n)
<1>4. /\ saved.offset \in 0..Len(file) /\ n \in 0..Len(file) /\ pos \in 0..Len(file)
      /\ saved.offset <= n /\ file \in Seq(Symbols)
  BY <1>2, <1>3 DEF ViewTypes, ViewRun, UpTo
<1>5. s \in Seq(View!Objects) /\ from \in Nat /\ a \in Nat /\ Len(s) \in Nat /\ Len(s) = Count(pos)
  BY <1>4, ToldIs DEF Count
<1>6. from <= a /\ a <= Len(s)
  <2>1. from <= a
    BY <1>4, ToldGrows DEF Count
  <2>2. a <= Len(s)
    BY <1>1, <1>3 DEF UpTo, Count
  <2> QED
    BY <2>1, <2>2
<1>7. Told(file, n) = SubSeq(s, 1, a)
  <2>1. CASE n <= pos
    BY <1>4, <2>1, ToldGrows DEF Count
  <2>2. CASE pos <= n
    <3>1. Len(s) <= a /\ s = SubSeq(Told(file, n), 1, Len(s))
      BY <1>4, <2>2, ToldGrows DEF Count
    <3>2. Len(s) = a
      BY <1>5, <1>6, <3>1
    <3>3. Told(file, n) \in Seq(View!Objects) /\ Len(Told(file, n)) = a
      BY <1>4, ToldIs DEF Count
    <3>4. \A q \in Seq(View!Objects) : SubSeq(q, 1, Len(q)) = q
      OBVIOUS
    <3> HIDE DEF s, a
    <3>5. s = Told(file, n)
      BY <3>1, <3>2, <3>3, <3>4
    <3> QED
      BY <1>5, <3>2, <3>4, <3>5
  <2> QED
    BY <1>4, <2>1, <2>2
<1>8. /\ view \in [View!Ids -> Record] /\ pending \in Seq(View!Envelopes)
      /\ Len(s) = from + Len(pending) /\ Len(pending) <= LineBatch /\ Len(pending) \in Nat
      /\ \A i \in 1..Len(pending) : /\ pending[i].id = s[from + i].key
                                    /\ pending[i].op = s[from + i].op
                                    /\ pending[i].val = s[from + i].val
      /\ Showing(view) = Replay(SubSeq(s, 1, a))
  <2>1. Showing(view) = Replay(SubSeq(s, 1, a))
    BY <1>3, <1>7 DEF UpTo
  <2> QED
    BY <1>2, <1>5, <2>1 DEF ViewTypes, ViewRun
<1>9. View!Written \in [View!Ids -> Record] /\ Showing(View!Written) = Replay(s)
  <2> HIDE DEF s, from, a
  <2> QED
    BY <1>5, <1>6, <1>8, BatchShows
<1>10. ViewTypes' /\ ViewRun'
  BY <1>1, <1>2, <1>9 DEF ViewTypes, ViewRun, Whole, Count
<1>11. UpTo(pos)'
  <2>1. Count(pos) <= Count(saved.offset) + LineBatch
    BY <1>5, <1>8, ViewConstants
  <2> QED
    BY <1>1, <1>2, <1>9, <2>1 DEF ViewTypes, ViewRun, UpTo, Whole, Count
<1> QED
  BY <1>1, <1>2, <1>10, <1>11 DEF ViewInv, ViewTypes

LEMMA ViewStep == ASSUME ViewInv, [View!Next]_(View!vars) PROVE ViewInv'
<1>0. ViewTypes /\ \E n \in Nat : UpTo(n)
  BY DEF ViewInv
<1> PICK n \in Nat : UpTo(n)
  BY <1>0
<1>1. /\ saved.offset <= n /\ n <= Len(file) /\ Whole(n) /\ Showing(view) = Replay(Told(file, n))
      /\ Count(n) <= Count(saved.offset) + LineBatch /\ Len(file) \in Nat /\ saved.offset \in Nat
      /\ Whole(saved.offset)
  <2>1. Whole(saved.offset)
    BY <1>0 DEF UpTo, ViewTypes, Whole
  <2> QED
    BY <1>0, <2>1 DEF UpTo, ViewTypes
<1>2. ASSUME UNCHANGED <<file, saved, view>>, pc' = "idle", pending' = <<>>, pos' \in Nat, line' \in Nat
      PROVE  ViewInv'
  <2>1. UpTo(n)'
    BY <1>1, <1>2 DEF UpTo, Whole, Count
  <2> QED
    BY <1>0, <1>2, <2>1 DEF ViewInv, ViewTypes
<1>3. ASSUME UNCHANGED <<file, saved, view>>, pc' \in {"read", "write", "save"}, pos' \in Nat, line' \in Nat,
             ViewRun', pc' = "write" => Count(n)' <= Count(pos)', pc' = "save" => Count(n)' = Count(pos)'
      PROVE  ViewInv'
  <2>1. UpTo(n)'
    BY <1>1, <1>3 DEF UpTo, Whole, Count
  <2> QED
    BY <1>0, <1>3, <2>1 DEF ViewInv, ViewTypes
<1>4. CASE View!AppendChar \/ View!CompleteObject
  <2>1. UNCHANGED <<saved, pc, pos, line, pending, view>>
    BY <1>4 DEF View!AppendChar, View!CompleteObject, View!reader
  <2>2. /\ file' \in Seq(Symbols)
        /\ \A k \in Nat : k <= Len(file) /\ Whole(k) =>
             k <= Len(file') /\ (\A i \in 1..k : file'[i] = file[i]) /\ Told(file', k) = Told(file, k)
    BY <1>0, <1>4, FileGrows DEF ViewTypes
  <2>3. \A k \in Nat : k <= Len(file) /\ Whole(k) =>
          k <= Len(file') /\ Whole(k)' /\ Told(file', k) = Told(file, k) /\ Count(k)' = Count(k)
    BY <2>2 DEF Whole, Count
  <2>4. saved.offset <= Len(file)
    BY <1>1
  <2>5. Told(file', saved.offset) = Told(file, saved.offset)
    BY <1>1, <2>3, <2>4
  <2>6. n <= Len(file') /\ Whole(n)' /\ Told(file', n) = Told(file, n)
    BY <1>1, <2>3
  <2>7. pc # "idle" => /\ pos <= Len(file') /\ (\A i \in 1..pos : file'[i] # Torn)
                       /\ Told(file', pos) = Told(file, pos)
    <3>1. pc # "idle" => pos <= Len(file) /\ Whole(pos) /\ pos \in Nat
      BY <1>0 DEF ViewInv, ViewRun, ViewTypes
    <3> QED
      BY <2>2, <3>1 DEF Whole
  <2>9. pc # "idle" => ViewRun'
    BY <2>1, <2>5, <2>7 DEF ViewInv, ViewRun, Count, Whole
  <2>10. UpTo(n)'
    <3>1. pc # "idle" => Told(file', pos) = Told(file, pos)
      BY <2>7
    <3> QED
      BY <1>1, <2>1, <2>5, <2>6, <3>1 DEF UpTo, Count, Whole
  <2>11. ViewTypes'
    BY <1>0, <2>1, <2>2 DEF ViewTypes
  <2> QED
    BY <2>1, <2>9, <2>10, <2>11 DEF ViewInv
<1>5. CASE View!Start
  <2>1. /\ pc = "idle" /\ pc' = "read" /\ pos' = saved.offset /\ line' = saved.line
        /\ UNCHANGED <<file, saved, pending, view>>
    BY <1>5 DEF View!Start, View!source
  <2>2. pending = <<>> /\ Len(<<>>) = 0
    BY <2>1 DEF ViewInv
  <2>3. pending \in Seq(View!Envelopes) /\ Len(pending) = 0
    <3>1. <<>> \in Seq(View!Envelopes)
      OBVIOUS
    <3> QED
      BY <2>2, <3>1
  <2>4. Count(saved.offset) \in Nat
    <3>1. saved.offset \in 0..Len(file)
      BY <1>1
    <3> QED
      BY <1>0, <3>1, ToldIs DEF Count, ViewTypes
  <2>5. /\ Count(saved.offset) = Count(saved.offset) + Len(pending)
        /\ \A i \in 1..Len(pending) : FALSE
    BY <2>3, <2>4
  <2>6. ViewRun'
    BY <1>1, <2>1, <2>3, <2>5, ViewConstants DEF ViewRun, Count, Whole
  <2> QED
    BY <1>0, <1>3, <2>1, <2>6 DEF ViewTypes
<1>6. CASE View!SkipBlank
  <2>1. /\ pc = "read" /\ pc' = "read" /\ pos < Len(file) /\ View!Content = <<>>
        /\ pos' = View!LineEnd /\ line' = line + 1 /\ UNCHANGED <<file, saved, pending, view>>
    BY <1>6 DEF View!SkipBlank, View!source
  <2>2. ViewRun /\ Whole(pos)
    BY <2>1 DEF ViewInv, ViewRun
  <2>3. /\ pos' \in (pos + 1)..Len(file) /\ \A i \in 1..pos' : file[i] # Torn
        /\ Told(file, pos') = Told(file, pos)
    BY <1>0, <2>1, <2>2, LineTells DEF ViewTypes, Whole
  <2>4. pos' \in Nat /\ saved.offset <= pos' /\ pos' <= Len(file)
    BY <1>0, <2>2, <2>3 DEF ViewTypes, ViewRun
  <2>5. ViewRun'
    BY <2>1, <2>2, <2>3, <2>4 DEF ViewRun, Count, Whole
  <2> QED
    BY <1>0, <1>3, <2>1, <2>4, <2>5 DEF ViewTypes
<1>7. CASE View!ReadObject
  <2> DEFINE o == View!Content[1]
             from == Count(saved.offset)
             e == View!Envelope(View!Content[1], View!LineEnd, line + 1)
  <2>1. /\ pc = "read" /\ pos < Len(file) /\ Len(View!Content) = 1 /\ View!IsObject(o)
        /\ pos' = View!LineEnd /\ line' = line + 1 /\ UNCHANGED <<file, saved, view>>
        /\ pending' = Append(pending, e)
        /\ pc' = IF Len(pending) + 1 >= LineBatch THEN "write" ELSE "read"
    BY <1>7 DEF View!ReadObject, View!source, View!BatchFull
  <2>2. ViewRun /\ Whole(pos)
    BY <2>1 DEF ViewInv, ViewRun
  <2>3. /\ pos' \in (pos + 1)..Len(file) /\ \A i \in 1..pos' : file[i] # Torn
        /\ o \in View!Objects /\ Told(file, pos') = Append(Told(file, pos), o)
    BY <1>0, <2>1, <2>2, LineTells DEF ViewTypes, Whole
  <2>4. pos' \in Nat /\ saved.offset <= pos' /\ pos' <= Len(file)
    BY <1>0, <2>2, <2>3 DEF ViewTypes, ViewRun
  <2>5. e \in View!Envelopes /\ e.id = o.key /\ e.op = o.op /\ e.val = o.val
    <3>1. o.key \in RecordIds /\ o.key # NoKey /\ line + 1 \in Nat /\ View!LineEnd \in Nat
      BY <1>0, <2>1, <2>3, <2>4, ViewConstants DEF View!Objects, ViewTypes
    <3> QED
      BY <2>3, <3>1 DEF View!Envelope, View!Envelopes, View!Objects
  <2>6. /\ pending \in Seq(View!Envelopes) /\ Len(pending) \in Nat
        /\ Len(pending) < LineBatch
        /\ Count(pos) = from + Len(pending)
        /\ \A i \in 1..Len(pending) : /\ pending[i].id = Told(file, pos)[from + i].key
                                      /\ pending[i].op = Told(file, pos)[from + i].op
                                      /\ pending[i].val = Told(file, pos)[from + i].val
    BY <2>1, <2>2 DEF ViewRun
  <2>7. from \in Nat /\ Told(file, pos) \in Seq(View!Objects) /\ Count(n) \in Nat
    <3>1. saved.offset \in 0..Len(file) /\ pos \in 0..Len(file) /\ n \in 0..Len(file)
      BY <1>0, <1>1, <2>1 DEF ViewTypes
    <3> QED
      BY <1>0, <3>1, ToldIs DEF Count, ViewTypes
  <2> HIDE DEF e, o, from
  <2>8. /\ pending' \in Seq(View!Envelopes) /\ Len(pending') = Len(pending) + 1
        /\ pending'[Len(pending) + 1] = e /\ \A i \in 1..Len(pending) : pending'[i] = pending[i]
    BY <2>1, <2>5, <2>6
  <2> DEFINE u == Told(file, pos)
             w == Told(file, pos')
  <2>9. /\ w \in Seq(View!Objects) /\ Len(w) = Len(u) + 1
        /\ w[Len(u) + 1] = o /\ \A i \in 1..Len(u) : w[i] = u[i]
    <3> HIDE DEF u
    <3> QED
      BY <2>3, <2>7 DEF u
  <2>10. Len(u) = from + Len(pending) /\ Len(u) \in Nat
    BY <2>6, <2>7 DEF Count
  <2> HIDE DEF u, w
  <2>11. ASSUME NEW i \in 1..Len(pending')
         PROVE  /\ pending'[i].id = w[from + i].key
                /\ pending'[i].op = w[from + i].op
                /\ pending'[i].val = w[from + i].val
    <3>1. CASE i = Len(pending) + 1
      <4>1. from + i = Len(u) + 1
        BY <2>6, <2>7, <2>10, <3>1
      <4> QED
        BY <2>5, <2>8, <2>9, <3>1, <4>1
    <3>2. CASE i # Len(pending) + 1
      <4>1. i \in 1..Len(pending) /\ from + i \in 1..Len(u)
        BY <2>6, <2>7, <2>8, <2>10, <3>2
      <4> QED
        BY <2>6, <2>8, <2>9, <4>1 DEF u
    <3> QED
      BY <3>1, <3>2
  <2>12. Len(w) = from + Len(pending')
    BY <2>6, <2>7, <2>8, <2>9, <2>10
  <2>13. Len(pending') <= LineBatch /\ (pc' = "read" => Len(pending') < LineBatch)
    BY <2>1, <2>6, <2>8, ViewConstants
  <2>14. ViewRun'
    BY <2>1, <2>3, <2>4, <2>8, <2>11, <2>12, <2>13 DEF ViewRun, Count, Whole, w, from
  <2>15. pc' = "write" => Count(n) <= Len(w)
    BY <1>1, <2>1, <2>6, <2>7, <2>8, <2>12, ViewConstants DEF from
  <2>16. (pc' = "write" => Count(n)' <= Count(pos)') /\ pc' \in {"read", "write"}
    BY <2>1, <2>15 DEF Count, w
  <2> QED
    BY <1>0, <1>3, <2>1, <2>4, <2>14, <2>16 DEF ViewTypes
<1>8. CASE View!RefuseLine \/ View!Stop
  BY <1>0, <1>2, <1>8 DEF View!RefuseLine, View!Stop, View!Idle, View!source
<1>9. CASE View!EndOfFile
  <2>1. /\ pc = "read" /\ pos = Len(file) /\ pc' = IF pending = <<>> THEN "save" ELSE "write"
        /\ UNCHANGED <<file, saved, pos, line, pending, view>>
    BY <1>9 DEF View!EndOfFile, View!source
  <2>2. ViewRun
    BY <2>1 DEF ViewInv
  <2>3. saved.offset \in 0..Len(file) /\ pos \in 0..Len(file) /\ n \in 0..Len(file) /\ n <= pos
    BY <1>1, <2>1
  <2>4. Count(saved.offset) <= Count(n) /\ Count(n) <= Count(pos) /\ Count(n) \in Nat /\ Count(pos) \in Nat
    BY <1>0, <1>1, <2>3, ToldIs, ToldGrows DEF Count, ViewTypes
  <2>5. pending = <<>> => Count(pos) = Count(saved.offset)
    <3>1. Len(<<>>) = 0 /\ Count(saved.offset) \in Nat
      BY <1>0, <2>3, ToldIs DEF Count, ViewTypes
    <3> QED
      BY <2>2, <3>1 DEF ViewRun
  <2>6. ViewRun'
    BY <2>1, <2>2 DEF ViewRun, Count, Whole
  <2>7. (pc' = "write" => Count(n)' <= Count(pos)') /\ (pc' = "save" => Count(n)' = Count(pos)')
    <3>1. pc' = "save" => Count(n) = Count(pos)
      BY <2>1, <2>4, <2>5
    <3> QED
      BY <2>1, <2>4, <3>1 DEF Count
  <2> QED
    BY <1>0, <1>3, <2>1, <2>6, <2>7 DEF ViewTypes
<1>10. CASE View!WriteView
  BY <1>10, ViewWrites
<1>11. CASE View!Save
  <2>1. /\ pc = "save" /\ UNCHANGED <<file, view>> /\ pending' = <<>>
        /\ saved' = [offset |-> pos, line |-> line, prefix |-> SubSeq(file, 1, pos)]
        /\ \/ pc' = "idle" /\ pos' = 0 /\ line' = 0
           \/ pc' = "read" /\ pos' = pos /\ line' = line
    BY <1>11 DEF View!Save, View!StoreSave, View!NewCheckpoint
  <2>2. ViewRun /\ Count(n) = Count(pos)
    BY <2>1 DEF ViewInv, UpTo
  <2>3. pos \in 0..Len(file) /\ n \in 0..Len(file) /\ pos \in Nat /\ pos <= Len(file) /\ Whole(pos)
    BY <1>0, <1>1, <2>2 DEF ViewTypes, ViewRun
  <2>4. Told(file, n) = Told(file, pos) /\ Count(pos) \in Nat
    <3>1. /\ Told(file, n) \in Seq(View!Objects) /\ Told(file, pos) \in Seq(View!Objects)
          /\ Count(pos) \in Nat
      BY <1>0, <2>3, ToldIs DEF Count, ViewTypes
    <3>2. \A q \in Seq(View!Objects) : SubSeq(q, 1, Len(q)) = q
      OBVIOUS
    <3>3. \/ Told(file, n) = SubSeq(Told(file, pos), 1, Count(n))
          \/ Told(file, pos) = SubSeq(Told(file, n), 1, Count(pos))
      BY <1>0, <2>3, ToldGrows DEF Count, ViewTypes
    <3> QED
      BY <2>2, <3>1, <3>2, <3>3 DEF Count
  <2>5. Len(<<>>) = 0 /\ <<>> \in Seq(View!Envelopes)
    OBVIOUS
  <2>6. \E k \in Nat : UpTo(k)'
    <3>1. Count(pos) <= Count(pos) + LineBatch
      BY <2>4, ViewConstants
    <3>2. ASSUME NEW k, k = pos PROVE UpTo(k)'
      BY <1>1, <2>1, <2>3, <2>4, <3>1, <3>2 DEF UpTo, Count, Whole
    <3> QED
      BY <2>3, <3>2
  <2>7. pc' = "read" => ViewRun'
    <3>1. Count(pos) = Count(pos) + 0
      BY <2>4
    <3> QED
      BY <2>1, <2>3, <2>5, <3>1, ViewConstants DEF ViewRun, Count, Whole
  <2>8. ViewTypes'
    BY <1>0, <2>1, <2>3 DEF ViewTypes
  <2> QED
    BY <2>1, <2>6, <2>7, <2>8 DEF ViewInv
<1>12. CASE UNCHANGED (View!vars)
  BY <1>0, <1>12 DEF View!vars, ViewInv, ViewTypes, ViewRun, UpTo, Whole, Count
<1>13. ~View!Rotate /\ ~View!WriteLog /\ ~View!RefuseLog /\ ~View!StopInAppend
  BY DEF View!Rotate, View!WriteLog, View!RefuseLog, View!StopInAppend
<1> QED
  BY <1>4, <1>5, <1>6, <1>7, <1>8, <1>9, <1>10, <1>11, <1>12, <1>13 DEF View!Next, View!Run

\* The collection shows at least what the checkpoint counts as read.
LEMMA ViewSafe == ASSUME ViewInv PROVE View!CheckpointedIsShown
<1>1. PICK n \in Nat : UpTo(n)
  BY DEF ViewInv
<1>2. n \in saved.offset..Len(file) /\ Showing(view) = Replay(Told(file, n))
  BY <1>1 DEF UpTo, ViewInv, ViewTypes
<1>3. View!Shown = Showing(view)
  BY DEF View!Shown, Showing
<1> QED
  BY <1>2, <1>3 DEF View!CheckpointedIsShown, Replay, Told

\* What a step of the pipeline is to its readers.
ViewAdvances ==
  \/ /\ View!Shown' = View!Shown
     /\ \/ View!Changes(file)' = View!Changes(file)
        \/ \E o \in View!Objects : View!Changes(file)' = Append(View!Changes(file), o)
  \/ /\ View!Changes(file)' = View!Changes(file)
     /\ \E m \in 0..Len(View!Changes(file)) : \E n \in m..Len(View!Changes(file)) :
          /\ View!Shown = Replay(SubSeq(View!Changes(file), 1, m))
          /\ View!Shown' = Replay(SubSeq(View!Changes(file), 1, n))

LEMMA ViewRefines == ASSUME ViewInv, [View!Next]_(View!vars) PROVE ViewAdvances
<1>0. ViewTypes
  BY DEF ViewInv
<1>1. ASSUME UNCHANGED <<file, view>> PROVE ViewAdvances
  BY <1>1 DEF ViewAdvances, View!Shown
<1>2. CASE View!AppendChar \/ View!CompleteObject
  <2>1. view' = view /\ file \in Seq(Symbols)
    BY <1>0, <1>2 DEF View!AppendChar, View!CompleteObject, ViewTypes
  <2>2. \/ \E o \in View!Objects : View!Changes(file') = Append(View!Changes(file), o)
        \/ View!Changes(file') = View!Changes(file)
    BY <1>2, <2>1, FileGrows
  <2> QED
    BY <2>1, <2>2 DEF ViewAdvances, View!Shown
<1>3. CASE View!WriteView
  <2>1. pc = "write" /\ pc' = "save" /\ UNCHANGED <<file, saved, pos>>
    BY <1>3 DEF View!WriteView, View!source
  <2>2. ViewInv'
    BY <1>3, ViewWrites
  <2>3. PICK n \in Nat : UpTo(n)
    BY DEF ViewInv
  <2>4. PICK k \in Nat : UpTo(k)'
    BY <2>2 DEF ViewInv
  <2> DEFINE s == View!Changes(file)
  <2>5. /\ n \in 0..Len(file) /\ k \in 0..Len(file) /\ pos \in 0..Len(file) /\ file \in Seq(Symbols)
        /\ Len(file) \in 0..Len(file)
    BY <1>0, <2>1, <2>3, <2>4 DEF UpTo, ViewInv, ViewRun, ViewTypes
  <2>6. Count(n) <= Count(pos) /\ Count(k) = Count(pos)
    BY <2>1, <2>3, <2>4 DEF UpTo, Count
  <2>7. /\ Count(n) <= Len(s) /\ Told(file, n) = SubSeq(s, 1, Count(n))
        /\ Count(k) <= Len(s) /\ Told(file, k) = SubSeq(s, 1, Count(k))
    <3>1. Told(file, Len(file)) = s
      BY <2>5, ToldIs
    <3>2. n <= Len(file) /\ k <= Len(file)
      BY <2>5
    <3> QED
      BY <2>5, <3>1, <3>2, ToldGrows DEF Count
  <2>8. Count(n) \in Nat /\ Count(k) \in Nat /\ Len(s) \in Nat
    <3>1. Told(file, Len(file)) = s
      BY <2>5, ToldIs
    <3> QED
      BY <2>5, <3>1, ToldIs DEF Count
  <2>9. Count(n) \in 0..Len(s) /\ Count(k) \in Count(n)..Len(s)
    BY <2>6, <2>7, <2>8
  <2>10. /\ View!Shown = Replay(SubSeq(s, 1, Count(n)))
         /\ View!Shown' = Replay(SubSeq(s, 1, Count(k)))
    <3>1. View!Shown = Showing(view) /\ View!Shown' = Showing(view')
      BY DEF View!Shown, Showing
    <3>2. Showing(view) = Replay(Told(file, n)) /\ Showing(view') = Replay(Told(file, k))
      BY <2>1, <2>3, <2>4 DEF UpTo
    <3> QED
      BY <2>7, <3>1, <3>2
  <2>11. View!Changes(file)' = s
    BY <2>1
  <2> QED
    BY <2>9, <2>10, <2>11 DEF ViewAdvances
<1>4. CASE \/ View!Start \/ View!SkipBlank \/ View!ReadObject \/ View!RefuseLine \/ View!EndOfFile
           \/ View!Save \/ View!Stop
  BY <1>1, <1>4 DEF View!Start, View!SkipBlank, View!ReadObject, View!RefuseLine, View!EndOfFile,
     View!Save, View!Stop, View!source
<1>5. CASE UNCHANGED (View!vars)
  BY <1>1, <1>5 DEF View!vars
<1>6. ~View!Rotate /\ ~View!WriteLog /\ ~View!RefuseLog /\ ~View!StopInAppend
  BY DEF View!Rotate, View!WriteLog, View!RefuseLog, View!StopInAppend
<1> QED
  BY <1>2, <1>3, <1>4, <1>5, <1>6 DEF View!Next, View!Run

LEMMA PromiseInit == Init => Promise!Init
<1> SUFFICES ASSUME Init PROVE Promise!Init
  OBVIOUS
<1>1. CASE scenario = "view"
  <2>1. file = <<>> /\ view = [i \in View!Ids |-> Absent]
    <3>1. View!Init
      BY <1>1 DEF Init, PipelineInit, PostgresInit, RestInit, DocumentsInit, DiscordInit
    <3> QED
      BY <3>1 DEF View!Init
  <2>2. View!Changes(file) = <<>>
    <3>1. <<>> \in Seq(Symbols) /\ Len(<<>>) = 0
      OBVIOUS
    <3> QED
      BY <2>1, <3>1, ToldIs
  <2>3. View!Shown = [k \in RecordIds |-> Absent]
    BY <2>1 DEF View!Shown, View!Ids
  <2> QED
    BY <1>1, <2>2, <2>3 DEF Promise!Init, Promise!Empty
<1>2. CASE scenario # "view"
  BY <1>2 DEF Promise!Init, Promise!Empty
<1> QED
  BY <1>1, <1>2

Offered == IF scenario = "view" THEN View!Changes(file) ELSE <<>>
Seen == IF scenario = "view" THEN View!Shown ELSE [k \in RecordIds |-> Absent]

LEMMA PromiseStep ==
  ASSUME UNCHANGED scenario, scenario = "view" => ViewAdvances
  PROVE  [Promise!Next]_<<Offered, Seen>>
<1>1. CASE scenario # "view"
  BY <1>1 DEF Offered, Seen
<1>2. CASE scenario = "view"
  <2>1. /\ Offered = View!Changes(file) /\ Offered' = View!Changes(file)'
        /\ Seen = View!Shown /\ Seen' = View!Shown'
    BY <1>2 DEF Offered, Seen
  <2>2. \A c : Promise!Replay(c) = Replay(c)
    BY DEF Promise!Replay, Replay, View!PV!Replay
  <2>3. Promise!Offer <=> /\ \E o \in View!Objects : Offered' = Append(Offered, o)
                          /\ Seen' = Seen
    BY DEF Promise!Offer, Offered, Seen, View!Objects
  <2>4. Promise!Advance <=>
          /\ \E m \in 0..Len(Offered) : \E n \in m..Len(Offered) :
               /\ Seen = Promise!Replay(SubSeq(Offered, 1, m))
               /\ Seen' = Promise!Replay(SubSeq(Offered, 1, n))
          /\ Offered' = Offered
    BY DEF Promise!Advance, Offered, Seen
  <2>5. ViewAdvances
    BY <1>2
  <2>6. CASE /\ View!Shown' = View!Shown
             /\ \/ View!Changes(file)' = View!Changes(file)
                \/ \E o \in View!Objects : View!Changes(file)' = Append(View!Changes(file), o)
    <3>1. UNCHANGED <<Offered, Seen>> \/ Promise!Offer
      BY <2>1, <2>3, <2>6
    <3> QED
      BY <3>1 DEF Promise!Next
  <2>7. CASE /\ View!Changes(file)' = View!Changes(file)
             /\ \E m \in 0..Len(View!Changes(file)) : \E n \in m..Len(View!Changes(file)) :
                  /\ View!Shown = Replay(SubSeq(View!Changes(file), 1, m))
                  /\ View!Shown' = Replay(SubSeq(View!Changes(file), 1, n))
    <3>1. Promise!Advance
      <4>1. /\ Offered' = Offered
            /\ \E m \in 0..Len(Offered) : \E n \in m..Len(Offered) :
                 /\ Seen = Replay(SubSeq(Offered, 1, m))
                 /\ Seen' = Replay(SubSeq(Offered, 1, n))
        BY <2>1, <2>7
      <4> QED
        BY <2>2, <2>4, <4>1
    <3> QED
      BY <3>1 DEF Promise!Next
  <2> QED
    BY <2>5, <2>6, <2>7 DEF ViewAdvances
<1> QED
  BY <1>1, <1>2

-------------------------------------------------------------------------------
(* A table read in inserting cycles: the replay ledger                     *)

InsertInv ==
  /\ DOMAIN inserted \subseteq ledger
  /\ Insert!NoEventIsInsertedTwice

LEMMA InsertInit == ASSUME Insert!Init PROVE InsertInv
  BY DEF Insert!Init, InsertInv, Insert!NoEventIsInsertedTwice

LEMMA InsertStep ==
  ASSUME InsertInv, [Insert!Next]_(Insert!vars)
  PROVE  InsertInv'
<1>1. CASE UNCHANGED <<inserted, ledger>>
  BY <1>1 DEF InsertInv, Insert!NoEventIsInsertedTwice
<1>2. CASE Insert!Write
  <2>1. /\ inserted' = Insert!Inserted(Insert!Unrecorded)
        /\ ledger' = ledger \cup Insert!Unrecorded
    BY <1>2 DEF Insert!Write
  <2>2. Insert!Unrecorded \cap DOMAIN inserted = {}
    BY DEF InsertInv, Insert!Unrecorded
  <2>3. inserted' = [e \in DOMAIN inserted \cup Insert!Unrecorded |->
                       (IF e \in DOMAIN inserted THEN inserted[e] ELSE 0)
                       + (IF e \in Insert!Unrecorded THEN 1 ELSE 0)]
    BY <2>1 DEF Insert!Inserted
  <2> QED
    BY <2>1, <2>2, <2>3 DEF InsertInv, Insert!NoEventIsInsertedTwice
<1>3. CASE Insert!Reset
  BY <1>3 DEF Insert!Reset, InsertInv, Insert!NoEventIsInsertedTwice
<1>4. CASE Insert!Next /\ ~Insert!Write /\ ~Insert!Reset
  BY <1>1, <1>4 DEF Insert!Next, Insert!Run, Insert!Commit, Insert!DeleteRow, Insert!Start,
     Insert!EmitPage, Insert!EmptyPage, Insert!RunBound, Insert!Save, Insert!Crash, Insert!sink
<1>5. CASE UNCHANGED (Insert!vars)
  BY <1>1, <1>5 DEF Insert!vars, Insert!sink
<1> QED
  BY <1>2, <1>3, <1>4, <1>5

-------------------------------------------------------------------------------
(* An API: pages, checkpoints inside a page, full-refresh cycles           *)

Checkpoints ==
  [url : Api!Urls, offset : Nat, page : Api!Page \cup {NoPage}, cycle : Nat,
   type : Types \cup {NoType}, done : SUBSET Api!Urls]

RestTypes ==
  /\ api \in [Api!Urls -> Api!Page] /\ saved \in Checkpoints /\ at \in Checkpoints
  /\ pc \in {"idle", "request", "write", "save"}
  /\ emitted \in Nat /\ emitted <= ApiRecords
  /\ passed \in [Api!Urls -> {0, 1}]

\* Records 1..offset of the page a partial checkpoint names are delivered.
PartIsDelivered ==
  /\ saved.page = NoPage => saved.offset = 0
  /\ \A i \in 1..saved.offset : Api!Event(saved.url, i, saved.page, saved.cycle) \in delivered

\* completed_request_hashes has what the checkpoints of this cycle moved past.
PassedAreDone == \A u \in Api!Urls : passed[u] = 1 => u \in saved.done

\* Over an API that did not change, the pages before the checkpoint's are delivered.
PagesBefore ==
  ~changed /\ Api!Chained =>
    \A u \in Api!Urls \ Foreign : u < saved.url =>
      \A i \in 1..api[u].n : Api!Event(u, i, api[u], saved.cycle) \in delivered

\* The StateMessage behind the first s records of a fetched page.
Behind(s) ==
  IF s < page.n
    THEN [at EXCEPT !.offset = s, !.page = page, !.type = Api!KeyType(page)]
  ELSE IF page.next = Api!NoNext THEN Api!Beginning(at.cycle + 1, Api!KeyType(page))
  ELSE Api!Checkpoint(page.next, at.cycle, Api!KeyType(page), Api!Completed)

Emitted(s) == \A i \in (at.offset + 1)..s :
  Api!Event(at.url, i, page, at.cycle) \in
    IF pc = "write" THEN {pending[k] : k \in DOMAIN pending} ELSE delivered

Fetched(s) ==
  /\ page \in Api!Page /\ s \in at.offset..page.n
  /\ at.page = NoPage \/ at.page = page
  /\ at.url \notin at.done
  /\ next = Behind(s)
  /\ s = page.n => page.next # at.url
  /\ Emitted(s)
  /\ ~changed => page = api[at.url]

RestInv ==
  /\ RestTypes /\ PartIsDelivered /\ PassedAreDone /\ PagesBefore
  /\ pc # "idle" => at = saved
  /\ pc \in {"write", "save"} => \E s \in Nat : Fetched(s)

RestSafe == Api!PassedPageIsDelivered /\ Api!CycleIsComplete

LEMMA ApiIs ==
  /\ Requests \in Nat \ {0} /\ PerPage \in Nat \ {0} /\ ApiRecords \in Nat \ {0}
  /\ Foreign \subseteq 2..Requests /\ \A u \in Foreign : u..Requests \subseteq Foreign
  /\ Api!Urls = 1..Requests /\ NoPage \notin Api!Page
  BY ConstantsAreSound DEF Api!RestAssumption, Api!Urls

LEMMA BeginningIs ==
  ASSUME NEW c \in Nat, NEW t \in Types \cup {NoType}
  PROVE  Api!Beginning(c, t) \in Checkpoints
  BY ApiIs DEF Api!Beginning, Api!Checkpoint, Checkpoints

LEMMA RestStarts == ASSUME Api!Init PROVE RestInv
<1>1. Api!Beginning(0, NoType) \in Checkpoints
  BY ApiIs DEF Api!Beginning, Api!Checkpoint, Checkpoints
<1>2. api \in [Api!Urls -> Api!Page]
  <2>1. PICK v \in ApiValues, t \in Types :
          api = [u \in Api!Urls |-> [n |-> PerPage, val |-> v, type |-> t,
                                    next |-> Api!NextInChain(u)]]
    BY DEF Api!Init
  <2>2. \A u \in Api!Urls : Api!NextInChain(u) \in Api!Urls \cup {Api!NoNext}
    BY DEF Api!NextInChain
  <2>3. PerPage \in 0..PerPage
    BY ApiIs
  <2> QED
    BY <2>1, <2>2, <2>3 DEF Api!Page
<1>3. saved = Api!Beginning(0, NoType) /\ saved.url = 1 /\ saved.offset = 0
  BY DEF Api!Init, Api!Beginning, Api!Checkpoint
<1>4. RestTypes
  BY <1>1, <1>2, ApiIs DEF Api!Init, RestTypes
<1>5. PartIsDelivered /\ PassedAreDone /\ PagesBefore
  BY <1>3, ApiIs DEF Api!Init, PartIsDelivered, PassedAreDone, PagesBefore
<1> QED
  BY <1>4, <1>5 DEF Api!Init, RestInv

LEMMA TypesOfPages ==
  ASSUME at \in Checkpoints, NEW p \in Api!Page
  PROVE  Api!KeyType(p) \in Types \cup {NoType}
  BY DEF Checkpoints, Api!Page, Api!KeyType

\* The StateMessage of a page.
LEMMA BehindIs ==
  ASSUME at \in Checkpoints, NEW s \in Nat, page \in Api!Page
  PROVE  Behind(s) \in Checkpoints
<1>1. Api!KeyType(page) \in Types \cup {NoType}
  BY TypesOfPages
<1>2. CASE s < page.n
  BY <1>1, <1>2 DEF Behind, Checkpoints
<1>3. CASE ~(s < page.n) /\ page.next = Api!NoNext
  <2>1. at.cycle + 1 \in Nat
    BY DEF Checkpoints
  <2> QED
    BY <1>1, <1>3, <2>1, BeginningIs DEF Behind
<1>4. CASE ~(s < page.n) /\ page.next # Api!NoNext
  <2>1. page.next \in Api!Urls /\ Api!Completed \in SUBSET Api!Urls
    BY <1>4 DEF Api!Page, Api!Completed, Checkpoints
  <2> QED
    BY <1>1, <1>4, <2>1 DEF Behind, Api!Checkpoint, Checkpoints
<1> QED
  BY <1>2, <1>3, <1>4

\* How far a run takes a page.
LEMMA StopIs ==
  ASSUME RestTypes, NEW p \in Api!Page, at.offset <= p.n
  PROVE  /\ Api!Stop(p) \in at.offset..p.n /\ Api!Stop(p) \in Nat
         /\ emitted + (Api!Stop(p) - at.offset) \in 0..ApiRecords
<1>1. /\ at.offset \in Nat /\ p.n \in Nat /\ emitted \in Nat /\ ApiRecords \in Nat
      /\ emitted <= ApiRecords
  BY ApiIs DEF RestTypes, Checkpoints, Api!Page
<1>2. \A o, n, m, e \in Nat :
        o <= n /\ e <= m =>
          /\ (IF m - e < n - o THEN o + (m - e) ELSE n) \in o..n
          /\ (IF m - e < n - o THEN o + (m - e) ELSE n) \in Nat
          /\ e + ((IF m - e < n - o THEN o + (m - e) ELSE n) - o) \in 0..m
  OBVIOUS
<1>3. Api!Stop(p) = IF ApiRecords - emitted < p.n - at.offset
                    THEN at.offset + (ApiRecords - emitted) ELSE p.n
  BY DEF Api!Stop
<1> QED
  BY <1>1, <1>2, <1>3

LEMMA RestFetches == ASSUME RestInv, Api!FetchPage PROVE RestInv'
<1> DEFINE p == Api!Response
<1>0. RestTypes /\ at = saved /\ pc = "request"
  BY DEF RestInv, Api!FetchPage
<1>1. p \in Api!Page /\ at \in Checkpoints
  BY <1>0 DEF RestTypes, Checkpoints, Api!Response
<1>2. /\ Api!Acceptable(p) /\ page' = p
      /\ pending' = [i \in 1..(Api!Stop(p) - at.offset) |->
                       Api!Event(at.url, at.offset + i, p, at.cycle)]
      /\ emitted' = emitted + (Api!Stop(p) - at.offset)
      /\ next' = Api!AfterPage(p)
      /\ pc' = (IF Api!Stop(p) > at.offset THEN "write" ELSE "save")
      /\ UNCHANGED <<api, changed, saved, at, delivered, passed>>
  BY DEF Api!FetchPage, Api!env
<1>3. /\ at.url \notin at.done /\ (at.page = NoPage \/ (at.page = p /\ at.offset < p.n))
      /\ Api!Stop(p) = p.n => p.next # at.url
  BY <1>2 DEF Api!Acceptable, Api!SamePage, Api!NoLoop, Api!Completed
<1>4. at.page = NoPage => at.offset = 0
  BY <1>0 DEF RestInv, PartIsDelivered
<1>5. at.offset \in Nat /\ p.n \in Nat /\ at.offset <= p.n
  BY <1>1, <1>3, <1>4 DEF Checkpoints, Api!Page
<1>6. Api!Stop(p) \in at.offset..p.n /\ Api!Stop(p) \in Nat /\ emitted' \in 0..ApiRecords
  BY <1>0, <1>1, <1>2, <1>5, StopIs
<1> PICK s \in Nat : s = Api!Stop(p)
  BY <1>6
<1> HIDE DEF p
<1>7. RestTypes'
  <2>1. emitted' \in Nat /\ emitted' <= ApiRecords /\ pc' \in {"idle", "request", "write", "save"}
    BY <1>2, <1>6, ApiIs
  <2> QED
    BY <1>0, <1>2, <2>1 DEF RestTypes
<1>8. PartIsDelivered' /\ PassedAreDone' /\ PagesBefore'
  BY <1>2 DEF RestInv, PartIsDelivered, PassedAreDone, PagesBefore, Api!Event, Api!Chained
<1>9. Fetched(s)'
  <2>1. next' = Behind(s)'
    BY <1>2, s = Api!Stop(p) DEF Api!AfterPage, Behind, Api!KeyType, Api!Completed
  <2>2. Emitted(s)'
    <3> SUFFICES ASSUME NEW i \in (at.offset + 1)..s
                 PROVE  Api!Event(at.url, i, p, at.cycle) \in
                          IF pc' = "write" THEN {pending'[k] : k \in DOMAIN pending'} ELSE delivered
      BY <1>2 DEF Emitted, Api!Event
    <3>1. i - at.offset \in 1..(s - at.offset) /\ at.offset + (i - at.offset) = i
          /\ s > at.offset
      BY <1>5, <1>6
    <3>2. i - at.offset \in DOMAIN pending'
          /\ pending'[i - at.offset] = Api!Event(at.url, i, p, at.cycle)
      BY <1>2, <3>1
    <3> QED
      BY <1>2, <3>1, <3>2
  <2>3. page' = api'[at'.url]
    BY <1>2 DEF p, Api!Response
  <2> QED
    BY <1>1, <1>2, <1>3, <1>6, <2>1, <2>2, <2>3 DEF Fetched
<1> QED
  BY <1>0, <1>2, <1>6, <1>7, <1>8, <1>9 DEF RestInv

LEMMA RestWrites == ASSUME RestInv, Api!Write PROVE RestInv'
<1>1. /\ pc = "write" /\ pc' = "save" /\ delivered' = delivered \cup {pending[i] : i \in DOMAIN pending}
      /\ UNCHANGED <<api, changed, saved, at, emitted, page, pending, next, passed>>
  BY DEF Api!Write, Api!env, Api!locals
<1>2. RestTypes' /\ PassedAreDone'
  BY <1>1 DEF RestInv, RestTypes, PassedAreDone
<1>3. PartIsDelivered' /\ PagesBefore'
  BY <1>1 DEF RestInv, PartIsDelivered, PagesBefore, Api!Event, Api!Chained
<1>4. PICK s \in Nat : Fetched(s)
  BY <1>1 DEF RestInv
<1>5. Emitted(s)'
  BY <1>1, <1>4 DEF Fetched, Emitted, Api!Event
<1>6. Behind(s)' = Behind(s)
  BY <1>1 DEF Behind, Api!KeyType, Api!Beginning, Api!Checkpoint, Api!Completed
<1>7. Fetched(s)'
  BY <1>1, <1>4, <1>5, <1>6 DEF Fetched
<1> QED
  BY <1>1, <1>2, <1>3, <1>7 DEF RestInv

\* A checkpoint behind the last record of a page.
LEMMA WholePage ==
  ASSUME RestInv, pc = "save", NEW s \in Nat, Fetched(s), s = page.n
  PROVE  \A i \in 1..page.n : Api!Event(at.url, i, page, at.cycle) \in delivered
<1>1. at = saved /\ at.offset \in Nat /\ Emitted(s) /\ PartIsDelivered
      /\ (at.page = NoPage \/ at.page = page)
  BY DEF RestInv, RestTypes, Checkpoints, Fetched
<1>2. \A i \in 1..page.n : i \in 1..at.offset \/ i \in (at.offset + 1)..s
  BY <1>1
<1>3. ASSUME NEW i \in 1..at.offset PROVE Api!Event(at.url, i, page, at.cycle) \in delivered
  <2>1. at.page = page
    BY <1>1, <1>3 DEF PartIsDelivered
  <2> QED
    BY <1>1, <1>3, <2>1 DEF PartIsDelivered
<1>4. ASSUME NEW i \in (at.offset + 1)..s PROVE Api!Event(at.url, i, page, at.cycle) \in delivered
  BY <1>1, <1>4 DEF Emitted
<1> QED
  BY <1>2, <1>3, <1>4

\* The three places a checkpoint can be at.
LEMMA Behinds ==
  ASSUME RestTypes, NEW s \in Nat, Fetched(s)
  PROVE  \/ /\ s < page.n /\ next.url = at.url /\ next.cycle = at.cycle
            /\ next.offset = s /\ next.page = page /\ next.done = at.done
         \/ /\ s = page.n /\ page.next = Api!NoNext
            /\ next.url = 1 /\ next.cycle = at.cycle + 1 /\ next.offset = 0
            /\ next.page = NoPage /\ next.done = {}
         \/ /\ s = page.n /\ page.next \in Api!Urls /\ page.next # at.url
            /\ next.url = page.next /\ next.cycle = at.cycle /\ next.offset = 0
            /\ next.page = NoPage /\ next.done = at.done \cup {at.url}
<1>1. s \in at.offset..page.n /\ page.n \in Nat /\ page.next \in Api!Urls \cup {Api!NoNext}
      /\ next = Behind(s) /\ (s = page.n => page.next # at.url)
  BY DEF Fetched, Api!Page
<1>2. CASE s < page.n
  <2>1. next = [at EXCEPT !.offset = s, !.page = page, !.type = Api!KeyType(page)]
    BY <1>1, <1>2 DEF Behind
  <2> QED
    BY <1>2, <2>1 DEF RestTypes, Checkpoints
<1>3. CASE ~(s < page.n) /\ page.next = Api!NoNext
  BY <1>1, <1>3 DEF Behind, Api!Beginning, Api!Checkpoint
<1>4. CASE ~(s < page.n) /\ page.next # Api!NoNext
  BY <1>1, <1>4 DEF Behind, Api!Checkpoint, Api!Completed
<1> QED
  BY <1>2, <1>3, <1>4

\* Where the API goes on behind a page, if it did not change.
LEMMA ChainIs ==
  ASSUME RestTypes, Api!Chained, NEW u \in Api!Urls
  PROVE  /\ api[u].next \in Api!Urls => api[u].next = u + 1
         /\ api[u].next = Api!NoNext => \A w \in Api!Urls \ Foreign : w <= u
<1>1. api[u].next = Api!NextInChain(u) /\ Api!NoNext \notin Api!Urls
  BY ApiIs DEF Api!Chained, Api!NoNext
<1>2. ASSUME api[u].next = Api!NoNext, NEW w \in Api!Urls \ Foreign PROVE w <= u
  <2> SUFFICES ASSUME u < w PROVE FALSE
    BY ApiIs
  <2>1. u + 1 \in Api!Urls /\ u + 1 \in Int /\ w \in (u + 1)..Requests
    BY <1>2, ApiIs
  <2>2. u + 1 \in Foreign
    BY <1>1, <1>2, <2>1 DEF Api!NextInChain
  <2>3. w \in Foreign
    BY <2>1, <2>2, ApiIs
  <2> QED
    BY <1>2, <2>3
<1> QED
  BY <1>1, <1>2 DEF Api!NextInChain

LEMMA RestSaves == ASSUME RestInv, Api!Save PROVE RestInv' /\ RestSafe
<1>0. RestTypes /\ at = saved /\ pc = "save"
  BY DEF RestInv, Api!Save
<1>1. PICK s \in Nat : Fetched(s)
  BY <1>0 DEF RestInv
<1>2. /\ saved' = next /\ UNCHANGED <<api, delivered>>
      /\ IF next.cycle > at.cycle
           THEN passed' = [u \in Api!Urls |-> 0] /\ changed' = FALSE
           ELSE /\ passed' = IF next.url # at.url THEN [passed EXCEPT ![at.url] = @ + 1] ELSE passed
                /\ UNCHANGED changed
  BY DEF Api!Save
<1>3. \/ pc' = "idle" /\ at' = Api!Beginning(0, NoType) /\ emitted' = 0
      \/ pc' = "request" /\ at' = next /\ emitted' = emitted
  BY DEF Api!Save, Api!Idle
<1>4. /\ page \in Api!Page /\ at.offset \in Nat /\ at.cycle \in Nat /\ at.url \in Api!Urls
      /\ at.url \in Int /\ at.url \notin at.done /\ next \in Checkpoints
  <2>1. page \in Api!Page /\ at \in Checkpoints /\ at.url \notin at.done /\ next = Behind(s)
    BY <1>0, <1>1 DEF Fetched, RestTypes
  <2>2. next \in Checkpoints
    BY <2>1, BehindIs
  <2>3. \A u \in Api!Urls : u \in Int
    BY ApiIs
  <2> QED
    BY <2>1, <2>2, <2>3 DEF Checkpoints
<1> DEFINE Inside == /\ s < page.n /\ next.url = at.url /\ next.cycle = at.cycle
                     /\ next.offset = s /\ next.page = page /\ next.done = at.done
           Ended == /\ s = page.n /\ page.next = Api!NoNext
                    /\ next.url = 1 /\ next.cycle = at.cycle + 1 /\ next.offset = 0
                    /\ next.page = NoPage /\ next.done = {}
           Further == /\ s = page.n /\ page.next \in Api!Urls /\ page.next # at.url
                      /\ next.url = page.next /\ next.cycle = at.cycle /\ next.offset = 0
                      /\ next.page = NoPage /\ next.done = at.done \cup {at.url}
<1>5. Inside \/ Ended \/ Further
  BY <1>0, <1>1, Behinds
<1>6. ASSUME s = page.n
      PROVE  \A i \in 1..page.n : Api!Event(at.url, i, page, at.cycle) \in delivered
  BY <1>0, <1>1, <1>6, WholePage
<1>7. passed' \in [Api!Urls -> {0, 1}] /\ PassedAreDone'
  <2>1. CASE Inside
    <3>1. passed' = passed /\ saved'.done = saved.done
      BY <1>0, <1>2, <1>4, <2>1
    <3> QED
      BY <1>0, <3>1 DEF RestInv, RestTypes, PassedAreDone
  <2>2. CASE Ended
    <3>1. passed' = [u \in Api!Urls |-> 0]
      BY <1>2, <1>4, <2>2
    <3> QED
      BY <3>1 DEF PassedAreDone
  <2>3. CASE Further
    <3>1. passed' = [passed EXCEPT ![at.url] = @ + 1] /\ saved'.done = saved.done \cup {at.url}
      BY <1>0, <1>2, <1>4, <2>3
    <3>2. passed \in [Api!Urls -> {0, 1}] /\ passed[at.url] = 0
      BY <1>0, <1>4 DEF RestInv, RestTypes, PassedAreDone
    <3>3. passed' \in [Api!Urls -> {0, 1}]
      BY <1>4, <3>1, <3>2
    <3> QED
      BY <1>0, <1>4, <3>1, <3>2, <3>3 DEF RestInv, PassedAreDone
  <2> QED
    BY <1>5, <2>1, <2>2, <2>3
<1>8. RestTypes'
  <2>1. Api!Beginning(0, NoType) \in Checkpoints
    BY BeginningIs, 0 \in Nat, NoType \in Types \cup {NoType}
  <2>2. at' \in Checkpoints /\ saved' \in Checkpoints
    BY <1>2, <1>3, <1>4, <2>1
  <2>3. emitted' \in Nat /\ emitted' <= ApiRecords /\ pc' \in {"idle", "request", "write", "save"}
    BY <1>0, <1>3, ApiIs DEF RestTypes
  <2> QED
    BY <1>0, <1>2, <1>7, <2>2, <2>3 DEF RestTypes
<1>9. PartIsDelivered'
  <2>1. CASE Inside
    <3>1. \A i \in 1..s : i \in 1..at.offset \/ i \in (at.offset + 1)..s
      BY <1>4
    <3>2. ASSUME NEW i \in 1..at.offset PROVE Api!Event(at.url, i, page, at.cycle) \in delivered
      <4>1. at.page = page /\ PartIsDelivered
        BY <1>0, <1>1, <1>4, <3>2 DEF RestInv, PartIsDelivered, Fetched
      <4> QED
        BY <1>0, <3>2, <4>1 DEF PartIsDelivered
    <3>3. ASSUME NEW i \in (at.offset + 1)..s PROVE Api!Event(at.url, i, page, at.cycle) \in delivered
      BY <1>0, <1>1, <3>3 DEF Fetched, Emitted
    <3>4. \A i \in 1..s : Api!Event(at.url, i, page, at.cycle) \in delivered
      BY <3>1, <3>2, <3>3
    <3>5. page # NoPage
      BY <1>4, ApiIs
    <3> QED
      BY <1>2, <2>1, <3>4, <3>5 DEF PartIsDelivered, Api!Event
  <2>2. CASE Ended \/ Further
    BY <1>2, <2>2 DEF PartIsDelivered
  <2> QED
    BY <1>5, <2>1, <2>2
<1>10. PagesBefore'
  <2> SUFFICES ASSUME ~changed', Api!Chained, NEW u \in Api!Urls \ Foreign, u < next.url,
                      NEW i \in 1..api[u].n
               PROVE  Api!Event(u, i, api[u], next.cycle) \in delivered
    BY <1>2 DEF PagesBefore, Api!Chained, Api!Event
  <2>1. CASE Ended
    BY <2>1, ApiIs
  <2>2. CASE Inside
    BY <1>0, <1>2, <1>4, <2>2 DEF RestInv, PagesBefore
  <2>3. CASE Further
    <3>1. ~changed /\ page = api[at.url]
      BY <1>1, <1>2, <1>4, <2>3 DEF Fetched
    <3>2. next.url = at.url + 1
      BY <1>0, <1>4, <2>3, <3>1, ChainIs
    <3>3. u < at.url \/ u = at.url
      BY <1>4, <3>2, ApiIs
    <3>4. CASE u < at.url
      BY <1>0, <2>3, <3>1, <3>4 DEF RestInv, PagesBefore
    <3>5. CASE u = at.url
      BY <1>6, <2>3, <3>1, <3>5
    <3> QED
      BY <3>3, <3>4, <3>5
  <2> QED
    BY <1>5, <2>1, <2>2, <2>3
<1>11. Api!PassedPageIsDelivered
  BY <1>0, <1>2, <1>5, <1>6 DEF Api!PassedPageIsDelivered
<1>12. Api!CycleIsComplete
  <2> SUFFICES ASSUME next.cycle > saved.cycle, ~changed, Api!Chained,
                      NEW u \in Api!Urls \ Foreign, NEW i \in 1..api[u].n
               PROVE  Api!Event(u, i, api[u], saved.cycle) \in delivered
    BY <1>2 DEF Api!CycleIsComplete
  <2>1. Ended
    BY <1>0, <1>4, <1>5
  <2>2. page = api[at.url]
    BY <1>1 DEF Fetched
  <2>3. u <= at.url
    BY <1>0, <1>4, <2>1, <2>2, ChainIs
  <2>4. u < at.url \/ u = at.url
    BY <1>4, <2>3, ApiIs
  <2>5. CASE u < at.url
    BY <1>0, <2>5 DEF RestInv, PagesBefore
  <2>6. CASE u = at.url
    BY <1>0, <1>6, <2>1, <2>2, <2>6
  <2> QED
    BY <2>4, <2>5, <2>6
<1> QED
  BY <1>2, <1>3, <1>7, <1>8, <1>9, <1>10, <1>11, <1>12 DEF RestInv, RestSafe

LEMMA RestStep ==
  ASSUME RestInv, [Api!Next]_(Api!vars)
  PROVE  RestInv' /\ RestSafe
<1>0. RestTypes
  BY DEF RestInv
<1>1. ASSUME UNCHANGED saved PROVE RestSafe
  BY <1>0, <1>1 DEF RestSafe, Api!PassedPageIsDelivered, Api!CycleIsComplete, RestTypes, Checkpoints
<1>2. ASSUME UNCHANGED <<api, changed, saved, delivered, passed>>, at' \in Checkpoints,
             emitted' \in Nat, emitted' <= ApiRecords,
             pc' = "idle" \/ (pc' = "request" /\ at' = saved)
      PROVE  RestInv'
  BY <1>2 DEF RestInv, RestTypes, PartIsDelivered, PassedAreDone, PagesBefore, Api!Event,
     Api!Chained
<1>3. CASE Api!Change
  <2>1. /\ changed' = TRUE /\ \E u \in Api!Urls, p \in Api!Page : api' = [api EXCEPT ![u] = p]
        /\ UNCHANGED <<saved, pc, at, emitted, page, pending, next, delivered, passed>>
    BY <1>3 DEF Api!Change, Api!locals
  <2>2. api' \in [Api!Urls -> Api!Page]
    BY <1>0, <2>1 DEF RestTypes
  <2>3. RestTypes' /\ PartIsDelivered' /\ PassedAreDone' /\ PagesBefore'
    BY <2>1, <2>2 DEF RestInv, RestTypes, PartIsDelivered, PassedAreDone, PagesBefore, Api!Event
  <2>4. ASSUME NEW s \in Nat, Fetched(s) PROVE Fetched(s)'
    <3>1. Emitted(s)'
      BY <2>1, <2>4 DEF Fetched, Emitted, Api!Event
    <3>2. Behind(s)' = Behind(s)
      BY <2>1 DEF Behind, Api!KeyType, Api!Beginning, Api!Checkpoint, Api!Completed
    <3> QED
      BY <2>1, <2>4, <3>1, <3>2 DEF Fetched
  <2> QED
    BY <1>1, <2>1, <2>3, <2>4 DEF RestInv
<1>4. CASE Api!Start
  <2>1. pc' = "request" /\ at' = saved /\ UNCHANGED <<api, changed, saved, delivered, passed, emitted>>
    BY <1>4 DEF Api!Start, Api!Resumed, Api!env
  <2> QED
    BY <1>0, <1>1, <1>2, <2>1 DEF RestTypes
<1>5. CASE Api!Retry
  <2>1. pc = "request" /\ UNCHANGED <<api, changed, saved, pc, at, delivered, passed, emitted>>
    BY <1>5 DEF Api!Retry, Api!env
  <2> QED
    BY <1>0, <1>1, <1>2, <2>1 DEF RestTypes, RestInv
<1>6. CASE Api!Refuse \/ Api!Crash
  <2>1. /\ pc' = "idle" /\ at' = Api!Beginning(0, NoType) /\ emitted' = 0
        /\ UNCHANGED <<api, changed, saved, delivered, passed>>
    BY <1>6 DEF Api!Refuse, Api!Crash, Api!Idle, Api!env
  <2>2. at' \in Checkpoints /\ emitted' \in Nat /\ emitted' <= ApiRecords
    BY <2>1, ApiIs DEF Api!Beginning, Api!Checkpoint, Checkpoints
  <2> QED
    BY <1>1, <1>2, <2>1, <2>2
<1>7. CASE Api!FetchPage
  BY <1>1, <1>7, RestFetches DEF Api!FetchPage
<1>8. CASE Api!Write
  BY <1>1, <1>8, RestWrites DEF Api!Write
<1>9. CASE Api!Save
  BY <1>9, RestSaves
<1>10. CASE UNCHANGED (Api!vars)
  <2>1. UNCHANGED <<api, changed, saved, pc, at, emitted, page, pending, next, delivered, passed>>
    BY <1>10 DEF Api!vars
  <2>2. ASSUME NEW s \in Nat, Fetched(s) PROVE Fetched(s)'
    <3>1. Emitted(s)' /\ Behind(s)' = Behind(s)
      BY <2>1, <2>2 DEF Fetched, Emitted, Api!Event, Behind, Api!KeyType, Api!Beginning,
         Api!Checkpoint, Api!Completed
    <3> QED
      BY <2>1, <2>2, <3>1 DEF Fetched
  <2> QED
    BY <1>1, <2>1, <2>2 DEF RestInv, RestTypes, PartIsDelivered, PassedAreDone, PagesBefore,
       Api!Event, Api!Chained
<1> QED
  BY <1>3, <1>4, <1>5, <1>6, <1>7, <1>8, <1>9, <1>10 DEF Api!Next, Api!Run

-------------------------------------------------------------------------------
(* A table read in upserting cycles                                        *)

Rows == [val : RowValues, cur : Nat]

CyclesTypes ==
  /\ table \in [Cycles!Keys -> Rows \cup {Absent}] /\ snap \in [Cycles!Keys -> Rows \cup {Absent}]
  /\ clock \in Nat /\ state \in [after : Nat, cycle : Nat]
  /\ after \in Nat /\ cycle \in Nat /\ emitted \in Nat
  /\ pc \in {"idle", "read", "write", "save"}

\* The rows up to a key that did not change in a cycle are among some events.
Settled(x, c, events) ==
  \A k \in Cycles!Keys \ dirty :
    table[k] # Absent /\ k <= x =>
      [key |-> k, val |-> table[k].val, cur |-> 0, cycle |-> c] \in events

\* The ledger of the current cycle says what the target holds.
LedgerIsTrue ==
  /\ \A e \in ledger : e.cycle \in Nat /\ e.cycle <= state.cycle
  /\ \A e \in ledger : e.cycle = state.cycle /\ e.key \in Cycles!Keys \ dirty =>
       e.val = table[e.key].val /\ target[e.key] = e.val
  /\ Settled(state.after, state.cycle, ledger)

\* A run within its cycle: what its StateMessages will claim is true.
ClaimsAreTrue ==
  /\ state.cycle = cycle
  /\ \A k \in Cycles!Keys \ dirty : snap[k] = table[k]
  /\ pc = "read" => after = state.after
  /\ pc = "write" => \A e \in page : e.key \in Cycles!Keys /\ e.cycle = cycle
                                      /\ e.val = snap[e.key].val
  /\ LET events == IF pc = "write" THEN ledger \cup page ELSE ledger
     IN  pc \in {"write", "save"} =>
           \/ next = <<>> /\ pc = "save" /\ after = state.after
           \/ next = <<Cycles!Position(after)>> /\ Settled(after, cycle, events)
           \/ /\ next = <<Cycles!Position(after), Cycles!EndOfCycle>> /\ last
              /\ Settled(after, cycle, events) /\ Settled(CycleRows, cycle, events)
           \/ /\ next = <<Cycles!EndOfCycle>> /\ last
              /\ Settled(CycleRows, cycle, events)

\* A run that has ended its cycle has nothing left to do.
CycleIsOver == state.cycle = cycle + 1 /\ pc = "save" /\ next = <<>> /\ last

CyclesInv ==
  /\ CyclesTypes /\ LedgerIsTrue
  /\ pc # "idle" => ClaimsAreTrue \/ CycleIsOver

LEMMA CyclesConstants ==
  /\ CycleRows \in Nat \ {0} /\ CyclePage \in Nat \ {0} /\ CycleRecords \in Nat
  /\ Cycles!Keys = 1..CycleRows
  BY ConstantsAreSound DEF Cycles!ConnectorAssumption, Cycles!Keys

LEMMA CyclesCardinality == \A S : Cycles!Cardinality(S) = Cardinality(S)
  BY DEF Cycles!Cardinality, Cardinality

LEMMA CyclesInit == ASSUME Cycles!Init PROVE CyclesInv
<1>1. /\ state = [after |-> 0, cycle |-> 0] /\ pc = "idle" /\ ledger = {} /\ dirty = Cycles!Keys
      /\ table = Cycles!NoRows /\ snap = Cycles!NoRows /\ clock = 0 /\ after = 0 /\ cycle = 0
      /\ emitted = 0
  BY DEF Cycles!Init
<1>2. CyclesTypes
  BY <1>1 DEF CyclesTypes, Cycles!NoRows
<1> QED
  BY <1>1, <1>2 DEF CyclesInv, LedgerIsTrue, Settled

LEMMA CyclesEmit == ASSUME CyclesInv, Cycles!EmitPage PROVE CyclesInv'
<1> DEFINE R == Cycles!Remaining
           P == Cycles!PageKeys
           o == [k \in Cycles!Keys |-> k]
<1>0. CyclesTypes /\ ClaimsAreTrue /\ LedgerIsTrue /\ pc = "read"
  BY DEF CyclesInv, Cycles!EmitPage, CycleIsOver
<1>1. /\ R = {k \in Cycles!Keys : snap[k] # Absent /\ k > after} /\ R # {}
      /\ P = {k \in R : Cardinality(Cycles!Before(k)) < Cycles!PageLimit}
      /\ \A k : Cycles!Before(k) = {j \in R : j < k}
      /\ Cycles!PageLimit \in Nat \ {0}
  <2>1. Cycles!PageLimit \in Int
    BY <1>0, CyclesConstants DEF Cycles!PageLimit, CyclesTypes
  <2>2. Cycles!PageLimit > 0 /\ R # {}
    BY DEF Cycles!EmitPage
  <2>3. R = {k \in Cycles!Keys : snap[k] # Absent /\ k > after}
    BY DEF Cycles!Remaining, Cycles!Order
  <2>4. P = {k \in R : Cardinality(Cycles!Before(k)) < Cycles!PageLimit}
    <3>1. P = {k \in R : Cycles!Cardinality(Cycles!Before(k)) < Cycles!PageLimit}
      BY DEF Cycles!PageKeys
    <3> HIDE DEF P, R
    <3> QED
      BY <3>1, CyclesCardinality
  <2>5. \A k : Cycles!Before(k) = {j \in R : j < k}
    BY DEF Cycles!Before, Cycles!Order
  <2> QED
    BY <2>1, <2>2, <2>3, <2>4, <2>5
<1>2. /\ P \in SUBSET R /\ P # {} /\ Cardinality(P) \in Nat
      /\ \A k \in R, m \in P : k <= m => k \in P
      /\ Cardinality(P) < Cycles!PageLimit => P = R
      /\ \E m \in P : \A k \in P : k <= m
  <2> DEFINE before == [k \in R |-> Cycles!Before(k)]
             W == Cycles!PageLimit
  <2>1. R \in SUBSET (1..CycleRows) /\ CycleRows \in Nat /\ \A k \in 1..CycleRows : o[k] = k
    BY <1>1, CyclesConstants
  <2>2. \A k \in R : k \in Cycles!Keys /\ before[k] = Cycles!Before(k)
    BY <1>1
  <2>3. P \in SUBSET R /\ \A k \in R : k \in P <=> Cardinality(before[k]) < W
    <3> HIDE DEF R, P, before
    <3> QED
      BY <1>1, <2>2
  <2>4. /\ o \in [1..CycleRows -> Nat] /\ before \in [R -> SUBSET R]
        /\ \A k \in R : \A j \in R : j \in before[k] <=> o[j] < o[k]
    <3>1. \A k \in R : before[k] = {j \in R : j < k}
      BY <1>1, <2>2
    <3>2. \A k \in R : o[k] = k
      BY <2>1
    <3>3. o \in [1..CycleRows -> Nat]
      BY CyclesConstants
    <3>4. before \in [R -> SUBSET R]
      <4> HIDE DEF R
      <4> QED
        BY <3>1
    <3> HIDE DEF R, before, o
    <3> QED
      BY <3>1, <3>2, <3>3, <3>4
  <2>5. R # {} /\ W \in Nat \ {0}
    BY <1>1
  <2> HIDE DEF R, P, o, W, before
  <2>6. IsPage(CycleRows, R, o, before, W, P)
    BY <2>1, <2>3, <2>4, <2>5 DEF IsPage
  <2>7. /\ P # {} /\ Cardinality(P) \in Nat
        /\ \A k \in R, m \in P : o[k] <= o[m] => k \in P
        /\ Cardinality(P) < W => P = R
        /\ \E m \in P : \A k \in P : o[k] <= o[m]
    BY <2>6, PageIs
  <2>8. \A k \in R : o[k] = k
    BY <2>1
  <2> QED
    BY <2>3, <2>7, <2>8 DEF W
<1> HIDE DEF o
<1>3. /\ page' = {Cycles!Event(k) : k \in P}
      /\ after' = Cycles!Max({k : k \in P})
      /\ emitted' = emitted + Cardinality(P)
      /\ \/ /\ ~(Cardinality(P) < Cycles!PageLimit)
            /\ next' = <<[after |-> after', cycle |-> cycle]>>
         \/ /\ Cardinality(P) < Cycles!PageLimit /\ last'
            /\ next' = <<[after |-> after', cycle |-> cycle], Cycles!EndOfCycle>>
      /\ pc' = "write" /\ UNCHANGED <<table, clock, dirty, state, snap, cycle, target, ledger>>
  <2> DEFINE S == {Cycles!Order(k, snap[k]) : k \in P}
             T == {k : k \in P}
  <2>1. S = T
    BY DEF Cycles!Order
  <2>2. after' = Cycles!Max(S)
    BY DEF Cycles!EmitPage
  <2>3. after' = Cycles!Max(T)
    <3> HIDE DEF S, T
    <3> QED
      BY <2>1, <2>2
  <2>4. \A S0 : Cycles!Cardinality(S0) = Cardinality(S0)
    BY CyclesCardinality
  <2>5. /\ page' = {Cycles!Event(k) : k \in P} /\ emitted' = emitted + Cycles!Cardinality(P)
        /\ \/ /\ ~(Cycles!Cardinality(P) < Cycles!PageLimit)
              /\ next' = <<[after |-> after', cycle |-> cycle]>>
           \/ /\ Cycles!Cardinality(P) < Cycles!PageLimit /\ last'
              /\ next' = <<[after |-> after', cycle |-> cycle], Cycles!EndOfCycle>>
        /\ pc' = "write" /\ UNCHANGED <<table, clock, dirty, state, snap, cycle, target, ledger>>
    BY DEF Cycles!EmitPage, Cycles!db, Cycles!sink, Cycles!Position
  <2> HIDE DEF P, T, S
  <2> QED
    BY <2>3, <2>4, <2>5 DEF T
<1>4. after' \in P /\ \A k \in P : k <= after'
  <2>1. {k : k \in P} = P /\ \A k \in P : k \in Nat
    <3>1. \A k \in R : k \in Nat
      BY <1>1, CyclesConstants
    <3>2. {k : k \in P} = P
      OBVIOUS
    <3> HIDE DEF P, R
    <3> QED
      BY <1>2, <3>1, <3>2
  <2>2. \E m \in P : \A k \in P : m >= k
    BY <1>2, <2>1
  <2>3. after' = CHOOSE m \in P : \A k \in P : m >= k
    BY <1>3, <2>1 DEF Cycles!Max
  <2> HIDE DEF P
  <2> QED
    BY <2>1, <2>2, <2>3
<1>5. \A k \in Cycles!Keys : Cycles!Event(k) = [key |-> k, val |-> snap[k].val, cur |-> 0, cycle |-> cycle]
  BY DEF Cycles!Event
<1>6. CyclesTypes'
  <2>1. after' \in Nat /\ emitted' \in Nat
    BY <1>0, <1>1, <1>2, <1>3, <1>4, CyclesConstants DEF CyclesTypes
  <2> QED
    BY <1>0, <1>3, <2>1 DEF CyclesTypes
<1>7. LedgerIsTrue'
  BY <1>0, <1>3 DEF LedgerIsTrue, Settled
<1>8. \A e \in page' : e.key \in Cycles!Keys /\ e.cycle = cycle /\ e.val = snap[e.key].val
  <2>1. \A k \in P : k \in Cycles!Keys
    BY <1>1, <1>2
  <2> HIDE DEF P
  <2>2. \A e \in page' : \E k \in Cycles!Keys :
          e = [key |-> k, val |-> snap[k].val, cur |-> 0, cycle |-> cycle]
    BY <1>3, <1>5, <2>1
  <2> QED
    BY <2>2
<1>9. ASSUME NEW k \in Cycles!Keys \ dirty, table[k] # Absent, k <= after' \/ P = R
      PROVE  [key |-> k, val |-> table[k].val, cur |-> 0, cycle |-> cycle] \in ledger \cup page'
  <2>1. snap[k] = table[k] /\ after = state.after /\ state.cycle = cycle
    BY <1>0 DEF ClaimsAreTrue
  <2>2. CASE k <= after
    BY <1>0, <1>9, <2>1, <2>2 DEF LedgerIsTrue, Settled
  <2>3. CASE k > after
    <3>1. k \in R
      BY <1>1, <1>9, <2>1, <2>3
    <3>2. k \in P
      BY <1>2, <1>4, <1>9, <3>1
    <3> QED
      BY <1>3, <1>5, <2>1, <3>2
  <2>4. k \in Int /\ after \in Int
    BY <1>0, CyclesConstants DEF CyclesTypes
  <2> QED
    BY <2>2, <2>3, <2>4
<1>10. Settled(after, cycle, ledger \cup page)'
  BY <1>3, <1>9 DEF Settled
<1>11. P = R => Settled(CycleRows, cycle, ledger \cup page)'
  BY <1>3, <1>9 DEF Settled
<1>12. ClaimsAreTrue'
  <2>1. /\ (state.cycle = cycle)' /\ (\A k \in Cycles!Keys \ dirty : snap[k] = table[k])'
        /\ pc' = "write"
    BY <1>0, <1>3 DEF ClaimsAreTrue
  <2>2. \/ (next = <<Cycles!Position(after)>>)'
        \/ (next = <<Cycles!Position(after), Cycles!EndOfCycle>>)' /\ last' /\ P = R
    BY <1>2, <1>3 DEF Cycles!Position, Cycles!EndOfCycle
  <2> QED
    BY <1>3, <1>8, <1>10, <1>11, <2>1, <2>2 DEF ClaimsAreTrue
<1> QED
  BY <1>6, <1>7, <1>12 DEF CyclesInv

LEMMA CyclesWrite == ASSUME CyclesInv, Cycles!Write PROVE CyclesInv'
<1> DEFINE new == page \ ledger
<1>0. CyclesTypes /\ ClaimsAreTrue /\ LedgerIsTrue /\ pc = "write"
  BY DEF CyclesInv, Cycles!Write, CycleIsOver
<1>1. /\ target' = [k \in Cycles!Keys |-> Cycles!Upserted(k)] /\ ledger' = ledger \cup page
      /\ pc' = "save"
      /\ UNCHANGED <<table, clock, dirty, state, snap, after, cycle, emitted, page, next, last>>
  BY DEF Cycles!Write, Cycles!Unrecorded, Cycles!db, Cycles!locals
<1>2. \A e \in new : e.key \in Cycles!Keys /\ e.cycle = cycle /\ e.val = snap[e.key].val
  BY <1>0 DEF ClaimsAreTrue
<1>3. ASSUME NEW k \in Cycles!Keys
      PROVE  target'[k] = IF \E e \in new : e.key = k THEN snap[k].val ELSE target[k]
  <2> DEFINE rows == {e \in new : e.key = k}
  <2>1. target'[k] = IF rows = {} THEN target[k] ELSE (CHOOSE e \in rows : TRUE).val
    BY <1>1 DEF Cycles!Upserted, Cycles!Unrecorded
  <2>2. \A e \in rows : e.val = snap[k].val
    BY <1>2
  <2>3. CASE \E e \in new : e.key = k
    <3>1. rows # {}
      BY <2>3
    <3>2. (CHOOSE e \in rows : TRUE) \in rows
      <4> HIDE DEF rows
      <4> QED
        BY <3>1
    <3> HIDE DEF rows
    <3> QED
      BY <2>1, <2>2, <2>3, <3>1, <3>2
  <2>4. CASE ~\E e \in new : e.key = k
    <3>1. rows = {}
      BY <2>4
    <3> HIDE DEF rows
    <3> QED
      BY <2>1, <2>4, <3>1
  <2> QED
    BY <2>3, <2>4
<1> HIDE DEF new
<1>4. CyclesTypes'
  BY <1>0, <1>1 DEF CyclesTypes
<1>5. state.cycle = cycle /\ cycle \in Nat /\ \A k \in Cycles!Keys \ dirty : snap[k] = table[k]
  BY <1>0 DEF ClaimsAreTrue, CyclesTypes
<1>6. ledger' = ledger \cup new
  BY <1>1 DEF new
<1>7. \A e \in ledger' : e.cycle \in Nat /\ e.cycle <= state.cycle
  BY <1>0, <1>2, <1>5, <1>6 DEF LedgerIsTrue
<1>8. ASSUME NEW e \in ledger', e.cycle = state.cycle, e.key \in Cycles!Keys \ dirty
      PROVE  e.val = table[e.key].val /\ target'[e.key] = e.val
  <2>1. snap[e.key] = table[e.key]
    BY <1>5, <1>8
  <2>2. CASE e \in new
    <3>1. e.val = table[e.key].val
      BY <1>2, <2>1, <2>2
    <3>2. target'[e.key] = snap[e.key].val
      BY <1>3, <1>8, <2>2
    <3> QED
      BY <2>1, <3>1, <3>2
  <2>3. CASE e \in ledger
    <3>1. e.val = table[e.key].val /\ target[e.key] = e.val
      BY <1>0, <1>8, <2>3 DEF LedgerIsTrue
    <3> QED
      BY <1>3, <1>8, <2>1, <3>1
  <2> QED
    BY <1>6, <1>8, <2>2, <2>3
<1>9. Settled(state.after, state.cycle, ledger)'
  BY <1>0, <1>1 DEF LedgerIsTrue, Settled
<1>10. LedgerIsTrue'
  BY <1>1, <1>7, <1>8, <1>9 DEF LedgerIsTrue
<1>11. ClaimsAreTrue'
  <2>1. Settled(after, cycle, ledger \cup page) => Settled(after, cycle, ledger)'
    BY <1>1 DEF Settled
  <2>2. Settled(CycleRows, cycle, ledger \cup page) => Settled(CycleRows, cycle, ledger)'
    BY <1>1 DEF Settled
  <2>3. \/ next = <<Cycles!Position(after)>> /\ Settled(after, cycle, ledger \cup page)
        \/ /\ next = <<Cycles!Position(after), Cycles!EndOfCycle>> /\ last
           /\ Settled(after, cycle, ledger \cup page) /\ Settled(CycleRows, cycle, ledger \cup page)
        \/ /\ next = <<Cycles!EndOfCycle>> /\ last
           /\ Settled(CycleRows, cycle, ledger \cup page)
    BY <1>0 DEF ClaimsAreTrue
  <2>4. \/ (next = <<Cycles!Position(after)>>)' /\ Settled(after, cycle, ledger)'
        \/ /\ (next = <<Cycles!Position(after), Cycles!EndOfCycle>>)' /\ last'
           /\ Settled(after, cycle, ledger)' /\ Settled(CycleRows, cycle, ledger)'
        \/ /\ (next = <<Cycles!EndOfCycle>>)' /\ last'
           /\ Settled(CycleRows, cycle, ledger)'
    BY <1>1, <2>1, <2>2, <2>3 DEF Cycles!Position, Cycles!EndOfCycle
  <2>5. (state.cycle = cycle)' /\ (\A k \in Cycles!Keys \ dirty : snap[k] = table[k])'
    BY <1>1, <1>5
  <2> QED
    BY <1>1, <2>4, <2>5 DEF ClaimsAreTrue
<1> QED
  BY <1>4, <1>10, <1>11 DEF CyclesInv

LEMMA CyclesSave == ASSUME CyclesInv, Cycles!Save PROVE CyclesInv' /\ Cycles!EndedCycleIsComplete
<1>0. CyclesTypes /\ LedgerIsTrue /\ pc = "save" /\ (ClaimsAreTrue \/ CycleIsOver)
  BY DEF CyclesInv, Cycles!Save
<1>1. UNCHANGED <<table, clock, target, ledger>>
  BY DEF Cycles!Save, Cycles!sink
<1>2. ASSUME next = <<>>, UNCHANGED state
      PROVE  Cycles!EndedCycleIsComplete
  BY <1>0, <1>2 DEF Cycles!EndedCycleIsComplete, CyclesTypes
<1>3. CASE next = <<>> /\ last
  <2>1. /\ pc' = "idle" /\ snap' = Cycles!NoRows /\ after' = 0 /\ cycle' = 0 /\ emitted' = 0
        /\ UNCHANGED <<state, dirty>>
    BY <1>3 DEF Cycles!Save, Cycles!Idle
  <2>2. CyclesTypes'
    BY <1>0, <1>1, <2>1 DEF CyclesTypes, Cycles!NoRows
  <2> QED
    BY <1>0, <1>1, <1>2, <1>3, <2>1, <2>2 DEF CyclesInv, LedgerIsTrue, Settled
<1>4. CASE next = <<>> /\ ~last
  <2>1. pc' = "read" /\ UNCHANGED <<state, dirty, snap, after, cycle, emitted, page, next, last>>
    BY <1>4 DEF Cycles!Save, Cycles!locals
  <2>2. ClaimsAreTrue /\ after = state.after
    BY <1>0, <1>4 DEF CycleIsOver, ClaimsAreTrue, Cycles!EndOfCycle
  <2>3. ClaimsAreTrue'
    BY <1>1, <2>1, <2>2 DEF ClaimsAreTrue
  <2> QED
    BY <1>0, <1>1, <1>2, <1>4, <2>1, <2>3 DEF CyclesInv, CyclesTypes, LedgerIsTrue, Settled
<1>5. CASE next # <<>>
  <2>1. /\ state' = Head(next) /\ next' = Tail(next)
        /\ dirty' = IF Head(next).cycle > state.cycle THEN {} ELSE dirty
        /\ UNCHANGED <<pc, snap, after, cycle, emitted, last>>
    BY <1>5 DEF Cycles!Save
  <2>2. ClaimsAreTrue /\ state.cycle = cycle /\ cycle \in Nat /\ after \in Nat
    BY <1>0, <1>5 DEF CycleIsOver, ClaimsAreTrue, CyclesTypes
  <2>3. CASE Head(next) = Cycles!Position(after)
    <3>1. /\ state' = [after |-> after, cycle |-> cycle] /\ UNCHANGED dirty
      BY <2>1, <2>2, <2>3 DEF Cycles!Position
    <3>2. CyclesTypes'
      BY <1>0, <1>1, <2>1, <2>2, <3>1 DEF CyclesTypes
    <3>3. Cycles!EndedCycleIsComplete
      BY <2>2, <3>1 DEF Cycles!EndedCycleIsComplete
    <3>4. Settled(after, cycle, ledger)
      BY <1>0, <1>5, <2>2, <2>3 DEF ClaimsAreTrue, Cycles!Position, Cycles!EndOfCycle
    <3>5. LedgerIsTrue'
      BY <1>0, <1>1, <2>2, <3>1, <3>4 DEF LedgerIsTrue, Settled
    <3>6. \/ next' = <<>>
          \/ /\ next' = <<Cycles!EndOfCycle>> /\ last /\ Settled(CycleRows, cycle, ledger)
      <4>1. Cycles!Position(after) # Cycles!EndOfCycle
        <5>1. Cycles!Position(after).cycle = cycle /\ Cycles!EndOfCycle.cycle = cycle + 1
          BY DEF Cycles!Position, Cycles!EndOfCycle
        <5> QED
          BY <2>2, <5>1
      <4>2. \A x, y : Head(<<x>>) = x /\ Tail(<<x>>) = <<>> /\ Tail(<<x, y>>) = <<y>>
        OBVIOUS
      <4>3. \/ next = <<Cycles!Position(after)>>
            \/ /\ next = <<Cycles!Position(after), Cycles!EndOfCycle>> /\ last
               /\ Settled(CycleRows, cycle, ledger)
        BY <1>0, <1>5, <2>2, <2>3, <4>1, <4>2 DEF ClaimsAreTrue
      <4> QED
        BY <2>1, <4>2, <4>3
    <3>7. ClaimsAreTrue'
      <4>1. (Settled(CycleRows, cycle, ledger) => Settled(CycleRows, cycle, ledger)')
            /\ Cycles!EndOfCycle' = Cycles!EndOfCycle
        BY <1>1, <2>1, <3>1 DEF Settled, Cycles!EndOfCycle
      <4>2. (state.cycle = cycle)' /\ (\A k \in Cycles!Keys \ dirty : snap[k] = table[k])'
            /\ (after = state.after)' /\ pc' = "save"
        BY <1>0, <1>1, <2>1, <2>2, <3>1 DEF ClaimsAreTrue
      <4> QED
        BY <2>1, <3>6, <4>1, <4>2 DEF ClaimsAreTrue
    <3> QED
      BY <3>2, <3>3, <3>5, <3>7 DEF CyclesInv
  <2>4. CASE Head(next) = Cycles!EndOfCycle
    <3>1. state' = [after |-> 0, cycle |-> cycle + 1]
      BY <2>1, <2>4 DEF Cycles!EndOfCycle
    <3>2. next = <<Cycles!EndOfCycle>> /\ last /\ Settled(CycleRows, cycle, ledger)
      <4>1. Cycles!Position(after) # Cycles!EndOfCycle
        <5>1. Cycles!Position(after).cycle = cycle /\ Cycles!EndOfCycle.cycle = cycle + 1
          BY DEF Cycles!Position, Cycles!EndOfCycle
        <5> QED
          BY <2>2, <5>1
      <4>2. Head(<<Cycles!Position(after)>>) = Cycles!Position(after)
            /\ Head(<<Cycles!Position(after), Cycles!EndOfCycle>>) = Cycles!Position(after)
        OBVIOUS
      <4> QED
        BY <1>0, <1>5, <2>2, <2>4, <4>1, <4>2 DEF ClaimsAreTrue
    <3>3. next' = <<>>
      BY <2>1, <3>2
    <3>4. CyclesTypes'
      BY <1>0, <1>1, <2>1, <2>2, <3>1 DEF CyclesTypes
    <3>5. LedgerIsTrue'
      <4>1. \A e \in ledger : e.cycle \in Nat /\ e.cycle <= cycle /\ e.cycle # cycle + 1
        BY <1>0, <2>2 DEF LedgerIsTrue
      <4>2. \A k \in Cycles!Keys : ~(k <= 0)
        BY CyclesConstants
      <4> QED
        BY <1>1, <2>2, <3>1, <4>1, <4>2 DEF LedgerIsTrue, Settled
    <3>6. CycleIsOver'
      BY <1>0, <2>1, <2>2, <3>1, <3>2, <3>3 DEF CycleIsOver
    <3>7. Cycles!EndedCycleIsComplete
      <4> SUFFICES ASSUME NEW k \in Cycles!Keys \ dirty, table[k] # Absent
                   PROVE  target[k] = table[k].val
        BY DEF Cycles!EndedCycleIsComplete
      <4> DEFINE e == [key |-> k, val |-> table[k].val, cur |-> 0, cycle |-> cycle]
      <4>1. k <= CycleRows
        BY CyclesConstants
      <4>2. e \in ledger
        BY <3>2, <4>1 DEF Settled
      <4>3. e.cycle = state.cycle /\ e.key = k /\ e.val = table[k].val
        BY <2>2
      <4> QED
        BY <1>0, <4>2, <4>3 DEF LedgerIsTrue
    <3> QED
      BY <3>4, <3>5, <3>6, <3>7 DEF CyclesInv
  <2> QED
    BY <1>0, <1>5, <2>2, <2>3, <2>4 DEF ClaimsAreTrue
<1> QED
  BY <1>3, <1>4, <1>5

LEMMA CyclesStep ==
  ASSUME CyclesInv, [Cycles!Next]_(Cycles!vars)
  PROVE  CyclesInv' /\ Cycles!EndedCycleIsComplete
<1>0. CyclesTypes /\ LedgerIsTrue /\ (pc # "idle" => ClaimsAreTrue \/ CycleIsOver)
  BY DEF CyclesInv
<1>1. ASSUME UNCHANGED state PROVE Cycles!EndedCycleIsComplete
  BY <1>0, <1>1 DEF Cycles!EndedCycleIsComplete, CyclesTypes
\* The source changes a row, or the destination is reset: those rows do not count.
<1>2. ASSUME UNCHANGED <<state, pc, snap, after, cycle, emitted, page, next, last>>,
             dirty \subseteq dirty', ledger' \subseteq ledger,
             \A k \in Cycles!Keys \ dirty' :
               table'[k] = table[k] /\ target'[k] = target[k] /\ ledger' = ledger,
             CyclesTypes'
      PROVE  CyclesInv'
  <2>1. \A k \in Cycles!Keys \ dirty' : k \in Cycles!Keys \ dirty
    BY <1>2
  <2>2. ASSUME NEW x, NEW c, Settled(x, c, ledger) PROVE Settled(x, c, ledger)'
    BY <1>2, <2>1, <2>2 DEF Settled
  <2>3. LedgerIsTrue'
    <3>1. \A e \in ledger' : e.cycle \in Nat /\ e.cycle <= state.cycle
      BY <1>0, <1>2 DEF LedgerIsTrue
    <3>2. \A e \in ledger' : e.cycle = state.cycle /\ e.key \in Cycles!Keys \ dirty' =>
            e.val = table'[e.key].val /\ target'[e.key] = e.val
      BY <1>0, <1>2, <2>1 DEF LedgerIsTrue
    <3>3. Settled(state.after, state.cycle, ledger)'
      BY <1>0, <1>2, <2>1 DEF LedgerIsTrue, Settled
    <3> QED
      BY <1>2, <3>1, <3>2, <3>3 DEF LedgerIsTrue
  <2>4. ASSUME ClaimsAreTrue PROVE ClaimsAreTrue'
    <3>1. \A k \in Cycles!Keys \ dirty' : snap[k] = table'[k]
      BY <1>2, <2>1, <2>4 DEF ClaimsAreTrue
    <3>2. ASSUME Settled(after, cycle, IF pc = "write" THEN ledger \cup page ELSE ledger)
          PROVE  Settled(after, cycle, IF pc = "write" THEN ledger \cup page ELSE ledger)'
      BY <1>2, <2>1, <3>2 DEF Settled
    <3>3. ASSUME Settled(CycleRows, cycle, IF pc = "write" THEN ledger \cup page ELSE ledger)
          PROVE  Settled(CycleRows, cycle, IF pc = "write" THEN ledger \cup page ELSE ledger)'
      BY <1>2, <2>1, <3>3 DEF Settled
    <3>4. Cycles!Position(after)' = Cycles!Position(after) /\ Cycles!EndOfCycle' = Cycles!EndOfCycle
      BY <1>2 DEF Cycles!Position, Cycles!EndOfCycle
    <3> QED
      BY <1>2, <2>4, <3>1, <3>2, <3>3, <3>4 DEF ClaimsAreTrue
  <2>5. CycleIsOver => CycleIsOver'
    BY <1>2 DEF CycleIsOver
  <2> QED
    BY <1>0, <1>2, <2>3, <2>4, <2>5 DEF CyclesInv
<1>3. CASE Cycles!Commit
  <2>1. PICK S \in SUBSET Cycles!Keys, v \in RowValues :
          /\ table' = [k \in Cycles!Keys |-> IF k \in S THEN [val |-> v, cur |-> clock + 1]
                                            ELSE table[k]]
          /\ dirty' = dirty \cup S
    BY <1>3 DEF Cycles!Commit
  <2>2. /\ clock' = clock + 1
        /\ UNCHANGED <<state, pc, snap, after, cycle, emitted, page, next, last, target, ledger>>
    BY <1>3 DEF Cycles!Commit, Cycles!locals, Cycles!sink
  <2>3. CyclesTypes'
    BY <1>0, <2>1, <2>2 DEF CyclesTypes, Rows
  <2>4. \A k \in Cycles!Keys \ dirty' : table'[k] = table[k]
    BY <2>1
  <2> QED
    BY <1>1, <1>2, <2>1, <2>2, <2>3, <2>4
<1>4. CASE Cycles!DeleteRow
  <2>1. PICK k \in Cycles!Keys : table' = [table EXCEPT ![k] = Absent] /\ dirty' = dirty \cup {k}
    BY <1>4 DEF Cycles!DeleteRow
  <2>2. /\ clock' = clock + 1
        /\ UNCHANGED <<state, pc, snap, after, cycle, emitted, page, next, last, target, ledger>>
    BY <1>4 DEF Cycles!DeleteRow, Cycles!locals, Cycles!sink
  <2>3. CyclesTypes'
    BY <1>0, <2>1, <2>2 DEF CyclesTypes
  <2>4. \A j \in Cycles!Keys \ dirty' : table'[j] = table[j]
    BY <1>0, <2>1 DEF CyclesTypes
  <2> QED
    BY <1>1, <1>2, <2>1, <2>2, <2>3, <2>4
<1>5. CASE Cycles!Reset
  <2>1. /\ ledger' = {} /\ dirty' = Cycles!Keys
        /\ UNCHANGED <<table, clock, state, pc, snap, after, cycle, emitted, page, next, last>>
    BY <1>5 DEF Cycles!Reset, Cycles!locals
  <2>2. CyclesTypes' /\ Cycles!Keys \ dirty' = {}
    BY <1>0, <2>1 DEF CyclesTypes
  <2>3. LedgerIsTrue'
    BY <2>1, <2>2 DEF LedgerIsTrue, Settled
  <2>4. ASSUME ClaimsAreTrue PROVE ClaimsAreTrue'
    <3>1. \A x, c, events : Settled(x, c, events)'
      BY <2>2 DEF Settled
    <3>2. Cycles!Position(after)' = Cycles!Position(after) /\ Cycles!EndOfCycle' = Cycles!EndOfCycle
      BY <2>1 DEF Cycles!Position, Cycles!EndOfCycle
    <3> QED
      BY <2>1, <2>2, <2>4, <3>1, <3>2 DEF ClaimsAreTrue
  <2>5. CycleIsOver => CycleIsOver'
    BY <2>1 DEF CycleIsOver
  <2> QED
    BY <1>0, <1>1, <2>1, <2>2, <2>3, <2>4, <2>5 DEF CyclesInv
<1>6. CASE Cycles!Start
  <2>1. /\ pc' = "read" /\ snap' = table /\ after' = state.after /\ cycle' = state.cycle
        /\ emitted' = 0 /\ UNCHANGED <<table, clock, dirty, state, target, ledger>>
    BY <1>6 DEF Cycles!Start, Cycles!db, Cycles!sink
  <2>2. CyclesTypes'
    BY <1>0, <2>1 DEF CyclesTypes
  <2> QED
    BY <1>0, <1>1, <2>1, <2>2 DEF CyclesInv, LedgerIsTrue, Settled, ClaimsAreTrue
<1>7. CASE Cycles!EmitPage
  BY <1>1, <1>7, CyclesEmit DEF Cycles!EmitPage
<1>8. CASE Cycles!EmptyPage
  <2>1. /\ pc = "read" /\ Cycles!Remaining = {} /\ next' = <<Cycles!EndOfCycle>> /\ last'
        /\ pc' = "save"
        /\ UNCHANGED <<table, clock, dirty, state, snap, after, cycle, emitted, page, target, ledger>>
    BY <1>8 DEF Cycles!EmptyPage, Cycles!db, Cycles!sink
  <2>2. ClaimsAreTrue
    BY <1>0, <2>1 DEF CycleIsOver
  <2>3. Settled(CycleRows, cycle, ledger)
    <3> SUFFICES ASSUME NEW k \in Cycles!Keys \ dirty, table[k] # Absent
                 PROVE  [key |-> k, val |-> table[k].val, cur |-> 0, cycle |-> cycle] \in ledger
      BY DEF Settled
    <3>1. snap[k] = table[k] /\ after = state.after /\ state.cycle = cycle
      BY <2>1, <2>2 DEF ClaimsAreTrue
    <3>2. ~(k > after) /\ k \in Int /\ after \in Int
      BY <1>0, <2>1, <3>1, CyclesConstants DEF Cycles!Remaining, Cycles!Order, CyclesTypes
    <3>3. k <= after
      BY <3>2
    <3> QED
      BY <1>0, <3>1, <3>3 DEF LedgerIsTrue, Settled
  <2>4. Settled(CycleRows, cycle, ledger)' /\ LedgerIsTrue' /\ CyclesTypes'
    BY <1>0, <2>1, <2>3 DEF Settled, LedgerIsTrue, CyclesTypes
  <2>5. (next = <<Cycles!EndOfCycle>>)'
    BY <2>1 DEF Cycles!EndOfCycle
  <2>6. ClaimsAreTrue'
    BY <2>1, <2>2, <2>4, <2>5 DEF ClaimsAreTrue
  <2> QED
    BY <1>1, <2>1, <2>4, <2>6 DEF CyclesInv
<1>9. CASE Cycles!RunBound \/ Cycles!Crash
  <2>1. /\ pc' = "idle" /\ snap' = Cycles!NoRows /\ after' = 0 /\ cycle' = 0 /\ emitted' = 0
        /\ UNCHANGED <<table, clock, dirty, state, target, ledger>>
    BY <1>9 DEF Cycles!RunBound, Cycles!Crash, Cycles!Idle, Cycles!db, Cycles!sink
  <2>2. CyclesTypes'
    BY <1>0, <2>1 DEF CyclesTypes, Cycles!NoRows
  <2> QED
    BY <1>0, <1>1, <2>1, <2>2 DEF CyclesInv, LedgerIsTrue, Settled
<1>10. CASE Cycles!Write
  BY <1>1, <1>10, CyclesWrite DEF Cycles!Write
<1>11. CASE Cycles!Save
  BY <1>11, CyclesSave
<1>12. CASE UNCHANGED (Cycles!vars)
  <2>1. UNCHANGED <<table, clock, dirty, state, pc, snap, after, cycle, emitted, page, next, last,
                    target, ledger>>
    BY <1>12 DEF Cycles!vars
  <2>2. CyclesTypes'
    BY <1>0, <2>1 DEF CyclesTypes
  <2> QED
    BY <1>1, <1>2, <2>1, <2>2
<1> QED
  BY <1>3, <1>4, <1>5, <1>6, <1>7, <1>8, <1>9, <1>10, <1>11, <1>12 DEF Cycles!Next, Cycles!Run

-------------------------------------------------------------------------------
(* A table read incrementally                                              *)

Events == [key : Incr!Keys, val : RowValues, cur : Nat, cycle : {0}]
EventOf(k, row) == [key |-> k, val |-> row.val, cur |-> row.cur, cycle |-> 0]
Place(k, row) == row.cur * (IncrRows + 1) + k

IncrTypes ==
  /\ table \in [Incr!Keys -> Rows \cup {Absent}] /\ snap \in [Incr!Keys -> Rows \cup {Absent}]
  /\ clock \in Nat /\ state \in [after : Nat, cycle : Nat] /\ after \in Nat /\ cycle \in Nat
  /\ emitted \in Nat
  /\ pc \in {"idle", "read", "write", "save"} /\ ledger \subseteq Events

\* The ledger knows no later version of a row, and no other one of the same commit.
TrueTo(events, rows) ==
  \A e \in events : rows[e.key] # Absent =>
    e.cur <= rows[e.key].cur /\ (e.cur = rows[e.key].cur => e.val = rows[e.key].val)

\* The target holds the latest version the ledger has.
LatestIsApplied ==
  \A e \in ledger : (\A d \in ledger : d.key = e.key => d.cur <= e.cur) => target[e.key] = e.val

\* The rows up to a place are among some events.
Covered(rows, x, events) ==
  \A k \in Incr!Keys : rows[k] # Absent /\ Place(k, rows[k]) <= x => EventOf(k, rows[k]) \in events

\* Nothing is behind the last commit.
Horizon(c) == c * (IncrRows + 1) + IncrRows
Committed(rows) == \A k \in Incr!Keys : rows[k] # Absent => rows[k].cur <= clock

\* A row that was committed after the run began is behind all that the run sees.
IsBehind(k, row) ==
  /\ Place(k, row) > state.after /\ Place(k, row) > after
  /\ \A j \in Incr!Keys : snap[j] # Absent => snap[j].cur < row.cur /\ Place(j, snap[j]) < Place(k, row)

IncrRun ==
  /\ after <= Horizon(clock) /\ Committed(snap) /\ TrueTo(ledger, snap)
  /\ \A k \in Incr!Keys : table[k] # Absent /\ table[k] # snap[k] => IsBehind(k, table[k])
  /\ pc = "read" => after = state.after
  /\ pc = "write" =>
       /\ next = <<Incr!Position(after)>>
       /\ \A e \in page : e.key \in Incr!Keys /\ snap[e.key] # Absent /\ e = EventOf(e.key, snap[e.key])
       /\ Covered(table, after, ledger \cup page)
  /\ pc = "save" =>
       \/ next = <<>> /\ after = state.after
       \/ next = <<Incr!Position(after)>> /\ Covered(table, after, ledger)

IncrInv ==
  /\ IncrTypes /\ Committed(table) /\ TrueTo(ledger, table)
  /\ \A e \in ledger : e.cur <= clock
  /\ LatestIsApplied /\ Covered(table, state.after, ledger) /\ state.after <= Horizon(clock)
  /\ pc # "idle" => IncrRun

LEMMA IncrConstants ==
  /\ IncrRows \in Nat \ {0} /\ IncrPage \in Nat \ {0} /\ IncrRecords \in Nat
  /\ Incr!Keys = 1..IncrRows
  BY ConstantsAreSound DEF Incr!ConnectorAssumption, Incr!Keys

\* The places of one commit are behind those of the commits before it.
LEMMA PlacesAre ==
  /\ \A k \in Incr!Keys, row \in Rows : Place(k, row) \in Nat
  /\ \A c \in Nat, k \in Incr!Keys, row \in Rows :
       /\ Horizon(c) \in Nat
       /\ row.cur <= c => Place(k, row) <= Horizon(c)
       /\ row.cur > c => Place(k, row) > Horizon(c)
<1> DEFINE M == IncrRows + 1
<1>1. /\ IncrRows \in Nat /\ M \in Nat
      /\ \A k \in Incr!Keys : k \in Nat /\ 1 <= k /\ k <= IncrRows
  BY IncrConstants
<1>2. \A row \in Rows : row.cur \in Nat
  BY DEF Rows
<1>3. \A a \in Nat : a * M \in Nat
  <2> HIDE DEF M
  <2> QED
    BY <1>1
<1>4. ASSUME NEW a \in Nat, NEW b \in Nat, a <= b PROVE a * M <= b * M
  <2>1. PICK d \in Nat : b = a + d
    <3>1. b - a \in Nat /\ b = a + (b - a)
      BY <1>4
    <3> QED
      BY <3>1
  <2>2. b * M = a * M + d * M
    <3> HIDE DEF M
    <3> QED
      BY <1>1, <2>1
  <2> HIDE DEF M
  <2>3. a * M \in Nat /\ d * M \in Nat
    BY <1>3
  <2> QED
    BY <2>2, <2>3
<1>5. \A c \in Nat : (c + 1) * M = c * M + M
  <2> HIDE DEF M
  <2> QED
    BY <1>1
<1>6. ASSUME NEW c \in Nat, NEW k \in Incr!Keys, NEW row \in Rows
      PROVE  /\ Place(k, row) \in Nat /\ Horizon(c) \in Nat
             /\ row.cur <= c => Place(k, row) <= Horizon(c)
             /\ row.cur > c => Place(k, row) > Horizon(c)
  <2> DEFINE x == row.cur
  <2>1. x \in Nat /\ k \in Nat /\ 1 <= k /\ k <= IncrRows
    BY <1>1, <1>2
  <2>2. Place(k, row) = x * M + k /\ Horizon(c) = c * M + IncrRows
    BY DEF Place, Horizon
  <2>3. x * M \in Nat /\ c * M \in Nat
    BY <1>3, <2>1
  <2>4. x <= c => x * M <= c * M
    BY <1>4, <2>1
  <2>5. x > c => (c + 1) * M <= x * M
    <3>1. c + 1 \in Nat /\ (x > c => c + 1 <= x)
      BY <2>1
    <3> HIDE DEF M, x
    <3> QED
      BY <1>4, <2>1, <3>1
  <2>6. (c + 1) * M = c * M + M
    BY <1>5
  <2>7. M = IncrRows + 1
    OBVIOUS
  <2> HIDE DEF M, x
  <2>8. x <= c => x * M + k <= c * M + IncrRows
    BY <1>1, <2>1, <2>3, <2>4
  <2>9. x > c => x * M + k > c * M + IncrRows
    <3> SUFFICES ASSUME x > c PROVE x * M + k > c * M + IncrRows
      OBVIOUS
    <3>1. c * M + M <= x * M
      BY <2>5, <2>6
    <3> QED
      BY <1>1, <2>1, <2>3, <2>7, <3>1
  <2>10. x * M + k \in Nat /\ c * M + IncrRows \in Nat
    BY <1>1, <2>1, <2>3
  <2> QED
    BY <2>2, <2>8, <2>9, <2>10 DEF x
<1>7. 0 \in Nat
  OBVIOUS
<1> QED
  BY <1>6, <1>7

LEMMA IncrInit == ASSUME Incr!Init PROVE IncrInv
<1>1. /\ state = [after |-> 0, cycle |-> 0] /\ pc = "idle" /\ ledger = {}
      /\ table = Incr!NoRows /\ snap = Incr!NoRows /\ clock = 0 /\ after = 0 /\ cycle = 0 /\ emitted = 0
  BY DEF Incr!Init
<1>2. IncrTypes
  BY <1>1 DEF IncrTypes, Incr!NoRows
<1>3. \A k \in Incr!Keys : table[k] = Absent
  BY <1>1 DEF Incr!NoRows
<1>4. state.after <= Horizon(clock)
  BY <1>1, IncrConstants DEF Horizon
<1> QED
  BY <1>1, <1>2, <1>3, <1>4 DEF IncrInv, Committed, TrueTo, LatestIsApplied, Covered

\* A transaction gives some rows its cursor, and takes away others.
LEMMA IncrMovesOn ==
  ASSUME IncrInv, table' \in [Incr!Keys -> Rows \cup {Absent}], clock' = clock + 1,
         \A k \in Incr!Keys :
           table'[k] # Absent => table'[k] = table[k] \/ table'[k].cur = clock + 1,
         UNCHANGED <<state, pc, snap, after, cycle, emitted, page, next, ledger, target>>
  PROVE  IncrInv'
<1>1. /\ IncrTypes /\ Committed(table) /\ TrueTo(ledger, table) /\ \A e \in ledger : e.cur <= clock
      /\ state.after <= Horizon(clock) /\ Covered(table, state.after, ledger) /\ LatestIsApplied
  BY DEF IncrInv
<1>2. /\ clock \in Nat /\ clock' \in Nat /\ \A e \in ledger : e.key \in Incr!Keys /\ e.cur \in Nat
      /\ state.after \in Nat /\ after \in Nat
  BY <1>1 DEF IncrTypes, Events
<1>3. IncrTypes'
  BY <1>1, <1>2 DEF IncrTypes
<1>4. \A rows : rows \in [Incr!Keys -> Rows \cup {Absent}] =>
        \A k \in Incr!Keys : rows[k] # Absent => rows[k] \in Rows /\ rows[k].cur \in Nat
  BY DEF Rows
<1>5. Committed(table)'
  BY <1>1, <1>2, <1>4 DEF Committed, IncrTypes
<1>6. TrueTo(ledger, table)'
  BY <1>1, <1>2 DEF TrueTo
<1>7. \A e \in ledger' : e.cur <= clock'
  BY <1>1, <1>2
<1>8. Horizon(clock) \in Nat /\ Horizon(clock') \in Nat /\ Horizon(clock) <= Horizon(clock')
  <2>1. IncrRows \in Nat
    BY IncrConstants
  <2>2. clock * (IncrRows + 1) \in Nat /\ (clock + 1) * (IncrRows + 1) = clock * (IncrRows + 1) + IncrRows + 1
    BY <1>2, <2>1
  <2> QED
    BY <2>1, <2>2 DEF Horizon
<1>9. ASSUME NEW k \in Incr!Keys, table'[k] # Absent, table'[k] # table[k]
      PROVE  Place(k, table'[k]) > Horizon(clock) /\ Place(k, table'[k]) \in Nat /\ table'[k].cur = clock + 1
  <2>1. table'[k] \in Rows /\ table'[k].cur > clock
    BY <1>2, <1>4, <1>9
  <2> QED
    BY <1>2, <1>9, <2>1, PlacesAre
<1>10. ASSUME NEW x \in Nat, x <= Horizon(clock), NEW events, Covered(table, x, events)
       PROVE  Covered(table', x, events)
  <2> SUFFICES ASSUME NEW k \in Incr!Keys, table'[k] # Absent, Place(k, table'[k]) <= x
               PROVE  EventOf(k, table'[k]) \in events
    BY DEF Covered
  <2>1. CASE table'[k] = table[k]
    BY <1>10, <2>1 DEF Covered
  <2>2. CASE table'[k] # table[k]
    BY <1>8, <1>9, <1>10, <2>2
  <2> QED
    BY <2>1, <2>2
<1>11. Covered(table, state.after, ledger)' /\ LatestIsApplied' /\ (state.after <= Horizon(clock))'
  BY <1>1, <1>2, <1>8, <1>10 DEF LatestIsApplied
<1>12. ASSUME pc # "idle" PROVE IncrRun'
  <2>1. IncrRun
    BY <1>12 DEF IncrInv
  <2>2. (after <= Horizon(clock))'
    BY <1>2, <1>8, <2>1 DEF IncrRun
  <2>3. \A j \in Incr!Keys : snap[j] # Absent => snap[j] \in Rows /\ snap[j].cur \in Nat /\ snap[j].cur <= clock
    BY <1>1, <1>4, <2>1 DEF IncrRun, Committed, IncrTypes
  <2>4. (Committed(snap) /\ TrueTo(ledger, snap))'
    BY <1>2, <2>1, <2>3 DEF IncrRun, Committed, TrueTo
  <2>5. ASSUME NEW k \in Incr!Keys, table'[k] # Absent, table'[k] # snap[k]
        PROVE  IsBehind(k, table'[k])
    <3>1. CASE table'[k] = table[k]
      BY <2>1, <2>5, <3>1 DEF IncrRun
    <3>2. CASE table'[k] # table[k]
      <4>1. Place(k, table'[k]) > Horizon(clock) /\ Place(k, table'[k]) \in Nat /\ table'[k].cur = clock + 1
        BY <1>9, <2>5, <3>2
      <4>2. Place(k, table'[k]) > state.after /\ Place(k, table'[k]) > after
        BY <1>1, <1>2, <1>8, <2>1, <4>1 DEF IncrRun
      <4>3. ASSUME NEW j \in Incr!Keys, snap[j] # Absent
            PROVE  snap[j].cur < table'[k].cur /\ Place(j, snap[j]) < Place(k, table'[k])
        <5>1. Place(j, snap[j]) \in Nat /\ Place(j, snap[j]) <= Horizon(clock)
          BY <1>2, <2>3, <4>3, PlacesAre
        <5> QED
          BY <1>2, <1>8, <2>3, <4>1, <4>3, <5>1
      <4> QED
        BY <4>2, <4>3 DEF IsBehind
    <3> QED
      BY <3>1, <3>2
  <2>6. after <= Horizon(clock)
    BY <2>1 DEF IncrRun
  <2>7. \A events : Covered(table, after, events) => Covered(table', after, events)
    BY <1>2, <1>10, <2>6
  <2>8. (\A k \in Incr!Keys : table[k] # Absent /\ table[k] # snap[k] => IsBehind(k, table[k]))'
    BY <2>5 DEF IsBehind
  <2>9. (pc = "read" => after = state.after)'
    BY <2>1 DEF IncrRun
  <2>10. (pc = "write" =>
            /\ next = <<Incr!Position(after)>>
            /\ \A e \in page : e.key \in Incr!Keys /\ snap[e.key] # Absent /\ e = EventOf(e.key, snap[e.key])
            /\ Covered(table, after, ledger \cup page))'
    <3> SUFFICES ASSUME pc = "write"
                 PROVE  /\ next = <<[after |-> after, cycle |-> cycle]>>
                        /\ \A e \in page : e.key \in Incr!Keys /\ snap[e.key] # Absent /\ e = EventOf(e.key, snap[e.key])
                        /\ Covered(table', after, ledger \cup page)
      BY DEF Incr!Position
    <3> QED
      BY <2>1, <2>7 DEF IncrRun, Incr!Position
  <2>11. (pc = "save" =>
            \/ next = <<>> /\ after = state.after
            \/ next = <<Incr!Position(after)>> /\ Covered(table, after, ledger))'
    BY <2>1, <2>7 DEF IncrRun, Incr!Position
  <2> QED
    BY <2>2, <2>4, <2>8, <2>9, <2>10, <2>11 DEF IncrRun
<1> QED
  BY <1>3, <1>5, <1>6, <1>7, <1>11, <1>12 DEF IncrInv

\* A page holds the first rows behind the run's place.
LEMMA IncrPageIs ==
  ASSUME IncrInv, Incr!EmitPage
  PROVE  /\ \A k \in Incr!PageKeys : k \in Incr!Keys /\ snap[k] # Absent
         /\ after' \in Nat /\ \E m \in Incr!PageKeys : after' = Place(m, snap[m])
         /\ \A k \in Incr!Keys :
              snap[k] # Absent /\ Place(k, snap[k]) > after /\ Place(k, snap[k]) <= after'
                => k \in Incr!PageKeys
         /\ emitted' \in Nat
<1> DEFINE R == Incr!Remaining
           P == Incr!PageKeys
           o == [k \in Incr!Keys |-> IF snap[k] # Absent THEN Place(k, snap[k]) ELSE 0]
           before == [k \in R |-> Incr!Before(k)]
           W == Incr!PageLimit
           S == {Place(k, snap[k]) : k \in P}
<1>0. IncrTypes /\ IncrRun /\ pc = "read"
  BY DEF IncrInv, Incr!EmitPage
<1>1. \A k \in Incr!Keys : snap[k] # Absent => Place(k, snap[k]) \in Nat
  BY <1>0, PlacesAre DEF IncrTypes
<1>2. /\ R = {k \in Incr!Keys : snap[k] # Absent /\ Place(k, snap[k]) > after} /\ R # {}
      /\ W \in Nat \ {0}
  <2>1. W \in Int
    BY <1>0, IncrConstants DEF Incr!PageLimit, IncrTypes
  <2>2. W > 0 /\ R # {}
    BY DEF Incr!EmitPage
  <2>3. R = {k \in Incr!Keys : snap[k] # Absent /\ Place(k, snap[k]) > after}
    BY DEF Incr!Remaining, Incr!Order, Place
  <2> QED
    BY <2>1, <2>2, <2>3
<1>3. \A k \in R : before[k] = {j \in R : Place(j, snap[j]) < Place(k, snap[k])}
  BY DEF Incr!Before, Incr!Order, Place
<1>4. P \in SUBSET R /\ \A k \in R : k \in P <=> Cardinality(before[k]) < W
  <2>1. \A S0 : Incr!Cardinality(S0) = Cardinality(S0)
    BY DEF Incr!Cardinality, Cardinality
  <2>2. P = {k \in R : Incr!Cardinality(Incr!Before(k)) < W}
    BY DEF Incr!PageKeys
  <2>3. \A k \in R : before[k] = Incr!Before(k)
    OBVIOUS
  <2> HIDE DEF P, R, before, W
  <2> QED
    BY <2>1, <2>2, <2>3
<1>5. \A k \in R : k \in Incr!Keys /\ o[k] = Place(k, snap[k]) /\ o[k] \in Nat /\ o[k] > after
  BY <1>1, <1>2
<1>6. /\ R \in SUBSET (1..IncrRows) /\ IncrRows \in Nat /\ o \in [1..IncrRows -> Nat]
      /\ before \in [R -> SUBSET R]
      /\ \A k \in R : \A j \in R : j \in before[k] <=> o[j] < o[k]
  <2>1. R \in SUBSET (1..IncrRows) /\ IncrRows \in Nat
    BY <1>2, IncrConstants
  <2>2. o \in [1..IncrRows -> Nat]
    BY <1>1, IncrConstants
  <2>3. before \in [R -> SUBSET R]
    <3>1. DOMAIN before = R /\ before = [k \in R |-> before[k]]
      OBVIOUS
    <3> HIDE DEF R, before
    <3> QED
      BY <1>3, <3>1
  <2>4. \A k \in R : \A j \in R : j \in before[k] <=> o[j] < o[k]
    <3> HIDE DEF R, before, o
    <3> QED
      BY <1>3, <1>5
  <2> QED
    BY <2>1, <2>2, <2>3, <2>4
<1> HIDE DEF R, P, o, before, W
<1>7. IsPage(IncrRows, R, o, before, W, P)
  BY <1>2, <1>4, <1>6 DEF IsPage
<1>8. /\ P # {} /\ Cardinality(P) \in Nat
      /\ \A k \in R, m \in P : o[k] <= o[m] => k \in P
      /\ \E m \in P : \A k \in P : o[k] <= o[m]
  BY <1>7, PageIs
<1>9. after' = Incr!Max(S) /\ emitted' = emitted + Cardinality(P)
  <2> DEFINE S1 == {Incr!Order(k, snap[k]) : k \in P}
  <2>1. S1 = S
    BY DEF Incr!Order, Place
  <2>2. after' = Incr!Max(S1) /\ emitted' = emitted + Incr!Cardinality(P)
    BY DEF Incr!EmitPage, P
  <2>3. Incr!Cardinality(P) = Cardinality(P)
    BY DEF Incr!Cardinality, Cardinality
  <2> HIDE DEF S1, S
  <2> QED
    BY <2>1, <2>2, <2>3
<1>10. \E m \in P : after' = o[m] /\ \A k \in P : o[k] <= o[m]
  <2>1. PICK m \in P : \A k \in P : o[k] <= o[m]
    BY <1>8
  <2>2. \A k \in P : k \in R /\ o[k] = Place(k, snap[k]) /\ o[k] \in Nat
    BY <1>4, <1>5
  <2>3. \A x \in S : \E k \in P : x = o[k]
    BY <2>2
  <2>4. \A k \in P : o[k] \in S
    BY <2>2
  <2>5. Incr!Max(S) = CHOOSE x \in S : \A y \in S : x >= y
    BY DEF Incr!Max
  <2> HIDE DEF S
  <2>6. \E x \in S : \A y \in S : x >= y
    BY <2>1, <2>2, <2>3, <2>4
  <2>7. after' \in S /\ \A y \in S : after' >= y
    BY <1>9, <2>5, <2>6
  <2>8. PICK n \in P : after' = o[n]
    BY <2>3, <2>7
  <2>9. \A k \in P : o[k] <= o[n]
    BY <2>2, <2>4, <2>7, <2>8
  <2> QED
    BY <2>8, <2>9
<1>11. emitted' \in Nat
  BY <1>0, <1>8, <1>9 DEF IncrTypes
<1>12. PICK m \in P : after' = o[m] /\ \A k \in P : o[k] <= o[m]
  BY <1>10
<1>13. after' \in Nat /\ after' = Place(m, snap[m])
  BY <1>4, <1>5, <1>12
<1>14. \A k \in P : k \in Incr!Keys /\ snap[k] # Absent
  BY <1>2, <1>4
<1>15. ASSUME NEW k \in Incr!Keys, snap[k] # Absent, Place(k, snap[k]) > after,
              Place(k, snap[k]) <= after'
       PROVE  k \in P
  <2>1. k \in R
    BY <1>2, <1>15
  <2>2. o[k] <= o[m]
    BY <1>5, <1>12, <1>15, <2>1
  <2> QED
    BY <1>8, <2>1, <2>2
<1> QED
  BY <1>11, <1>12, <1>13, <1>14, <1>15 DEF P

LEMMA IncrEmits == ASSUME IncrInv, Incr!EmitPage PROVE IncrInv'
<1>0. IncrTypes /\ IncrRun /\ pc = "read" /\ after = state.after
  BY DEF IncrInv, IncrRun, Incr!EmitPage
<1>1. /\ page' = {Incr!Event(k) : k \in Incr!PageKeys}
      /\ next' = <<[after |-> after', cycle |-> cycle]>> /\ pc' = "write"
      /\ UNCHANGED <<table, clock, state, snap, cycle, target, ledger>>
  BY DEF Incr!EmitPage, Incr!db, Incr!sink, Incr!Position
<1>2. /\ \A k \in Incr!PageKeys : k \in Incr!Keys /\ snap[k] # Absent
      /\ after' \in Nat /\ emitted' \in Nat
      /\ \A k \in Incr!Keys :
           snap[k] # Absent /\ Place(k, snap[k]) > after /\ Place(k, snap[k]) <= after'
             => k \in Incr!PageKeys
  BY IncrPageIs
<1>3. PICK m \in Incr!PageKeys : after' = Place(m, snap[m])
  BY IncrPageIs
<1>4. m \in Incr!Keys /\ snap[m] # Absent /\ snap[m] \in Rows
  BY <1>0, <1>2, <1>3 DEF IncrTypes
<1>5. \A k \in Incr!Keys : Incr!Event(k) = EventOf(k, snap[k])
  BY DEF Incr!Event, EventOf
<1>6. IncrTypes'
  BY <1>0, <1>1, <1>2 DEF IncrTypes
<1>7. after' <= Horizon(clock)
  BY <1>0, <1>3, <1>4, PlacesAre DEF IncrRun, Committed, IncrTypes
<1>8. \A e \in page' : e.key \in Incr!Keys /\ snap[e.key] # Absent /\ e = EventOf(e.key, snap[e.key])
  <2> SUFFICES ASSUME NEW k \in Incr!PageKeys
               PROVE  LET e == Incr!Event(k)
                      IN  e.key \in Incr!Keys /\ snap[e.key] # Absent /\ e = EventOf(e.key, snap[e.key])
    BY <1>1
  <2>1. k \in Incr!Keys /\ snap[k] # Absent /\ Incr!Event(k) = EventOf(k, snap[k])
    BY <1>2, <1>5
  <2>2. EventOf(k, snap[k]).key = k
    BY DEF EventOf
  <2> QED
    BY <2>1, <2>2
<1>9. ASSUME NEW k \in Incr!Keys, table[k] # Absent, Place(k, table[k]) <= after'
      PROVE  EventOf(k, table[k]) \in ledger \cup page'
  <2>1. table[k] = snap[k]
    <3> SUFFICES ASSUME table[k] # snap[k] PROVE FALSE
      OBVIOUS
    <3>1. Place(m, snap[m]) < Place(k, table[k])
      BY <1>0, <1>4, <1>9 DEF IncrRun, IsBehind
    <3>2. Place(k, table[k]) \in Nat
      BY <1>0, <1>9, PlacesAre DEF IncrTypes
    <3>3. Place(m, snap[m]) \in Nat
      BY <1>4, PlacesAre
    <3> QED
      BY <1>3, <1>9, <3>1, <3>2, <3>3
  <2>2. CASE Place(k, snap[k]) > after
    <3>1. k \in Incr!PageKeys
      BY <1>2, <1>9, <2>1, <2>2
    <3>2. EventOf(k, table[k]) \in page'
      BY <1>1, <1>5, <2>1, <3>1
    <3> QED
      BY <3>2
  <2>3. CASE ~(Place(k, snap[k]) > after)
    <3>1. Place(k, table[k]) <= state.after
      <4>1. Place(k, table[k]) \in Nat /\ after \in Nat
        BY <1>0, <1>9, PlacesAre DEF IncrTypes
      <4> QED
        BY <1>0, <2>1, <2>3, <4>1
    <3> QED
      BY <1>9, <3>1 DEF IncrInv, Covered
  <2> QED
    BY <2>2, <2>3
<1>10. Covered(table, after, ledger \cup page)'
  BY <1>1, <1>9 DEF Covered
<1>11. (\A k \in Incr!Keys : table[k] # Absent /\ table[k] # snap[k] => IsBehind(k, table[k]))'
  <2> SUFFICES ASSUME NEW k \in Incr!Keys, table[k] # Absent, table[k] # snap[k]
               PROVE  IsBehind(k, table[k])'
    BY <1>1
  <2>1. IsBehind(k, table[k])
    BY <1>0 DEF IncrRun
  <2>2. Place(k, table[k]) > after'
    BY <1>3, <1>4, <2>1, PlacesAre, <1>0 DEF IsBehind, IncrTypes
  <2> QED
    BY <1>1, <2>1, <2>2 DEF IsBehind, Place
<1>12. IncrRun'
  <2>1. (Committed(snap) /\ TrueTo(ledger, snap))' /\ (after <= Horizon(clock))'
    BY <1>0, <1>1, <1>7 DEF IncrRun, Committed, TrueTo, Horizon
  <2>2. (pc = "write" => next = <<Incr!Position(after)>>)' /\ pc' # "read" /\ pc' # "save"
    BY <1>1 DEF Incr!Position
  <2>3. (\A e \in page : e.key \in Incr!Keys /\ snap[e.key] # Absent /\ e = EventOf(e.key, snap[e.key]))'
    BY <1>1, <1>8
  <2> QED
    BY <1>10, <1>11, <2>1, <2>2, <2>3 DEF IncrRun
<1> QED
  BY <1>1, <1>6, <1>12 DEF IncrInv, Committed, TrueTo, LatestIsApplied, Covered, Horizon

LEMMA IncrWrites == ASSUME IncrInv, Incr!Write PROVE IncrInv'
<1> DEFINE new == page \ ledger
<1>0. /\ IncrTypes /\ IncrRun /\ pc = "write" /\ LatestIsApplied /\ TrueTo(ledger, table)
      /\ \A e \in ledger : e.cur <= clock
      /\ next = <<Incr!Position(after)>> /\ Covered(table, after, ledger \cup page)
  BY DEF IncrInv, IncrRun, Incr!Write
<1>1. /\ target' = [k \in Incr!Keys |-> Incr!Upserted(k)] /\ ledger' = ledger \cup page
      /\ pc' = "save"
      /\ UNCHANGED <<table, clock, state, snap, after, cycle, emitted, page, next, last>>
  BY DEF Incr!Write, Incr!Unrecorded, Incr!db, Incr!locals
<1>2. \A e \in page : /\ e.key \in Incr!Keys /\ snap[e.key] # Absent
                      /\ e = EventOf(e.key, snap[e.key])
  BY <1>0 DEF IncrRun
<1>3. \A e \in page : /\ e.cur = snap[e.key].cur /\ e.val = snap[e.key].val /\ e \in Events
                      /\ e.cur <= clock
  <2> SUFFICES ASSUME NEW e \in page
               PROVE  /\ e.cur = snap[e.key].cur /\ e.val = snap[e.key].val /\ e \in Events
                      /\ e.cur <= clock
    OBVIOUS
  <2>1. snap[e.key] \in Rows /\ snap[e.key].cur <= clock
    BY <1>0, <1>2 DEF IncrTypes, IncrRun, Committed
  <2>2. /\ EventOf(e.key, snap[e.key]).cur = snap[e.key].cur
        /\ EventOf(e.key, snap[e.key]).val = snap[e.key].val
        /\ EventOf(e.key, snap[e.key]) \in Events
    BY <1>2, <2>1 DEF EventOf, Events, Rows
  <2> QED
    BY <1>2, <2>1, <2>2
<1>4. \A e, d \in page : e.key = d.key => e = d
  BY <1>2
<1>5. ASSUME NEW k \in Incr!Keys
      PROVE  target'[k] = IF \E e \in new : e.key = k THEN snap[k].val ELSE target[k]
  <2> DEFINE rows == {e \in new : e.key = k}
  <2>1. target'[k] = IF rows = {} THEN target[k] ELSE (CHOOSE e \in rows : TRUE).val
    BY <1>1 DEF Incr!Upserted, Incr!Unrecorded
  <2>2. \A e \in rows : e.val = snap[k].val
    BY <1>3
  <2>3. CASE rows # {}
    <3>1. (CHOOSE e \in rows : TRUE) \in rows
      <4> HIDE DEF rows
      <4> QED
        BY <2>3
    <3>2. \E e \in new : e.key = k
      BY <2>3
    <3> HIDE DEF rows
    <3> QED
      BY <2>1, <2>2, <2>3, <3>1, <3>2
  <2>4. CASE rows = {}
    <3>1. ~\E e \in new : e.key = k
      BY <2>4
    <3> HIDE DEF rows
    <3> QED
      BY <2>1, <2>4, <3>1
  <2> QED
    BY <2>3, <2>4
<1>6. /\ TrueTo(ledger, snap) /\ ledger \subseteq Events
      /\ \A e \in ledger : e.key \in Incr!Keys /\ e.cur \in Nat
  BY <1>0 DEF IncrTypes, IncrRun, Events
<1>7. IncrTypes'
  BY <1>0, <1>1, <1>3, <1>6 DEF IncrTypes
<1>8. \A e \in ledger' : e.cur <= clock
  BY <1>0, <1>1, <1>3
<1>9. TrueTo(ledger, snap)'
  <2> SUFFICES ASSUME NEW e \in ledger \cup page, snap[e.key] # Absent
               PROVE  e.cur <= snap[e.key].cur /\ (e.cur = snap[e.key].cur => e.val = snap[e.key].val)
    BY <1>1 DEF TrueTo
  <2>1. CASE e \in page
    BY <1>3, <2>1 DEF Events
  <2> QED
    BY <1>6, <2>1 DEF TrueTo
<1>10. TrueTo(ledger, table)'
  <2> SUFFICES ASSUME NEW e \in page, table[e.key] # Absent
               PROVE  e.cur <= table[e.key].cur /\ (e.cur = table[e.key].cur => e.val = table[e.key].val)
    BY <1>0, <1>1 DEF TrueTo
  <2>1. e.key \in Incr!Keys /\ snap[e.key] # Absent /\ e.cur = snap[e.key].cur /\ e.val = snap[e.key].val
        /\ e.cur \in Nat
    BY <1>2, <1>3 DEF Events
  <2>2. CASE table[e.key] = snap[e.key]
    BY <2>1, <2>2
  <2>3. CASE table[e.key] # snap[e.key]
    <3>1. e.cur < table[e.key].cur /\ table[e.key].cur \in Nat
      BY <1>0, <2>1, <2>3 DEF IncrRun, IsBehind, IncrTypes, Rows
    <3> QED
      BY <2>1, <3>1
  <2> QED
    BY <2>2, <2>3
<1> HIDE DEF new
<1>11. LatestIsApplied'
  <2> SUFFICES ASSUME NEW e \in ledger \cup page,
                      \A d \in ledger \cup page : d.key = e.key => d.cur <= e.cur
               PROVE  target'[e.key] = e.val
    BY <1>1 DEF LatestIsApplied
  <2>1. e \in Events /\ e.key \in Incr!Keys /\ e.cur \in Nat
    BY <1>3, <1>6 DEF Events
  <2>2. CASE \E p \in page : p.key = e.key
    <3>1. PICK p \in page : p.key = e.key
      BY <2>2
    <3>2. p.cur <= e.cur /\ p.cur = snap[e.key].cur /\ p.val = snap[e.key].val /\ snap[e.key] # Absent
          /\ p.cur \in Nat
      BY <1>2, <1>3, <3>1 DEF Events
    <3>3. e.val = snap[e.key].val
      <4>1. CASE e \in page
        BY <1>3, <4>1
      <4>2. CASE e \in ledger
        BY <1>6, <2>1, <3>2, <4>2 DEF TrueTo
      <4> QED
        BY <4>1, <4>2
    <3>4. CASE \E d \in new : d.key = e.key
      BY <1>5, <2>1, <3>3, <3>4
    <3>5. CASE ~\E d \in new : d.key = e.key
      <4>1. p \in ledger
        BY <3>1, <3>5 DEF new
      <4>2. p.cur <= e.cur /\ \A d \in ledger : d.key = p.key => d.cur <= p.cur
        BY <1>6, <3>1, <3>2 DEF TrueTo
      <4>3. target[p.key] = p.val
        BY <1>0, <4>1, <4>2 DEF LatestIsApplied
      <4> QED
        BY <1>5, <2>1, <3>1, <3>2, <3>3, <3>5, <4>3
    <3> QED
      BY <3>4, <3>5
  <2>3. CASE ~\E p \in page : p.key = e.key
    <3>1. e \in ledger /\ ~\E d \in new : d.key = e.key
      BY <2>3 DEF new
    <3>2. target[e.key] = e.val
      BY <1>0, <3>1 DEF LatestIsApplied
    <3> QED
      BY <1>5, <2>1, <3>1, <3>2
  <2> QED
    BY <2>2, <2>3
<1>12. IncrRun'
  <2>1. (after <= Horizon(clock) /\ Committed(snap))'
    BY <1>0, <1>1 DEF IncrRun, Committed, Horizon
  <2>2. (\A k \in Incr!Keys : table[k] # Absent /\ table[k] # snap[k] => IsBehind(k, table[k]))'
    BY <1>0, <1>1 DEF IncrRun, IsBehind, Place
  <2>3. (next = <<Incr!Position(after)>> /\ Covered(table, after, ledger))'
    BY <1>0, <1>1 DEF Covered, Incr!Position
  <2> QED
    BY <1>1, <1>9, <2>1, <2>2, <2>3 DEF IncrRun
<1>13. (Committed(table) /\ Covered(table, state.after, ledger) /\ state.after <= Horizon(clock))'
  BY <1>1 DEF IncrInv, Committed, Covered, Horizon
<1> QED
  BY <1>1, <1>7, <1>8, <1>10, <1>11, <1>12, <1>13 DEF IncrInv

LEMMA IncrStep ==
  ASSUME IncrInv, [Incr!Next]_(Incr!vars)
  PROVE  IncrInv'
<1> USE DEF Incr!db, Incr!sink, Incr!locals
<1>1. CASE Incr!Commit
  <2>1. /\ clock' = clock + 1
        /\ UNCHANGED <<state, pc, snap, after, cycle, emitted, page, next, ledger, target>>
    BY <1>1 DEF Incr!Commit
  <2>2. PICK S \in SUBSET Incr!Keys, v \in RowValues :
          table' = [k \in Incr!Keys |-> IF k \in S THEN [val |-> v, cur |-> clock + 1] ELSE table[k]]
    BY <1>1 DEF Incr!Commit
  <2>3. table \in [Incr!Keys -> Rows \cup {Absent}] /\ [val |-> v, cur |-> clock + 1] \in Rows
    BY DEF IncrInv, IncrTypes, Rows
  <2>4. /\ table' \in [Incr!Keys -> Rows \cup {Absent}]
        /\ \A k \in Incr!Keys : table'[k] = table[k] \/ table'[k].cur = clock + 1
    BY <2>2, <2>3
  <2> QED
    BY <2>1, <2>4, IncrMovesOn
<1>2. CASE Incr!DeleteRow
  <2>1. /\ clock' = clock + 1
        /\ UNCHANGED <<state, pc, snap, after, cycle, emitted, page, next, ledger, target>>
    BY <1>2 DEF Incr!DeleteRow
  <2>2. PICK k \in Incr!Keys : table' = [table EXCEPT ![k] = Absent]
    BY <1>2 DEF Incr!DeleteRow
  <2>3. table \in [Incr!Keys -> Rows \cup {Absent}]
    BY DEF IncrInv, IncrTypes
  <2>4. /\ table' \in [Incr!Keys -> Rows \cup {Absent}]
        /\ \A j \in Incr!Keys : table'[j] # Absent => table'[j] = table[j] \/ table'[j].cur = clock + 1
    BY <2>2, <2>3
  <2> QED
    BY <2>1, <2>4, IncrMovesOn
<1>3. CASE Incr!Start
  <2>1. /\ pc' = "read" /\ snap' = table /\ after' = state.after /\ cycle' = state.cycle /\ emitted' = 0
        /\ UNCHANGED <<table, clock, state, target, ledger>>
    BY <1>3 DEF Incr!Start
  <2>2. IncrTypes'
    BY <2>1 DEF IncrInv, IncrTypes
  <2>3. IncrRun'
    BY <2>1 DEF IncrInv, IncrRun, Committed, TrueTo, Horizon
  <2> QED
    BY <2>1, <2>2, <2>3 DEF IncrInv, Committed, TrueTo, LatestIsApplied, Covered, Horizon
<1>4. CASE Incr!EmitPage
  BY <1>4, IncrEmits
<1>5. CASE Incr!Write
  BY <1>5, IncrWrites
<1>6. ASSUME UNCHANGED <<table, clock, state, target, ledger>>, pc' = "idle", snap' = Incr!NoRows,
             after' = 0, cycle' = 0, emitted' = 0
      PROVE  IncrInv'
  <2>1. IncrTypes'
    BY <1>6 DEF IncrInv, IncrTypes, Incr!NoRows
  <2> QED
    BY <1>6, <2>1 DEF IncrInv, Committed, TrueTo, LatestIsApplied, Covered, Horizon
<1>7. CASE Incr!EmptyPage
  <2>1. /\ pc = "read" /\ pc' = "save" /\ next' = <<>>
        /\ UNCHANGED <<table, clock, state, snap, after, cycle, emitted, page, target, ledger>>
    BY <1>7 DEF Incr!EmptyPage
  <2>2. IncrTypes'
    BY <2>1 DEF IncrInv, IncrTypes
  <2>3. IncrRun'
    BY <2>1 DEF IncrInv, IncrRun, Committed, TrueTo, Horizon, IsBehind, Place
  <2> QED
    BY <2>1, <2>2, <2>3 DEF IncrInv, Committed, TrueTo, LatestIsApplied, Covered, Horizon
<1>8. CASE Incr!RunBound
  BY <1>6, <1>8 DEF Incr!RunBound, Incr!Idle
<1>9. CASE Incr!Crash
  BY <1>6, <1>9 DEF Incr!Crash, Incr!Idle
<1>10. CASE Incr!Reset
  BY <1>10 DEF Incr!Reset
<1>11. CASE Incr!Save
  <2>1. pc = "save" /\ IncrRun /\ UNCHANGED <<table, clock, target, ledger>>
    BY <1>11 DEF Incr!Save, IncrInv
  <2>2. CASE next = <<>> /\ last
    BY <1>6, <1>11, <2>1, <2>2 DEF Incr!Save, Incr!Idle
  <2>3. CASE next = <<>> /\ ~last
    <3>1. pc' = "read" /\ UNCHANGED <<state, snap, after, cycle, emitted, page, next>> /\ after = state.after
      BY <1>11, <2>1, <2>3 DEF Incr!Save, IncrRun, Incr!Position
    <3>2. IncrTypes'
      BY <2>1, <3>1 DEF IncrInv, IncrTypes
    <3>3. IncrRun'
      BY <2>1, <3>1 DEF IncrRun, Committed, TrueTo, Horizon, IsBehind, Place
    <3> QED
      BY <2>1, <3>1, <3>2, <3>3 DEF IncrInv, Committed, TrueTo, LatestIsApplied, Covered, Horizon
  <2>4. CASE next # <<>>
    <3>1. next = <<Incr!Position(after)>> /\ Covered(table, after, ledger) /\ after <= Horizon(clock)
      BY <2>1, <2>4 DEF IncrRun
    <3>2. state' = [after |-> after, cycle |-> cycle] /\ next' = <<>>
          /\ UNCHANGED <<pc, snap, after, cycle, emitted>>
      BY <1>11, <2>4, <3>1 DEF Incr!Save, Incr!Position
    <3>3. IncrTypes'
      <4>1. state'.after = after /\ state' \in [after : Nat, cycle : Nat]
        BY <3>2 DEF IncrInv, IncrTypes
      <4> QED
        BY <2>1, <3>2, <4>1 DEF IncrInv, IncrTypes
    <3>4. IncrRun'
      BY <2>1, <3>2 DEF IncrRun, Committed, TrueTo, Horizon, IsBehind, Place
    <3> QED
      BY <2>1, <3>1, <3>2, <3>3, <3>4 DEF IncrInv, Committed, TrueTo, LatestIsApplied, Covered, Horizon
  <2> QED
    BY <2>2, <2>3, <2>4
<1>13. CASE UNCHANGED (Incr!vars)
  BY <1>13 DEF Incr!vars, IncrInv, IncrTypes, IncrRun, Committed, TrueTo, LatestIsApplied, Covered,
     Horizon, IsBehind, Place, Incr!Position
<1> QED
  BY <1>1, <1>2, <1>3, <1>4, <1>5, <1>7, <1>8, <1>9, <1>10, <1>11, <1>13 DEF Incr!Next, Incr!Run

\* Every row the checkpoint has passed is in the target with its value.
LEMMA IncrSafe == ASSUME IncrInv PROVE Incr!CheckpointedRowsAreApplied
<1> SUFFICES ASSUME NEW k \in Incr!Keys, table[k] # Absent, Incr!Order(k, table[k]) <= state.after
             PROVE  target[k] = table[k].val
  BY DEF Incr!CheckpointedRowsAreApplied
<1>1. EventOf(k, table[k]) \in ledger
  BY DEF IncrInv, Covered, Place, Incr!Order
<1>2. /\ EventOf(k, table[k]).key = k /\ EventOf(k, table[k]).cur = table[k].cur
      /\ EventOf(k, table[k]).val = table[k].val
  BY DEF EventOf
<1>3. \A d \in ledger : d.key = k => d.cur <= table[k].cur
  BY DEF IncrInv, TrueTo
<1> QED
  BY <1>1, <1>2, <1>3 DEF IncrInv, LatestIsApplied

-------------------------------------------------------------------------------
(* A channel                                                               *)

\* What a checkpoint, or a reader at such a place, promises of the destination: all up
\* to its floor is there, and all between its place and its watermark.
Walked(before, floor, high, d) ==
  /\ floor \in Nat /\ floor <= newest
  /\ before \in Nat \cup {None} /\ high \in Nat \cup {None}
  /\ before = None <=> high = None
  /\ high # None => high <= newest
  /\ \A m \in channel : m <= floor => m \in d
  /\ \A m \in channel : before # None /\ before <= m /\ m <= high => m \in d

FloorOf(c) == IF c.floor # 0 THEN c.floor ELSE c.last

WalkedTo(c, d) ==
  /\ c.last \in Nat /\ (c.before # None => c.last = 0) /\ (c.before = None => c.floor = 0)
  /\ Walked(c.before, FloorOf(c), c.high, d)

ChannelInv ==
  /\ newest \in Nat /\ newest <= ChannelIds /\ channel \subseteq 1..newest
  /\ WalkedTo(state, dest)
  /\ pc \in {"idle", "request", "write", "save"}
  /\ {"before", "floor", "high"} = DOMAIN at
  /\ pc = "request" => Walked(at.before, at.floor, at.high, dest)
  /\ pc \in {"write", "save"} =>
       /\ WalkedTo(message, IF pc = "write" THEN dest \cup page ELSE dest)
       /\ ~returns => /\ at.before = message.before /\ at.floor = FloorOf(message)
                      /\ at.high = message.high

LEMMA ChannelConstants ==
  /\ ChannelPage \in Nat \ {0} /\ ChannelIds \in Nat /\ None \notin Nat
  BY ConstantsAreSound DEF Discord!DiscordAssumption, TwoFiles!DocumentAssumption

LEMMA ChannelInit == ASSUME Discord!Init PROVE ChannelInv
<1>1. /\ newest \in 0..ChannelIds /\ channel = 1..newest /\ pc = "idle"
      /\ state = [last |-> 0, before |-> None, floor |-> 0, high |-> None]
      /\ at = [before |-> None, floor |-> 0, high |-> None]
  BY DEF Discord!Init
<1>2. newest \in Nat /\ newest <= ChannelIds
  BY <1>1, ChannelConstants
<1>3. Walked(None, 0, None, dest)
  BY <1>1, <1>2 DEF Walked
<1>4. WalkedTo(state, dest)
  BY <1>1, <1>3 DEF WalkedTo, FloorOf
<1> QED
  BY <1>1, <1>2, <1>4 DEF ChannelInv

\* The page of a request is the top of what lies below the walk's place.
LEMMA ResponseIs ==
  ASSUME ChannelInv, NEW below,
         below = {m \in channel : at.before # None => m < at.before}
  PROVE  /\ Discord!Response \subseteq below
         /\ Discord!Response = {} => below = {}
         /\ \A k \in below, m \in Discord!Response : m <= k => k \in Discord!Response
         /\ Discord!Cardinality(Discord!Response) < ChannelPage => Discord!Response = below
         /\ Discord!Response # {} =>
              /\ Discord!Min(Discord!Response) \in Discord!Response
              /\ \A m \in Discord!Response : Discord!Min(Discord!Response) <= m
              /\ Discord!Max(Discord!Response) \in Discord!Response
              /\ \A m \in Discord!Response : m <= Discord!Max(Discord!Response)
<1> DEFINE P == Discord!Response
           o == [k \in 1..ChannelIds |-> ChannelIds - k]
           above == [k \in below |-> {n \in below : n > k}]
           Low(S) == CHOOSE x \in S : \A y \in S : x <= y
           Top(S) == CHOOSE x \in S : \A y \in S : x >= y
<1>1. below \subseteq 1..ChannelIds /\ ChannelIds \in Nat /\ below \subseteq Nat
  <2>1. newest \in Nat /\ newest <= ChannelIds /\ channel \subseteq 1..newest /\ ChannelIds \in Nat
    BY ChannelConstants DEF ChannelInv
  <2>2. \A m \in channel : m \in Nat /\ m \in 1..ChannelIds
    BY <2>1
  <2> QED
    BY <2>1, <2>2
<1>2. P = {m \in below : Cardinality({n \in below : n > m}) < ChannelPage}
  BY DEF Discord!Response, Discord!Cardinality, Cardinality
<1>3. P \subseteq below /\ \A k \in below : k \in P <=> Cardinality(above[k]) < ChannelPage
  BY <1>2
<1>4. /\ o \in [1..ChannelIds -> Nat] /\ above \in [below -> SUBSET below]
      /\ \A k \in below : \A j \in below : j \in above[k] <=> o[j] < o[k]
  <2>1. o \in [1..ChannelIds -> Nat]
    BY <1>1
  <2>2. above \in [below -> SUBSET below]
    OBVIOUS
  <2>3. ASSUME NEW k \in below, NEW j \in below PROVE j \in above[k] <=> o[j] < o[k]
    <3>1. k \in 1..ChannelIds /\ j \in 1..ChannelIds
      BY <1>1
    <3>2. o[j] < o[k] <=> j > k
      BY <1>1, <3>1
    <3> QED
      BY <3>2
  <2> QED
    BY <2>1, <2>2, <2>3
<1>5. \A k \in below : \A j \in below : o[j] <= o[k] <=> k <= j
  <2>1. \A k \in 1..ChannelIds : \A j \in 1..ChannelIds : o[j] <= o[k] <=> k <= j
    BY <1>1
  <2> QED
    BY <1>1, <2>1
<1> HIDE DEF P, o, above
<1>6. ASSUME below # {}
      PROVE  /\ P # {} /\ \A k \in below, m \in P : o[k] <= o[m] => k \in P
             /\ Cardinality(P) < ChannelPage => P = below
             /\ \E m \in P : \A k \in P : o[k] <= o[m]
  <2>1. IsPage(ChannelIds, below, o, above, ChannelPage, P)
    BY <1>1, <1>3, <1>4, <1>6, ChannelConstants DEF IsPage
  <2> QED
    BY <2>1, PageIs
<1>7. Discord!Cardinality(P) < ChannelPage => P = below
  <2>1. Discord!Cardinality(P) = Cardinality(P)
    BY DEF Discord!Cardinality, Cardinality
  <2> QED
    BY <1>3, <1>6, <2>1
<1>8. ASSUME P # {}
      PROVE  /\ Discord!Min(P) \in P /\ \A m \in P : Discord!Min(P) <= m
             /\ Discord!Max(P) \in P /\ \A m \in P : m <= Discord!Max(P)
  <2>1. below # {}
    BY <1>3, <1>8
  <2>2. PICK m \in P : \A k \in P : o[k] <= o[m]
    BY <1>6, <2>1
  <2>3. \A k \in P : m <= k
    BY <1>3, <1>5, <2>2
  <2>4. \E x \in P : \A y \in P : x >= y
    <3>1. P \in SUBSET (1..ChannelIds)
      BY <1>1, <1>3
    <3>3. \E x \in P : \A y \in P : x >= y
      <4> DEFINE id == [k \in 1..ChannelIds |-> k]
      <4>1. \A k \in 1..ChannelIds : id[k] \in Nat /\ id[k] = k
        BY <1>1
      <4> HIDE DEF id
      <4>2. \E x \in P : \A y \in P : id[y] <= id[x]
        BY <1>1, <1>8, <3>1, <4>1, LastInOrder
      <4> QED
        BY <1>1, <3>1, <4>1, <4>2
    <3> QED
      BY <3>3
  <2>5. Discord!Min(P) = CHOOSE x \in P : \A y \in P : x <= y
    BY DEF Discord!Min
  <2>6. Discord!Max(P) = CHOOSE x \in P : \A y \in P : x >= y
    BY DEF Discord!Max
  <2>7. \A y \in P : y \in Nat
    BY <1>1, <1>3
  <2>8. Discord!Max(P) \in P /\ \A y \in P : Discord!Max(P) >= y
    BY <2>4, <2>6
  <2>9. Discord!Min(P) \in P /\ \A y \in P : Discord!Min(P) <= y
    BY <2>3, <2>5
  <2> QED
    BY <2>7, <2>8, <2>9
<1>9. P = {} => below = {}
  BY <1>6
<1>10. \A k \in below, m \in P : m <= k => k \in P
  BY <1>3, <1>5, <1>6
<1> QED
  BY <1>3, <1>7, <1>8, <1>9, <1>10 DEF P

LEMMA ChannelPages == ASSUME ChannelInv, Discord!Page PROVE ChannelInv'
<1> DEFINE ids == Discord!Response
           below == {m \in channel : at.before # None => m < at.before}
           high == IF at.high # None THEN at.high
                   ELSE IF ids = {} THEN None ELSE Discord!Max(ids)
           fresh == {m \in ids : m > at.floor}
           there == dest \cup fresh
<1>1. /\ pc = "request" /\ pc' = "write" /\ page' = fresh
      /\ UNCHANGED <<channel, newest, state, dest>>
      /\ Walked(at.before, at.floor, at.high, dest)
  BY DEF Discord!Page, Discord!api, ChannelInv
<1>2. \/ /\ ids = {} \/ Discord!Reached(ids)
         /\ returns' = TRUE /\ message' = Discord!Completed(high)
         /\ at' = at \/ at' = [at EXCEPT !.high = high]
      \/ /\ ids # {} /\ returns' = FALSE
         /\ at' = [at EXCEPT !.before = Discord!Min(ids), !.high = high]
         /\ message' = [last |-> 0, before |-> Discord!Min(ids), floor |-> at.floor, high |-> high]
  BY DEF Discord!Page, Discord!Before
<1>3. /\ ids \subseteq below
      /\ ids = {} => below = {}
      /\ \A k \in below, m \in ids : m <= k => k \in ids
      /\ Discord!Cardinality(ids) < ChannelPage => ids = below
      /\ ids # {} => /\ Discord!Min(ids) \in ids /\ \A m \in ids : Discord!Min(ids) <= m
                     /\ Discord!Max(ids) \in ids /\ \A m \in ids : m <= Discord!Max(ids)
  BY ResponseIs
<1>4. /\ \A m \in channel : m \in 1..newest /\ m \in Nat
      /\ newest \in Nat /\ None \notin Nat
  BY ChannelConstants DEF ChannelInv
<1>5. \A m \in channel : m \in below \/ (at.before # None /\ at.before <= m)
  BY <1>1, <1>4 DEF Walked
<1>6. \A m \in below : m \in channel
  OBVIOUS
<1>7. high \in Nat \cup {None} /\ (high # None => high <= newest) /\ (high = None <=> at.high = None /\ ids = {})
  <2>1. ids # {} => Discord!Max(ids) \in Nat /\ Discord!Max(ids) <= newest
    BY <1>3, <1>4, <1>6
  <2>2. at.high \in Nat \cup {None} /\ (at.high # None => at.high <= newest)
    BY <1>1 DEF Walked
  <2> HIDE DEF ids
  <2> QED
    BY <1>4, <2>1, <2>2
<1>8. \A m \in channel : m <= at.floor => m \in there
  BY <1>1 DEF Walked
<1>9. ASSUME NEW m \in channel, high # None, m <= high, m \notin below PROVE m \in there
  <2>1. at.before # None /\ at.before <= m
    BY <1>5, <1>9
  <2>2. high = at.high
    BY <1>1, <2>1 DEF Walked
  <2> QED
    BY <1>1, <1>9, <2>1, <2>2 DEF Walked
<1>10. ASSUME NEW m \in ids PROVE m \in there
  <2>1. m \in channel /\ m \in Nat /\ at.floor \in Nat
    BY <1>1, <1>3, <1>4, <1>6 DEF Walked
  <2> QED
    BY <1>8, <2>1
<1>11. at.floor \in Nat /\ at.floor <= newest
  BY <1>1 DEF Walked
<1>15. {"before", "floor", "high"} = DOMAIN at
  BY DEF ChannelInv
<1>14. ASSUME WalkedTo(message', there), DOMAIN at' = DOMAIN at,
              returns' = TRUE \/ /\ at'.before = message'.before /\ at'.floor = FloorOf(message')
                                  /\ at'.high = message'.high
       PROVE  ChannelInv'
  <2>1. WalkedTo(state, dest)' /\ (newest \in Nat /\ newest <= ChannelIds /\ channel \subseteq 1..newest)'
    BY <1>1 DEF ChannelInv, WalkedTo, Walked
  <2>2. WalkedTo(message, dest \cup page)'
    <3>1. there = (dest \cup page)'
      BY <1>1
    <3> HIDE DEF fresh, there
    <3> QED
      BY <1>1, <1>14, <3>1 DEF WalkedTo, Walked
  <2>3. (~returns => /\ at.before = message.before /\ at.floor = FloorOf(message)
                     /\ at.high = message.high)'
    BY <1>14 DEF FloorOf
  <2> HIDE DEF fresh, there
  <2> QED
    BY <1>1, <1>14, <1>15, <2>1, <2>2, <2>3 DEF ChannelInv
<1> HIDE DEF ids, below, high
<1>12. CASE \/ /\ ids = {} \/ Discord!Reached(ids)
               /\ returns' = TRUE /\ message' = Discord!Completed(high)
               /\ at' = at \/ at' = [at EXCEPT !.high = high]
  <2>1. ASSUME high # None PROVE \A m \in channel : m <= high => m \in there
    <3> SUFFICES ASSUME NEW m \in channel, m <= high, m \in below PROVE m \in there
      BY <1>9, <2>1
    <3>1. CASE ids = {} \/ Discord!Cardinality(ids) < ChannelPage
      BY <1>3, <1>10, <3>1
    <3>2. CASE ids # {} /\ Discord!Min(ids) <= at.floor
      <4>1. m <= at.floor \/ Discord!Min(ids) <= m
        BY <1>3, <1>4, <1>6, <1>11, <3>2
      <4> QED
        BY <1>3, <1>8, <1>10, <3>2, <4>1
    <3> QED
      BY <1>12, <3>1, <3>2 DEF Discord!Reached
  <2>2. DOMAIN at' = DOMAIN at
    BY <1>12
  <2>3. message' = [last |-> IF high = None THEN at.floor ELSE high, before |-> None,
                    floor |-> 0, high |-> None]
    BY <1>12 DEF Discord!Completed
  <2>4. FloorOf(message') = IF high = None THEN at.floor ELSE high
    BY <2>3 DEF FloorOf
  <2>5. Walked(None, FloorOf(message'), None, there)
    <3>1. CASE high = None
      BY <1>1, <1>4, <1>8, <1>11, <2>4, <3>1 DEF Walked
    <3>2. CASE high # None
      BY <1>1, <1>4, <1>7, <2>1, <2>4, <3>2 DEF Walked
    <3> QED
      BY <3>1, <3>2
  <2>6. message'.last \in Nat /\ message'.before = None /\ message'.floor = 0 /\ message'.high = None
    BY <1>7, <1>11, <2>3
  <2>7. WalkedTo(message', there)
    BY <2>5, <2>6 DEF WalkedTo
  <2>8. returns' = TRUE
    BY <1>12
  <2> HIDE DEF there
  <2> QED
    BY <1>14, <2>2, <2>7, <2>8
<1>13. CASE /\ ids # {} /\ returns' = FALSE
            /\ at' = [at EXCEPT !.before = Discord!Min(ids), !.high = high]
            /\ message' = [last |-> 0, before |-> Discord!Min(ids), floor |-> at.floor, high |-> high]
  <2>1. Discord!Min(ids) \in Nat /\ high # None
    BY <1>3, <1>4, <1>6, <1>7, <1>13
  <2>2. \A m \in channel : Discord!Min(ids) <= m /\ m <= high => m \in there
    BY <1>3, <1>9, <1>10, <1>13, <2>1
  <2>3. FloorOf(message') = at.floor
    BY <1>13 DEF FloorOf
  <2>4. Walked(Discord!Min(ids), at.floor, high, there)
    <3>1. at.floor \in Nat /\ high \in Nat
      BY <1>7, <1>11, <2>1
    <3> QED
      BY <1>1, <1>4, <1>7, <1>8, <1>11, <2>1, <2>2, <3>1 DEF Walked
  <2>5. /\ message'.last = 0 /\ message'.before = Discord!Min(ids) /\ message'.floor = at.floor
        /\ message'.high = high
    BY <1>13
  <2>6. WalkedTo(message', there)
    BY <1>4, <2>1, <2>3, <2>4, <2>5 DEF WalkedTo
  <2>7. DOMAIN at' = DOMAIN at /\ at'.before = Discord!Min(ids) /\ at'.high = high /\ at'.floor = at.floor
    BY <1>13, <1>15
  <2> QED
    BY <1>14, <2>3, <2>5, <2>6, <2>7
<1> QED
  BY <1>2, <1>12, <1>13

LEMMA ChannelStep ==
  ASSUME ChannelInv, [Discord!Next]_(Discord!vars)
  PROVE  ChannelInv'
<1> USE DEF Discord!api
<1>1. CASE Discord!Post
  <2>1. /\ newest < ChannelIds /\ newest' = newest + 1 /\ channel' = channel \cup {newest + 1}
        /\ UNCHANGED <<state, pc, at, page, message, returns, dest>>
    BY <1>1 DEF Discord!Post
  <2>2. newest \in Nat /\ channel \subseteq 1..newest /\ ChannelIds \in Nat /\ None \notin Nat
    BY ChannelConstants DEF ChannelInv
  <2>3. \A b, f, h, d : Walked(b, f, h, d) => Walked(b, f, h, d)'
    BY <2>1, <2>2 DEF Walked
  <2>4. newest' \in Nat /\ newest' <= ChannelIds /\ channel' \subseteq 1..newest'
    BY <2>1, <2>2
  <2> QED
    BY <2>1, <2>3, <2>4 DEF ChannelInv, WalkedTo
<1>2. CASE Discord!Delete
  <2>1. /\ channel' \subseteq channel
        /\ UNCHANGED <<newest, state, pc, at, page, message, returns, dest>>
    BY <1>2 DEF Discord!Delete
  <2> QED
    BY <2>1 DEF ChannelInv, WalkedTo, Walked
<1>3. CASE Discord!Retry
  BY <1>3 DEF Discord!Retry, ChannelInv, WalkedTo, Walked
<1>4. CASE Discord!Start
  <2>1. /\ UNCHANGED <<channel, newest, state, dest>> /\ pc' = "request"
        /\ at' = [before |-> state.before, floor |-> FloorOf(state), high |-> state.high]
    BY <1>4 DEF Discord!Start, FloorOf
  <2> QED
    BY <2>1 DEF ChannelInv, WalkedTo, Walked
<1>5. CASE Discord!Page
  BY <1>5, ChannelPages
<1>6. CASE Discord!Write
  BY <1>6 DEF Discord!Write, ChannelInv, WalkedTo, Walked
<1>7. CASE Discord!Save
  BY <1>7 DEF Discord!Save, ChannelInv, WalkedTo, Walked
<1>8. CASE Discord!Crash
  BY <1>8 DEF Discord!Crash, ChannelInv, WalkedTo, Walked
<1>9. CASE UNCHANGED (Discord!vars)
  BY <1>9 DEF Discord!vars, ChannelInv, WalkedTo, Walked
<1> QED
  BY <1>1, <1>2, <1>3, <1>4, <1>5, <1>6, <1>7, <1>8, <1>9 DEF Discord!Next, Discord!Read

\* What lies up to the watermark, or has been passed by a walk, is there.
LEMMA ChannelSafe ==
  ASSUME ChannelInv PROVE Discord!WatermarkIsComplete /\ Discord!WalkIsComplete
<1>1. /\ WalkedTo(state, dest) /\ channel \subseteq Nat \ {0}
  BY DEF ChannelInv
<1>2. Discord!WatermarkIsComplete
  BY <1>1 DEF Discord!WatermarkIsComplete, WalkedTo, Walked, FloorOf
<1>3. Discord!WalkIsComplete
  <2> SUFFICES ASSUME state.before # None, NEW m \in channel
               PROVE  m > state.high \/ (m < state.before /\ m > state.floor) \/ m \in dest
    BY DEF Discord!WalkIsComplete
  <2>1. /\ state.before \in Nat /\ state.high \in Nat /\ m \in Nat \ {0}
        /\ FloorOf(state) \in Nat /\ state.last = 0
    BY <1>1 DEF WalkedTo, Walked
  <2>2. m > state.high \/ (state.before <= m /\ m <= state.high) \/ m < state.before
    BY <2>1
  <2>3. CASE m < state.before
    <3>1. state.floor = FloorOf(state)
      BY <2>1 DEF FloorOf
    <3>2. m > FloorOf(state) \/ m <= FloorOf(state)
      BY <2>1
    <3> QED
      BY <1>1, <2>3, <3>1, <3>2 DEF WalkedTo, Walked
  <2> QED
    BY <1>1, <2>1, <2>2, <2>3 DEF WalkedTo, Walked
<1> QED
  BY <1>2, <1>3

-------------------------------------------------------------------------------
(* Documents: the proofs of DocumentSource, and that the scenarios are     *)
(* instances of what they are about                                        *)

FilesProofs == INSTANCE DocumentSourceProofs WITH
  Versions <- FilesVersions, Parsers <- FilesParsers, Draws <- FilesDraws,
  Length <- FilesLength, Interval <- FilesInterval, Strict <- FALSE,
  Return <- TRUE, Stops <- {"reading"}, MaxChanges <- FilesChanges,
  MaxFaults <- FilesFaults

ParsersProofs == INSTANCE DocumentSourceProofs WITH
  Versions <- ParsersVersions, Parsers <- ParsersParsers, Draws <- ParsersDraws,
  Length <- ParsersLength, Interval <- ParsersInterval, Strict <- TRUE,
  Return <- FALSE, Stops <- {"reading", "burying", "saving"},
  MaxChanges <- ParsersChanges, MaxFaults <- ParsersFaults

DrawsProofs == INSTANCE DocumentSourceProofs WITH
  Versions <- DrawsVersions, Parsers <- DrawsParsers, Draws <- DrawsDraws,
  Length <- DrawsLength, Interval <- DrawsInterval, Strict <- FALSE,
  Return <- FALSE, Stops <- {"reading", "burying", "saving"},
  MaxChanges <- DrawsChanges, MaxFaults <- DrawsFaults

LEMMA FilesAssumption == FilesProofs!DocumentAssumption
  BY ConstantsAreSound
  DEF TwoFiles!DocumentAssumption, FilesProofs!DocumentAssumption,
      TwoFiles!Documents, FilesProofs!Documents, TwoFiles!Extractions,
      FilesProofs!Extractions, TwoFiles!Entries, FilesProofs!Entries,
      TwoFiles!Progresses, FilesProofs!Progresses, TwoFiles!IsFiniteSet,
      FilesProofs!IsFiniteSet

LEMMA FilesStarts == ASSUME TwoFiles!Init PROVE FilesProofs!Init
  BY DEF TwoFiles!Init, FilesProofs!Init, TwoFiles!Documents,
      FilesProofs!Documents, TwoFiles!Extractions, FilesProofs!Extractions,
      TwoFiles!MaxLength, FilesProofs!MaxLength, TwoFiles!Max,
      FilesProofs!Max, TwoFiles!Indexes, FilesProofs!Indexes

LEMMA FilesStays == ASSUME UNCHANGED TwoFiles!vars PROVE UNCHANGED FilesProofs!vars
  BY DEF TwoFiles!vars, FilesProofs!vars

LEMMA FilesNext == ASSUME TwoFiles!Next PROVE FilesProofs!Next
<1> USE DEF TwoFiles!Documents, FilesProofs!Documents, TwoFiles!Extractions,
          FilesProofs!Extractions, TwoFiles!Max, FilesProofs!Max,
          TwoFiles!Min, FilesProofs!Min, TwoFiles!MaxLength,
          FilesProofs!MaxLength, TwoFiles!Indexes, FilesProofs!Indexes,
          TwoFiles!Entries, FilesProofs!Entries, TwoFiles!Progresses,
          FilesProofs!Progresses, TwoFiles!world, FilesProofs!world,
          TwoFiles!locals, FilesProofs!locals, TwoFiles!vars,
          FilesProofs!vars, TwoFiles!Suspended, FilesProofs!Suspended,
          TwoFiles!Checkpoint, FilesProofs!Checkpoint, TwoFiles!Written,
          FilesProofs!Written, TwoFiles!Stopped, FilesProofs!Stopped,
          TwoFiles!Burying, FilesProofs!Burying, TwoFiles!Place,
          FilesProofs!Place, TwoFiles!At, FilesProofs!At, TwoFiles!NextPath,
          FilesProofs!NextPath, TwoFiles!Count, FilesProofs!Count,
          TwoFiles!AtLeast, FilesProofs!AtLeast, TwoFiles!Discovered,
          FilesProofs!Discovered, TwoFiles!Snapshot, FilesProofs!Snapshot,
          TwoFiles!Valid, FilesProofs!Valid, TwoFiles!Progress,
          FilesProofs!Progress, TwoFiles!OrZero, FilesProofs!OrZero,
          TwoFiles!Known, FilesProofs!Known, TwoFiles!Settle,
          FilesProofs!Settle, TwoFiles!Unchanged, FilesProofs!Unchanged,
          TwoFiles!Matches, FilesProofs!Matches, TwoFiles!ResumeAt,
          FilesProofs!ResumeAt, TwoFiles!Reconciles, FilesProofs!Reconciles,
          TwoFiles!ManifestMissing, FilesProofs!ManifestMissing,
          TwoFiles!Content, FilesProofs!Content, TwoFiles!Parsed,
          FilesProofs!Parsed, TwoFiles!Reconcile, FilesProofs!Reconcile,
          TwoFiles!Entry, FilesProofs!Entry, TwoFiles!Quiet, FilesProofs!Quiet
<1>0. TwoFiles!RequiresManifest = FilesProofs!RequiresManifest
  BY DEF TwoFiles!RequiresManifest, FilesProofs!RequiresManifest, TwoFiles!Cardinality, FilesProofs!Cardinality
<1>1. ASSUME TwoFiles!ChangeFile PROVE FilesProofs!ChangeFile
  BY <1>1 DEF TwoFiles!ChangeFile, FilesProofs!ChangeFile
<1>2. ASSUME TwoFiles!Reconfigure PROVE FilesProofs!Reconfigure
  BY <1>2 DEF TwoFiles!Reconfigure, FilesProofs!Reconfigure
<1>3. ASSUME TwoFiles!LoseCache PROVE FilesProofs!LoseCache
  BY <1>3 DEF TwoFiles!LoseCache, FilesProofs!LoseCache
<1>4. ASSUME TwoFiles!Crash PROVE FilesProofs!Crash
  BY <1>4 DEF TwoFiles!Crash, FilesProofs!Crash
<1>5. ASSUME TwoFiles!StartRun PROVE FilesProofs!StartRun
  BY <1>5 DEF TwoFiles!StartRun, FilesProofs!StartRun
<1>6. ASSUME TwoFiles!RemovePath PROVE FilesProofs!RemovePath
  BY <1>6 DEF TwoFiles!RemovePath, FilesProofs!RemovePath
<1>7. ASSUME TwoFiles!Tombstone PROVE FilesProofs!Tombstone
  BY <1>7 DEF TwoFiles!Tombstone, FilesProofs!Tombstone
<1>8. ASSUME TwoFiles!Buried PROVE FilesProofs!Buried
  BY <1>8 DEF TwoFiles!Buried, FilesProofs!Buried
<1>9. ASSUME TwoFiles!RemovedAll PROVE FilesProofs!RemovedAll
  BY <1>9 DEF TwoFiles!RemovedAll, FilesProofs!RemovedAll
<1>10. ASSUME TwoFiles!SkipFile PROVE FilesProofs!SkipFile
  BY <1>10 DEF TwoFiles!SkipFile, FilesProofs!SkipFile
<1>11. ASSUME TwoFiles!ExtractFile PROVE FilesProofs!ExtractFile
  BY <1>0, <1>11 DEF TwoFiles!ExtractFile, FilesProofs!ExtractFile
<1>12. ASSUME TwoFiles!EmitElement PROVE FilesProofs!EmitElement
  BY <1>12 DEF TwoFiles!EmitElement, FilesProofs!EmitElement
<1>13. ASSUME TwoFiles!EndElements PROVE FilesProofs!EndElements
  BY <1>13 DEF TwoFiles!EndElements, FilesProofs!EndElements
<1>14. ASSUME TwoFiles!CommitFile PROVE FilesProofs!CommitFile
  BY <1>14 DEF TwoFiles!CommitFile, FilesProofs!CommitFile
<1>15. ASSUME TwoFiles!Finish PROVE FilesProofs!Finish
  BY <1>15 DEF TwoFiles!Finish, FilesProofs!Finish
<1>16. ASSUME TwoFiles!FailFile PROVE FilesProofs!FailFile
  BY <1>0, <1>16 DEF TwoFiles!FailFile, FilesProofs!FailFile
<1>17. ASSUME TwoFiles!Write PROVE FilesProofs!Write
  BY <1>17 DEF TwoFiles!Write, FilesProofs!Write
<1>18. ASSUME TwoFiles!Save PROVE FilesProofs!Save
  BY <1>18 DEF TwoFiles!Save, FilesProofs!Save
<1> QED
  BY ONLY TwoFiles!Next, <1>1, <1>2, <1>3, <1>4, <1>5, <1>6, <1>7, <1>8, <1>9, <1>10, <1>11, <1>12, <1>13, <1>14, <1>15, <1>16, <1>17, <1>18
  DEF TwoFiles!Next, FilesProofs!Next, TwoFiles!Run, FilesProofs!Run, TwoFiles!Source, FilesProofs!Source

LEMMA ParsersAssumption == ParsersProofs!DocumentAssumption
  BY ConstantsAreSound
  DEF TwoParsers!DocumentAssumption, ParsersProofs!DocumentAssumption,
      TwoParsers!Documents, ParsersProofs!Documents, TwoParsers!Extractions,
      ParsersProofs!Extractions, TwoParsers!Entries, ParsersProofs!Entries,
      TwoParsers!Progresses, ParsersProofs!Progresses, TwoParsers!IsFiniteSet,
      ParsersProofs!IsFiniteSet

LEMMA ParsersStarts == ASSUME TwoParsers!Init PROVE ParsersProofs!Init
  BY DEF TwoParsers!Init, ParsersProofs!Init, TwoParsers!Documents,
      ParsersProofs!Documents, TwoParsers!Extractions,
      ParsersProofs!Extractions, TwoParsers!MaxLength,
      ParsersProofs!MaxLength, TwoParsers!Max, ParsersProofs!Max,
      TwoParsers!Indexes, ParsersProofs!Indexes

LEMMA ParsersStays == ASSUME UNCHANGED TwoParsers!vars PROVE UNCHANGED ParsersProofs!vars
  BY DEF TwoParsers!vars, ParsersProofs!vars

LEMMA ParsersNext == ASSUME TwoParsers!Next PROVE ParsersProofs!Next
<1> USE DEF TwoParsers!Documents, ParsersProofs!Documents,
          TwoParsers!Extractions, ParsersProofs!Extractions, TwoParsers!Max,
          ParsersProofs!Max, TwoParsers!Min, ParsersProofs!Min,
          TwoParsers!MaxLength, ParsersProofs!MaxLength, TwoParsers!Indexes,
          ParsersProofs!Indexes, TwoParsers!Entries, ParsersProofs!Entries,
          TwoParsers!Progresses, ParsersProofs!Progresses, TwoParsers!world,
          ParsersProofs!world, TwoParsers!locals, ParsersProofs!locals,
          TwoParsers!vars, ParsersProofs!vars, TwoParsers!Suspended,
          ParsersProofs!Suspended, TwoParsers!Checkpoint,
          ParsersProofs!Checkpoint, TwoParsers!Written, ParsersProofs!Written,
          TwoParsers!Stopped, ParsersProofs!Stopped, TwoParsers!Burying,
          ParsersProofs!Burying, TwoParsers!Place, ParsersProofs!Place,
          TwoParsers!At, ParsersProofs!At, TwoParsers!NextPath,
          ParsersProofs!NextPath, TwoParsers!Count, ParsersProofs!Count,
          TwoParsers!AtLeast, ParsersProofs!AtLeast, TwoParsers!Discovered,
          ParsersProofs!Discovered, TwoParsers!Snapshot,
          ParsersProofs!Snapshot, TwoParsers!Valid, ParsersProofs!Valid,
          TwoParsers!Progress, ParsersProofs!Progress, TwoParsers!OrZero,
          ParsersProofs!OrZero, TwoParsers!Known, ParsersProofs!Known,
          TwoParsers!Settle, ParsersProofs!Settle, TwoParsers!Unchanged,
          ParsersProofs!Unchanged, TwoParsers!Matches, ParsersProofs!Matches,
          TwoParsers!ResumeAt, ParsersProofs!ResumeAt, TwoParsers!Reconciles,
          ParsersProofs!Reconciles, TwoParsers!ManifestMissing,
          ParsersProofs!ManifestMissing, TwoParsers!Content,
          ParsersProofs!Content, TwoParsers!Parsed, ParsersProofs!Parsed,
          TwoParsers!Reconcile, ParsersProofs!Reconcile, TwoParsers!Entry,
          ParsersProofs!Entry, TwoParsers!Quiet, ParsersProofs!Quiet
<1>0. TwoParsers!RequiresManifest = ParsersProofs!RequiresManifest
  BY DEF TwoParsers!RequiresManifest, ParsersProofs!RequiresManifest, TwoParsers!Cardinality, ParsersProofs!Cardinality
<1>1. ASSUME TwoParsers!ChangeFile PROVE ParsersProofs!ChangeFile
  BY <1>1 DEF TwoParsers!ChangeFile, ParsersProofs!ChangeFile
<1>2. ASSUME TwoParsers!Reconfigure PROVE ParsersProofs!Reconfigure
  BY <1>2 DEF TwoParsers!Reconfigure, ParsersProofs!Reconfigure
<1>3. ASSUME TwoParsers!LoseCache PROVE ParsersProofs!LoseCache
  BY <1>3 DEF TwoParsers!LoseCache, ParsersProofs!LoseCache
<1>4. ASSUME TwoParsers!Crash PROVE ParsersProofs!Crash
  BY <1>4 DEF TwoParsers!Crash, ParsersProofs!Crash
<1>5. ASSUME TwoParsers!StartRun PROVE ParsersProofs!StartRun
  BY <1>5 DEF TwoParsers!StartRun, ParsersProofs!StartRun
<1>6. ASSUME TwoParsers!RemovePath PROVE ParsersProofs!RemovePath
  BY <1>6 DEF TwoParsers!RemovePath, ParsersProofs!RemovePath
<1>7. ASSUME TwoParsers!Tombstone PROVE ParsersProofs!Tombstone
  BY <1>7 DEF TwoParsers!Tombstone, ParsersProofs!Tombstone
<1>8. ASSUME TwoParsers!Buried PROVE ParsersProofs!Buried
  BY <1>8 DEF TwoParsers!Buried, ParsersProofs!Buried
<1>9. ASSUME TwoParsers!RemovedAll PROVE ParsersProofs!RemovedAll
  BY <1>9 DEF TwoParsers!RemovedAll, ParsersProofs!RemovedAll
<1>10. ASSUME TwoParsers!SkipFile PROVE ParsersProofs!SkipFile
  BY <1>10 DEF TwoParsers!SkipFile, ParsersProofs!SkipFile
<1>11. ASSUME TwoParsers!ExtractFile PROVE ParsersProofs!ExtractFile
  BY <1>0, <1>11 DEF TwoParsers!ExtractFile, ParsersProofs!ExtractFile
<1>12. ASSUME TwoParsers!EmitElement PROVE ParsersProofs!EmitElement
  BY <1>12 DEF TwoParsers!EmitElement, ParsersProofs!EmitElement
<1>13. ASSUME TwoParsers!EndElements PROVE ParsersProofs!EndElements
  BY <1>13 DEF TwoParsers!EndElements, ParsersProofs!EndElements
<1>14. ASSUME TwoParsers!CommitFile PROVE ParsersProofs!CommitFile
  BY <1>14 DEF TwoParsers!CommitFile, ParsersProofs!CommitFile
<1>15. ASSUME TwoParsers!Finish PROVE ParsersProofs!Finish
  BY <1>15 DEF TwoParsers!Finish, ParsersProofs!Finish
<1>16. ASSUME TwoParsers!FailFile PROVE ParsersProofs!FailFile
  BY <1>0, <1>16 DEF TwoParsers!FailFile, ParsersProofs!FailFile
<1>17. ASSUME TwoParsers!Write PROVE ParsersProofs!Write
  BY <1>17 DEF TwoParsers!Write, ParsersProofs!Write
<1>18. ASSUME TwoParsers!Save PROVE ParsersProofs!Save
  BY <1>18 DEF TwoParsers!Save, ParsersProofs!Save
<1> QED
  BY ONLY TwoParsers!Next, <1>1, <1>2, <1>3, <1>4, <1>5, <1>6, <1>7, <1>8, <1>9, <1>10, <1>11, <1>12, <1>13, <1>14, <1>15, <1>16, <1>17, <1>18
  DEF TwoParsers!Next, ParsersProofs!Next, TwoParsers!Run, ParsersProofs!Run, TwoParsers!Source, ParsersProofs!Source

LEMMA DrawsAssumption == DrawsProofs!DocumentAssumption
  BY ConstantsAreSound
  DEF TwoDraws!DocumentAssumption, DrawsProofs!DocumentAssumption,
      TwoDraws!Documents, DrawsProofs!Documents, TwoDraws!Extractions,
      DrawsProofs!Extractions, TwoDraws!Entries, DrawsProofs!Entries,
      TwoDraws!Progresses, DrawsProofs!Progresses, TwoDraws!IsFiniteSet,
      DrawsProofs!IsFiniteSet

LEMMA DrawsStarts == ASSUME TwoDraws!Init PROVE DrawsProofs!Init
  BY DEF TwoDraws!Init, DrawsProofs!Init, TwoDraws!Documents,
      DrawsProofs!Documents, TwoDraws!Extractions, DrawsProofs!Extractions,
      TwoDraws!MaxLength, DrawsProofs!MaxLength, TwoDraws!Max,
      DrawsProofs!Max, TwoDraws!Indexes, DrawsProofs!Indexes

LEMMA DrawsStays == ASSUME UNCHANGED TwoDraws!vars PROVE UNCHANGED DrawsProofs!vars
  BY DEF TwoDraws!vars, DrawsProofs!vars

LEMMA DrawsNext == ASSUME TwoDraws!Next PROVE DrawsProofs!Next
<1> USE DEF TwoDraws!Documents, DrawsProofs!Documents, TwoDraws!Extractions,
          DrawsProofs!Extractions, TwoDraws!Max, DrawsProofs!Max,
          TwoDraws!Min, DrawsProofs!Min, TwoDraws!MaxLength,
          DrawsProofs!MaxLength, TwoDraws!Indexes, DrawsProofs!Indexes,
          TwoDraws!Entries, DrawsProofs!Entries, TwoDraws!Progresses,
          DrawsProofs!Progresses, TwoDraws!world, DrawsProofs!world,
          TwoDraws!locals, DrawsProofs!locals, TwoDraws!vars,
          DrawsProofs!vars, TwoDraws!Suspended, DrawsProofs!Suspended,
          TwoDraws!Checkpoint, DrawsProofs!Checkpoint, TwoDraws!Written,
          DrawsProofs!Written, TwoDraws!Stopped, DrawsProofs!Stopped,
          TwoDraws!Burying, DrawsProofs!Burying, TwoDraws!Place,
          DrawsProofs!Place, TwoDraws!At, DrawsProofs!At, TwoDraws!NextPath,
          DrawsProofs!NextPath, TwoDraws!Count, DrawsProofs!Count,
          TwoDraws!AtLeast, DrawsProofs!AtLeast, TwoDraws!Discovered,
          DrawsProofs!Discovered, TwoDraws!Snapshot, DrawsProofs!Snapshot,
          TwoDraws!Valid, DrawsProofs!Valid, TwoDraws!Progress,
          DrawsProofs!Progress, TwoDraws!OrZero, DrawsProofs!OrZero,
          TwoDraws!Known, DrawsProofs!Known, TwoDraws!Settle,
          DrawsProofs!Settle, TwoDraws!Unchanged, DrawsProofs!Unchanged,
          TwoDraws!Matches, DrawsProofs!Matches, TwoDraws!ResumeAt,
          DrawsProofs!ResumeAt, TwoDraws!Reconciles, DrawsProofs!Reconciles,
          TwoDraws!ManifestMissing, DrawsProofs!ManifestMissing,
          TwoDraws!Content, DrawsProofs!Content, TwoDraws!Parsed,
          DrawsProofs!Parsed, TwoDraws!Reconcile, DrawsProofs!Reconcile,
          TwoDraws!Entry, DrawsProofs!Entry, TwoDraws!Quiet, DrawsProofs!Quiet
<1>0. TwoDraws!RequiresManifest = DrawsProofs!RequiresManifest
  BY DEF TwoDraws!RequiresManifest, DrawsProofs!RequiresManifest, TwoDraws!Cardinality, DrawsProofs!Cardinality
<1>1. ASSUME TwoDraws!ChangeFile PROVE DrawsProofs!ChangeFile
  BY <1>1 DEF TwoDraws!ChangeFile, DrawsProofs!ChangeFile
<1>2. ASSUME TwoDraws!Reconfigure PROVE DrawsProofs!Reconfigure
  BY <1>2 DEF TwoDraws!Reconfigure, DrawsProofs!Reconfigure
<1>3. ASSUME TwoDraws!LoseCache PROVE DrawsProofs!LoseCache
  BY <1>3 DEF TwoDraws!LoseCache, DrawsProofs!LoseCache
<1>4. ASSUME TwoDraws!Crash PROVE DrawsProofs!Crash
  BY <1>4 DEF TwoDraws!Crash, DrawsProofs!Crash
<1>5. ASSUME TwoDraws!StartRun PROVE DrawsProofs!StartRun
  BY <1>5 DEF TwoDraws!StartRun, DrawsProofs!StartRun
<1>6. ASSUME TwoDraws!RemovePath PROVE DrawsProofs!RemovePath
  BY <1>6 DEF TwoDraws!RemovePath, DrawsProofs!RemovePath
<1>7. ASSUME TwoDraws!Tombstone PROVE DrawsProofs!Tombstone
  BY <1>7 DEF TwoDraws!Tombstone, DrawsProofs!Tombstone
<1>8. ASSUME TwoDraws!Buried PROVE DrawsProofs!Buried
  BY <1>8 DEF TwoDraws!Buried, DrawsProofs!Buried
<1>9. ASSUME TwoDraws!RemovedAll PROVE DrawsProofs!RemovedAll
  BY <1>9 DEF TwoDraws!RemovedAll, DrawsProofs!RemovedAll
<1>10. ASSUME TwoDraws!SkipFile PROVE DrawsProofs!SkipFile
  BY <1>10 DEF TwoDraws!SkipFile, DrawsProofs!SkipFile
<1>11. ASSUME TwoDraws!ExtractFile PROVE DrawsProofs!ExtractFile
  BY <1>0, <1>11 DEF TwoDraws!ExtractFile, DrawsProofs!ExtractFile
<1>12. ASSUME TwoDraws!EmitElement PROVE DrawsProofs!EmitElement
  BY <1>12 DEF TwoDraws!EmitElement, DrawsProofs!EmitElement
<1>13. ASSUME TwoDraws!EndElements PROVE DrawsProofs!EndElements
  BY <1>13 DEF TwoDraws!EndElements, DrawsProofs!EndElements
<1>14. ASSUME TwoDraws!CommitFile PROVE DrawsProofs!CommitFile
  BY <1>14 DEF TwoDraws!CommitFile, DrawsProofs!CommitFile
<1>15. ASSUME TwoDraws!Finish PROVE DrawsProofs!Finish
  BY <1>15 DEF TwoDraws!Finish, DrawsProofs!Finish
<1>16. ASSUME TwoDraws!FailFile PROVE DrawsProofs!FailFile
  BY <1>0, <1>16 DEF TwoDraws!FailFile, DrawsProofs!FailFile
<1>17. ASSUME TwoDraws!Write PROVE DrawsProofs!Write
  BY <1>17 DEF TwoDraws!Write, DrawsProofs!Write
<1>18. ASSUME TwoDraws!Save PROVE DrawsProofs!Save
  BY <1>18 DEF TwoDraws!Save, DrawsProofs!Save
<1> QED
  BY ONLY TwoDraws!Next, <1>1, <1>2, <1>3, <1>4, <1>5, <1>6, <1>7, <1>8, <1>9, <1>10, <1>11, <1>12, <1>13, <1>14, <1>15, <1>16, <1>17, <1>18
  DEF TwoDraws!Next, DrawsProofs!Next, TwoDraws!Run, DrawsProofs!Run, TwoDraws!Source, DrawsProofs!Source

LEMMA FilesValid == FilesProofs!CheckpointIsValid => TwoFiles!CheckpointIsValid
  BY DEF TwoFiles!CheckpointIsValid, FilesProofs!CheckpointIsValid,
      TwoFiles!Valid, FilesProofs!Valid, TwoFiles!Documents,
      FilesProofs!Documents, TwoFiles!Extractions, FilesProofs!Extractions,
      TwoFiles!MaxLength, FilesProofs!MaxLength, TwoFiles!Max, FilesProofs!Max

LEMMA FilesStale == FilesProofs!NoStaleElements => TwoFiles!NoStaleElements
  BY DEF TwoFiles!NoStaleElements, FilesProofs!NoStaleElements,
      TwoFiles!Quiet, FilesProofs!Quiet, TwoFiles!At, FilesProofs!At,
      TwoFiles!Documents, FilesProofs!Documents, TwoFiles!Extractions,
      FilesProofs!Extractions, TwoFiles!Indexes, FilesProofs!Indexes,
      TwoFiles!MaxLength, FilesProofs!MaxLength, TwoFiles!Max, FilesProofs!Max

LEMMA ParsersDelivered ==
  ParsersProofs!CommittedIsDelivered => TwoParsers!CommittedIsDelivered
  BY DEF TwoParsers!CommittedIsDelivered, ParsersProofs!CommittedIsDelivered,
      TwoParsers!Quiet, ParsersProofs!Quiet, TwoParsers!At, ParsersProofs!At

LEMMA DrawsDelivered == DrawsProofs!CommittedIsDelivered => TwoDraws!CommittedIsDelivered
  BY DEF TwoDraws!CommittedIsDelivered, DrawsProofs!CommittedIsDelivered,
      TwoDraws!Quiet, DrawsProofs!Quiet, TwoDraws!At, DrawsProofs!At

-------------------------------------------------------------------------------
(* Side by side                                                            *)

ConnectorsInv ==
  /\ scenario = "view" => ViewInv
  /\ scenario = "log" => LogInv /\ LoggedInv
  /\ scenario = "append" => AppendInv
  /\ scenario = "incremental" => IncrInv
  /\ scenario = "insert" => InsertInv
  /\ scenario = "cycles" => CyclesInv
  /\ scenario = "rest" => RestInv
  /\ scenario = "two_files" => FilesProofs!DocumentsInv /\ FilesProofs!StaleInv
  /\ scenario = "parsers" => ParsersProofs!DocumentsInv /\ ParsersProofs!ShownInv
  /\ scenario = "draws" => DrawsProofs!DocumentsInv /\ DrawsProofs!ShownInv
  /\ scenario = "discord" => ChannelInv

\* What the steps of a scenario promise.
ConnectorsSteps ==
  /\ scenario' = scenario
  /\ scenario = "view" => ViewAdvances
  /\ scenario = "log" => Log!CheckpointOnlyExtends
  /\ scenario = "cycles" => Cycles!EndedCycleIsComplete
  /\ scenario = "rest" => RestSafe

LEMMA ConnectorsInit == Init => ConnectorsInv
<1> SUFFICES ASSUME Init PROVE ConnectorsInv
  OBVIOUS
<1>1. CASE PipelineInit
  BY <1>1, ViewInit, LogInit, LoggedInit, AppendInit DEF PipelineInit, ConnectorsInv
<1>2. CASE PostgresInit
  BY <1>2, IncrInit, CyclesInit, InsertInit DEF PostgresInit, ConnectorsInv
<1>3. CASE RestInit
  BY <1>3, RestStarts DEF RestInit, ConnectorsInv
<1>4. CASE DocumentsInit
  <2>1. CASE scenario = "two_files" /\ TwoFiles!Init
    BY <1>4, <2>1, FilesStarts, FilesProofs!FilesInit, FilesProofs!StaleInit DEF ConnectorsInv
  <2>2. CASE scenario = "parsers" /\ TwoParsers!Init
    BY <1>4, <2>2, ParsersStarts, ParsersProofs!FilesInit, ParsersProofs!ShownInit
    DEF ConnectorsInv
  <2>3. CASE scenario = "draws" /\ TwoDraws!Init
    BY <1>4, <2>3, DrawsStarts, DrawsProofs!FilesInit, DrawsProofs!ShownInit DEF ConnectorsInv
  <2> QED
    BY <1>4, <2>1, <2>2, <2>3 DEF DocumentsInit
<1>5. CASE DiscordInit
  BY <1>5, ChannelInit DEF DiscordInit, ConnectorsInv
<1> QED
  BY <1>1, <1>2, <1>3, <1>4, <1>5 DEF Init

LEMMA ConnectorsStep == ConnectorsInv /\ [Next]_vars => ConnectorsInv' /\ ConnectorsSteps
<1> SUFFICES ASSUME ConnectorsInv, [Next]_vars PROVE ConnectorsInv' /\ ConnectorsSteps
  OBVIOUS
<1>17. ASSUME scenario = "view", [View!Next]_(View!vars) PROVE ViewInv' /\ ViewAdvances
  BY <1>17, ViewStep, ViewRefines DEF ConnectorsInv
<1>1. ASSUME scenario = "log", [Log!Next]_(Log!vars)
      PROVE  LogInv' /\ LoggedInv' /\ Log!CheckpointOnlyExtends
  BY <1>1, LogStep, LoggedStep DEF ConnectorsInv
<1>2. ASSUME scenario = "append", [CrashLog!Next]_(CrashLog!vars) PROVE AppendInv'
  BY <1>2, AppendStep DEF ConnectorsInv
<1>3. ASSUME scenario = "insert", [Insert!Next]_(Insert!vars) PROVE InsertInv'
  BY <1>3, InsertStep DEF ConnectorsInv
<1>4. ASSUME scenario = "cycles", [Cycles!Next]_(Cycles!vars)
      PROVE  CyclesInv' /\ Cycles!EndedCycleIsComplete
  BY <1>4, CyclesStep DEF ConnectorsInv
<1>5. ASSUME scenario = "rest", [Api!Next]_(Api!vars) PROVE RestInv' /\ RestSafe
  BY <1>5, RestStep DEF ConnectorsInv
<1>6. ASSUME scenario = "two_files", TwoFiles!Next \/ UNCHANGED TwoFiles!vars
      PROVE  FilesProofs!DocumentsInv' /\ FilesProofs!StaleInv'
  BY <1>6, FilesAssumption, FilesNext, FilesStays, FilesProofs!FilesStep, FilesProofs!StaleStep
  DEF ConnectorsInv
<1>13. ASSUME scenario = "parsers", TwoParsers!Next \/ UNCHANGED TwoParsers!vars
      PROVE  ParsersProofs!DocumentsInv' /\ ParsersProofs!ShownInv'
  BY <1>13, ParsersAssumption, ParsersNext, ParsersStays, ParsersProofs!FilesStep, ParsersProofs!ShownStep
  DEF ConnectorsInv
<1>14. ASSUME scenario = "draws", TwoDraws!Next \/ UNCHANGED TwoDraws!vars
      PROVE  DrawsProofs!DocumentsInv' /\ DrawsProofs!ShownInv'
  BY <1>14, DrawsAssumption, DrawsNext, DrawsStays, DrawsProofs!FilesStep, DrawsProofs!ShownStep
  DEF ConnectorsInv
<1>15. ASSUME scenario = "incremental", [Incr!Next]_(Incr!vars) PROVE IncrInv'
  BY <1>15, IncrStep DEF ConnectorsInv
<1>16. ASSUME scenario = "discord", [Discord!Next]_(Discord!vars) PROVE ChannelInv'
  BY <1>16, ChannelStep DEF ConnectorsInv
<1>7. CASE PipelineNext
  BY <1>1, <1>2, <1>7, <1>17 DEF PipelineNext, ConnectorsInv, ConnectorsSteps
<1>8. CASE PostgresNext
  BY <1>3, <1>4, <1>8, <1>15 DEF PostgresNext, ConnectorsInv, ConnectorsSteps
<1>9. CASE RestNext
  BY <1>5, <1>9 DEF RestNext, ConnectorsInv, ConnectorsSteps
<1>10. CASE DocumentsNext
  BY <1>6, <1>10, <1>13, <1>14 DEF DocumentsNext, ConnectorsInv, ConnectorsSteps
<1>11. CASE DiscordNext
  BY <1>11, <1>16 DEF DiscordNext, ConnectorsInv, ConnectorsSteps
<1>12. CASE UNCHANGED vars
  <2>1. UNCHANGED scenario /\ UNCHANGED (Log!vars) /\ UNCHANGED (CrashLog!vars)
        /\ UNCHANGED (View!vars)
    BY <1>12 DEF vars, pipelineVars, commonVars, Log!vars, CrashLog!vars, View!vars
  <2>2. UNCHANGED (Insert!vars) /\ UNCHANGED (Cycles!vars)
    BY <1>12 DEF vars, postgresVars, commonVars, Insert!vars, Cycles!vars
  <2>5. UNCHANGED (Incr!vars) /\ UNCHANGED (Discord!vars)
    BY <1>12 DEF vars, postgresVars, discordVars, commonVars, Incr!vars, Discord!vars
  <2>3. UNCHANGED (Api!vars)
    BY <1>12 DEF vars, restVars, commonVars, Api!vars
  <2>4. UNCHANGED (TwoFiles!vars) /\ UNCHANGED (TwoParsers!vars) /\ UNCHANGED (TwoDraws!vars)
    BY <1>12 DEF vars, documentsVars, commonVars, TwoFiles!vars, TwoParsers!vars, TwoDraws!vars
  <2> QED
    BY <1>1, <1>2, <1>3, <1>4, <1>5, <1>6, <1>13, <1>14, <1>15, <1>16, <1>17, <2>1, <2>2, <2>3, <2>4, <2>5
       DEF ConnectorsInv, ConnectorsSteps
<1> QED
  BY <1>7, <1>8, <1>9, <1>10, <1>11, <1>12 DEF Next

LEMMA ConnectorsInvariant == Spec => []ConnectorsInv
  BY ConnectorsInit, ConnectorsStep, PTL DEF Spec

\* JsonlDestination.write never logs a version twice, the ledger of
\* PostgresDestination.write never inserts an event twice, and _progress of the
\* REST source never completes a request twice within a cycle: for any number of
\* records, pages, crashes and runs.
THEOREM NothingComesTwice == Spec => []NothingIsDeliveredTwice
<1>1. ConnectorsInv => NothingIsDeliveredTwice
  BY DEF ConnectorsInv, NothingIsDeliveredTwice, AppendInv, InsertInv, RestInv, RestTypes,
     Api!NoPageTwiceInCycle
<1> QED
  BY <1>1, ConnectorsInvariant, PTL

\* Every checkpoint a run of DocumentSource.read leaves passes _validate_state of
\* the next run: for any files, parsers, extractions, changes and faults.
THEOREM CheckpointStaysValid == Spec => []CheckpointIsValid
<1>1. ConnectorsInv => CheckpointIsValid
  BY FilesAssumption, FilesProofs!SoundIsValid, FilesValid
  DEF ConnectorsInv, CheckpointIsValid, FilesProofs!CheckpointIsValid,
      FilesProofs!DocumentsInv
<1> QED
  BY <1>1, ConnectorsInvariant, PTL

\* When a run of DocumentSource.read has ended well, the destination holds nothing of a
\* file that has gone and nothing behind the end of one that has shrunk: for any files,
\* lengths, intervals, changes and failures, as long as no run dies while it buries.
THEOREM NothingStaleIsLeft == Spec => []NoStaleElements
<1>1. ConnectorsInv => NoStaleElements
  BY FilesProofs!StaleSafe, FilesStale DEF ConnectorsInv, NoStaleElements
<1> QED
  BY <1>1, ConnectorsInvariant, PTL

\* The prefix hash of JsonlSource never lets a checkpoint of one file be taken for
\* a place in another: for files of any length, rotated at any time.
THEOREM CheckpointsKeepExtending == Spec => CheckpointsOnlyExtend
<1>1. ConnectorsInv /\ [Next]_vars => [scenario = "log" => Log!CheckpointOnlyExtends]_vars
  BY ConnectorsStep DEF ConnectorsSteps
<1> QED
  BY <1>1, ConnectorsInvariant, PTL DEF Spec, CheckpointsOnlyExtend

\* A full-refresh cycle that ends has applied every row that did not change since
\* it began, over an API that did not change it has stored every page, and a
\* checkpoint that passes a page leaves none of its records: for tables, pages and
\* chains of any size, whatever crashes between a write and its checkpoint.
THEOREM CyclesStayComplete == Spec => CyclesAreComplete
<1>1. ConnectorsInv /\ [Next]_vars =>
        [/\ scenario = "cycles" => Cycles!EndedCycleIsComplete
         /\ scenario = "rest" => Api!CycleIsComplete /\ Api!PassedPageIsDelivered]_vars
  BY ConnectorsStep DEF ConnectorsSteps, RestSafe
<1> QED
  BY <1>1, ConnectorsInvariant, PTL DEF Spec, CyclesAreComplete

\* The checkpoint never runs ahead of the destination, whatever is written between two
\* of them and wherever a run dies: the order write, flush, save of Pipeline.run, the
\* (cursor, key) position of PostgresSource, the entries of DocumentSource, and the
\* watermark and the walk of DiscordSource, for inputs of any size.
THEOREM CheckpointsAreDelivered == Spec => []CheckpointedIsDelivered
<1>1. ConnectorsInv => CheckpointedIsDelivered
  BY ViewSafe, LoggedSafe, IncrSafe, ChannelSafe, ParsersAssumption, DrawsAssumption,
     ParsersProofs!ShownSafe, DrawsProofs!ShownSafe, ParsersDelivered, DrawsDelivered
  DEF ConnectorsInv, CheckpointedIsDelivered
<1> QED
  BY <1>1, ConnectorsInvariant, PTL

\* SQLiteCollection under Pipeline.run implements PrefixView: a reader sees the input up
\* to some line applied in order, and that line never moves back, for any batch size,
\* any number of crashes and an input that grows meanwhile.
THEOREM CollectionKeepsPromise == Spec => ImplementsPrefixView
<1>1. Init => Promise!Init
  BY PromiseInit
<1>2. ConnectorsInv /\ [Next]_vars =>
        [Promise!Next]_<<IF scenario = "view" THEN View!Changes(file) ELSE <<>>,
                         IF scenario = "view" THEN View!Shown ELSE [k \in RecordIds |-> Absent]>>
  BY ConnectorsStep, PromiseStep DEF ConnectorsSteps, Offered, Seen
<1> QED
  BY <1>1, <1>2, ConnectorsInvariant, PTL DEF Spec, ImplementsPrefixView, Promise!Spec
===============================================================================
