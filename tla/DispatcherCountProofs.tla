------------------------ MODULE DispatcherCountProofs ------------------------
(***************************************************************************)
(* Proofs about what the dispatcher counts: where each task is, what the   *)
(* usage counters and the records of bindings say, and that the limits on  *)
(* them are kept, for any number of clients, tasks, tags and workers.      *)
(***************************************************************************)
EXTENDS DispatcherProofs

-----------------------------------------------------------------------------
(* What is in a list of tasks, and that it is there once *)

LEMMA RangeEmpty == Range(<<>>) = {} /\ IsInjective(<<>>)
BY DEF Range, IsInjective

LEMMA RangeAppend ==
  ASSUME NEW S, NEW s \in Seq(S), NEW e \in S
  PROVE  /\ Range(Append(s, e)) = Range(s) \cup {e}
         /\ IsInjective(s) /\ e \notin Range(s) => IsInjective(Append(s, e))
<1> DEFINE a == Append(s, e)
<1>1. /\ DOMAIN s = 1 .. Len(s) /\ DOMAIN a = 1 .. Len(s) + 1 /\ Len(s) \in Nat
      /\ \A i \in 1 .. Len(s) : a[i] = s[i]
      /\ a[Len(s) + 1] = e
  BY AppendProperties, LenProperties
<1> HIDE DEF a
<1>2. \A i : i \in DOMAIN a <=> i \in DOMAIN s \/ i = Len(s) + 1
  BY <1>1
<1>3. Range(a) = Range(s) \cup {e}
  BY <1>1, <1>2 DEF Range
<1>4. IsInjective(s) /\ e \notin Range(s) => IsInjective(a)
  BY <1>1, <1>2 DEF Range, IsInjective
<1> QED  BY <1>3, <1>4 DEF a

LEMMA RangeTail ==
  ASSUME NEW S, NEW s \in Seq(S), s # <<>>
  PROVE  /\ Range(s) = Range(Tail(s)) \cup {Head(s)}
         /\ IsInjective(s) => IsInjective(Tail(s)) /\ Head(s) \notin Range(Tail(s))
<1> DEFINE u == Tail(s)
<1>1. /\ DOMAIN s = 1 .. Len(s) /\ DOMAIN u = 1 .. Len(s) - 1 /\ Len(s) \in Nat \ {0}
      /\ \A i \in 1 .. Len(s) - 1 : u[i] = s[i + 1]
      /\ Head(s) = s[1]
  <2>1. u \in Seq(S) /\ Len(u) = Len(s) - 1 /\ \A i \in 1 .. Len(u) : u[i] = s[i + 1]
    BY HeadTailProperties
  <2>2. DOMAIN s = 1 .. Len(s) /\ Len(s) \in Nat \ {0} /\ DOMAIN u = 1 .. Len(u)
    BY <2>1, LenProperties, EmptySeq
  <2> QED  BY <2>1, <2>2
<1> HIDE DEF u
<1>2. \A i \in DOMAIN u : i + 1 \in DOMAIN s /\ u[i] = s[i + 1] /\ i \in Nat \ {0}
  BY <1>1
<1>3. Range(s) = Range(u) \cup {Head(s)}
  <2>1. ASSUME NEW i \in DOMAIN s PROVE s[i] = Head(s) \/ (i - 1 \in DOMAIN u /\ u[i - 1] = s[i])
    BY <1>1
  <2>2. Head(s) \in Range(s)
    BY <1>1 DEF Range
  <2> QED  BY <1>2, <2>1, <2>2 DEF Range
<1>4. ASSUME IsInjective(s) PROVE IsInjective(u) /\ Head(s) \notin Range(u)
  <2>1. ASSUME NEW i \in DOMAIN u, NEW j \in DOMAIN u, u[i] = u[j] PROVE i = j
    <3>1. i + 1 = j + 1
      BY <1>2, <1>4, <2>1 DEF IsInjective
    <3> QED  BY <1>2, <3>1
  <2>2. ASSUME NEW i \in DOMAIN u, u[i] = Head(s) PROVE FALSE
    <3>1. i + 1 = 1
      BY <1>1, <1>2, <1>4, <2>2 DEF IsInjective
    <3> QED  BY <1>2, <3>1
  <2> QED  BY <2>1, <2>2 DEF IsInjective, Range
<1> QED  BY <1>3, <1>4 DEF u

LEMMA Suffix ==
  ASSUME NEW S, NEW s \in Seq(S), NEW m \in 1 .. Len(s) + 1
  PROVE  /\ SubSeq(s, m, Len(s)) \in Seq(S)
         /\ Len(SubSeq(s, m, Len(s))) = Len(s) - m + 1
         /\ \A i \in 1 .. Len(s) - m + 1 : SubSeq(s, m, Len(s))[i] = s[m + i - 1]
<1>1. Len(s) \in Nat /\ \A i \in 1 .. Len(s) : s[i] \in S
  BY LenProperties, ElementOfSeq
<1>2. \A i \in m .. Len(s) : s[i] \in S
  BY <1>1
<1> QED  BY <1>1, <1>2, SubSeqProperties

\* What is where when an element is taken out.
LEMMA RemovedAt ==
  ASSUME NEW S, NEW s \in Seq(S), NEW n \in 1 .. Len(s)
  PROVE  /\ RemoveAt(s, n) \in Seq(S) /\ Len(RemoveAt(s, n)) = Len(s) - 1
         /\ DOMAIN RemoveAt(s, n) = 1 .. Len(s) - 1
         /\ \A i \in 1 .. Len(s) - 1 : RemoveAt(s, n)[i] = IF i < n THEN s[i] ELSE s[i + 1]
<1> DEFINE a == SubSeq(s, 1, n - 1)
           b == SubSeq(s, n + 1, Len(s))
           r == RemoveAt(s, n)
<1>1. Len(s) \in Nat /\ DOMAIN s = 1 .. Len(s) /\ \A i \in 1 .. Len(s) : s[i] \in S
  BY LenProperties, ElementOfSeq
<1>0. n \in Nat /\ 1 <= n /\ n <= Len(s)
  BY <1>1
<1>2. /\ a \in Seq(S) /\ Len(a) = n - 1 /\ \A i \in 1 .. n - 1 : a[i] = s[i]
  <2>1. \A i \in 1 .. n - 1 : s[i] \in S
    BY <1>1
  <2> QED  BY <1>1, <2>1, SubSeqProperties
<1>3. /\ b \in Seq(S) /\ Len(b) = Len(s) - n /\ \A i \in 1 .. Len(s) - n : b[i] = s[n + i]
  <2>1. n + 1 \in 1 .. Len(s) + 1
    BY <1>0, <1>1
  <2>2. /\ b \in Seq(S) /\ Len(b) = Len(s) - (n + 1) + 1
        /\ \A i \in 1 .. Len(s) - (n + 1) + 1 : b[i] = s[(n + 1) + i - 1]
    BY <2>1, Suffix
  <2> HIDE DEF b
  <2> QED  BY <1>0, <1>1, <2>2
<1>4. r = a \o b
  BY DEF RemoveAt
<1> HIDE DEF a, b, r
<1>5. /\ r \in Seq(S) /\ Len(r) = Len(s) - 1 /\ DOMAIN r = 1 .. Len(s) - 1
      /\ \A i \in 1 .. Len(s) - 1 : r[i] = IF i < n THEN s[i] ELSE s[i + 1]
  <2>1. /\ r \in Seq(S) /\ Len(r) = Len(a) + Len(b)
        /\ \A i \in 1 .. Len(a) + Len(b) : r[i] = IF i <= Len(a) THEN a[i] ELSE b[i - Len(a)]
    BY <1>2, <1>3, <1>4, ConcatProperties
  <2>2. r \in Seq(S) /\ Len(r) = Len(s) - 1 /\ DOMAIN r = 1 .. Len(s) - 1
    BY <1>1, <1>2, <1>3, <2>1, LenProperties
  <2>3. ASSUME NEW i \in 1 .. Len(s) - 1 PROVE r[i] = IF i < n THEN s[i] ELSE s[i + 1]
    <3>1. CASE i < n
      <4>1. i \in 1 .. n - 1 /\ i <= Len(a) /\ i \in 1 .. Len(a) + Len(b)
        BY <1>1, <1>2, <1>3, <3>1
      <4>2. r[i] = a[i] /\ a[i] = s[i]
        BY <1>2, <2>1, <4>1
      <4> QED  BY <3>1, <4>2
    <3>2. CASE i >= n
      <4>1. i \in 1 .. Len(a) + Len(b) /\ ~(i <= Len(a)) /\ i - Len(a) \in 1 .. Len(s) - n
        BY <1>0, <1>1, <1>2, <1>3, <3>2
      <4>2. r[i] = b[i - Len(a)] /\ b[i - Len(a)] = s[n + (i - Len(a))]
        BY <1>3, <2>1, <4>1
      <4>3. n + (i - Len(a)) = i + 1
        BY <1>0, <1>1, <1>2
      <4> QED  BY <3>2, <4>2, <4>3
    <3> QED  BY <1>1, <3>1, <3>2
  <2> QED  BY <2>2, <2>3
<1> QED  BY <1>5 DEF r

\* Taking an element out of the queue leaves the others.
LEMMA RangeRemoved ==
  ASSUME NEW S, NEW s \in Seq(S), NEW n \in 1 .. Len(s)
  PROVE  /\ Range(s) = Range(RemoveAt(s, n)) \cup {s[n]}
         /\ IsInjective(s) => IsInjective(RemoveAt(s, n)) /\ s[n] \notin Range(RemoveAt(s, n))
<1> DEFINE r == RemoveAt(s, n)
<1>1. Len(s) \in Nat /\ DOMAIN s = 1 .. Len(s)
  BY LenProperties
<1>5. /\ DOMAIN r = 1 .. Len(s) - 1
      /\ \A i \in 1 .. Len(s) - 1 : r[i] = IF i < n THEN s[i] ELSE s[i + 1]
  BY RemovedAt
<1> HIDE DEF r
\* Where the elements that stay come from.
<1> DEFINE Old(i) == IF i < n THEN i ELSE i + 1
<1>6. \A i \in DOMAIN r : Old(i) \in DOMAIN s /\ Old(i) # n /\ r[i] = s[Old(i)]
  BY <1>1, <1>5
<1>7. \A i, j \in DOMAIN r : Old(i) = Old(j) => i = j
  BY <1>1, <1>5
<1>8. \A j \in DOMAIN s \ {n} : \E i \in DOMAIN r : r[i] = s[j]
  <2> SUFFICES ASSUME NEW j \in DOMAIN s \ {n} PROVE \E i \in DOMAIN r : r[i] = s[j]
    OBVIOUS
  <2>1. CASE j < n
    BY <1>1, <1>5, <2>1
  <2>2. CASE j > n
    <3>1. j - 1 \in DOMAIN r /\ r[j - 1] = s[j]
      BY <1>1, <1>5, <2>2
    <3> QED  BY <3>1
  <2> QED  BY <1>1, <2>1, <2>2
<1> HIDE DEF Old
<1>9. Range(s) = Range(r) \cup {s[n]}
  BY <1>1, <1>6, <1>8 DEF Range
<1>10. IsInjective(s) => IsInjective(r) /\ s[n] \notin Range(r)
  BY <1>1, <1>6, <1>7 DEF Range, IsInjective
<1> QED  BY <1>9, <1>10 DEF r

\* What is where when an element is put in.
LEMMA InsertedAt ==
  ASSUME NEW S, NEW s \in Seq(S), NEW e \in S, NEW n \in 1 .. Len(s) + 1
  PROVE  /\ InsertAt(s, n, e) \in Seq(S) /\ Len(InsertAt(s, n, e)) = Len(s) + 1
         /\ DOMAIN InsertAt(s, n, e) = 1 .. Len(s) + 1
         /\ InsertAt(s, n, e)[n] = e
         /\ \A i \in 1 .. n - 1 : InsertAt(s, n, e)[i] = s[i]
         /\ \A i \in n + 1 .. Len(s) + 1 : InsertAt(s, n, e)[i] = s[i - 1]
<1> DEFINE a == SubSeq(s, 1, n - 1)
           b == SubSeq(s, n, Len(s))
           c == a \o <<e>>
           r == InsertAt(s, n, e)
<1>1. Len(s) \in Nat /\ DOMAIN s = 1 .. Len(s) /\ \A i \in 1 .. Len(s) : s[i] \in S
  BY LenProperties, ElementOfSeq
<1>2. a \in Seq(S) /\ Len(a) = n - 1 /\ \A i \in 1 .. n - 1 : a[i] = s[i]
  <2>1. \A i \in 1 .. n - 1 : s[i] \in S
    BY <1>1
  <2> QED  BY <1>1, <2>1, SubSeqProperties
<1>3. b \in Seq(S) /\ Len(b) = Len(s) - n + 1 /\ \A i \in 1 .. Len(s) - n + 1 : b[i] = s[n + i - 1]
  BY <1>1, Suffix
<1>4. r = c \o b
  BY DEF InsertAt
<1> HIDE DEF a, b, r
<1>5. c \in Seq(S) /\ Len(c) = n /\ c[n] = e /\ \A i \in 1 .. n - 1 : c[i] = s[i]
  <2> DEFINE o == <<e>>
  <2>1. Len(o) = 1 /\ o[1] = e
    OBVIOUS
  <2>2. o \in Seq(S)
    OBVIOUS
  <2> HIDE DEF o
  <2>3. /\ c \in Seq(S) /\ Len(c) = Len(a) + Len(o)
        /\ \A i \in 1 .. Len(a) + Len(o) : c[i] = IF i <= Len(a) THEN a[i] ELSE o[i - Len(a)]
    BY <1>2, <2>2, ConcatProperties DEF o
  <2>4. n \in 1 .. Len(a) + Len(o) /\ ~(n <= Len(a)) /\ n - Len(a) = 1
    BY <1>1, <1>2, <2>1
  <2>5. c[n] = e
    BY <2>1, <2>3, <2>4
  <2>6. ASSUME NEW i \in 1 .. n - 1 PROVE c[i] = s[i]
    <3>1. i \in 1 .. Len(a) + Len(o) /\ i <= Len(a)
      BY <1>1, <1>2, <2>1
    <3> QED  BY <1>2, <2>3, <3>1
  <2> QED  BY <1>1, <1>2, <2>1, <2>3, <2>5, <2>6
<1> HIDE DEF c
<1>6. /\ r \in Seq(S) /\ Len(r) = Len(s) + 1 /\ DOMAIN r = 1 .. Len(s) + 1 /\ r[n] = e
      /\ \A i \in 1 .. n - 1 : r[i] = s[i]
      /\ \A i \in n + 1 .. Len(s) + 1 : r[i] = s[i - 1]
  <2>1. /\ r \in Seq(S) /\ Len(r) = Len(c) + Len(b)
        /\ \A i \in 1 .. Len(c) + Len(b) : r[i] = IF i <= Len(c) THEN c[i] ELSE b[i - Len(c)]
    BY <1>3, <1>4, <1>5, ConcatProperties
  <2>2. r \in Seq(S) /\ Len(r) = Len(s) + 1 /\ DOMAIN r = 1 .. Len(s) + 1
    BY <1>1, <1>3, <1>5, <2>1, LenProperties
  <2>3. r[n] = e /\ \A i \in 1 .. n - 1 : r[i] = s[i]
    BY <1>1, <1>3, <1>5, <2>1
  <2>4. ASSUME NEW i \in n + 1 .. Len(s) + 1 PROVE r[i] = s[i - 1]
    <3>1. r[i] = b[i - n] /\ i - n \in 1 .. Len(s) - n + 1
      BY <1>1, <1>3, <1>5, <2>1
    <3>2. b[i - n] = s[n + (i - n) - 1]
      BY <1>3, <3>1
    <3> QED  BY <1>1, <3>1, <3>2
  <2> QED  BY <2>2, <2>3, <2>4
<1> QED  BY <1>6 DEF r

\* Putting an element into the queue, wherever, leaves the others.
LEMMA RangeInserted ==
  ASSUME NEW S, NEW s \in Seq(S), NEW e \in S, NEW n \in 1 .. Len(s) + 1
  PROVE  /\ Range(InsertAt(s, n, e)) = Range(s) \cup {e}
         /\ IsInjective(s) /\ e \notin Range(s) => IsInjective(InsertAt(s, n, e))
<1> DEFINE r == InsertAt(s, n, e)
<1>1. Len(s) \in Nat /\ DOMAIN s = 1 .. Len(s)
  BY LenProperties
<1>6. /\ DOMAIN r = 1 .. Len(s) + 1 /\ r[n] = e
      /\ \A i \in 1 .. n - 1 : r[i] = s[i]
      /\ \A i \in n + 1 .. Len(s) + 1 : r[i] = s[i - 1]
  BY InsertedAt
<1> HIDE DEF r
<1> DEFINE Old(i) == IF i < n THEN i ELSE i - 1
<1>7. \A i \in DOMAIN r \ {n} : Old(i) \in DOMAIN s /\ r[i] = s[Old(i)]
  BY <1>1, <1>6
<1>8. \A i, j \in DOMAIN r \ {n} : Old(i) = Old(j) => i = j
  BY <1>1, <1>6
<1>9. \A j \in DOMAIN s : \E i \in DOMAIN r : r[i] = s[j]
  <2> SUFFICES ASSUME NEW j \in DOMAIN s PROVE \E i \in DOMAIN r : r[i] = s[j]
    OBVIOUS
  <2>1. CASE j < n
    BY <1>1, <1>6, <2>1
  <2>2. CASE j >= n
    <3>1. j + 1 \in DOMAIN r /\ r[j + 1] = s[j]
      BY <1>1, <1>6, <2>2
    <3> QED  BY <3>1
  <2> QED  BY <1>1, <2>1, <2>2
<1>10. n \in DOMAIN r
  BY <1>1, <1>6
<1> HIDE DEF Old
<1>11. Range(r) = Range(s) \cup {e}
  BY <1>6, <1>7, <1>9, <1>10 DEF Range
<1>12. IsInjective(s) /\ e \notin Range(s) => IsInjective(r)
  BY <1>6, <1>7, <1>8, SMTT(20) DEF Range, IsInjective
<1> QED  BY <1>11, <1>12 DEF r

-----------------------------------------------------------------------------
(* Bindings *)

BoundTo(w) == {g \in Tags : tagToWorkerBindings[g] = w}

\* The records of bindings can be counted, and agree.
Counted == BindingsConsistent /\ \A w \in Workers : IsFiniteSet(BoundTo(w))

LEMMA FiniteWorkers == IsFiniteSet(Workers)
BY DispatcherAssumption, FS_Interval DEF Workers

LEMMA BoundWorkersCounted ==
  ASSUME IInv, BindingsConsistent
  PROVE  /\ IsFiniteSet(boundWorkers) /\ Cardinality(boundWorkers) = BoundAmount
         /\ Cardinality(boundWorkers) \in Nat /\ Cardinality(boundWorkers) <= allWorkers
<1>1. boundWorkers \subseteq 0 .. (allWorkers - 1) /\ allWorkers \in Nat
  BY Bounds DEF IInv, TypeOK
<1>2. IsFiniteSet(0 .. (allWorkers - 1)) /\ Cardinality(0 .. (allWorkers - 1)) = allWorkers
  BY <1>1, FS_Interval
<1>3. IsFiniteSet(boundWorkers) /\ Cardinality(boundWorkers) <= allWorkers
  BY <1>1, <1>2, FS_Subset
<1>4. Cardinality(boundWorkers) = BoundAmount
  BY DEF BindingsConsistent, BoundAmount
<1> QED  BY <1>3, <1>4, FS_CardinalityType

LEMMA InitCounted == Init => Counted
<1> SUFFICES ASSUME Init PROVE Counted
  OBVIOUS
<1>1. \A w \in Workers : w \in Nat
  BY DEF Workers
<1>2. \A w \in Workers : BoundTo(w) = {} /\ workersBindingsCount[w] = 0
  BY <1>1 DEF Init, BoundTo
<1>3. \A w \in Workers : workersBindingsCount[w] = Cardinality(BoundTo(w)) /\ IsFiniteSet(BoundTo(w))
  BY <1>2, FS_EmptySet
<1>4. boundWorkers = {} /\ {w \in Workers : workersBindingsCount[w] > 0} = {}
  BY <1>2 DEF Init
<1>5. Cardinality(boundWorkers) <= boundCapacity
  BY <1>4, FS_EmptySet, DispatcherAssumption DEF Init
<1> QED  BY <1>3, <1>4, <1>5 DEF Counted, BindingsConsistent, BoundTo

\* A tag is bound to one more worker only while boundCapacity allows it.
LEMMA LoopBoundCounted ==
  ASSUME IInv, Counted, NEW t \in Threads, LoopBound(t)
  PROVE  Counted'
<1> DEFINE g == TagOf(tasksQueue[it])
<1>1. g \in Tags
  <2>1. tasksQueue[it] \in Tasks
    BY ErasedType DEF LoopBound, InLoop, IInv, Looping, TypeOK
  <2> QED  BY <2>1, TaskTags
<1>2. PICK w \in WorkersForTag(g) \ {-1} :
        IF NewlyBound(g)
          THEN /\ boundWorkers' = boundWorkers \cup {w}
               /\ workersBindingsCount' = [workersBindingsCount EXCEPT ![w] = @ + 1]
               /\ tagToWorkerBindings' = [tagToWorkerBindings EXCEPT ![g] = w]
          ELSE UNCHANGED bindings
  BY DEF LoopBound
<1>3. boundCapacity' = boundCapacity
  BY DEF LoopBound, settings
<1> HIDE DEF g
<1>4. w \in Workers
  BY <1>1, <1>2, WorkersForTagExist
<1>5. CASE ~NewlyBound(g)
  BY <1>2, <1>3, <1>5 DEF bindings, Counted, BindingsConsistent, BoundTo
<1>6. CASE NewlyBound(g)
  <2>1. /\ boundWorkers' = boundWorkers \cup {w}
        /\ workersBindingsCount' = [workersBindingsCount EXCEPT ![w] = @ + 1]
        /\ tagToWorkerBindings' = [tagToWorkerBindings EXCEPT ![g] = w]
        /\ tagToWorkerBindings[g] = -1
    BY <1>2, <1>6 DEF NewlyBound
  <2>2. /\ tagToWorkerBindings \in [Tags -> Workers \cup {-1}]
        /\ workersBindingsCount \in [Workers -> Nat] /\ boundCapacity \in Nat
        /\ \A v \in Workers : v \in Nat
    BY DEF IInv, TypeOK, Workers
  <2>3. BoundTo(w)' = BoundTo(w) \cup {g} /\ g \notin BoundTo(w)
    BY <1>1, <1>4, <2>1, <2>2 DEF BoundTo
  <2>4. \A v \in Workers \ {w} : BoundTo(v)' = BoundTo(v)
    BY <1>1, <2>1, <2>2 DEF BoundTo
  <2>5. /\ IsFiniteSet(BoundTo(w)')
        /\ Cardinality(BoundTo(w)') = Cardinality(BoundTo(w)) + 1
    BY <1>4, <2>3, FS_AddElement DEF Counted
  <2>6. \A v \in Workers : workersBindingsCount[v] = Cardinality(BoundTo(v))
    BY DEF Counted, BindingsConsistent, BoundTo
  <2>7. ASSUME NEW v \in Workers
        PROVE  IsFiniteSet(BoundTo(v)') /\ workersBindingsCount'[v] = Cardinality(BoundTo(v)')
    <3>1. CASE v = w
      BY <1>4, <2>1, <2>2, <2>5, <2>6, <3>1
    <3>2. CASE v # w
      BY <2>1, <2>2, <2>4, <2>6, <3>2 DEF Counted
    <3> QED  BY <3>1, <3>2
  <2>8. boundWorkers' = {v \in Workers : workersBindingsCount'[v] > 0}
    <3>1. boundWorkers = {v \in Workers : workersBindingsCount[v] > 0}
      BY DEF Counted, BindingsConsistent
    <3> QED  BY <1>4, <2>1, <2>2, <3>1
  <2>9. Cardinality(boundWorkers') <= boundCapacity
    <3>1. IsFiniteSet(boundWorkers) /\ Cardinality(boundWorkers) \in Nat
          /\ Cardinality(boundWorkers) = BoundAmount /\ Cardinality(boundWorkers) <= boundCapacity
      BY BoundWorkersCounted DEF Counted, BindingsConsistent
    <3>2. Cardinality(boundWorkers') =
            IF w \in boundWorkers THEN Cardinality(boundWorkers) ELSE Cardinality(boundWorkers) + 1
      BY <2>1, <3>1, FS_AddElement
    <3>3. BoundAmount >= boundCapacity => w \in boundWorkers
      <4>1. LeastBound \subseteq boundWorkers \cup {-1}
        BY SetBits DEF LeastBound
      <4> QED  BY <1>2, <2>1, <4>1 DEF WorkersForTag
    <3> QED  BY <2>2, <3>1, <3>2, <3>3
  <2> QED  BY <1>3, <2>7, <2>8, <2>9 DEF Counted, BindingsConsistent, BoundTo
<1> QED  BY <1>5, <1>6

LEMMA NextCounted ==
  ASSUME IInv, Counted, [Next]_vars
  PROVE  Counted'
<1>1. ASSUME UNCHANGED bindings, Cardinality(boundWorkers) <= boundCapacity' PROVE Counted'
  BY <1>1 DEF bindings, Counted, BindingsConsistent, BoundTo
<1>2. ASSUME UNCHANGED <<bindings, boundCapacity>> PROVE Counted'
  BY <1>1, <1>2 DEF Counted, BindingsConsistent
<1>3. /\ Cardinality(boundWorkers) \in Nat /\ Cardinality(boundWorkers) <= allWorkers
      /\ Cardinality(boundWorkers) = BoundAmount /\ Cardinality(boundWorkers) <= boundCapacity
  BY BoundWorkersCounted DEF Counted, BindingsConsistent
<1>4. ASSUME NEW c \in Clients, NEW n \in NewCapacities, SetCapacity(c, n) PROVE Counted'
  <2>1. n \in Int /\ boundCapacity \in Nat
    BY DispatcherAssumption DEF IInv, TypeOK
  <2>2. NewCapacity(n) >= allWorkers /\ NewCapacity(n) \in Int
    BY <2>1, Bounds, ConstantTypes DEF NewCapacity, AtMost, AtLeast
  <2>3. boundCapacity' = AtMost(boundCapacity, NewCapacity(n)) /\ UNCHANGED bindings
    BY <1>4 DEF SetCapacity, unset
  <2>4. Cardinality(boundWorkers) <= boundCapacity'
    BY <1>3, <2>1, <2>2, <2>3, Bounds DEF AtMost
  <2> QED  BY <1>1, <2>3, <2>4
<1>5. ASSUME NEW c \in Clients, NEW n \in NewBoundCapacities, SetBoundCapacity(c, n) PROVE Counted'
  <2>1. n \in Int
    BY DispatcherAssumption
  <2>2. boundCapacity' = AtLeast(BoundAmount, n) /\ UNCHANGED bindings
    BY <1>5 DEF SetBoundCapacity, unset
  <2>3. Cardinality(boundWorkers) <= boundCapacity'
    BY <1>3, <2>1, <2>2 DEF AtLeast
  <2> QED  BY <1>1, <2>2, <2>3
<1>6. CASE \E t \in Threads : Continue(t)
  BY <1>2, <1>6, LoopBoundCounted DEF Continue, HandOver, ScheduleNothing, ScheduleBegin, LoopEnd,
     LoopRun, LoopSkip, settings
<1>7. CASE \E c \in Clients : ContinueSetting(c) \/ CallSetting(c)
  BY <1>2, <1>4, <1>5, <1>7 DEF ContinueSetting, CallSetting, AddCustomTag, PreHeatLock,
     PreHeatLoop, PreHeatEnd, AddCustomTagRead, PauseCustomTag, ResumeCustomTag, PreHeatRead,
     unset, settings
<1>8. CASE \E c \in Clients, k \in Tasks : InsertTask(c, k)
  BY <1>2, <1>8 DEF InsertTask, settings
<1>9. CASE \E w \in Workers : Work(w)
  BY <1>2, <1>9 DEF Work, Pop, Ran, TaskFinished, settings
<1>10. CASE UNCHANGED vars
  BY <1>2, <1>10 DEF vars, settings
<1> QED  BY <1>6, <1>7, <1>8, <1>9, <1>10 DEF Next

\* The three records of bindings agree, and no more workers are bound than
\* boundCapacity allows, while clients set the capacity and boundCapacity and
\* schedule() binds tags to workers it creates or finds.
THEOREM BindingsAgree == Spec => []BindingsConsistent
<1>1. Counted => BindingsConsistent
  BY DEF Counted
<1> QED  BY <1>1, InitIInv, NextIInv, InitCounted, NextCounted, PTL DEF Spec

LEMMA AheadBounded ==
  ASSUME NEW q \in Seq(Tasks), NEW k \in Tasks
  PROVE  Ahead(k, q) + 1 \in 1 .. Len(q) + 1
<1>1. DOMAIN q = 1 .. Len(q) /\ Len(q) \in Nat
  BY LenProperties
<1>2. IsFiniteSet(1 .. Len(q)) /\ Cardinality(1 .. Len(q)) = Len(q)
  BY <1>1, FS_Interval
<1>3. Ahead(k, q) \in Nat /\ Ahead(k, q) <= Len(q)
  BY <1>1, <1>2, FS_Subset, FS_CardinalityType DEF Ahead
<1> QED  BY <1>1, <1>3

-----------------------------------------------------------------------------
(* Where tasks are *)

\* Task k is at place l: the queue, the hand of a thread, the list of a worker,
\* or being run by one.
At(k, l) ==
    \/ l = <<"queue">> /\ k \in Range(tasksQueue)
    \/ \E t \in Threads : l = <<"hand", t>> /\ hand[t] = k
    \/ \E w \in Workers : l = <<"list", w>> /\ k \in Range(workerTasks[w])
    \/ \E w \in Workers : l = <<"current", w>> /\ current[w] = k

\* A task is at one place, once, while it is submitted and not finished.
AtOne ==
    /\ IsInjective(tasksQueue) /\ \A w \in Workers : IsInjective(workerTasks[w])
    /\ \A k \in Tasks : \A l, m : At(k, l) /\ At(k, m) => l = m
    /\ \A k \in Tasks : (\E l : At(k, l)) <=> k \in submitted /\ k \notin finished
    /\ finished \subseteq submitted

\* Task k leaves the places L, which are all it was at, and comes to M.
Moves(k, L, M) ==
    /\ \A j \in Tasks : \A l : At(j, l)' <=> \/ At(j, l) /\ ~(j = k /\ l \in L)
                                             \/ j = k /\ l \in M
    /\ \A l : At(k, l) => l \in L

Stay == \A j \in Tasks : \A l : At(j, l)' <=> At(j, l)

LEMMA PlacesDiffer ==
  ASSUME NEW t, NEW v, NEW w
  PROVE  /\ <<"queue">> # <<"hand", t>> /\ <<"queue">> # <<"list", w>>
         /\ <<"queue">> # <<"current", w>> /\ <<"hand", t>> # <<"list", w>>
         /\ <<"hand", t>> # <<"current", w>> /\ <<"list", w>> # <<"current", v>>
         /\ <<"hand", v>> = <<"hand", w>> => v = w
         /\ <<"list", v>> = <<"list", w>> => v = w
         /\ <<"current", v>> = <<"current", w>> => v = w
OBVIOUS

\* Who is at the places, one kind at a time.
LEMMA AtKinds ==
  /\ \A k : At(k, <<"queue">>) <=> k \in Range(tasksQueue)
  /\ \A k, t : At(k, <<"hand", t>>) <=> t \in Threads /\ hand[t] = k
  /\ \A k, w : At(k, <<"list", w>>) <=> w \in Workers /\ k \in Range(workerTasks[w])
  /\ \A k, w : At(k, <<"current", w>>) <=> w \in Workers /\ current[w] = k
BY PlacesDiffer DEF At

LEMMA HandOverMoves ==
  ASSUME IInv, AtOne, NEW t \in Threads, HandOver(t)
  PROVE  /\ hand[t] \in Tasks /\ workerId[t] \in Workers
         /\ Moves(hand[t], {<<"hand", t>>}, {<<"list", workerId[t]>>})
         /\ IsInjective(tasksQueue') /\ \A w \in Workers : IsInjective(workerTasks'[w])
         /\ UNCHANGED <<submitted, finished, subPoolsUsage>>
<1> DEFINE k == hand[t]
           w == workerId[t]
<1>1. k \in Tasks /\ w \in Workers
  BY Bounds DEF HandOver, IInv, Handing
<1>2. /\ UNCHANGED <<tasksQueue, current, submitted, finished, subPoolsUsage>>
      /\ \A u \in Threads \ {t} : hand'[u] = hand[u]
      /\ hand'[t] = None
  BY Bounds DEF HandOver
<1>3. workerTasks \in [Workers -> Seq(Tasks)]
  BY DEF IInv, TypeOK
<1>4. workerTasks'[w] = Append(workerTasks[w], k) /\ \A v \in Workers \ {w} : workerTasks'[v] = workerTasks[v]
  BY <1>1, <1>3 DEF HandOver
<1>5. At(k, <<"hand", t>>)
  BY DEF At
<1>6. \A l : At(k, l) => l = <<"hand", t>>
  BY <1>1, <1>5 DEF AtOne
<1>7. k \notin Range(workerTasks[w])
  BY <1>1, <1>6, AtKinds, PlacesDiffer
<1>8. /\ Range(workerTasks'[w]) = Range(workerTasks[w]) \cup {k}
      /\ IsInjective(workerTasks'[w])
  BY <1>1, <1>3, <1>4, <1>7, RangeAppend DEF AtOne
<1>9. k # None
  BY <1>1, Bounds
<1> HIDE DEF k, w
<1>10. ASSUME NEW j \in Tasks, NEW l
       PROVE  At(j, l)' <=> \/ At(j, l) /\ ~(j = k /\ l \in {<<"hand", t>>})
                            \/ j = k /\ l \in {<<"list", w>>}
  <2>1. j # None
    BY Bounds
  <2>2. (l = <<"queue">> /\ j \in Range(tasksQueue))' <=> (l = <<"queue">> /\ j \in Range(tasksQueue))
    BY <1>2
  <2>3. (\E u \in Threads : l = <<"hand", u>> /\ hand'[u] = j) <=>
          (\E u \in Threads : l = <<"hand", u>> /\ hand[u] = j) /\ ~(j = k /\ l = <<"hand", t>>)
    BY <1>2, <2>1, PlacesDiffer DEF k
  <2>4. (\E v \in Workers : l = <<"list", v>> /\ j \in Range(workerTasks'[v])) <=>
          (\E v \in Workers : l = <<"list", v>> /\ j \in Range(workerTasks[v])) \/ (j = k /\ l = <<"list", w>>)
    BY <1>1, <1>4, <1>8 DEF k
  <2> QED  BY <1>2, <2>2, <2>3, <2>4, PlacesDiffer DEF At
<1> QED  BY <1>1, <1>2, <1>4, <1>6, <1>8, <1>10 DEF Moves, AtOne, k, w

\* Task k is taken in hand by t: out of the queue, or on its way past it.
LEMMA TakenInHand ==
  ASSUME IInv, NEW t \in Threads, NEW k \in Tasks, hand[t] = None,
         hand' = [hand EXCEPT ![t] = k], UNCHANGED <<workerTasks, current>>,
         \A j : j \in Range(tasksQueue') <=> j \in Range(tasksQueue) /\ j # k,
         \A l : At(k, l) => l = <<"queue">>
  PROVE  Moves(k, {<<"queue">>}, {<<"hand", t>>})
<1>1. \A u \in Threads : hand'[u] = IF u = t THEN k ELSE hand[u]
  BY Bounds
<1> SUFFICES ASSUME NEW j \in Tasks, NEW l
             PROVE  At(j, l)' <=> \/ At(j, l) /\ ~(j = k /\ l \in {<<"queue">>})
                                  \/ j = k /\ l \in {<<"hand", t>>}
  BY DEF Moves
<1>2. j # None
  BY Bounds
<1>3. (\E u \in Threads : l = <<"hand", u>> /\ hand'[u] = j) <=>
        (\E u \in Threads : l = <<"hand", u>> /\ hand[u] = j) \/ (j = k /\ l = <<"hand", t>>)
  BY <1>1, <1>2
<1>4. (l = <<"queue">> /\ j \in Range(tasksQueue)) /\ ~(j = k /\ l = <<"queue">>) <=>
        (l = <<"queue">> /\ j \in Range(tasksQueue'))
  OBVIOUS
<1>5. /\ UNCHANGED (\E w \in Workers : l = <<"list", w>> /\ j \in Range(workerTasks[w]))
      /\ UNCHANGED (\E w \in Workers : l = <<"current", w>> /\ current[w] = j)
  OBVIOUS
<1> QED  BY <1>3, <1>4, <1>5, PlacesDiffer DEF At

\* Task k goes from the queue into the list of worker w.
LEMMA QueueToList ==
  ASSUME IInv, AtOne, NEW w \in Workers, NEW k \in Tasks, UNCHANGED <<hand, current>>,
         workerTasks' = [workerTasks EXCEPT ![w] = Append(@, k)],
         \A j : j \in Range(tasksQueue') <=> j \in Range(tasksQueue) /\ j # k,
         At(k, <<"queue">>)
  PROVE  /\ Moves(k, {<<"queue">>}, {<<"list", w>>})
         /\ \A v \in Workers : IsInjective(workerTasks'[v])
<1>1. workerTasks \in [Workers -> Seq(Tasks)]
  BY DEF IInv, TypeOK
<1>2. \A l : At(k, l) => l = <<"queue">>
  BY DEF AtOne
<1>3. k \notin Range(workerTasks[w])
  BY <1>2, AtKinds, PlacesDiffer
<1>4. workerTasks'[w] = Append(workerTasks[w], k) /\ \A v \in Workers \ {w} : workerTasks'[v] = workerTasks[v]
  BY <1>1
<1>5. Range(workerTasks'[w]) = Range(workerTasks[w]) \cup {k} /\ IsInjective(workerTasks'[w])
  BY <1>1, <1>3, <1>4, RangeAppend DEF AtOne
<1>6. ASSUME NEW j \in Tasks, NEW l
      PROVE  At(j, l)' <=> \/ At(j, l) /\ ~(j = k /\ l \in {<<"queue">>})
                           \/ j = k /\ l \in {<<"list", w>>}
  <2>1. (\E v \in Workers : l = <<"list", v>> /\ j \in Range(workerTasks'[v])) <=>
          (\E v \in Workers : l = <<"list", v>> /\ j \in Range(workerTasks[v])) \/ (j = k /\ l = <<"list", w>>)
    BY <1>4, <1>5
  <2>2. (l = <<"queue">> /\ j \in Range(tasksQueue)) /\ ~(j = k /\ l = <<"queue">>) <=>
          (l = <<"queue">> /\ j \in Range(tasksQueue'))
    OBVIOUS
  <2>3. /\ UNCHANGED (\E u \in Threads : l = <<"hand", u>> /\ hand[u] = j)
        /\ UNCHANGED (\E v \in Workers : l = <<"current", v>> /\ current[v] = j)
    OBVIOUS
  <2> QED  BY <2>1, <2>2, <2>3, PlacesDiffer DEF At
<1> QED  BY <1>2, <1>4, <1>5, <1>6 DEF Moves, AtOne

\* A task that moves to a place is at that one only.
LEMMA MovedTo ==
  ASSUME AtOne, NEW k \in Tasks, NEW L, NEW m, Moves(k, L, {m}),
         IsInjective(tasksQueue'), \A w \in Workers : IsInjective(workerTasks'[w]),
         submitted' = submitted \cup {k}, finished' = finished, k \notin finished
  PROVE  AtOne'
<1>1. \A l : At(k, l)' <=> l = m
  BY DEF Moves
<1>2. \A j \in Tasks \ {k} : \A l : At(j, l)' <=> At(j, l)
  BY DEF Moves
<1>3. \A j \in Tasks : \A l, n : At(j, l)' /\ At(j, n)' => l = n
  BY <1>1, <1>2 DEF AtOne
<1>4. \A j \in Tasks : (\E l : At(j, l)') <=> j \in submitted' /\ j \notin finished'
  BY <1>1, <1>2 DEF AtOne
<1> QED  BY <1>3, <1>4 DEF AtOne

\* A task that moves to no place has finished.
LEMMA MovedOut ==
  ASSUME AtOne, NEW k \in Tasks, NEW L, Moves(k, L, {}), \E l : At(k, l),
         IsInjective(tasksQueue'), \A w \in Workers : IsInjective(workerTasks'[w]),
         submitted' = submitted, finished' = finished \cup {k}
  PROVE  AtOne'
<1>1. \A l : ~At(k, l)'
  BY DEF Moves
<1>2. \A j \in Tasks \ {k} : \A l : At(j, l)' <=> At(j, l)
  BY DEF Moves
<1>3. \A j \in Tasks : \A l, n : At(j, l)' /\ At(j, n)' => l = n
  BY <1>1, <1>2 DEF AtOne
<1>4. \A j \in Tasks : (\E l : At(j, l)') <=> j \in submitted' /\ j \notin finished'
  BY <1>1, <1>2 DEF AtOne
<1>5. k \in submitted
  BY DEF AtOne
<1> QED  BY <1>3, <1>4, <1>5 DEF AtOne

\* Task k has been given out: it is with a worker, or on its way to one.
Away(k) == \E l : l # <<"queue">> /\ At(k, l)

\* What a step is to the subpools: it gives no task out and ends none, it
\* gives out one that its subpool has room for, or it ends one.
Neither == UNCHANGED subPoolsUsage /\ \A j \in Tasks : Away(j)' <=> Away(j)
GivesOut(k) ==
    /\ ~Away(k)
    /\ \A j \in Tasks : Away(j)' <=> Away(j) \/ j = k
    /\ UNCHANGED settings
    /\ IF Bound(k) THEN UNCHANGED subPoolsUsage
       ELSE HasRoom(k) /\ subPoolsUsage' = [subPoolsUsage EXCEPT ![PoolOf(k)] = @ + 1]
Ends(k) ==
    /\ Away(k)
    /\ \A j \in Tasks : Away(j)' <=> Away(j) /\ j # k
    /\ UNCHANGED settings
    /\ subPoolsUsage' = UsageAfter(k)
Counts == Neither \/ \E k \in Tasks : GivesOut(k) \/ Ends(k)

LEMMA AwayMoves ==
  ASSUME NEW k \in Tasks, NEW L, NEW M, Moves(k, L, M)
  PROVE  /\ \A j \in Tasks : j # k => (Away(j)' <=> Away(j))
         /\ Away(k)' <=> \E m \in M : m # <<"queue">>
         /\ L \subseteq {<<"queue">>} => ~Away(k)
<1>1. \A j \in Tasks : \A l : At(j, l)' <=> \/ At(j, l) /\ ~(j = k /\ l \in L)
                                            \/ j = k /\ l \in M
  BY DEF Moves
<1>2. \A l : At(k, l) => l \in L
  BY DEF Moves
<1>3. \A j \in Tasks : Away(j)' <=> \E l : l # <<"queue">> /\ At(j, l)'
  BY DEF Away
<1> QED  BY <1>1, <1>2, <1>3 DEF Away

LEMMA PlacesStay ==
  ASSUME AtOne, UNCHANGED <<tasksQueue, hand, workerTasks, current, submitted, finished>>
  PROVE  AtOne' /\ \A j \in Tasks : Away(j)' <=> Away(j)
BY DEF AtOne, Away, At

LEMMA HandOverCounts ==
  ASSUME IInv, AtOne, NEW t \in Threads, HandOver(t)
  PROVE  AtOne' /\ Neither
<1> PICK k : k = hand[t]
  OBVIOUS
<1> PICK m : m = <<"list", workerId[t]>>
  OBVIOUS
<1>1. /\ k \in Tasks /\ Moves(k, {<<"hand", t>>}, {m})
      /\ IsInjective(tasksQueue') /\ \A w \in Workers : IsInjective(workerTasks'[w])
      /\ UNCHANGED <<submitted, finished, subPoolsUsage>>
  BY HandOverMoves
<1>2. At(k, <<"hand", t>>) /\ <<"hand", t>> # <<"queue">> /\ m # <<"queue">>
  BY PlacesDiffer DEF At
<1>3. k \in submitted /\ k \notin finished
  BY <1>1, <1>2 DEF AtOne
<1>4. Away(k)
  BY <1>2 DEF Away
<1>5. AtOne'
  BY <1>1, <1>3, MovedTo
<1>6. Away(k)' /\ \A j \in Tasks : j # k => (Away(j)' <=> Away(j))
  BY <1>1, <1>2, AwayMoves
<1> QED  BY <1>1, <1>4, <1>5, <1>6 DEF Neither

LEMMA TakenCounts ==
  ASSUME IInv, AtOne, NEW t \in Threads, NEW k \in Tasks, hand[t] = None,
         hand' = [hand EXCEPT ![t] = k],
         UNCHANGED <<settings, workerTasks, current, finished>>,
         IF Bound(k) THEN UNCHANGED subPoolsUsage
         ELSE HasRoom(k) /\ subPoolsUsage' = [subPoolsUsage EXCEPT ![PoolOf(k)] = @ + 1],
         \A j : j \in Range(tasksQueue') <=> j \in Range(tasksQueue) /\ j # k,
         IsInjective(tasksQueue'),
         \A l : At(k, l) => l = <<"queue">>,
         submitted' = submitted \cup {k}, k \notin finished
  PROVE  AtOne' /\ GivesOut(k)
<1> PICK m : m = <<"hand", t>>
  OBVIOUS
<1>1. Moves(k, {<<"queue">>}, {m}) /\ m # <<"queue">>
  BY TakenInHand, PlacesDiffer
<1>2. \A w \in Workers : IsInjective(workerTasks'[w])
  BY DEF AtOne
<1>3. AtOne'
  BY <1>1, <1>2, MovedTo
<1>4. ~Away(k) /\ Away(k)' /\ \A j \in Tasks : j # k => (Away(j)' <=> Away(j))
  BY <1>1, AwayMoves
<1> QED  BY <1>3, <1>4 DEF GivesOut

\* A task that is submitted is nowhere before.
LEMMA NowhereBefore ==
  ASSUME AtOne, NEW k \in Tasks, k \notin submitted
  PROVE  k \notin finished /\ (\A l : ~At(k, l)) /\ k \notin Range(tasksQueue)
BY AtKinds DEF AtOne

LEMMA InsertTaskCounts ==
  ASSUME IInv, AtOne, NEW c \in Clients, NEW k \in Tasks, InsertTask(c, k)
  PROVE  AtOne' /\ (Neither \/ GivesOut(k))
<1>1. /\ pc[c] = "idle" /\ k \notin submitted /\ submitted' = submitted \cup {k}
      /\ UNCHANGED <<settings, workerTasks, current, finished>>
      /\ InsertBound(c, k) \/ InsertDirect(c, k) \/ InsertQueued(c, k)
  BY DEF InsertTask
<1>2. c \in Threads /\ hand[c] = None
  BY <1>1 DEF IInv, Handing, Threads
<1>3. k \notin finished /\ (\A l : ~At(k, l)) /\ k \notin Range(tasksQueue)
  BY <1>1, NowhereBefore
<1>4. tasksQueue \in Seq(Tasks) /\ IsInjective(tasksQueue)
  BY DEF IInv, TypeOK, AtOne
<1>5. CASE InsertBound(c, k)
  <2>1. hand' = [hand EXCEPT ![c] = k] /\ UNCHANGED <<subPoolsUsage, tasksQueue>> /\ Bound(k)
    BY <1>5 DEF InsertBound
  <2> QED  BY <1>1, <1>2, <1>3, <1>4, <2>1, TakenCounts
<1>6. CASE InsertDirect(c, k)
  <2>1. /\ hand' = [hand EXCEPT ![c] = k] /\ UNCHANGED tasksQueue /\ ~Bound(k) /\ HasRoom(k)
        /\ subPoolsUsage' = [subPoolsUsage EXCEPT ![PoolOf(k)] = @ + 1]
    BY <1>6 DEF InsertDirect, DirectWorkers
  <2> QED  BY <1>1, <1>2, <1>3, <1>4, <2>1, TakenCounts
<1>7. CASE InsertQueued(c, k)
  <2>1. /\ tasksQueue' = InsertAt(tasksQueue, Ahead(k, tasksQueue) + 1, k)
        /\ UNCHANGED <<subPoolsUsage, hand>>
    BY <1>7 DEF InsertQueued, Enqueue
  <2>2. Ahead(k, tasksQueue) + 1 \in 1 .. Len(tasksQueue) + 1
    BY <1>4, AheadBounded
  <2>3. Range(tasksQueue') = Range(tasksQueue) \cup {k} /\ IsInjective(tasksQueue')
    BY <1>3, <1>4, <2>1, <2>2, RangeInserted
  <2> PICK m : m = <<"queue">>
    OBVIOUS
  <2>4. ASSUME NEW j \in Tasks, NEW l
        PROVE  At(j, l)' <=> At(j, l) \/ (j = k /\ l = m)
    BY <1>1, <2>1, <2>3, PlacesDiffer DEF At
  <2>5. Moves(k, {}, {m})
    BY <1>3, <2>4 DEF Moves
  <2>6. AtOne'
    BY <1>1, <1>3, <2>3, <2>5, MovedTo DEF AtOne
  <2>7. \A j \in Tasks : Away(j)' <=> Away(j)
    BY <2>5, AwayMoves
  <2> QED  BY <2>1, <2>6, <2>7 DEF Neither
<1> QED  BY <1>1, <1>5, <1>6, <1>7

\* Erasing the element at the iterator.
LEMMA ErasedTakesOut ==
  ASSUME IInv, AtOne, NEW t \in Threads, pc[t] = "loop", it <= Len(tasksQueue)
  PROVE  /\ tasksQueue[it] \in Tasks /\ At(tasksQueue[it], <<"queue">>)
         /\ \A j : j \in Range(Erased) <=> j \in Range(tasksQueue) /\ j # tasksQueue[it]
         /\ IsInjective(Erased)
<1>1. tasksQueue \in Seq(Tasks) /\ it \in Nat /\ it >= 1 /\ Len(tasksQueue) \in Nat
  BY LenProperties DEF IInv, TypeOK, Looping
<1>2. it \in 1 .. Len(tasksQueue)
  BY <1>1
<1>3. /\ Range(tasksQueue) = Range(Erased) \cup {tasksQueue[it]}
      /\ IsInjective(Erased) /\ tasksQueue[it] \notin Range(Erased)
  BY <1>1, <1>2, RangeRemoved DEF Erased, AtOne
<1>4. tasksQueue[it] \in Tasks
  BY <1>1, <1>2, ElementOfSeq
<1> QED  BY <1>3, <1>4, AtKinds

LEMMA LoopRunCounts ==
  ASSUME IInv, AtOne, NEW t \in Threads, LoopRun(t)
  PROVE  AtOne' /\ \E k \in Tasks : GivesOut(k)
<1> PICK k : k = tasksQueue[it]
  OBVIOUS
<1>1. /\ pc[t] = "loop" /\ it <= Len(tasksQueue) /\ ~Bound(k) /\ HasRoom(k)
      /\ subPoolsUsage' = [subPoolsUsage EXCEPT ![PoolOf(k)] = @ + 1]
      /\ hand' = [hand EXCEPT ![t] = k] /\ tasksQueue' = Erased
      /\ UNCHANGED <<settings, workerTasks, current, submitted, finished>>
  BY DEF LoopRun, InLoop
<1>2. /\ k \in Tasks /\ At(k, <<"queue">>) /\ IsInjective(tasksQueue')
      /\ \A j : j \in Range(tasksQueue') <=> j \in Range(tasksQueue) /\ j # k
  BY <1>1, ErasedTakesOut
<1>3. hand[t] = None
  BY <1>1 DEF IInv, Handing
<1>4. (\A l : At(k, l) => l = <<"queue">>) /\ k \in submitted /\ k \notin finished
  BY <1>2 DEF AtOne
<1>5. submitted' = submitted \cup {k}
  BY <1>1, <1>4
<1> QED  BY <1>1, <1>2, <1>3, <1>4, <1>5, TakenCounts

LEMMA LoopBoundCounts ==
  ASSUME IInv, AtOne, NEW t \in Threads, LoopBound(t)
  PROVE  AtOne' /\ \E k \in Tasks : GivesOut(k)
<1> PICK k : k = tasksQueue[it]
  OBVIOUS
<1>1. /\ pc[t] = "loop" /\ it <= Len(tasksQueue) /\ Bound(k) /\ tasksQueue' = Erased
      /\ \E w \in WorkersForTag(TagOf(k)) \ {-1} :
            workerTasks' = [workerTasks EXCEPT ![w] = Append(@, k)]
      /\ UNCHANGED <<settings, subPoolsUsage, hand, current, submitted, finished>>
  BY DEF LoopBound, InLoop
<1>2. /\ k \in Tasks /\ At(k, <<"queue">>) /\ IsInjective(tasksQueue')
      /\ \A j : j \in Range(tasksQueue') <=> j \in Range(tasksQueue) /\ j # k
  BY <1>1, ErasedTakesOut
<1>3. PICK w \in WorkersForTag(TagOf(k)) \ {-1} :
            workerTasks' = [workerTasks EXCEPT ![w] = Append(@, k)]
  BY <1>1
<1>4. w \in Workers
  BY <1>2, <1>3, WorkersForTagExist, TaskTags
<1> PICK m : m = <<"list", w>>
  OBVIOUS
<1>5. /\ Moves(k, {<<"queue">>}, {m}) /\ m # <<"queue">>
      /\ \A v \in Workers : IsInjective(workerTasks'[v])
  BY <1>1, <1>2, <1>3, <1>4, QueueToList, PlacesDiffer
<1>6. k \in submitted /\ k \notin finished
  BY <1>2 DEF AtOne
<1>7. submitted' = submitted \cup {k}
  BY <1>1, <1>6
<1>8. AtOne'
  BY <1>1, <1>2, <1>5, <1>6, <1>7, MovedTo
<1>9. ~Away(k) /\ Away(k)' /\ \A j \in Tasks : j # k => (Away(j)' <=> Away(j))
  BY <1>2, <1>5, AwayMoves
<1> QED  BY <1>1, <1>2, <1>8, <1>9 DEF GivesOut

LEMMA PopCounts ==
  ASSUME IInv, AtOne, NEW w \in Workers, Pop(w)
  PROVE  AtOne' /\ Neither
<1>1. /\ workerTasks \in [Workers -> Seq(Tasks)] /\ current \in [Workers -> Tasks \cup {None}]
      /\ current[w] = None /\ workerTasks[w] # <<>> /\ workerTasks[w] \in Seq(Tasks)
      /\ None \notin Tasks
  BY Bounds DEF IInv, TypeOK, Working, Pop
<1> PICK k : k = Head(workerTasks[w])
  OBVIOUS
<1>2. /\ UNCHANGED <<tasksQueue, hand, submitted, finished, subPoolsUsage>>
      /\ current' = [current EXCEPT ![w] = k]
      /\ workerTasks' = [workerTasks EXCEPT ![w] = Tail(workerTasks[w])]
  BY <1>1 DEF Pop
<1>3. /\ Range(workerTasks[w]) = Range(workerTasks'[w]) \cup {k}
      /\ IsInjective(workerTasks'[w]) /\ k \notin Range(workerTasks'[w])
  BY <1>1, <1>2, RangeTail DEF AtOne
<1>4. k \in Tasks
  BY <1>1, HeadTailProperties
<1>5. \A v \in Workers : current'[v] = (IF v = w THEN k ELSE current[v])
                         /\ (v # w => workerTasks'[v] = workerTasks[v])
  BY <1>1, <1>2
<1> PICK l1 : l1 = <<"list", w>>
  OBVIOUS
<1> PICK m : m = <<"current", w>>
  OBVIOUS
<1>6. At(k, l1) /\ l1 # <<"queue">> /\ m # <<"queue">>
  BY <1>3, AtKinds, PlacesDiffer
<1>7. ASSUME NEW j \in Tasks, NEW l
      PROVE  At(j, l)' <=> \/ At(j, l) /\ ~(j = k /\ l \in {l1})
                           \/ j = k /\ l \in {m}
  <2>1. (\E v \in Workers : l = <<"list", v>> /\ j \in Range(workerTasks'[v])) <=>
          (\E v \in Workers : l = <<"list", v>> /\ j \in Range(workerTasks[v])) /\ ~(j = k /\ l = l1)
    BY <1>3, <1>5, PlacesDiffer
  <2>2. (\E v \in Workers : l = <<"current", v>> /\ current'[v] = j) <=>
          (\E v \in Workers : l = <<"current", v>> /\ current[v] = j) \/ (j = k /\ l = m)
    BY <1>1, <1>5
  <2>3. /\ (l = <<"queue">> /\ j \in Range(tasksQueue')) <=> (l = <<"queue">> /\ j \in Range(tasksQueue))
        /\ (\E u \in Threads : l = <<"hand", u>> /\ hand'[u] = j) <=>
             (\E u \in Threads : l = <<"hand", u>> /\ hand[u] = j)
    BY <1>2
  <2> QED  BY <2>1, <2>2, <2>3, PlacesDiffer DEF At
<1>8. (\A l : At(k, l) => l = l1) /\ k \in submitted /\ k \notin finished
  BY <1>4, <1>6 DEF AtOne
<1>9. Moves(k, {l1}, {m})
  BY <1>7, <1>8 DEF Moves
<1>10. submitted' = submitted \cup {k} /\ finished' = finished
  BY <1>2, <1>8
<1>11. IsInjective(tasksQueue') /\ \A v \in Workers : IsInjective(workerTasks'[v])
  BY <1>2, <1>3, <1>5 DEF AtOne
<1>12. AtOne'
  BY <1>4, <1>8, <1>9, <1>10, <1>11, MovedTo
<1>13. Away(k) /\ Away(k)' /\ \A j \in Tasks : j # k => (Away(j)' <=> Away(j))
  BY <1>4, <1>6, <1>9, AwayMoves DEF Away
<1> QED  BY <1>2, <1>12, <1>13 DEF Neither

LEMMA TaskFinishedCounts ==
  ASSUME IInv, AtOne, NEW w \in Workers, TaskFinished(w)
  PROVE  AtOne' /\ \E k \in Tasks : Ends(k)
<1> PICK k : k = current[w]
  OBVIOUS
<1>1. k \in Tasks /\ None \notin Tasks /\ current \in [Workers -> Tasks \cup {None}]
  BY Bounds DEF TaskFinished, IInv, Working, TypeOK
<1>2. /\ UNCHANGED <<settings, tasksQueue, hand, workerTasks, submitted>>
      /\ finished' = finished \cup {k} /\ subPoolsUsage' = UsageAfter(k)
      /\ current' = [current EXCEPT ![w] = None]
  BY DEF TaskFinished
<1> PICK l1 : l1 = <<"current", w>>
  OBVIOUS
<1>3. At(k, l1) /\ l1 # <<"queue">>
  BY AtKinds, PlacesDiffer
<1>4. ASSUME NEW j \in Tasks, NEW l
      PROVE  At(j, l)' <=> \/ At(j, l) /\ ~(j = k /\ l \in {l1})
                           \/ j = k /\ l \in {}
  <2>1. (\E v \in Workers : l = <<"current", v>> /\ current'[v] = j) <=>
          (\E v \in Workers : l = <<"current", v>> /\ current[v] = j) /\ ~(j = k /\ l = l1)
    BY <1>1, <1>2, PlacesDiffer
  <2>2. /\ (l = <<"queue">> /\ j \in Range(tasksQueue')) <=> (l = <<"queue">> /\ j \in Range(tasksQueue))
        /\ (\E u \in Threads : l = <<"hand", u>> /\ hand'[u] = j) <=>
             (\E u \in Threads : l = <<"hand", u>> /\ hand[u] = j)
        /\ (\E v \in Workers : l = <<"list", v>> /\ j \in Range(workerTasks'[v])) <=>
             (\E v \in Workers : l = <<"list", v>> /\ j \in Range(workerTasks[v]))
    BY <1>2
  <2> QED  BY <2>1, <2>2, PlacesDiffer DEF At
<1>5. \A l : At(k, l) => l = l1
  BY <1>1, <1>3 DEF AtOne
<1>6. Moves(k, {l1}, {})
  BY <1>4, <1>5 DEF Moves
<1>7. IsInjective(tasksQueue') /\ \A v \in Workers : IsInjective(workerTasks'[v])
  BY <1>2 DEF AtOne
<1>8. AtOne'
  BY <1>1, <1>2, <1>3, <1>6, <1>7, MovedOut
<1>9. Away(k) /\ ~Away(k)' /\ \A j \in Tasks : j # k => (Away(j)' <=> Away(j))
  BY <1>1, <1>3, <1>6, AwayMoves DEF Away
<1> QED  BY <1>1, <1>2, <1>8, <1>9 DEF Ends

LEMMA NextCounts ==
  ASSUME IInv, AtOne, [Next]_vars
  PROVE  AtOne' /\ Counts
<1>1. ASSUME UNCHANGED <<tasksQueue, hand, workerTasks, current, submitted, finished, subPoolsUsage>>
      PROVE  AtOne' /\ Counts
  BY <1>1, PlacesStay DEF Counts, Neither
<1>2. CASE \E t \in Threads : Continue(t)
  <2>1. PICK t \in Threads : Continue(t)
    BY <1>2
  <2>2. CASE HandOver(t) \/ LoopBound(t) \/ LoopRun(t)
    BY <2>2, HandOverCounts, LoopBoundCounts, LoopRunCounts DEF Counts
  <2>3. CASE ScheduleNothing(t) \/ ScheduleBegin(t) \/ LoopEnd(t) \/ LoopSkip(t)
    BY <1>1, <2>3 DEF ScheduleNothing, ScheduleBegin, LoopEnd, LoopSkip
  <2> QED  BY <2>1, <2>2, <2>3 DEF Continue
<1>3. CASE \E c \in Clients : ContinueSetting(c) \/ CallSetting(c)
  BY <1>1, <1>3 DEF ContinueSetting, CallSetting, AddCustomTag, PreHeatLock, PreHeatLoop,
     PreHeatEnd, SetCapacity, SetBoundCapacity, AddCustomTagRead, PauseCustomTag,
     ResumeCustomTag, PreHeatRead, unset
<1>4. CASE \E c \in Clients, k \in Tasks : InsertTask(c, k)
  BY <1>4, InsertTaskCounts DEF Counts
<1>5. CASE \E w \in Workers : Work(w)
  <2>1. PICK w \in Workers : Work(w)
    BY <1>5
  <2>2. CASE Pop(w) \/ TaskFinished(w)
    BY <2>2, PopCounts, TaskFinishedCounts DEF Counts
  <2>3. CASE Ran(w)
    BY <1>1, <2>3 DEF Ran
  <2> QED  BY <2>1, <2>2, <2>3 DEF Work
<1>6. CASE UNCHANGED vars
  BY <1>1, <1>6 DEF vars, locals
<1> QED  BY <1>2, <1>3, <1>4, <1>5, <1>6 DEF Next

LEMMA InitAtOne == Init => AtOne
<1> SUFFICES ASSUME Init PROVE AtOne
  OBVIOUS
<1>1. /\ tasksQueue = <<>> /\ submitted = {} /\ finished = {}
      /\ \A w \in Workers : workerTasks[w] = <<>> /\ current[w] = None
      /\ \A t \in Threads : hand[t] = None
  BY DEF Init
<1>2. \A k \in Tasks : \A l : ~At(k, l)
  BY <1>1, RangeEmpty, ConstantTypes DEF At
<1>3. IsInjective(tasksQueue) /\ \A w \in Workers : IsInjective(workerTasks[w])
  BY <1>1, RangeEmpty
<1> QED  BY <1>1, <1>2, <1>3 DEF AtOne

LEMMA AlwaysAtOne == Spec => []AtOne
BY InitIInv, NextIInv, InitAtOne, NextCounts, PTL DEF Spec

-----------------------------------------------------------------------------
(* Every task at one place *)

\* What Places says of a task that is at one place: there is one position of
\* it, and there is none at the others.
LEMMA OnePlace ==
  ASSUME IInv, AtOne, NEW k \in Tasks
  PROVE  \/ (\A l : ~At(k, l)) /\ Places(k) = {}
         \/ (\E l : At(k, l)) /\ \E x : Places(k) = {x}
<1> DEFINE Q == {<<"queue", i>> : i \in {j \in DOMAIN tasksQueue : tasksQueue[j] = k}}
           H == {<<"hand", t>> : t \in {u \in Threads : hand[u] = k}}
           C == {<<"current", w>> : w \in {v \in Workers : current[v] = k}}
           L(w) == {<<"list", w, i>> : i \in {j \in DOMAIN workerTasks[w] : workerTasks[w][j] = k}}
           U == UNION {L(w) : w \in Workers}
<1>1. Places(k) = Q \cup H \cup C \cup U
  BY DEF Places
<1>2. \A l, m : At(k, l) /\ At(k, m) => l = m
  BY DEF AtOne
<1>3. ~At(k, <<"queue">>) => Q = {}
  BY AtKinds DEF Range
<1>4. ASSUME \A t : ~At(k, <<"hand", t>>) PROVE H = {}
  BY <1>4, AtKinds
<1>5. ASSUME \A w : ~At(k, <<"current", w>>) PROVE C = {}
  BY <1>5, AtKinds
<1>6. ASSUME NEW w \in Workers, ~At(k, <<"list", w>>) PROVE L(w) = {}
  BY <1>6, AtKinds DEF Range
<1> HIDE DEF Q, H, C, L
<1>7. ASSUME \A w : ~At(k, <<"list", w>>) PROVE U = {}
  BY <1>6, <1>7
<1> HIDE DEF U
<1>8. CASE \A l : ~At(k, l)
  BY <1>1, <1>3, <1>4, <1>5, <1>8, <1>7
<1>9. CASE At(k, <<"queue">>)
  <2>1. \A l : At(k, l) => l = <<"queue">>
    BY <1>2, <1>9
  <2>2. H = {} /\ C = {} /\ U = {}
    BY <1>4, <1>5, <1>7, <2>1, PlacesDiffer
  <2>3. PICK i \in DOMAIN tasksQueue : tasksQueue[i] = k
    BY <1>9, AtKinds DEF Range
  <2>4. {j \in DOMAIN tasksQueue : tasksQueue[j] = k} = {i}
    BY <2>3 DEF AtOne, IsInjective
  <2>5. Q = {<<"queue", i>>}
    BY <2>4 DEF Q
  <2> QED  BY <1>1, <1>9, <2>2, <2>5
<1>10. CASE \E t : At(k, <<"hand", t>>)
  <2>1. PICK t : At(k, <<"hand", t>>)
    BY <1>10
  <2>2. \A l : At(k, l) => l = <<"hand", t>>
    BY <1>2, <2>1
  <2>3. Q = {} /\ C = {} /\ U = {}
    BY <1>3, <1>5, <1>7, <2>2, PlacesDiffer
  <2>4. {u \in Threads : hand[u] = k} = {t}
    BY <2>1, <2>2, AtKinds, PlacesDiffer
  <2>5. H = {<<"hand", t>>}
    BY <2>4 DEF H
  <2> QED  BY <1>1, <2>1, <2>3, <2>5
<1>11. CASE \E w : At(k, <<"current", w>>)
  <2>1. PICK w : At(k, <<"current", w>>)
    BY <1>11
  <2>2. \A l : At(k, l) => l = <<"current", w>>
    BY <1>2, <2>1
  <2>3. Q = {} /\ H = {} /\ U = {}
    BY <1>3, <1>4, <1>7, <2>2, PlacesDiffer
  <2>4. {v \in Workers : current[v] = k} = {w}
    BY <2>1, <2>2, AtKinds, PlacesDiffer
  <2>5. C = {<<"current", w>>}
    BY <2>4 DEF C
  <2> QED  BY <1>1, <2>1, <2>3, <2>5
<1>12. CASE \E w : At(k, <<"list", w>>)
  <2>1. PICK w : At(k, <<"list", w>>)
    BY <1>12
  <2>2. \A l : At(k, l) => l = <<"list", w>>
    BY <1>2, <2>1
  <2>3. Q = {} /\ H = {} /\ C = {} /\ w \in Workers
    BY <1>3, <1>4, <1>5, <2>1, <2>2, AtKinds, PlacesDiffer
  <2>4. \A v \in Workers \ {w} : L(v) = {}
    BY <1>6, <2>2, PlacesDiffer
  <2>5. PICK i \in DOMAIN workerTasks[w] : workerTasks[w][i] = k
    BY <2>1, AtKinds DEF Range
  <2>6. {j \in DOMAIN workerTasks[w] : workerTasks[w][j] = k} = {i}
    BY <2>3, <2>5 DEF AtOne, IsInjective
  <2>7. L(w) = {<<"list", w, i>>}
    BY <2>6 DEF L
  <2>8. U = {<<"list", w, i>>}
    BY <2>3, <2>4, <2>7 DEF U
  <2> QED  BY <1>1, <2>1, <2>3, <2>8
<1> QED  BY <1>8, <1>9, <1>10, <1>11, <1>12 DEF At

\* A task that was submitted and has not ended is in the queue, in the hand of
\* a thread or with a worker, and there once: no interleaving of submissions,
\* hand-overs and rounds of schedule() loses it or gives it out twice.
THEOREM TasksAtOnePlace == Spec => []EveryTaskAtOnePlace
<1>1. ASSUME IInv, AtOne PROVE EveryTaskAtOnePlace
  <2> SUFFICES ASSUME NEW k \in Tasks
               PROVE  Cardinality(Places(k)) = IF k \in submitted /\ k \notin finished THEN 1 ELSE 0
    BY DEF EveryTaskAtOnePlace
  <2>1. (\E l : At(k, l)) <=> k \in submitted /\ k \notin finished
    BY <1>1 DEF AtOne
  <2>2. CASE (\A l : ~At(k, l)) /\ Places(k) = {}
    BY <2>1, <2>2, FS_EmptySet
  <2>3. CASE (\E l : At(k, l)) /\ \E x : Places(k) = {x}
    BY <2>1, <2>3, FS_Singleton
  <2> QED  BY <1>1, <2>2, <2>3, OnePlace
<1> QED  BY <1>1, AlwaysIInv, AlwaysAtOne, PTL

-----------------------------------------------------------------------------
(* The usage counters *)

\* The tasks of subpool p that have been given out: what InFlight says.
Out(p) == {k \in Tasks : Away(k) /\ ~Bound(k) /\ PoolOf(k) = p}
InFlightIsOut == \A p \in Pools : InFlight(p) = Out(p)
Counting == \A p \in Pools : IsFiniteSet(Out(p)) /\ subPoolsUsage[p] = Cardinality(Out(p))

LEMMA WhoIsInFlight == IInv => InFlightIsOut
<1> SUFFICES ASSUME IInv, NEW p \in Pools PROVE InFlight(p) = Out(p)
  BY DEF InFlightIsOut
<1>1. /\ None \notin Tasks /\ hand \in [Threads -> Tasks \cup {None}]
      /\ workerTasks \in [Workers -> Seq(Tasks)] /\ current \in [Workers -> Tasks \cup {None}]
  BY Bounds DEF IInv, TypeOK
<1>2. \A w \in Workers : Held(w) = Range(workerTasks[w]) \cup ({current[w]} \ {None})
  BY DEF Held, Range
<1>3. \A w \in Workers : Range(workerTasks[w]) \subseteq Tasks
  BY <1>1, ElementOfSeq, LenProperties DEF Range
<1>4. \A t \in Threads : hand[t] # None => workerId[t] \in Workers
  <2> SUFFICES ASSUME NEW t \in Threads, hand[t] # None PROVE workerId[t] \in Workers
    OBVIOUS
  <2>1. workerId[t] \in 0 .. (allWorkers - 1) /\ allWorkers \in Nat /\ allWorkers <= MaxCapacity
    BY Bounds DEF IInv, Handing
  <2> QED  BY <2>1, Bounds
<1>5. ASSUME NEW k \in InFlight(p) PROVE k \in Out(p)
  <2>1. PICK w \in Workers : k \in GivenTo(w)
    BY <1>5 DEF InFlight
  <2>2. CASE k \in Held(w)
    <3>1. k \in Tasks /\ (k \in Range(workerTasks[w]) \/ current[w] = k)
      BY <1>1, <1>2, <1>3, <2>2
    <3>2. At(k, <<"list", w>>) \/ At(k, <<"current", w>>)
      BY <3>1, AtKinds
    <3> QED  BY <1>5, <3>1, <3>2, PlacesDiffer DEF Out, Away, InFlight
  <2>3. CASE \E t \in Threads : hand[t] # None /\ k = hand[t]
    <3>1. PICK t \in Threads : hand[t] # None /\ k = hand[t]
      BY <2>3
    <3>2. k \in Tasks /\ At(k, <<"hand", t>>)
      BY <1>1, <3>1, AtKinds
    <3> QED  BY <1>5, <3>2, PlacesDiffer DEF Out, Away, InFlight
  <2> QED  BY <2>1, <2>2, <2>3 DEF GivenTo
<1>6. ASSUME NEW k \in Out(p) PROVE k \in InFlight(p)
  <2>1. k \in Tasks /\ k # None
    BY <1>1 DEF Out
  <2>2. PICK l : l # <<"queue">> /\ At(k, l)
    BY <1>6 DEF Out, Away
  <2>3. \E w \in Workers : k \in GivenTo(w)
    <3>1. CASE \E t \in Threads : hand[t] = k
      BY <1>4, <2>1, <3>1 DEF GivenTo
    <3>2. CASE \E w \in Workers : k \in Range(workerTasks[w]) \/ current[w] = k
      BY <1>2, <2>1, <3>2 DEF GivenTo
    <3> QED  BY <2>2, <3>1, <3>2 DEF At
  <2> QED  BY <2>3 DEF Out, InFlight
<1> QED  BY <1>5, <1>6

\* What giving out task k does to subpool p: the counter and the tasks with a
\* worker go up by one, and there was room, if it is of that subpool.
LEMMA GivesOutCounted ==
  ASSUME IInv, Counting, NEW k \in Tasks, GivesOut(k), NEW p \in Pools
  PROVE  /\ IsFiniteSet(Out(p)') /\ subPoolsUsage'[p] = Cardinality(Out(p)')
         /\ \/ Out(p)' = Out(p) /\ subPoolsUsage'[p] = subPoolsUsage[p]
            \/ /\ ~Bound(k) /\ PoolOf(k) = p /\ HasRoom(k)
               /\ subPoolsUsage'[p] = subPoolsUsage[p] + 1
<1>1. subPoolsUsage \in [Pools -> Nat] /\ PoolOf(k) \in Pools
  BY TaskTags DEF IInv, TypeOK
<1>2. IsFiniteSet(Out(p)) /\ subPoolsUsage[p] = Cardinality(Out(p))
  BY DEF Counting
<1>3. CASE ~Bound(k) /\ PoolOf(k) = p
  <2>1. Out(p)' = Out(p) \cup {k} /\ k \notin Out(p)
    BY <1>3 DEF GivesOut, Out
  <2>2. subPoolsUsage'[p] = subPoolsUsage[p] + 1 /\ HasRoom(k)
    BY <1>1, <1>3 DEF GivesOut
  <2>3. IsFiniteSet(Out(p)') /\ Cardinality(Out(p)') = Cardinality(Out(p)) + 1
    BY <1>2, <2>1, FS_AddElement
  <2> QED  BY <1>2, <1>3, <2>2, <2>3
<1>4. CASE Bound(k) \/ PoolOf(k) # p
  <2>1. Out(p)' = Out(p)
    BY <1>4 DEF GivesOut, Out
  <2>2. subPoolsUsage'[p] = subPoolsUsage[p]
    BY <1>1, <1>4 DEF GivesOut
  <2> QED  BY <1>2, <2>1, <2>2
<1> QED  BY <1>3, <1>4

\* What ending task k does: the counter goes down if it is of subpool p, and
\* is never 0 by then.
LEMMA EndsCounted ==
  ASSUME IInv, Counting, NEW k \in Tasks, Ends(k), NEW p \in Pools
  PROVE  /\ IsFiniteSet(Out(p)') /\ subPoolsUsage'[p] = Cardinality(Out(p)')
         /\ Out(p)' \subseteq Out(p) /\ subPoolsUsage'[p] <= subPoolsUsage[p]
<1>1. subPoolsUsage \in [Pools -> Nat] /\ PoolOf(k) \in Pools
  BY TaskTags DEF IInv, TypeOK
<1>2. IsFiniteSet(Out(p)) /\ subPoolsUsage[p] = Cardinality(Out(p))
  BY DEF Counting
<1>3. CASE ~Bound(k) /\ PoolOf(k) = p
  <2>1. Out(p)' = Out(p) \ {k} /\ k \in Out(p)
    BY <1>3 DEF Ends, Out
  <2>2. IsFiniteSet(Out(p)') /\ Cardinality(Out(p)') = Cardinality(Out(p)) - 1
    BY <1>2, <2>1, FS_RemoveElement
  <2>3. subPoolsUsage[p] # 0
    BY <1>2, <2>1, FS_EmptySet
  <2>4. subPoolsUsage'[p] = subPoolsUsage[p] - 1
    BY <1>1, <1>3, <2>3 DEF Ends, UsageAfter
  <2> QED  BY <1>1, <1>2, <2>1, <2>2, <2>4
<1>4. CASE Bound(k) \/ PoolOf(k) # p
  <2>1. Out(p)' = Out(p)
    BY <1>4 DEF Ends, Out
  <2>2. subPoolsUsage'[p] = subPoolsUsage[p]
    BY <1>1, <1>4 DEF Ends, UsageAfter
  <2> QED  BY <1>1, <1>2, <2>1, <2>2
<1> QED  BY <1>3, <1>4

LEMMA NeitherCounted ==
  ASSUME Neither, NEW p \in Pools
  PROVE  Out(p)' = Out(p) /\ subPoolsUsage'[p] = subPoolsUsage[p]
BY DEF Neither, Out

LEMMA NextCounting ==
  ASSUME IInv, AtOne, Counting, [Next]_vars
  PROVE  Counting'
<1>1. Counts
  BY NextCounts
<1>2. CASE Neither
  BY <1>2, NeitherCounted DEF Counting
<1>3. CASE \E k \in Tasks : GivesOut(k)
  BY <1>3, GivesOutCounted DEF Counting
<1>4. CASE \E k \in Tasks : Ends(k)
  BY <1>4, EndsCounted DEF Counting
<1> QED  BY <1>1, <1>2, <1>3, <1>4 DEF Counts

LEMMA InitCounting == Init => Counting
<1> SUFFICES ASSUME Init, NEW p \in Pools
             PROVE  IsFiniteSet(Out(p)) /\ subPoolsUsage[p] = Cardinality(Out(p))
  BY DEF Counting
<1>1. subPoolsUsage[p] = 0 /\ submitted = {}
  BY DEF Init
<1>2. Out(p) = {}
  BY <1>1, InitAtOne DEF Out, Away, AtOne
<1> QED  BY <1>1, <1>2, FS_EmptySet

LEMMA AlwaysCounting == Spec => []Counting
BY InitIInv, NextIInv, InitAtOne, NextCounts, InitCounting, NextCounting, PTL DEF Spec

\* The usage counter of each subpool counts its tasks that are on their way to
\* a worker, in the list of one or being run: submitting and scheduling threads
\* add to it under mainLock, before the hand-over, workers take from it after
\* the task, and the test for 0 in taskFinished never hides a task.
THEOREM UsageCounts == Spec => []UsageCountsInFlight
<1>1. InFlightIsOut /\ Counting => UsageCountsInFlight
  BY DEF InFlightIsOut, Counting, UsageCountsInFlight
<1> QED  BY <1>1, WhoIsInFlight, AlwaysIInv, AlwaysCounting, PTL

-----------------------------------------------------------------------------
(* The capacities *)

\* A task of a custom tag is given out only while its tag is not paused and
\* has room for it, whatever clients pause and whatever capacities they set at
\* the same time.
THEOREM TagsRespected == Spec => CustomTagsRespected
<1>1. ASSUME IInv, AtOne, Counting, InFlightIsOut, InFlightIsOut', [Next]_vars, NEW g \in Tags,
             ~(InFlight(<<"Custom", g>>)' \subseteq InFlight(<<"Custom", g>>))
      PROVE  /\ g \notin pausedCustomTags
             /\ Cardinality(InFlight(<<"Custom", g>>)') <= customTagCapacities[g]
  <2> DEFINE p == <<"Custom", g>>
  <2>1. p \in Pools
    BY DEF Pools, Types
  <2>2. InFlight(p) = Out(p) /\ InFlight(p)' = Out(p)'
    BY <1>1, <2>1 DEF InFlightIsOut
  <2>3. ~(Out(p)' \subseteq Out(p))
    BY <1>1, <2>2
  <2>4. customTagCapacities \in [Tags -> Nat] /\ subPoolsUsage[p] \in Nat
    BY <1>1, <2>1 DEF IInv, TypeOK
  <2>5. ~Neither
    BY <2>1, <2>3, NeitherCounted
  <2>6. \A k \in Tasks : ~Ends(k)
    BY <1>1, <2>1, <2>3, EndsCounted
  <2>7. PICK k \in Tasks : GivesOut(k)
    BY <1>1, <2>5, <2>6, NextCounts DEF Counts
  <2>8. /\ subPoolsUsage'[p] = Cardinality(Out(p)')
        /\ PoolOf(k) = p /\ HasRoom(k) /\ subPoolsUsage'[p] = subPoolsUsage[p] + 1
    BY <1>1, <2>1, <2>3, <2>7, GivesOutCounted
  <2>9. TypeOf[k] = "Custom" /\ TagOf(k) = g
    BY <2>8 DEF PoolOf
  <2>10. (IF g \in pausedCustomTags THEN 0 ELSE customTagCapacities[g]) > subPoolsUsage[p]
    BY <2>8, <2>9 DEF HasRoom, CapacityFor
  <2> QED  BY <2>2, <2>4, <2>8, <2>10
<1>2. ASSUME IInv, AtOne, Counting, InFlightIsOut, InFlightIsOut', [Next]_vars
      PROVE  [\A g \in Tags : ~(InFlight(<<"Custom", g>>)' \subseteq InFlight(<<"Custom", g>>)) =>
                 /\ g \notin pausedCustomTags
                 /\ Cardinality(InFlight(<<"Custom", g>>)') <= customTagCapacities[g]]_vars
  BY <1>1, <1>2
<1>3. Spec => []InFlightIsOut
  BY AlwaysIInv, WhoIsInFlight, PTL
<1> QED  BY <1>2, <1>3, AlwaysIInv, AlwaysAtOne, AlwaysCounting, PTL DEF Spec, CustomTagsRespected

\* The intensive tasks that are out are within INTENSIVE_CAPACITY.
IntensiveKept == subPoolsUsage[<<"Intensive", 0>>] <= IntensiveCapacity

LEMMA NextIntensiveKept ==
  ASSUME IInv, AtOne, Counting, IntensiveKept, [Next]_vars
  PROVE  IntensiveKept'
<1> DEFINE p == <<"Intensive", 0>>
<1>1. p \in Pools /\ subPoolsUsage[p] \in Nat /\ IntensiveCapacity \in Nat
  BY ConstantTypes DEF Pools, Types, IInv, TypeOK
<1>2. CASE Neither
  BY <1>1, <1>2, NeitherCounted DEF IntensiveKept
<1>3. ASSUME NEW k \in Tasks, Ends(k) PROVE IntensiveKept'
  <2>1. subPoolsUsage'[p] <= subPoolsUsage[p] /\ IsFiniteSet(Out(p)')
        /\ subPoolsUsage'[p] = Cardinality(Out(p)')
    BY <1>1, <1>3, EndsCounted
  <2>2. subPoolsUsage'[p] \in Nat
    BY <2>1, FS_CardinalityType
  <2> QED  BY <1>1, <2>1, <2>2 DEF IntensiveKept
<1>4. ASSUME NEW k \in Tasks, GivesOut(k) PROVE IntensiveKept'
  <2>1. \/ subPoolsUsage'[p] = subPoolsUsage[p]
        \/ PoolOf(k) = p /\ HasRoom(k) /\ subPoolsUsage'[p] = subPoolsUsage[p] + 1
    BY <1>1, <1>4, GivesOutCounted
  <2>2. PoolOf(k) = p /\ HasRoom(k) => IntensiveCapacity > subPoolsUsage[p]
    BY DEF PoolOf, HasRoom, CapacityFor
  <2> QED  BY <1>1, <2>1, <2>2 DEF IntensiveKept
<1> QED  BY <1>2, <1>3, <1>4, NextCounts DEF Counts

\* Intensive tasks never have more than INTENSIVE_CAPACITY workers at a time,
\* whatever clients set.
THEOREM IntensiveWithinCapacity ==
  Spec => [](Cardinality(InFlight(<<"Intensive", 0>>)) <= IntensiveCapacity)
<1> DEFINE p == <<"Intensive", 0>>
<1>1. p \in Pools
  BY ConstantTypes DEF Pools, Types
<1>2. Init => IntensiveKept
  BY <1>1, ConstantTypes DEF Init, IntensiveKept
<1>3. IntensiveKept /\ Counting /\ InFlightIsOut => Cardinality(InFlight(p)) <= IntensiveCapacity
  BY <1>1 DEF IntensiveKept, Counting, InFlightIsOut
<1> QED  BY <1>2, <1>3, InitIInv, NextIInv, AlwaysIInv, AlwaysAtOne, AlwaysCounting, WhoIsInFlight,
            NextIntensiveKept, PTL DEF Spec

\* No thread is inside addCustomTag.
NotAdding == \A t \in Threads : pc[t] # "addTag"
TagsKept == \A g \in Tags : subPoolsUsage[<<"Custom", g>>] <= customTagCapacities[g]

\* Without calls that set capacities, those of the tags stay as they are.
LEMMA CapacitiesStay ==
  ASSUME NewCapacities = {}, NewTagCapacities = {}, IInv, NotAdding, [Next]_vars
  PROVE  NotAdding' /\ UNCHANGED customTagCapacities
<1> USE Bounds DEF NotAdding
<1>1. CASE \E t \in Threads : Continue(t)
  <2>1. PICK t \in Threads : Continue(t)
    BY <1>1
  <2>2. UNCHANGED customTagCapacities
    BY <2>1 DEF Continue, HandOver, ScheduleNothing, ScheduleBegin, LoopEnd, LoopBound, LoopRun,
       LoopSkip, settings
  <2>3. CASE HandOver(t) \/ ScheduleNothing(t) \/ LoopEnd(t) \/ LoopSkip(t)
    BY <2>2, <2>3 DEF HandOver, ScheduleNothing, LoopEnd, EndLoop, LoopSkip, Returned, Home
  <2>4. CASE ScheduleBegin(t)
    BY <2>2, <2>4 DEF ScheduleBegin, Started
  <2>5. CASE LoopRun(t)
    BY <2>2, <2>5 DEF LoopRun, Started
  <2>6. CASE LoopBound(t)
    BY <2>2, <2>6 DEF LoopBound, Started, Home
  <2> QED  BY <2>1, <2>3, <2>4, <2>5, <2>6 DEF Continue
<1>2. CASE \E c \in Clients : ContinueSetting(c) \/ CallSetting(c)
  <2>1. PICK c \in Clients : ContinueSetting(c) \/ CallSetting(c)
    BY <1>2
  <2>2. c \in Threads
    BY DEF Threads
  <2>3. ~AddCustomTag(c)
    BY <2>2 DEF AddCustomTag
  <2>4. CASE PreHeatLock(c) \/ PreHeatLoop(c) \/ PreHeatEnd(c)
    BY <2>2, <2>4 DEF PreHeatLock, PreHeatLoop, PreHeatEnd, Started, settings
  <2>5. CASE \E n \in NewBoundCapacities : SetBoundCapacity(c, n)
    BY <2>5 DEF SetBoundCapacity
  <2>6. CASE \E g \in PausableTags : PauseCustomTag(c, g) \/ ResumeCustomTag(c, g)
    BY <2>2, <2>6 DEF PauseCustomTag, ResumeCustomTag
  <2>7. CASE \E n \in PreHeats : PreHeatRead(c, n)
    BY <2>2, <2>7 DEF PreHeatRead, settings
  <2> QED  BY <2>1, <2>3, <2>4, <2>5, <2>6, <2>7 DEF ContinueSetting, CallSetting
<1>3. CASE \E c \in Clients, k \in Tasks : InsertTask(c, k)
  <2>1. PICK c \in Clients, k \in Tasks : InsertTask(c, k)
    BY <1>3
  <2> QED  BY <2>1 DEF InsertTask, InsertBound, InsertDirect, InsertQueued, settings
<1>4. CASE \E w \in Workers : Work(w)
  BY <1>4 DEF Work, Pop, Ran, TaskFinished, settings
<1>5. CASE UNCHANGED vars
  BY <1>5 DEF vars, settings, locals
<1> QED  BY <1>1, <1>2, <1>3, <1>4, <1>5 DEF Next

LEMMA NextTagsKept ==
  ASSUME NewCapacities = {}, NewTagCapacities = {},
         IInv, AtOne, Counting, NotAdding, TagsKept, [Next]_vars
  PROVE  TagsKept'
<1> SUFFICES ASSUME NEW g \in Tags
             PROVE  subPoolsUsage'[<<"Custom", g>>] <= customTagCapacities'[g]
  BY DEF TagsKept
<1> DEFINE p == <<"Custom", g>>
<1>1. p \in Pools /\ subPoolsUsage[p] \in Nat /\ customTagCapacities[g] \in Nat
  BY DEF Pools, Types, IInv, TypeOK
<1>2. customTagCapacities' = customTagCapacities /\ subPoolsUsage[p] <= customTagCapacities[g]
  BY CapacitiesStay DEF TagsKept
<1>3. CASE Neither
  BY <1>1, <1>2, <1>3, NeitherCounted
<1>4. ASSUME NEW k \in Tasks, Ends(k) PROVE subPoolsUsage'[p] <= customTagCapacities'[g]
  <2>1. subPoolsUsage'[p] <= subPoolsUsage[p] /\ IsFiniteSet(Out(p)')
        /\ subPoolsUsage'[p] = Cardinality(Out(p)')
    BY <1>1, <1>4, EndsCounted
  <2>2. subPoolsUsage'[p] \in Nat
    BY <2>1, FS_CardinalityType
  <2> QED  BY <1>1, <1>2, <2>1, <2>2
<1>5. ASSUME NEW k \in Tasks, GivesOut(k) PROVE subPoolsUsage'[p] <= customTagCapacities'[g]
  <2>1. \/ subPoolsUsage'[p] = subPoolsUsage[p]
        \/ PoolOf(k) = p /\ HasRoom(k) /\ subPoolsUsage'[p] = subPoolsUsage[p] + 1
    BY <1>1, <1>5, GivesOutCounted
  <2>2. PoolOf(k) = p /\ HasRoom(k) =>
          (IF g \in pausedCustomTags THEN 0 ELSE customTagCapacities[g]) > subPoolsUsage[p]
    BY DEF PoolOf, HasRoom, CapacityFor
  <2> QED  BY <1>1, <1>2, <2>1, <2>2
<1> QED  BY <1>3, <1>4, <1>5, NextCounts DEF Counts

\* While no client sets a capacity, of all tasks or of a tag, the tasks of
\* each tag are within it too; pausing, resuming, pre-heating and binding
\* change nothing of that.  (Lowering a capacity does not take back the tasks
\* that are out: TagsRespected is what holds then.)
THEOREM SubpoolsKept ==
  ASSUME NewCapacities = {}, NewTagCapacities = {}
  PROVE  Spec => []SubpoolsWithinCapacity
<1>1. Init => NotAdding /\ TagsKept
  <2> SUFFICES ASSUME Init PROVE NotAdding /\ TagsKept
    OBVIOUS
  <2>1. NotAdding
    BY DEF Init, NotAdding
  <2>2. \A g \in Tags : subPoolsUsage[<<"Custom", g>>] = 0 /\ customTagCapacities[g] \in Nat
    BY DispatcherAssumption DEF Init, Pools, Types
  <2> QED  BY <2>1, <2>2 DEF TagsKept
<1>2. IInv /\ AtOne /\ Counting /\ NotAdding /\ TagsKept /\ [Next]_vars => (NotAdding /\ TagsKept)'
  BY CapacitiesStay, NextTagsKept
<1>3. ASSUME Counting, InFlightIsOut, TagsKept, NEW g \in Tags
      PROVE  Cardinality(InFlight(<<"Custom", g>>)) <= customTagCapacities[g]
  <2>1. <<"Custom", g>> \in Pools
    BY DEF Pools, Types
  <2> QED  BY <1>3, <2>1 DEF Counting, InFlightIsOut, TagsKept
<1>4. Counting /\ InFlightIsOut /\ TagsKept
        /\ Cardinality(InFlight(<<"Intensive", 0>>)) <= IntensiveCapacity => SubpoolsWithinCapacity
  BY <1>3 DEF SubpoolsWithinCapacity
<1> QED  BY <1>1, <1>2, <1>4, InitIInv, NextIInv, AlwaysIInv, AlwaysAtOne, AlwaysCounting,
            WhoIsInFlight, IntensiveWithinCapacity, PTL DEF Spec

-----------------------------------------------------------------------------
(* The pool as long as no worker is bound *)

\* Task k is with worker w, or about to be handed to it.
With(k, w) ==
    \/ k \in Range(workerTasks[w])
    \/ current[w] = k
    \/ \E t \in Threads : workerId[t] = w /\ hand[t] = k

\* A worker that is not available has one task and asks for the next one when
\* it has ended; one that is available has none.
Loaded == boundWorkers = {} => \A w \in Workers :
    /\ \A j, k \in Tasks : With(j, w) /\ With(k, w) => j = k
    /\ (\E k \in Tasks : With(k, w)) <=> w < allWorkers /\ w \notin availableWorkers
    /\ pc[w] # "finish"

\* Workers stay bound, and giving a bound task out binds one.
LEMMA BoundWorkersGrow ==
  ASSUME IInv, [Next]_vars
  PROVE  /\ boundWorkers \subseteq boundWorkers'
         /\ \A t \in Threads : LoopBound(t) => boundWorkers' # {}
         /\ \A c \in Clients, k \in Tasks : InsertBound(c, k) => boundWorkers # {}
<1>1. \A g \in Tags : tagToWorkerBindings[g] # -1 => boundWorkers # {}
  BY DEF IInv, Recorded
<1>2. \A c \in Clients, k \in Tasks : InsertBound(c, k) => boundWorkers # {}
  BY <1>1, TaskTags DEF InsertBound
<1>3. ASSUME NEW t \in Threads, LoopBound(t)
      PROVE  boundWorkers \subseteq boundWorkers' /\ boundWorkers' # {}
  <2>1. tasksQueue[it] \in Tasks
    BY <1>3, ErasedType DEF LoopBound, InLoop, IInv, Looping, TypeOK
  <2> QED  BY <1>1, <1>3, <2>1, TaskTags DEF LoopBound, NewlyBound, bindings
<1>4. ASSUME UNCHANGED bindings PROVE boundWorkers \subseteq boundWorkers'
  BY <1>4 DEF bindings
<1>5. CASE \E t \in Threads : Continue(t)
  BY <1>2, <1>3, <1>4, <1>5 DEF Continue, HandOver, ScheduleNothing, ScheduleBegin, LoopEnd,
     LoopRun, LoopSkip
<1>6. CASE \E c \in Clients : ContinueSetting(c) \/ CallSetting(c)
  BY <1>2, <1>3, <1>4, <1>6 DEF ContinueSetting, CallSetting, AddCustomTag, PreHeatLock,
     PreHeatLoop, PreHeatEnd, SetCapacity, SetBoundCapacity, AddCustomTagRead, PauseCustomTag,
     ResumeCustomTag, PreHeatRead, unset
<1>7. CASE \E c \in Clients, k \in Tasks : InsertTask(c, k)
  BY <1>2, <1>3, <1>4, <1>7 DEF InsertTask
<1>8. CASE \E w \in Workers : Work(w)
  BY <1>2, <1>3, <1>4, <1>8 DEF Work, Pop, Ran, TaskFinished
<1>9. CASE UNCHANGED vars
  BY <1>2, <1>3, <1>4, <1>9 DEF vars
<1> QED  BY <1>5, <1>6, <1>7, <1>8, <1>9 DEF Next

LEMMA WithStays ==
  ASSUME UNCHANGED <<hand, workerTasks, current>>,
         \A t \in Threads : hand[t] \in Tasks => workerId'[t] = workerId[t],
         NEW k \in Tasks, NEW w \in Workers
  PROVE  With(k, w)' <=> With(k, w)
BY DEF With

LEMMA LoadedStays ==
  ASSUME Loaded, boundWorkers \subseteq boundWorkers',
         \A k \in Tasks, w \in Workers : With(k, w)' <=> With(k, w),
         \A w \in Workers : /\ w < allWorkers' /\ w \notin availableWorkers' <=>
                                 w < allWorkers /\ w \notin availableWorkers
                            /\ pc'[w] = "finish" => pc[w] = "finish" \/ boundWorkers # {}
  PROVE  Loaded'
BY DEF Loaded

\* Task k is given to worker v, which was available.
LEMMA LoadedGiven ==
  ASSUME IInv, Loaded, boundWorkers \subseteq boundWorkers', NEW k \in Tasks, NEW v \in availableWorkers,
         \A j \in Tasks, w \in Workers : With(j, w)' <=> With(j, w) \/ (j = k /\ w = v),
         availableWorkers' = availableWorkers \ {v}, allWorkers' = allWorkers,
         \A w \in Workers : pc'[w] = "finish" => pc[w] = "finish"
  PROVE  Loaded'
<1>1. v \in Workers /\ v < allWorkers
  BY Bounds
<1> QED  BY <1>1 DEF Loaded

LEMMA HandedStays ==
  ASSUME IInv, NEW t \in Threads, HandOver(t), NEW j \in Tasks, NEW w \in Workers
  PROVE  With(j, w)' <=> With(j, w)
<1> PICK k : k = hand[t]
  OBVIOUS
<1> PICK v : v = workerId[t]
  OBVIOUS
<1>1. k \in Tasks /\ v \in Workers /\ j # None
  BY Bounds DEF HandOver, IInv, Handing
<1>2. workerTasks \in [Workers -> Seq(Tasks)]
  BY DEF IInv, TypeOK
<1>3. /\ UNCHANGED current
      /\ \A u \in Threads : hand'[u] = IF u = t THEN None ELSE hand[u]
      /\ \A u \in Threads \ {t} : workerId'[u] = workerId[u]
      /\ workerTasks' = [workerTasks EXCEPT ![v] = Append(workerTasks[v], k)]
  BY <1>1, <1>2, Bounds DEF HandOver, Returned
<1>4. Range(workerTasks'[w]) = Range(workerTasks[w]) \cup (IF w = v THEN {k} ELSE {})
  BY <1>1, <1>2, <1>3, RangeAppend
<1>5. (\E u \in Threads : workerId[u] = w /\ hand[u] = j) <=>
        (\E u \in Threads : workerId'[u] = w /\ hand'[u] = j) \/ (j = k /\ w = v)
  BY <1>1, <1>3
<1> QED  BY <1>3, <1>4, <1>5 DEF With

LEMMA PoppedStays ==
  ASSUME IInv, NEW v \in Workers, Pop(v), NEW j \in Tasks, NEW w \in Workers
  PROVE  With(j, w)' <=> With(j, w)
<1>1. /\ workerTasks \in [Workers -> Seq(Tasks)] /\ current \in [Workers -> Tasks \cup {None}]
      /\ current[v] = None /\ workerTasks[v] # <<>> /\ workerTasks[v] \in Seq(Tasks)
      /\ None \notin Tasks
  BY Bounds DEF IInv, TypeOK, Working, Pop
<1> PICK k : k = Head(workerTasks[v])
  OBVIOUS
<1>2. /\ UNCHANGED <<hand, workerId>>
      /\ current'[w] = (IF w = v THEN k ELSE current[w])
      /\ workerTasks'[w] = (IF w = v THEN Tail(workerTasks[v]) ELSE workerTasks[w])
  BY <1>1 DEF Pop
<1>3. Range(workerTasks[v]) = Range(Tail(workerTasks[v])) \cup {k}
  BY <1>1, RangeTail
<1> QED  BY <1>1, <1>2, <1>3 DEF With

\* The task taken in hand by t is for workerId'[t].
LEMMA TakenFor ==
  ASSUME IInv, NEW t \in Threads, hand[t] = None, NEW k \in Tasks, NEW v \in Workers,
         hand' = [hand EXCEPT ![t] = k], UNCHANGED <<workerTasks, current>>,
         workerId'[t] = v, \A u \in Threads \ {t} : workerId'[u] = workerId[u],
         NEW j \in Tasks, NEW w \in Workers
  PROVE  With(j, w)' <=> With(j, w) \/ (j = k /\ w = v)
<1>1. \A u \in Threads : hand'[u] = IF u = t THEN k ELSE hand[u]
  BY Bounds
<1>2. j # None
  BY Bounds
<1>3. (\E u \in Threads : workerId'[u] = w /\ hand'[u] = j) <=>
        (\E u \in Threads : workerId[u] = w /\ hand[u] = j) \/ (j = k /\ w = v)
  BY <1>1, <1>2
<1> QED  BY <1>3 DEF With

LEMMA InsertTaskLoaded ==
  ASSUME IInv, Loaded, NEW c \in Clients, NEW k \in Tasks, InsertTask(c, k), Next
  PROVE  Loaded'
<1>1. /\ pc[c] = "idle" /\ UNCHANGED <<bindings, workerTasks, current, allWorkers>>
      /\ InsertBound(c, k) \/ InsertDirect(c, k) \/ InsertQueued(c, k)
  BY DEF InsertTask
<1>2. c \in Threads /\ c \notin Workers /\ hand[c] = None
  BY <1>1, DispatcherAssumption DEF IInv, Handing, Threads
<1>3. boundWorkers' = boundWorkers
  BY <1>1 DEF bindings
<1>4. CASE InsertBound(c, k)
  BY <1>3, <1>4, BoundWorkersGrow DEF Loaded
<1>5. CASE InsertDirect(c, k)
  <2>1. PICK v \in DirectWorkers(k) :
          /\ availableWorkers' = availableWorkers \ {v}
          /\ workerId' = [workerId EXCEPT ![c] = v]
          /\ hand' = [hand EXCEPT ![c] = k]
          /\ pc' = [pc EXCEPT ![c] = "handOver"]
    BY <1>5 DEF InsertDirect
  <2>2. v \in availableWorkers /\ v \in Workers
    BY DirectWorkersFree, Bounds
  <2>3. workerId'[c] = v /\ \A u \in Threads \ {c} : workerId'[u] = workerId[u]
    BY <1>2, <2>1, Bounds
  <2>4. \A j \in Tasks, w \in Workers : With(j, w)' <=> With(j, w) \/ (j = k /\ w = v)
    BY <1>1, <1>2, <2>1, <2>2, <2>3, TakenFor
  <2>5. \A w \in Workers : pc'[w] = pc[w]
    BY <1>2, <2>1, Bounds
  <2> QED  BY <1>1, <1>3, <2>1, <2>2, <2>4, <2>5, LoadedGiven
<1>6. CASE InsertQueued(c, k)
  <2>1. UNCHANGED <<hand, workerId, availableWorkers>> /\ \A w \in Workers : pc'[w] = pc[w]
    BY <1>2, <1>6, Bounds DEF InsertQueued
  <2> QED  BY <1>1, <1>3, <2>1, WithStays, LoadedStays
<1> QED  BY <1>1, <1>4, <1>5, <1>6

LEMMA LoopRunLoaded ==
  ASSUME IInv, Loaded, NEW t \in Threads, LoopRun(t)
  PROVE  Loaded'
<1> SUFFICES ASSUME boundWorkers = {} PROVE Loaded'
  BY DEF LoopRun, bindings, Loaded
<1> PICK k : k = tasksQueue[it]
  OBVIOUS
<1> PICK v : v = workerId[t]
  OBVIOUS
<1>1. /\ pc[t] = "loop" /\ it <= Len(tasksQueue)
      /\ availableWorkers' = availableWorkers \ {v} /\ allWorkers' = allWorkers
      /\ workerId' = workerId /\ hand' = [hand EXCEPT ![t] = k]
      /\ pc' = [pc EXCEPT ![t] = "handOver"]
      /\ UNCHANGED <<boundWorkers, workerTasks, current>>
  BY DEF LoopRun, InLoop, bindings
<1>2. v \in availableWorkers /\ v \in Workers /\ hand[t] = None /\ k \in Tasks
  <2>1. k \in Tasks
    BY <1>1, ErasedType DEF IInv, Looping, TypeOK
  <2> QED  BY <1>1, <2>1, Bounds DEF IInv, Looping, Handing
<1>3. \A j \in Tasks, w \in Workers : With(j, w)' <=> With(j, w) \/ (j = k /\ w = v)
  <2>1. workerId'[t] = v /\ (\A u \in Threads \ {t} : workerId'[u] = workerId[u])
        /\ UNCHANGED <<workerTasks, current>>
    BY <1>1
  <2> QED  BY <1>1, <1>2, <2>1, TakenFor, ZenonT(40)
<1>4. \A w \in Workers : pc'[w] = "finish" => pc[w] = "finish"
  BY <1>1, Bounds
<1> QED  BY <1>1, <1>2, <1>3, <1>4, LoadedGiven

\* A worker without bound tasks always asks for the next one.
LEMMA RanLoaded ==
  ASSUME IInv, AtOne, Loaded, NEW v \in Workers, Ran(v)
  PROVE  Loaded'
<1>1. /\ pc[v] = "run" /\ UNCHANGED <<hand, workerTasks, current, workerId, allWorkers,
                                      availableWorkers, boundWorkers>>
      /\ pc' = [pc EXCEPT ![v] = IF workerTasks[v] = <<>> THEN "finishAndAsk" ELSE "finish"]
  BY DEF Ran, bindings
<1>2. ASSUME boundWorkers = {} PROVE workerTasks[v] = <<>>
  <2> SUFFICES ASSUME workerTasks[v] # <<>> PROVE FALSE
    OBVIOUS
  <2>1. workerTasks[v] \in Seq(Tasks) /\ current[v] \in Tasks
    BY <1>1 DEF IInv, TypeOK, Working
  <2> PICK k : k = Head(workerTasks[v])
    OBVIOUS
  <2>2. k \in Tasks /\ k \in Range(workerTasks[v])
    BY <2>1, RangeTail, HeadTailProperties
  <2>3. k = current[v]
    BY <1>2, <2>1, <2>2 DEF With, Loaded
  <2>4. At(k, <<"list", v>>) /\ At(k, <<"current", v>>)
    BY <2>2, <2>3, AtKinds
  <2> QED  BY <2>2, <2>4, PlacesDiffer DEF AtOne
<1>3. \A w \in Workers : pc'[w] = "finish" => pc[w] = "finish" \/ boundWorkers # {}
  BY <1>1, <1>2, Bounds
<1> QED  BY <1>1, <1>3, WithStays, LoadedStays

LEMMA TaskFinishedLoaded ==
  ASSUME IInv, AtOne, Loaded, NEW v \in Workers, TaskFinished(v)
  PROVE  Loaded'
<1> SUFFICES ASSUME boundWorkers = {} PROVE Loaded'
  BY DEF TaskFinished, bindings, Loaded
<1> PICK k : k = current[v]
  OBVIOUS
<1>1. k \in Tasks /\ None \notin Tasks /\ current \in [Workers -> Tasks \cup {None}]
      /\ v \in Threads /\ hand[v] = None
  BY Bounds DEF TaskFinished, IInv, Working, TypeOK, Handing
<1>2. pc[v] = "finishAndAsk"
  BY DEF TaskFinished, Loaded
<1>3. /\ UNCHANGED <<hand, workerTasks, boundWorkers, allWorkers>>
      /\ availableWorkers' = availableWorkers \cup {v}
      /\ \A w \in Workers : current'[w] = IF w = v THEN None ELSE current[w]
      /\ \A u \in Threads \ {v} : workerId'[u] = workerId[u]
      /\ \A w \in Workers : pc'[w] = "finish" => pc[w] = "finish"
  BY <1>1, <1>2, Bounds DEF TaskFinished, bindings
<1>4. ASSUME NEW j \in Tasks, NEW w \in Workers
      PROVE  /\ w # v => (With(j, w)' <=> With(j, w))
             /\ With(j, w)' => With(j, w)
  BY <1>1, <1>3 DEF With
<1>5. \A l : At(k, l) => l = <<"current", v>>
  BY <1>1, AtKinds DEF AtOne
<1>6. k \notin Range(workerTasks[v]) /\ \A u \in Threads : hand[u] # k
  BY <1>5, AtKinds, PlacesDiffer
<1>7. ~With(k, v)'
  BY <1>1, <1>3, <1>6 DEF With
<1>8. With(k, v)
  BY DEF With
<1>9. \A j \in Tasks : ~With(j, v)'
  BY <1>1, <1>4, <1>7, <1>8 DEF Loaded
<1> QED  BY <1>3, <1>4, <1>9 DEF Loaded

LEMMA NextLoaded ==
  ASSUME IInv, AtOne, Loaded, [Next]_vars
  PROVE  Loaded'
<1>0. boundWorkers \subseteq boundWorkers' /\ \A w \in Workers : w \in Threads /\ w \in Nat
  BY BoundWorkersGrow, Bounds
\* Steps that move no task and change no worker.
<1>1. ASSUME UNCHANGED <<hand, workerTasks, current>>,
             \A u \in Threads : hand[u] \in Tasks => workerId'[u] = workerId[u],
             \A w \in Workers : /\ w < allWorkers' /\ w \notin availableWorkers' <=>
                                     w < allWorkers /\ w \notin availableWorkers
                                /\ pc'[w] = "finish" => pc[w] = "finish"
      PROVE  Loaded'
  BY <1>0, <1>1, WithStays, LoadedStays
<1>2. \A u \in Threads : hand[u] \in Tasks => pc[u] = "handOver"
  BY ConstantTypes DEF IInv, Handing
<1>3. CASE \E t \in Threads : Continue(t)
  <2>1. PICK t \in Threads : Continue(t)
    BY <1>3
  <2>2. CASE HandOver(t)
    <3>1. \A j \in Tasks, w \in Workers : With(j, w)' <=> With(j, w)
      BY <2>2, HandedStays
    <3>2. UNCHANGED <<allWorkers, availableWorkers>> /\ \A w \in Workers : pc'[w] = "finish" => pc[w] = "finish"
      BY <1>0, <2>2, Bounds DEF HandOver, Returned, Home
    <3> QED  BY <1>0, <3>1, <3>2, LoadedStays
  <2>3. CASE ScheduleNothing(t) \/ LoopEnd(t)
    <3>1. /\ UNCHANGED <<hand, workerTasks, current, allWorkers, availableWorkers>>
          /\ workerId' = [workerId EXCEPT ![t] = -1] /\ pc' = [pc EXCEPT ![t] = Home(t)]
          /\ pc[t] # "handOver"
      BY <2>3 DEF ScheduleNothing, LoopEnd, EndLoop, Returned, InLoop
    <3>2. \A u \in Threads : hand[u] \in Tasks => workerId'[u] = workerId[u]
      BY <1>2, <3>1, Bounds
    <3>3. \A w \in Workers : pc'[w] = "finish" => pc[w] = "finish"
      BY <1>0, <3>1, Bounds DEF Home
    <3> QED  BY <1>1, <3>1, <3>2, <3>3
  <2>4. CASE ScheduleBegin(t)
    <3>1. /\ UNCHANGED <<hand, workerTasks, current>> /\ pc[t] = "schedule"
          /\ \E w : workerId' = [workerId EXCEPT ![t] = w]
          /\ pc' = [IF availableWorkers = {} THEN [pc EXCEPT ![allWorkers] = "pop"] ELSE pc
                      EXCEPT ![t] = "loop"]
          /\ \/ availableWorkers = {} /\ availableWorkers' = {allWorkers} /\ allWorkers' = allWorkers + 1
             \/ UNCHANGED <<availableWorkers, allWorkers>>
      BY <2>4 DEF ScheduleBegin, Started
    <3>2. \A u \in Threads : hand[u] \in Tasks => workerId'[u] = workerId[u]
      BY <1>2, <3>1, Bounds
    <3>3. \A w \in Workers : pc'[w] = "finish" => pc[w] = "finish"
      BY <1>0, <3>1, Bounds
    <3>4. \A w \in Workers : w < allWorkers' /\ w \notin availableWorkers' <=>
                             w < allWorkers /\ w \notin availableWorkers
      BY <1>0, <3>1, Bounds
    <3> QED  BY <1>1, <3>1, <3>2, <3>3, <3>4
  <2>5. CASE LoopSkip(t)
    BY <1>1, <2>5 DEF LoopSkip
  <2>6. CASE LoopBound(t)
    BY <2>6, BoundWorkersGrow DEF Loaded
  <2>7. CASE LoopRun(t)
    BY <2>7, LoopRunLoaded
  <2> QED  BY <2>1, <2>2, <2>3, <2>4, <2>5, <2>6, <2>7 DEF Continue
<1>4. CASE \E c \in Clients : ContinueSetting(c) \/ CallSetting(c)
  <2>1. PICK c \in Clients : ContinueSetting(c) \/ CallSetting(c)
    BY <1>4
  <2>2. c \in Threads /\ c \notin Workers
    BY DispatcherAssumption DEF Threads
  <2>3. CASE PreHeatLoop(c)
    <3>1. /\ UNCHANGED <<hand, workerTasks, current, workerId>>
          /\ \/ pc' = [pc EXCEPT ![allWorkers] = "pop"] /\ allWorkers' = allWorkers + 1
                /\ availableWorkers' = availableWorkers \cup {allWorkers}
             \/ UNCHANGED <<pc, availableWorkers, allWorkers>>
      BY <2>3 DEF PreHeatLoop, unset, Started
    <3>2. \A w \in Workers : pc'[w] = "finish" => pc[w] = "finish"
      BY <1>0, <3>1, Bounds
    <3>3. \A w \in Workers : w < allWorkers' /\ w \notin availableWorkers' <=>
                             w < allWorkers /\ w \notin availableWorkers
      BY <1>0, <3>1, Bounds
    <3> QED  BY <1>1, <3>1, <3>2, <3>3
  <2>4. CASE ~PreHeatLoop(c)
    <3>1. /\ UNCHANGED <<hand, workerTasks, current, workerId, allWorkers, availableWorkers>>
          /\ \/ UNCHANGED pc
             \/ \E l : pc' = [pc EXCEPT ![c] = l]
      BY <2>1, <2>4 DEF ContinueSetting, CallSetting, AddCustomTag, PreHeatLock, PreHeatEnd,
         SetCapacity, SetBoundCapacity, AddCustomTagRead, PauseCustomTag, ResumeCustomTag,
         PreHeatRead, unset
    <3>2. \A w \in Workers : pc'[w] = "finish" => pc[w] = "finish"
      BY <1>0, <2>2, <3>1, Bounds
    <3> QED  BY <1>1, <3>1, <3>2
  <2> QED  BY <2>3, <2>4
<1>5. CASE \E c \in Clients, k \in Tasks : InsertTask(c, k)
  <2>1. Next
    BY <1>5 DEF Next
  <2> QED  BY <1>5, <2>1, InsertTaskLoaded
<1>6. CASE \E w \in Workers : Work(w)
  <2>1. PICK w \in Workers : Work(w)
    BY <1>6
  <2>2. CASE Pop(w)
    <3>1. \A j \in Tasks, v \in Workers : With(j, v)' <=> With(j, v)
      BY <2>2, PoppedStays
    <3>2. UNCHANGED <<allWorkers, availableWorkers>> /\ \A v \in Workers : pc'[v] = "finish" => pc[v] = "finish"
      BY <1>0, <2>2, Bounds DEF Pop
    <3> QED  BY <1>0, <3>1, <3>2, LoadedStays
  <2> QED  BY <2>1, <2>2, RanLoaded, TaskFinishedLoaded DEF Work
<1>7. CASE UNCHANGED vars
  BY <1>1, <1>7 DEF vars, locals
<1> QED  BY <1>3, <1>4, <1>5, <1>6, <1>7 DEF Next

LEMMA InitLoaded == Init => Loaded
<1> SUFFICES ASSUME Init PROVE Loaded
  OBVIOUS
<1>1. \A w \in Workers : \A k \in Tasks : ~With(k, w)
  BY RangeEmpty, ConstantTypes DEF Init, With
<1>2. \A w \in Workers : ~(w < allWorkers) /\ pc[w] # "finish"
  <2>1. \A w \in Workers : w \in Nat /\ w \in Threads
    BY DEF Workers, Threads
  <2> QED  BY <2>1 DEF Init
<1> QED  BY <1>1, <1>2 DEF Loaded

LEMMA AlwaysLoaded == Spec => []Loaded
BY InitIInv, NextIInv, InitAtOne, NextCounts, InitLoaded, NextLoaded, PTL DEF Spec

\* What the invariant says of GivenTo.
LEMMA GivenIsWith ==
  ASSUME IInv, NEW w \in Workers
  PROVE  \A k : k \in GivenTo(w) <=> k \in Tasks /\ With(k, w)
<1>1. /\ None \notin Tasks /\ hand \in [Threads -> Tasks \cup {None}]
      /\ workerTasks \in [Workers -> Seq(Tasks)] /\ current \in [Workers -> Tasks \cup {None}]
  BY Bounds DEF IInv, TypeOK
<1>2. Held(w) = Range(workerTasks[w]) \cup ({current[w]} \ {None})
  BY DEF Held, Range
<1>3. Range(workerTasks[w]) \subseteq Tasks
  BY <1>1, ElementOfSeq, LenProperties DEF Range
<1> QED  BY <1>1, <1>2, <1>3 DEF GivenTo, With

OneEachUnbound ==
    boundWorkers = {} =>
        /\ OneFreeTaskPerWorker
        /\ Settled => \A w \in Workers : pc[w] = "pop" => w \in availableWorkers

\* As long as no worker is bound, each has one task at a time, given to it by
\* one thread while others submit and schedule, and each that waits for one is
\* known to be available, whatever clients set.
THEOREM OneTaskPerUnboundWorker == Spec => []OneEachUnbound
<1>1. ASSUME IInv, Loaded PROVE OneEachUnbound
  <2> SUFFICES ASSUME boundWorkers = {}, NEW w \in Workers
               PROVE  /\ Cardinality({k \in GivenTo(w) : ~Bound(k)}) <= 1
                      /\ Settled /\ pc[w] = "pop" => w \in availableWorkers
    BY DEF OneEachUnbound, OneFreeTaskPerWorker
  <2> DEFINE F == {k \in GivenTo(w) : ~Bound(k)}
  <2>1. \A j, k \in GivenTo(w) : j = k
    BY <1>1, GivenIsWith DEF Loaded
  <2>2. F = {} \/ \E k : F = {k}
    BY <2>1
  <2> HIDE DEF F
  <2>3. Cardinality(F) <= 1
    <3>1. CASE F = {}
      BY <3>1, FS_EmptySet
    <3>2. CASE \E k : F = {k}
      BY <3>2, FS_Singleton
    <3> QED  BY <2>2, <3>1, <3>2
  <2>4. ASSUME Settled, pc[w] = "pop" PROVE w \in availableWorkers
    <3>1. /\ \A t \in Threads : pc[t] # "handOver"
          /\ workerTasks[w] = <<>> /\ w < allWorkers /\ current[w] = None
      BY <1>1, <2>4, Bounds DEF Settled, IInv, Created, Working
    <3>2. \A k \in Tasks : ~With(k, w)
      BY <1>1, <3>1, RangeEmpty, ConstantTypes DEF With, IInv, Handing
    <3> QED  BY <1>1, <3>1, <3>2 DEF Loaded
  <2> QED  BY <2>3, <2>4 DEF F
<1> QED  BY <1>1, AlwaysIInv, AlwaysLoaded, PTL

-----------------------------------------------------------------------------
(* Who wakes the scheduler, as long as no worker is bound *)

\* Workers that are available, or may be created.
Free == Cardinality(availableWorkers) + (capacity - allWorkers)
\* Threads that are to go over the queue, or do.
Asking == {t \in Threads : pc[t] \in {"schedule", "loop"}}

\* What CapacityFor says of the tasks of subpool p.
Limit(p) ==
    CASE p[1] = "Intensive" -> IntensiveCapacity
      [] p[1] = "Custom" -> IF p[2] \in pausedCustomTags THEN 0 ELSE customTagCapacities[p[2]]
      [] OTHER -> capacity
Needs(D, p) == Cardinality({k \in D : ~Bound(k) /\ PoolOf(k) = p})

\* The tasks D can be given out together, by the workers and the usage there is.
Givable(D, free, use) ==
    /\ Cardinality(D) <= free
    /\ \A k \in D : Bound(k) => boundCapacity # 0
    /\ \A p \in Pools : Needs(D, p) # 0 => Needs(D, p) + use[p] <= Limit(p)

\* For each task that could be given out now there is a thread that will ask.
Served == boundWorkers = {} =>
    /\ IsFiniteSet(Asking)
    /\ \A D \in SUBSET Range(tasksQueue) :
          IsFiniteSet(D) /\ Givable(D, Free, subPoolsUsage) => Cardinality(D) <= Cardinality(Asking)

\* What schedule()'s loop has skipped cannot be given out.
Skipped == boundWorkers = {} => \A t \in Threads : pc[t] = "loop" =>
    \A i \in 1 .. Len(tasksQueue) : i < it =>
        IF Bound(tasksQueue[i]) THEN boundCapacity = 0 ELSE ~HasRoom(tasksQueue[i])

LEMMA LimitIsCapacity ==
  ASSUME IInv, NEW k \in Tasks
  PROVE  HasRoom(k) <=> subPoolsUsage[PoolOf(k)] < Limit(PoolOf(k))
<1>1. TypeOf[k] \in Types /\ PoolOf(k)[1] = TypeOf[k] /\ PoolOf(k)[2] = TagOf(k)
  BY DispatcherAssumption DEF PoolOf
<1>2. CapacityFor(k) = Limit(PoolOf(k))
  BY <1>1 DEF CapacityFor, Limit, Types
<1>3. PoolOf(k) \in Pools /\ subPoolsUsage[PoolOf(k)] \in Nat
  BY TaskTags DEF IInv, TypeOK
<1>4. CapacityFor(k) \in Nat
  BY ConstantTypes, TaskTags DEF CapacityFor, IInv, TypeOK
<1> QED  BY <1>2, <1>3, <1>4 DEF HasRoom

LEMMA LimitType ==
  ASSUME IInv, NEW p \in Pools
  PROVE  Limit(p) \in Nat
BY ConstantTypes DEF Limit, Pools, IInv, TypeOK

LEMMA NeedsType ==
  ASSUME NEW D, IsFiniteSet(D), NEW p
  PROVE  Needs(D, p) \in Nat /\ (Needs(D, p) # 0 <=> \E k \in D : ~Bound(k) /\ PoolOf(k) = p)
<1> DEFINE N == {k \in D : ~Bound(k) /\ PoolOf(k) = p}
<1>1. IsFiniteSet(N)
  BY FS_Subset
<1>2. Cardinality(N) \in Nat /\ (Cardinality(N) = 0 <=> N = {})
  BY <1>1, FS_CardinalityType, FS_EmptySet
<1> QED  BY <1>2 DEF Needs

LEMMA NeedsOneLess ==
  ASSUME NEW D, IsFiniteSet(D), NEW k \in D, NEW p
  PROVE  Needs(D, p) = Needs(D \ {k}, p) + (IF ~Bound(k) /\ PoolOf(k) = p THEN 1 ELSE 0)
<1> DEFINE N == {j \in D : ~Bound(j) /\ PoolOf(j) = p}
           M == {j \in D \ {k} : ~Bound(j) /\ PoolOf(j) = p}
<1>1. IsFiniteSet(N) /\ IsFiniteSet(M)
  BY FS_Subset
<1>2. Cardinality(M) \in Nat
  BY <1>1, FS_CardinalityType
<1>3. CASE ~Bound(k) /\ PoolOf(k) = p
  <2>1. N = M \cup {k} /\ k \notin M
    BY <1>3
  <2>2. Cardinality(N) = Cardinality(M) + 1
    BY <1>1, <2>1, FS_AddElement
  <2> QED  BY <1>3, <2>2 DEF Needs
<1>4. CASE ~(~Bound(k) /\ PoolOf(k) = p)
  <2>1. N = M
    BY <1>4
  <2> QED  BY <1>2, <1>4, <2>1 DEF Needs
<1> QED  BY <1>3, <1>4

\* One task less needs one worker less.
LEMMA GivableLess ==
  ASSUME IInv, NEW D, IsFiniteSet(D), NEW k \in D, NEW f \in Int, NEW u \in [Pools -> Nat],
         Givable(D, f, u)
  PROVE  /\ IsFiniteSet(D \ {k}) /\ Cardinality(D \ {k}) = Cardinality(D) - 1
         /\ Givable(D \ {k}, f - 1, u)
<1>1. /\ IsFiniteSet(D \ {k}) /\ Cardinality(D \ {k}) = Cardinality(D) - 1
      /\ Cardinality(D) \in Nat
  BY FS_RemoveElement, FS_CardinalityType
<1>2. Cardinality(D \ {k}) <= f - 1
  BY <1>1 DEF Givable
<1>3. ASSUME NEW p \in Pools, Needs(D \ {k}, p) # 0
      PROVE  Needs(D \ {k}, p) + u[p] <= Limit(p)
  <2>1. Needs(D \ {k}, p) \in Nat /\ Needs(D, p) \in Nat /\ u[p] \in Nat /\ Limit(p) \in Nat
    BY <1>1, NeedsType, LimitType
  <2>2. Needs(D, p) >= Needs(D \ {k}, p)
    BY <2>1, NeedsOneLess
  <2>3. Needs(D, p) # 0
    BY <1>3, <2>1, <2>2
  <2>4. Needs(D, p) + u[p] <= Limit(p)
    BY <2>3 DEF Givable
  <2> QED  BY <2>1, <2>2, <2>4
<1> QED  BY <1>1, <1>2, <1>3 DEF Givable

\* When a task of subpool o has ended, one task more can be given out at most.
LEMMA GivableEnded ==
  ASSUME IInv, NEW D, IsFiniteSet(D), D # {}, NEW f \in Int,
         NEW u \in [Pools -> Nat], NEW v \in [Pools -> Nat], NEW o \in Pools,
         \A p \in Pools \ {o} : v[p] = u[p], u[o] <= v[o] + 1, Givable(D, f + 1, v)
  PROVE  \E k \in D : Givable(D \ {k}, f, u)
<1>1. PICK k \in D : Needs(D, o) # 0 => ~Bound(k) /\ PoolOf(k) = o
  BY NeedsType
<1> DEFINE E == D \ {k}
<1>2. f + 1 \in Int /\ f + 1 - 1 = f
  OBVIOUS
<1>3. IsFiniteSet(E) /\ Givable(E, f, v)
  BY <1>2, GivableLess
<1>4. ASSUME NEW p \in Pools, Needs(E, p) # 0
      PROVE  Needs(E, p) + u[p] <= Limit(p)
  <2>1. /\ Needs(E, p) \in Nat /\ Needs(D, p) \in Nat /\ u[p] \in Nat /\ v[p] \in Nat
        /\ Limit(p) \in Nat
    BY <1>3, NeedsType, LimitType
  <2>2. Needs(E, p) + v[p] <= Limit(p)
    BY <1>3, <1>4 DEF Givable
  <2>3. CASE p # o
    BY <2>2, <2>3
  <2>4. CASE p = o
    <3>1. Needs(D, o) # 0
      BY <1>4, <2>1, <2>4, NeedsOneLess
    <3>2. Needs(D, o) = Needs(E, o) + 1
      BY <1>1, <3>1, NeedsOneLess
    <3>3. Needs(D, o) + v[o] <= Limit(o)
      BY <3>1 DEF Givable
    <3> QED  BY <2>1, <2>4, <3>2, <3>3
  <2> QED  BY <2>3, <2>4
<1> QED  BY <1>3, <1>4 DEF Givable

\* What could be given out after task k could be given out together with it.
LEMMA GivableMore ==
  ASSUME IInv, NEW D, IsFiniteSet(D), NEW k \in Tasks \ D, ~Bound(k),
         NEW f \in Int, NEW e, e = f - 1,
         NEW u \in [Pools -> Nat], NEW v, v = [u EXCEPT ![PoolOf(k)] = @ + 1],
         u[PoolOf(k)] < Limit(PoolOf(k)), Givable(D, e, v)
  PROVE  /\ IsFiniteSet(D \cup {k}) /\ Cardinality(D \cup {k}) = Cardinality(D) + 1
         /\ Givable(D \cup {k}, f, u)
<1> DEFINE E == D \cup {k}
<1>1. IsFiniteSet(E) /\ Cardinality(E) = Cardinality(D) + 1 /\ Cardinality(D) \in Nat
  BY FS_AddElement, FS_CardinalityType
<1>2. E \ {k} = D /\ k \in E
  OBVIOUS
<1>3. Cardinality(E) <= f
  BY <1>1 DEF Givable
<1>4. ASSUME NEW p \in Pools, Needs(E, p) # 0
      PROVE  Needs(E, p) + u[p] <= Limit(p)
  <2>1. /\ Needs(E, p) \in Nat /\ Needs(D, p) \in Nat /\ u[p] \in Nat /\ Limit(p) \in Nat
    BY <1>1, NeedsType, LimitType
  <2>2. Needs(E, p) = Needs(D, p) + (IF PoolOf(k) = p THEN 1 ELSE 0)
    BY <1>1, <1>2, NeedsOneLess
  <2>3. Needs(D, p) # 0 => Needs(D, p) + v[p] <= Limit(p)
    BY DEF Givable
  <2>4. CASE PoolOf(k) = p
    <3>1. v[p] = u[p] + 1
      BY <2>4
    <3> QED  BY <2>1, <2>2, <2>3, <2>4, <3>1
  <2>5. CASE PoolOf(k) # p
    <3>1. v[p] = u[p]
      BY <2>5
    <3> QED  BY <1>4, <2>1, <2>2, <2>3, <2>5, <3>1
  <2> QED  BY <2>4, <2>5
<1> QED  BY <1>1, <1>3, <1>4 DEF Givable

LEMMA GivableNext ==
  ASSUME UNCHANGED settings, NEW D
  PROVE  Givable(D, Free, subPoolsUsage)' <=> Givable(D, Free', subPoolsUsage')
<1>1. \A p : Limit(p)' = Limit(p)
  BY DEF settings, Limit
<1>2. \A p : Needs(D, p)' = Needs(D, p)
  BY DEF Needs
<1> QED  BY <1>1, <1>2 DEF Givable, settings

LEMMA FreeType ==
  ASSUME IInv
  PROVE  /\ IsFiniteSet(availableWorkers) /\ Cardinality(availableWorkers) \in Nat
         /\ Free \in Nat /\ capacity \in Nat /\ allWorkers \in Nat /\ allWorkers <= capacity
<1>1. /\ availableWorkers \subseteq 0 .. (allWorkers - 1) /\ allWorkers \in Nat
      /\ capacity \in Nat /\ allWorkers <= capacity
  BY Bounds DEF IInv, TypeOK
<1>2. IsFiniteSet(0 .. (allWorkers - 1))
  BY <1>1, FS_Interval
<1>3. IsFiniteSet(availableWorkers)
  BY <1>1, <1>2, FS_Subset
<1> QED  BY <1>1, <1>3, FS_CardinalityType DEF Free

\* A worker that is created is free where it could be created before.
LEMMA FreeStays ==
  ASSUME IInv, allWorkers' = allWorkers + 1, capacity' = capacity,
         availableWorkers' = availableWorkers \cup {allWorkers}
  PROVE  Free' = Free
<1>1. allWorkers \notin availableWorkers
  BY Bounds
<1>2. Cardinality(availableWorkers') = Cardinality(availableWorkers) + 1
  BY <1>1, FreeType, FS_AddElement
<1> QED  BY <1>2, FreeType DEF Free

\* What thread t does to the threads that ask.
LEMMA AskingStays ==
  ASSUME \A u \in Threads : pc'[u] \in {"schedule", "loop"} <=> pc[u] \in {"schedule", "loop"}
  PROVE  Asking' = Asking
BY DEF Asking

\* The served queue stays served when no task comes in and nothing gets free.
LEMMA ServedStays ==
  ASSUME IInv, Served, UNCHANGED settings, boundWorkers \subseteq boundWorkers',
         UNCHANGED <<tasksQueue, subPoolsUsage>>, Free' = Free, Asking' = Asking
  PROVE  Served'
<1> SUFFICES ASSUME boundWorkers = {}
             PROVE  /\ IsFiniteSet(Asking')
                    /\ \A D \in SUBSET Range(tasksQueue') : IsFiniteSet(D)
                         /\ Givable(D, Free, subPoolsUsage)' => Cardinality(D) <= Cardinality(Asking')
  BY DEF Served
<1> QED  BY GivableNext DEF Served

\* A thread may stop asking when nothing can be given out.
LEMMA ServedNothing ==
  ASSUME IInv, Served, UNCHANGED settings, boundWorkers \subseteq boundWorkers',
         IsFiniteSet(Asking) => IsFiniteSet(Asking'),
         \A D \in SUBSET Range(tasksQueue') : IsFiniteSet(D) /\ boundWorkers = {}
            /\ Givable(D, Free', subPoolsUsage') => D = {}
  PROVE  Served'
<1> SUFFICES ASSUME boundWorkers = {}
             PROVE  /\ IsFiniteSet(Asking')
                    /\ \A D \in SUBSET Range(tasksQueue') : IsFiniteSet(D)
                         /\ Givable(D, Free, subPoolsUsage)' => Cardinality(D) <= Cardinality(Asking')
  BY DEF Served
<1>1. IsFiniteSet(Asking') /\ Cardinality(Asking') \in Nat
  BY FS_CardinalityType DEF Served
<1>2. Cardinality({}) = 0
  BY FS_EmptySet
<1> QED  BY <1>1, <1>2, GivableNext

LEMMA NothingLeft ==
  ASSUME IInv, NEW D, IsFiniteSet(D), NEW u, Givable(D, 0, u)
  PROVE  D = {}
BY FS_CardinalityType, FS_EmptySet DEF Givable

LEMMA AskingLess ==
  ASSUME NEW t \in Threads, \A u \in Threads \ {t} : pc'[u] \in {"schedule", "loop"} <=> pc[u] \in {"schedule", "loop"},
         IsFiniteSet(Asking), pc[t] \in {"schedule", "loop"}, pc'[t] \notin {"schedule", "loop"}
  PROVE  IsFiniteSet(Asking') /\ Cardinality(Asking') = Cardinality(Asking) - 1
         /\ Cardinality(Asking) \in Nat /\ Cardinality(Asking') \in Nat
<1>1. Asking' = Asking \ {t} /\ t \in Asking
  BY DEF Asking
<1> QED  BY <1>1, FS_RemoveElement, FS_CardinalityType

LEMMA AskingMore ==
  ASSUME NEW t \in Threads, \A u \in Threads \ {t} : pc'[u] \in {"schedule", "loop"} <=> pc[u] \in {"schedule", "loop"},
         IsFiniteSet(Asking), pc[t] \notin {"schedule", "loop"}, pc'[t] = "schedule"
  PROVE  IsFiniteSet(Asking') /\ Cardinality(Asking') = Cardinality(Asking) + 1
         /\ Cardinality(Asking) \in Nat /\ Cardinality(Asking') \in Nat
<1>1. Asking' = Asking \cup {t} /\ t \notin Asking
  BY DEF Asking
<1> QED  BY <1>1, FS_AddElement, FS_CardinalityType

LEMMA InsertTaskServed ==
  ASSUME IInv, AtOne, Served, NEW c \in Clients, NEW k \in Tasks, InsertTask(c, k), Next
  PROVE  Served'
<1>1. /\ pc[c] = "idle" /\ k \notin submitted
      /\ UNCHANGED <<settings, bindings, workerTasks, current, allWorkers>>
      /\ InsertBound(c, k) \/ InsertDirect(c, k) \/ InsertQueued(c, k)
  BY DEF InsertTask
<1>2. c \in Threads /\ boundWorkers' = boundWorkers /\ capacity' = capacity
  BY <1>1 DEF Threads, bindings, settings
<1>3. CASE InsertBound(c, k)
  BY <1>2, <1>3, BoundWorkersGrow DEF Served
<1>4. CASE InsertDirect(c, k)
  <2>1. tasksQueue' = <<>> /\ pc' = [pc EXCEPT ![c] = "handOver"]
    BY <1>4 DEF InsertDirect, DirectWorkers
  <2>2. Asking' = Asking
    BY <1>1, <1>2, <2>1, Bounds, AskingStays
  <2>3. \A D \in SUBSET Range(tasksQueue') : D = {}
    BY <2>1, RangeEmpty
  <2> QED  BY <1>1, <1>2, <2>2, <2>3, ServedNothing
<1>5. CASE InsertQueued(c, k)
  <2> SUFFICES ASSUME boundWorkers = {}
               PROVE  /\ IsFiniteSet(Asking')
                      /\ \A D \in SUBSET Range(tasksQueue') : IsFiniteSet(D)
                           /\ Givable(D, Free, subPoolsUsage)' => Cardinality(D) <= Cardinality(Asking')
    BY <1>2 DEF Served
  <2>1. tasksQueue \in Seq(Tasks) /\ Ahead(k, tasksQueue) + 1 \in 1 .. Len(tasksQueue) + 1
    BY AheadBounded DEF IInv, TypeOK
  <2>2. Range(tasksQueue') = Range(tasksQueue) \cup {k}
    BY <1>5, <2>1, RangeInserted DEF InsertQueued, Enqueue
  <2>3. UNCHANGED <<subPoolsUsage, availableWorkers>> /\ Free' = Free
    BY <1>1, <1>2, <1>5 DEF InsertQueued, Free
  <2>4. Free \in Nat /\ subPoolsUsage \in [Pools -> Nat] /\ IsFiniteSet(Asking)
    BY FreeType DEF IInv, TypeOK, Served
  <2>5. CASE /\ availableWorkers # {} \/ CanCreate
             /\ TypeOf[k] = "Intensive" => HasRoom(k)
    <3>1. pc' = [pc EXCEPT ![c] = "schedule"]
      BY <1>5, <2>5 DEF InsertQueued
    <3>2. IsFiniteSet(Asking') /\ Cardinality(Asking') = Cardinality(Asking) + 1
          /\ Cardinality(Asking) \in Nat
      BY <1>1, <1>2, <2>4, <3>1, Bounds, AskingMore
    <3>3. ASSUME NEW D \in SUBSET Range(tasksQueue'), IsFiniteSet(D), Givable(D, Free, subPoolsUsage)
          PROVE  Cardinality(D) <= Cardinality(Asking')
      <4>1. CASE k \notin D
        BY <2>2, <3>2, <3>3, <4>1, FS_CardinalityType DEF Served
      <4>2. CASE k \in D
        <5>1. /\ IsFiniteSet(D \ {k}) /\ Cardinality(D \ {k}) = Cardinality(D) - 1
              /\ Givable(D \ {k}, Free - 1, subPoolsUsage)
          BY <2>4, <3>3, <4>2, GivableLess
        <5>2. Givable(D \ {k}, Free, subPoolsUsage) /\ Cardinality(D) \in Nat
          <6>1. Cardinality(D) \in Nat
            BY <3>3, FS_CardinalityType
          <6>2. Cardinality(D \ {k}) <= Free
            BY <2>4, <5>1, <6>1 DEF Givable
          <6> QED  BY <5>1, <6>1, <6>2 DEF Givable
        <5>3. Cardinality(D \ {k}) <= Cardinality(Asking)
          BY <2>2, <5>1, <5>2 DEF Served
        <5> QED  BY <3>2, <5>1, <5>2, <5>3
      <4> QED  BY <4>1, <4>2
    <3> QED  BY <1>1, <2>3, <3>2, <3>3, GivableNext
  <2>6. CASE ~(/\ availableWorkers # {} \/ CanCreate
               /\ TypeOf[k] = "Intensive" => HasRoom(k))
    <3>1. pc' = pc
      BY <1>5, <2>6 DEF InsertQueued
    <3>2. Asking' = Asking
      BY <3>1, AskingStays
    <3>3. ASSUME NEW D \in SUBSET Range(tasksQueue'), IsFiniteSet(D), Givable(D, Free, subPoolsUsage)
          PROVE  D \subseteq Range(tasksQueue)
      <4>1. CASE availableWorkers = {} /\ ~CanCreate
        <5>1. Free = 0
          BY <4>1, FreeType, FS_EmptySet DEF Free, CanCreate
        <5> QED  BY <3>3, <5>1, NothingLeft
      <4>2. CASE TypeOf[k] = "Intensive" /\ ~HasRoom(k)
        <5> SUFFICES ASSUME k \in D PROVE FALSE
          BY <2>2
        <5>1. ~Bound(k) /\ PoolOf(k) \in Pools
          BY <4>2, TaskTags DEF Bound
        <5>2. Needs(D, PoolOf(k)) \in Nat /\ Needs(D, PoolOf(k)) # 0
          BY <3>3, <5>1, NeedsType
        <5>3. Needs(D, PoolOf(k)) + subPoolsUsage[PoolOf(k)] <= Limit(PoolOf(k))
          BY <3>3, <5>1, <5>2 DEF Givable
        <5>4. Limit(PoolOf(k)) \in Nat /\ subPoolsUsage[PoolOf(k)] \in Nat
          BY <2>4, <5>1, LimitType
        <5>5. ~(subPoolsUsage[PoolOf(k)] < Limit(PoolOf(k)))
          BY <4>2, LimitIsCapacity
        <5> QED  BY <5>2, <5>3, <5>4, <5>5
      <4> QED  BY <2>6, <4>1, <4>2
    <3> QED  BY <1>1, <2>3, <2>4, <3>2, <3>3, GivableNext DEF Served
  <2> QED  BY <2>5, <2>6
<1> QED  BY <1>1, <1>3, <1>4, <1>5

LEMMA ScheduleBeginServed ==
  ASSUME IInv, Served, NEW t \in Threads, ScheduleBegin(t)
  PROVE  Served'
<1>1. /\ pc[t] = "schedule"
      /\ UNCHANGED <<settings, subPoolsUsage, tasksQueue, boundWorkers, capacity>>
      /\ pc' = [IF availableWorkers = {} THEN [pc EXCEPT ![allWorkers] = "pop"] ELSE pc
                  EXCEPT ![t] = "loop"]
      /\ \/ /\ availableWorkers = {} /\ CanCreate
            /\ availableWorkers' = {allWorkers} /\ allWorkers' = allWorkers + 1
         \/ availableWorkers # {} /\ UNCHANGED <<availableWorkers, allWorkers>>
  BY DEF ScheduleBegin, Started, bindings, settings
<1>2. Free' = Free
  <2>1. CASE availableWorkers = {}
    <3>1. availableWorkers' = availableWorkers \cup {allWorkers}
      BY <1>1, <2>1
    <3> QED  BY <1>1, <2>1, <3>1, FreeStays
  <2>2. CASE availableWorkers # {}
    BY <1>1, <2>2 DEF Free
  <2> QED  BY <2>1, <2>2
<1>3. Asking' = Asking
  <2>1. availableWorkers = {} => pc[allWorkers] = "none" /\ allWorkers \in Threads
    BY <1>1, NextWorker, Bounds DEF CanCreate
  <2>2. \A u \in Threads : pc'[u] \in {"schedule", "loop"} <=> pc[u] \in {"schedule", "loop"}
    BY <1>1, <2>1, Bounds
  <2> QED  BY <2>2, AskingStays
<1> QED  BY <1>1, <1>2, <1>3, ServedStays

LEMMA LeavingServed ==
  ASSUME IInv, Served, Skipped, NEW t \in Threads, ScheduleNothing(t) \/ LoopEnd(t)
  PROVE  Served'
<1>1. /\ UNCHANGED <<settings, subPoolsUsage, tasksQueue, boundWorkers, availableWorkers, allWorkers,
                     capacity>>
      /\ pc' = [pc EXCEPT ![t] = Home(t)] /\ pc[t] \in {"schedule", "loop"}
  BY DEF ScheduleNothing, LoopEnd, EndLoop, Returned, InLoop, bindings, settings
<1>2. Free' = Free
  BY <1>1 DEF Free
<1>3. IsFiniteSet(Asking) => IsFiniteSet(Asking')
  <2>1. pc'[t] \notin {"schedule", "loop"} /\ \A u \in Threads \ {t} : pc'[u] = pc[u]
    BY <1>1, Bounds DEF Home
  <2> QED  BY <1>1, <2>1, AskingLess
<1>4. tasksQueue \in Seq(Tasks) /\ it \in Nat /\ subPoolsUsage \in [Pools -> Nat] /\ boundCapacity \in Nat
  BY DEF IInv, TypeOK
<1>5. ASSUME NEW D \in SUBSET Range(tasksQueue), IsFiniteSet(D), boundWorkers = {},
             Givable(D, Free, subPoolsUsage)
      PROVE  D = {}
  <2>1. CASE ScheduleNothing(t)
    <3>1. CASE tasksQueue = <<>>
      BY <3>1, RangeEmpty
    <3>2. CASE availableWorkers = {} /\ ~CanCreate
      <4>1. Free = 0
        BY <3>2, FreeType, FS_EmptySet DEF Free, CanCreate
      <4> QED  BY <1>5, <4>1, NothingLeft
    <3> QED  BY <2>1, <3>1, <3>2 DEF ScheduleNothing
  <2>2. CASE LoopEnd(t)
    <3> SUFFICES ASSUME NEW k \in D PROVE FALSE
      OBVIOUS
    <3>1. PICK i \in 1 .. Len(tasksQueue) : tasksQueue[i] = k
      BY <1>4, LenProperties DEF Range
    <3>2. i < it /\ pc[t] = "loop" /\ k \in Tasks
      BY <1>4, <2>2, <3>1, LenProperties, ElementOfSeq DEF LoopEnd, InLoop
    <3>3. IF Bound(k) THEN boundCapacity = 0 ELSE ~HasRoom(k)
      BY <1>5, <3>1, <3>2 DEF Skipped
    <3>4. ~Bound(k) /\ ~HasRoom(k)
      BY <1>5, <3>3 DEF Givable
    <3>5. PoolOf(k) \in Pools
      BY <3>2, TaskTags
    <3>6. Needs(D, PoolOf(k)) \in Nat /\ Needs(D, PoolOf(k)) # 0
      BY <1>5, <3>4, NeedsType
    <3>7. Needs(D, PoolOf(k)) + subPoolsUsage[PoolOf(k)] <= Limit(PoolOf(k))
      BY <1>5, <3>5, <3>6 DEF Givable
    <3>8. Limit(PoolOf(k)) \in Nat /\ subPoolsUsage[PoolOf(k)] \in Nat
      BY <1>4, <3>5, LimitType
    <3>9. ~(subPoolsUsage[PoolOf(k)] < Limit(PoolOf(k)))
      BY <3>2, <3>4, LimitIsCapacity
    <3> QED  BY <3>6, <3>7, <3>8, <3>9
  <2> QED  BY <2>1, <2>2
<1> QED  BY <1>1, <1>2, <1>3, <1>5, ServedNothing

LEMMA LoopRunServed ==
  ASSUME IInv, AtOne, Served, NEW t \in Threads, LoopRun(t)
  PROVE  Served'
<1> PICK k : k = tasksQueue[it]
  OBVIOUS
<1>1. /\ pc[t] = "loop" /\ it <= Len(tasksQueue) /\ ~Bound(k) /\ HasRoom(k)
      /\ subPoolsUsage' = [subPoolsUsage EXCEPT ![PoolOf(k)] = @ + 1]
      /\ tasksQueue' = Erased /\ UNCHANGED <<settings, boundWorkers, capacity>>
  BY DEF LoopRun, InLoop, bindings, settings
<1> SUFFICES ASSUME boundWorkers = {}
             PROVE  /\ IsFiniteSet(Asking')
                    /\ \A D \in SUBSET Range(tasksQueue') : IsFiniteSet(D)
                         /\ Givable(D, Free, subPoolsUsage)' => Cardinality(D) <= Cardinality(Asking')
  BY <1>1 DEF Served
<1>2. /\ pc' = [pc EXCEPT ![t] = "handOver"] /\ workerId[t] \in availableWorkers
      /\ availableWorkers' = availableWorkers \ {workerId[t]} /\ allWorkers' = allWorkers
  BY <1>1 DEF LoopRun, IInv, Looping
<1>3. Free' = Free - 1 /\ Free \in Nat
  <2>1. Cardinality(availableWorkers') = Cardinality(availableWorkers) - 1
    BY <1>2, FreeType, FS_RemoveElement
  <2> QED  BY <1>1, <1>2, <2>1, FreeType DEF Free
<1>4. IsFiniteSet(Asking') /\ Cardinality(Asking') = Cardinality(Asking) - 1
      /\ Cardinality(Asking) \in Nat
  <2>1. pc'[t] \notin {"schedule", "loop"} /\ \A u \in Threads \ {t} : pc'[u] = pc[u]
    BY <1>2, Bounds
  <2> QED  BY <1>1, <2>1, AskingLess DEF Served
<1>5. /\ k \in Tasks /\ k \in Range(tasksQueue)
      /\ \A j : j \in Range(tasksQueue') <=> j \in Range(tasksQueue) /\ j # k
  BY <1>1, ErasedTakesOut, AtKinds
<1>6. subPoolsUsage \in [Pools -> Nat] /\ subPoolsUsage[PoolOf(k)] < Limit(PoolOf(k))
  BY <1>1, <1>5, LimitIsCapacity DEF IInv, TypeOK
<1>7. ASSUME NEW D \in SUBSET Range(tasksQueue'), IsFiniteSet(D), Givable(D, Free', subPoolsUsage')
      PROVE  Cardinality(D) <= Cardinality(Asking')
  <2>1. k \in Tasks \ D /\ D \cup {k} \in SUBSET Range(tasksQueue)
    BY <1>5
  <2>3. /\ IsFiniteSet(D \cup {k}) /\ Cardinality(D \cup {k}) = Cardinality(D) + 1
        /\ Givable(D \cup {k}, Free, subPoolsUsage)
    <3>1. Free \in Int /\ Free' = Free - 1 /\ subPoolsUsage \in [Pools -> Nat]
      BY <1>3, <1>6
    <3>2. subPoolsUsage' = [subPoolsUsage EXCEPT ![PoolOf(k)] = @ + 1]
      BY <1>1
    <3>3. k \in Tasks \ D /\ ~Bound(k) /\ subPoolsUsage[PoolOf(k)] < Limit(PoolOf(k))
      BY <1>1, <1>6, <2>1
    <3> QED  BY <1>7, <3>1, <3>2, <3>3, GivableMore
  <2>4. Cardinality(D \cup {k}) <= Cardinality(Asking)
    BY <2>1, <2>3 DEF Served
  <2>5. Cardinality(D) \in Nat
    BY <1>7, FS_CardinalityType
  <2> QED  BY <1>4, <2>3, <2>4, <2>5
<1> QED  BY <1>1, <1>4, <1>7, GivableNext

LEMMA TaskFinishedServed ==
  ASSUME IInv, Loaded, Served, NEW w \in Workers, TaskFinished(w)
  PROVE  Served'
<1> PICK k : k = current[w]
  OBVIOUS
<1>1. /\ UNCHANGED <<settings, tasksQueue, boundWorkers, allWorkers, capacity>>
      /\ subPoolsUsage' = UsageAfter(k) /\ pc[w] \in {"finish", "finishAndAsk"}
      /\ k \in Tasks /\ w \in Threads
  BY Bounds DEF TaskFinished, bindings, settings, IInv, Working
<1> SUFFICES ASSUME boundWorkers = {}
             PROVE  /\ IsFiniteSet(Asking')
                    /\ \A D \in SUBSET Range(tasksQueue') : IsFiniteSet(D)
                         /\ Givable(D, Free, subPoolsUsage)' => Cardinality(D) <= Cardinality(Asking')
  BY <1>1 DEF Served
<1>2. pc[w] = "finishAndAsk"
  BY <1>1 DEF Loaded
<1>3. /\ availableWorkers' = availableWorkers \cup {w} /\ pc' = [pc EXCEPT ![w] = "schedule"]
  BY <1>2 DEF TaskFinished
<1>4. Free' <= Free + 1 /\ Free \in Nat /\ Free' \in Nat
  <2>1. Cardinality(availableWorkers') = Cardinality(availableWorkers) + (IF w \in availableWorkers THEN 0 ELSE 1)
    BY <1>3, FreeType, FS_AddElement
  <2> QED  BY <1>1, <2>1, FreeType DEF Free
<1>5. IsFiniteSet(Asking') /\ Cardinality(Asking') = Cardinality(Asking) + 1
      /\ Cardinality(Asking) \in Nat
  <2>1. pc'[w] = "schedule" /\ \A u \in Threads \ {w} : pc'[u] = pc[u]
    BY <1>3, Bounds
  <2> QED  BY <1>1, <1>2, <2>1, AskingMore DEF Served
<1> PICK o : o = PoolOf(k)
  OBVIOUS
<1> PICK v : v = subPoolsUsage'
  OBVIOUS
<1>6. /\ o \in Pools /\ subPoolsUsage \in [Pools -> Nat] /\ v \in [Pools -> Nat]
      /\ (\A p \in Pools \ {o} : v[p] = subPoolsUsage[p]) /\ subPoolsUsage[o] <= v[o] + 1
  <2>1. o \in Pools /\ subPoolsUsage \in [Pools -> Nat]
    BY <1>1, TaskTags DEF IInv, TypeOK
  <2>2. CASE v = subPoolsUsage
    BY <2>1, <2>2
  <2>3. CASE v = [subPoolsUsage EXCEPT ![o] = @ - 1] /\ subPoolsUsage[o] # 0
    BY <2>1, <2>3
  <2> QED  BY <1>1, <2>2, <2>3 DEF UsageAfter
<1>7. ASSUME NEW D \in SUBSET Range(tasksQueue), IsFiniteSet(D), Givable(D, Free', v)
      PROVE  Cardinality(D) <= Cardinality(Asking')
  <2>1. Cardinality(D) \in Nat
    BY <1>7, FS_CardinalityType
  <2>2. Cardinality(D) <= Free'
    BY <1>7 DEF Givable
  <2>3. Cardinality(D) <= Free + 1
    BY <1>4, <2>1, <2>2
  <2>4. Givable(D, Free + 1, v)
    BY <1>7, <2>3 DEF Givable
  <2>5. CASE D = {}
    BY <1>5, <2>5, FS_EmptySet
  <2>6. CASE D # {}
    <3>1. PICK j \in D : Givable(D \ {j}, Free, subPoolsUsage)
      BY <1>4, <1>6, <1>7, <2>4, <2>6, GivableEnded, SMTT(20)
    <3>2. IsFiniteSet(D \ {j}) /\ Cardinality(D \ {j}) = Cardinality(D) - 1
      BY <1>7, FS_RemoveElement
    <3>3. Cardinality(D \ {j}) <= Cardinality(Asking)
      BY <3>1, <3>2 DEF Served
    <3> QED  BY <1>5, <2>1, <3>2, <3>3
  <2> QED  BY <2>5, <2>6
<1> QED  BY <1>1, <1>5, <1>7, GivableNext

\* Clients submit tasks and pre-heat the pool, but set nothing.
NothingSet == NewCapacities = {} /\ NewBoundCapacities = {} /\ NewTagCapacities = {}
                /\ PausableTags = {}

SettingsStay == UNCHANGED settings /\ NotAdding'

LEMMA NextSettingsStay ==
  ASSUME NothingSet, IInv, NotAdding, [Next]_vars
  PROVE  SettingsStay
<1>1. NotAdding'
  BY CapacitiesStay DEF NothingSet
<1>2. CASE \E t \in Threads : Continue(t)
  BY <1>1, <1>2 DEF SettingsStay, Continue, HandOver, ScheduleNothing, ScheduleBegin, LoopEnd,
     LoopBound, LoopRun, LoopSkip, settings
<1>3. CASE \E c \in Clients : ContinueSetting(c) \/ CallSetting(c)
  <2>1. PICK c \in Clients : ContinueSetting(c) \/ CallSetting(c)
    BY <1>3
  <2>2. c \in Threads
    BY DEF Threads
  <2>3. ~AddCustomTag(c)
    BY <2>2 DEF AddCustomTag, NotAdding
  <2> QED  BY <1>1, <2>1, <2>3 DEF SettingsStay, ContinueSetting, CallSetting, NothingSet,
             PreHeatLock, PreHeatLoop, PreHeatEnd, PreHeatRead, settings
<1>4. CASE \E c \in Clients, k \in Tasks : InsertTask(c, k)
  BY <1>1, <1>4 DEF SettingsStay, InsertTask, settings
<1>5. CASE \E w \in Workers : Work(w)
  BY <1>1, <1>5 DEF SettingsStay, Work, Pop, Ran, TaskFinished, settings
<1>6. CASE UNCHANGED vars
  BY <1>1, <1>6 DEF SettingsStay, vars, settings
<1> QED  BY <1>2, <1>3, <1>4, <1>5, <1>6 DEF Next

\* A setting that may be called is a pre-heating of the pool.
LEMMA PreHeatSteps ==
  ASSUME NothingSet, IInv, NotAdding, NEW c \in Clients, ContinueSetting(c) \/ CallSetting(c)
  PROVE  /\ UNCHANGED <<settings, bindings, subPoolsUsage, tasksQueue, it>>
         /\ Free' = Free
         /\ \A t \in Threads : \A l \in {"schedule", "loop"} : pc'[t] = l <=> pc[t] = l
<1>1. c \in Threads /\ c \notin Workers
  BY DispatcherAssumption DEF Threads
<1>2. ~AddCustomTag(c)
  BY <1>1 DEF AddCustomTag, NotAdding
<1>3. CASE PreHeatLoop(c)
  <2>1. UNCHANGED <<settings, bindings, subPoolsUsage, tasksQueue, it>> /\ capacity' = capacity
    BY <1>3 DEF PreHeatLoop, unset, settings, bindings
  <2>2. CASE UNCHANGED <<allWorkers, availableWorkers, pc>>
    BY <2>1, <2>2 DEF Free
  <2>3. CASE CanCreate /\ availableWorkers' = availableWorkers \cup {allWorkers}
             /\ allWorkers' = allWorkers + 1 /\ pc' = Started(pc, allWorkers)
    <3>1. Free' = Free
      BY <2>1, <2>3, FreeStays
    <3>2. pc[allWorkers] = "none" /\ pc' = [pc EXCEPT ![allWorkers] = "pop"]
      BY <2>3, NextWorker DEF CanCreate, Started
    <3> QED  BY <2>1, <3>1, <3>2, Bounds
  <2> QED  BY <1>3, <2>2, <2>3 DEF PreHeatLoop
<1>4. CASE PreHeatLock(c) \/ PreHeatEnd(c) \/ \E n \in PreHeats : PreHeatRead(c, n)
  <2>1. /\ UNCHANGED <<settings, bindings, subPoolsUsage, tasksQueue, it, capacity, allWorkers,
                       availableWorkers>>
        /\ \E l \in {"preHeat", "preHeating", "idle"} : pc' = [pc EXCEPT ![c] = l]
        /\ pc[c] \in {"preHeat", "preHeating", "idle"}
    BY <1>4 DEF PreHeatLock, PreHeatEnd, PreHeatRead, unset, settings, bindings
  <2> QED  BY <1>1, <2>1, Bounds DEF Free
<1> QED  BY <1>2, <1>3, <1>4 DEF ContinueSetting, CallSetting, NothingSet

LEMMA NextServed ==
  ASSUME NothingSet, IInv, AtOne, NotAdding, Loaded, Served, Skipped, [Next]_vars
  PROVE  Served'
<1>0. UNCHANGED settings /\ capacity' = capacity /\ boundWorkers \subseteq boundWorkers'
  BY NextSettingsStay, BoundWorkersGrow DEF SettingsStay, settings
\* Steps that change neither the queue nor who asks.
<1>1. ASSUME UNCHANGED <<tasksQueue, subPoolsUsage>>, Free' = Free,
             \A t \in Threads : pc'[t] \in {"schedule", "loop"} <=> pc[t] \in {"schedule", "loop"}
      PROVE  Served'
  BY <1>0, <1>1, AskingStays, ServedStays
<1>2. CASE \E t \in Threads : Continue(t)
  <2>1. PICK t \in Threads : Continue(t)
    BY <1>2
  <2>2. CASE HandOver(t)
    <3>1. UNCHANGED <<tasksQueue, subPoolsUsage, availableWorkers, allWorkers>>
          /\ pc' = [pc EXCEPT ![t] = Home(t)] /\ pc[t] = "handOver"
      BY <2>2 DEF HandOver, Returned
    <3> QED  BY <1>0, <1>1, <3>1, Bounds DEF Free, Home
  <2>3. CASE LoopSkip(t)
    <3>1. UNCHANGED <<tasksQueue, subPoolsUsage, availableWorkers, allWorkers, pc>>
      BY <2>3 DEF LoopSkip
    <3> QED  BY <1>0, <1>1, <3>1 DEF Free
  <2>4. CASE LoopBound(t)
    BY <2>4, BoundWorkersGrow DEF Served
  <2> QED  BY <2>1, <2>2, <2>3, <2>4, ScheduleBeginServed, LeavingServed, LoopRunServed DEF Continue
<1>3. CASE \E c \in Clients : ContinueSetting(c) \/ CallSetting(c)
  BY <1>1, <1>3, PreHeatSteps
<1>4. CASE \E c \in Clients, k \in Tasks : InsertTask(c, k)
  <2>1. Next
    BY <1>4 DEF Next
  <2> QED  BY <1>4, <2>1, InsertTaskServed
<1>5. CASE \E w \in Workers : Work(w)
  <2>1. PICK w \in Workers : Work(w)
    BY <1>5
  <2>2. CASE Pop(w) \/ Ran(w)
    <3>1. UNCHANGED <<tasksQueue, subPoolsUsage, availableWorkers, allWorkers>>
          /\ (\E l \in {"run", "finish", "finishAndAsk"} : pc' = [pc EXCEPT ![w] = l])
          /\ pc[w] \in {"pop", "run"}
      BY <2>2 DEF Pop, Ran
    <3> QED  BY <1>0, <1>1, <3>1, Bounds DEF Free
  <2> QED  BY <2>1, <2>2, TaskFinishedServed DEF Work
<1>6. CASE UNCHANGED vars
  BY <1>0, <1>1, <1>6 DEF vars, locals, Free
<1> QED  BY <1>2, <1>3, <1>4, <1>5, <1>6 DEF Next

\* As long as no worker is bound, a bound task finds a worker unless none may
\* be bound.
LEMMA WorkerForUnboundTag ==
  ASSUME IInv, Counted, boundWorkers = {}, NEW g \in Tags
  PROVE  /\ WorkersForTag(g) = {-1} /\ availableWorkers # {} => boundCapacity = 0
         /\ boundCapacity = 0 => WorkersForTag(g) = {-1}
<1>1. tagToWorkerBindings[g] = -1
  BY DEF IInv, Recorded
<1>2. BoundAmount = 0 /\ boundCapacity \in Nat
  BY BoundWorkersCounted, FS_EmptySet DEF Counted, IInv, TypeOK
<1>3. LeastBound = {-1}
  BY DEF LeastBound, FirstSetBit
<1>4. ASSUME WorkersForTag(g) = {-1}, availableWorkers # {}, boundCapacity # 0 PROVE FALSE
  <2>1. ~(BoundAmount >= boundCapacity)
    BY <1>2, <1>4
  <2>2. WorkersForTag(g) = FirstSetBit(availableWorkers \ boundWorkers)
    BY <1>1, <1>4, <2>1 DEF WorkersForTag
  <2>3. -1 \in availableWorkers
    BY <1>4, <2>2, SetBits
  <2> QED  BY <2>3, Bounds
<1>5. ASSUME boundCapacity = 0 PROVE WorkersForTag(g) = {-1}
  BY <1>1, <1>2, <1>3, <1>5 DEF WorkersForTag
<1> QED  BY <1>4, <1>5

LEMMA NextSkipped ==
  ASSUME NothingSet, IInv, Counted, NotAdding, Skipped, [Next]_vars
  PROVE  Skipped'
<1>0. UNCHANGED <<settings, boundCapacity>> /\ boundWorkers \subseteq boundWorkers'
  BY NextSettingsStay, BoundWorkersGrow DEF SettingsStay, settings
<1>1. \A k : subPoolsUsage' = subPoolsUsage => (HasRoom(k)' <=> HasRoom(k))
  BY <1>0 DEF HasRoom, CapacityFor, settings
\* Steps that leave the queue to whoever goes over it.
<1>2. ASSUME UNCHANGED <<tasksQueue, subPoolsUsage, it>>,
             \A t \in Threads : pc'[t] = "loop" => pc[t] = "loop"
      PROVE  Skipped'
  BY <1>0, <1>1, <1>2 DEF Skipped
<1>3. \A t \in Threads : pc[t] = "loop" => mainLock = t
  BY DEF IInv, Locked
\* Steps after which nobody goes over it.
<1>4. ASSUME \A t \in Threads : pc'[t] # "loop" PROVE Skipped'
  BY <1>4 DEF Skipped
<1>5. CASE \E t \in Threads : Continue(t)
  <2>1. PICK t \in Threads : Continue(t)
    BY <1>5
  <2>2. CASE HandOver(t) \/ ScheduleNothing(t)
    <3>1. UNCHANGED <<tasksQueue, subPoolsUsage, it>> /\ pc' = [pc EXCEPT ![t] = Home(t)]
      BY <2>2 DEF HandOver, ScheduleNothing, Returned
    <3> QED  BY <1>2, <3>1, Bounds DEF Home
  <2>3. CASE ScheduleBegin(t)
    BY <2>3 DEF ScheduleBegin, Skipped
  <2>4. CASE LoopEnd(t)
    <3>1. pc' = [pc EXCEPT ![t] = Home(t)] /\ mainLock = t
      BY <2>4 DEF LoopEnd, EndLoop, Returned, InLoop
    <3> QED  BY <1>3, <1>4, <3>1, Bounds DEF Home
  <2>5. CASE LoopBound(t)
    BY <2>5, BoundWorkersGrow DEF Skipped
  <2>6. CASE LoopRun(t)
    <3>1. /\ pc' = [IF workerId[t] \in boundWorkers /\ CanCreate THEN [pc EXCEPT ![allWorkers] = "pop"]
                    ELSE pc EXCEPT ![t] = "handOver"]
          /\ mainLock = t
      BY <2>6 DEF LoopRun, InLoop, Started
    <3> QED  BY <1>3, <1>4, <3>1, Bounds
  <2>7. CASE LoopSkip(t)
    <3>1. /\ UNCHANGED <<tasksQueue, subPoolsUsage, pc, boundWorkers>> /\ it' = it + 1
          /\ it <= Len(tasksQueue) /\ workerId[t] \in availableWorkers
          /\ IF Bound(tasksQueue[it]) THEN WorkersForTag(TagOf(tasksQueue[it])) = {-1}
             ELSE ~HasRoom(tasksQueue[it])
      BY <2>7 DEF LoopSkip, InLoop, IInv, Looping, bindings
    <3>2. tasksQueue[it] \in Tasks /\ it \in Nat
      BY <2>7, ErasedType DEF LoopSkip, InLoop, IInv, Looping, TypeOK
    <3>3. ASSUME boundWorkers = {}
          PROVE  IF Bound(tasksQueue[it]) THEN boundCapacity = 0 ELSE ~HasRoom(tasksQueue[it])
      BY <3>1, <3>2, <3>3, WorkerForUnboundTag, TaskTags
    <3>4. \A i \in 1 .. Len(tasksQueue) : i < it + 1 => i < it \/ i = it
      BY <3>2
    <3> QED  BY <1>0, <1>1, <3>1, <3>3, <3>4 DEF Skipped
  <2> QED  BY <2>1, <2>2, <2>3, <2>4, <2>5, <2>6, <2>7 DEF Continue
<1>6. CASE \E c \in Clients : ContinueSetting(c) \/ CallSetting(c)
  BY <1>2, <1>6, PreHeatSteps
<1>7. CASE \E c \in Clients, k \in Tasks : InsertTask(c, k)
  <2>1. PICK c \in Clients, k \in Tasks : InsertTask(c, k)
    BY <1>7
  <2>2. /\ mainLock = None
        /\ \E l \in {"handOver", "schedule"} : pc' = [pc EXCEPT ![c] = l] \/ pc' = pc
    BY <2>1 DEF InsertTask, InsertBound, InsertDirect, InsertQueued
  <2> QED  BY <1>3, <1>4, <2>2, Bounds
<1>8. CASE \E w \in Workers : Work(w)
  <2>1. PICK w \in Workers : Work(w)
    BY <1>8
  <2>2. CASE Pop(w) \/ Ran(w)
    <3>1. UNCHANGED <<tasksQueue, subPoolsUsage, it>>
          /\ \E l \in {"run", "finish", "finishAndAsk"} : pc' = [pc EXCEPT ![w] = l]
      BY <2>2 DEF Pop, Ran
    <3> QED  BY <1>2, <3>1, Bounds
  <2>3. CASE TaskFinished(w)
    <3>1. mainLock = None /\ \E l \in {"pop", "schedule"} : pc' = [pc EXCEPT ![w] = l]
      BY <2>3 DEF TaskFinished
    <3> QED  BY <1>3, <1>4, <3>1, Bounds
  <2> QED  BY <2>1, <2>2, <2>3 DEF Work
<1>9. CASE UNCHANGED vars
  BY <1>2, <1>9 DEF vars, locals
<1> QED  BY <1>5, <1>6, <1>7, <1>8, <1>9 DEF Next

LEMMA InitServed == Init => NotAdding /\ Served /\ Skipped
<1> SUFFICES ASSUME Init PROVE NotAdding /\ Served /\ Skipped
  OBVIOUS
<1>1. \A t \in Threads : pc[t] \notin {"schedule", "loop", "addTag"}
  BY DEF Init
<1>2. Asking = {} /\ tasksQueue = <<>>
  BY <1>1 DEF Asking, Init
<1>3. Range(tasksQueue) = {}
  BY <1>2, RangeEmpty
<1>4. IsFiniteSet(Asking) /\ Cardinality(Asking) = 0 /\ Cardinality({}) = 0
  BY <1>2, FS_EmptySet
<1>5. \A D \in SUBSET Range(tasksQueue) : Cardinality(D) <= Cardinality(Asking)
  BY <1>3, <1>4
<1> QED  BY <1>1, <1>4, <1>5 DEF NotAdding, Served, Skipped

LEMMA NoneRunnable ==
  ASSUME IInv, Counted, Served, boundWorkers = {}
  PROVE  NoRunnableTaskLeft
<1> SUFFICES ASSUME Settled, NEW i \in DOMAIN tasksQueue, Runnable(tasksQueue[i])
             PROVE  FALSE
  BY DEF NoRunnableTaskLeft
<1> PICK k : k = tasksQueue[i]
  OBVIOUS
<1>1. k \in Tasks /\ k \in Range(tasksQueue) /\ PoolOf(k) \in Pools
  <2>1. tasksQueue \in Seq(Tasks) /\ i \in 1 .. Len(tasksQueue)
    BY LenProperties DEF IInv, TypeOK
  <2> QED  BY <2>1, ElementOfSeq, TaskTags DEF Range
<1>2. Asking = {}
  BY DEF Settled, Asking
<1>3. Cardinality(Asking) = 0
  BY <1>2, FS_EmptySet
<1>4. IsFiniteSet({k}) /\ Cardinality({k}) = 1
  BY FS_Singleton
<1>5. Free >= 1
  <2>1. CASE CanCreate
    BY <2>1, FreeType DEF Free, CanCreate
  <2>2. CASE availableWorkers # {}
    <3>1. Cardinality(availableWorkers) # 0
      BY <2>2, FreeType, FS_EmptySet
    <3> QED  BY <3>1, FreeType DEF Free
  <2> QED  BY <2>1, <2>2 DEF Runnable
<1>6. Bound(k) => boundCapacity # 0
  BY <1>1, WorkerForUnboundTag, TaskTags DEF Runnable
<1>7. ASSUME NEW p \in Pools, Needs({k}, p) # 0
      PROVE  Needs({k}, p) + subPoolsUsage[p] <= Limit(p)
  <2>1. ~Bound(k) /\ PoolOf(k) = p
    BY <1>4, <1>7, NeedsType
  <2>2. {j \in {k} : ~Bound(j) /\ PoolOf(j) = p} = {k}
    BY <2>1
  <2>3. Needs({k}, p) = 1
    BY <1>4, <2>2 DEF Needs
  <2>4. subPoolsUsage[p] < Limit(p)
    BY <1>1, <2>1, LimitIsCapacity DEF Runnable
  <2>5. subPoolsUsage[p] \in Nat /\ Limit(p) \in Nat
    BY LimitType DEF IInv, TypeOK
  <2> QED  BY <2>3, <2>4, <2>5
<1>8. Givable({k}, Free, subPoolsUsage)
  BY <1>4, <1>5, <1>6, <1>7, FreeType DEF Givable
<1>9. Cardinality({k}) <= Cardinality(Asking)
  BY <1>1, <1>4, <1>8 DEF Served
<1> QED  BY <1>3, <1>4, <1>9

\* Without bound workers no wake-up of the scheduler is missed, tasks are
\* spread over the workers and none waits behind another: when all is settled,
\* nothing that could run is left in the queue.  (A call that raises a limit or
\* resumes a tag asks once at most, for any number of tasks: that is what
\* NothingSet excludes.)
THEOREM UnboundServed ==
  ASSUME NothingSet
  PROVE  Spec => []UnboundPoolServed
<1>1. Spec => []Counted
  BY InitIInv, NextIInv, InitCounted, NextCounted, PTL DEF Spec
<1>2. IInv /\ AtOne /\ Counted /\ Loaded /\ NotAdding /\ Served /\ Skipped /\ [Next]_vars
        => (NotAdding /\ Served /\ Skipped)'
  BY NextSettingsStay, NextServed, NextSkipped DEF SettingsStay
<1>3. IInv /\ Counted /\ Served /\ OneEachUnbound => UnboundPoolServed
  BY NoneRunnable DEF OneEachUnbound, UnboundPoolServed
<1> QED  BY <1>1, <1>2, <1>3, InitServed, AlwaysIInv, AlwaysAtOne, AlwaysLoaded,
            OneTaskPerUnboundWorker, PTL DEF Spec

=============================================================================
