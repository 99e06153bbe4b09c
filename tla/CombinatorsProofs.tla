------------------------- MODULE CombinatorsProofs --------------------------
(***************************************************************************)
(* Proofs about programs that make futures from futures, for any programs, *)
(* threads, workers and futures: the iteration of a sequence is in one     *)
(* place, and clusters do not outlive the task that manages them.          *)
(*                                                                         *)
(* Both are about futures that one call alone may fill (Private): what     *)
(* that call has turned into is followed from place to place.              *)
(***************************************************************************)
EXTENDS CallProofs, FiniteSetTheorems

-----------------------------------------------------------------------------
(* The invariants, of the calls M at their places and the outcomes O *)

Held == [x \in Places |-> CallAt(x)]

PrivateFutures ==
    {f \in Futures : \/ \E c \in asked : f \in Private(c)
                     \/ \E x \in Places : f \in Private(CallAt(x))}

AllFine(M, A) == \A x \in DOMAIN M : Fine(M[x], A)

\* Only what its own call has become may fill a private future, ...
InParts(M, P) == \A g \in P : \A x \in DOMAIN M : CanFill(M[x], g) => Part(M[x], g)

\* ... it is in one place, ...
OnePlace(M, P) == \A g \in P : \A x, y \in DOMAIN M :
    Active(M[x], g) /\ Active(M[y], g) => x = y

\* ... and nowhere when the future is filled.
NotYet(M, O, P) == \A g \in P : \A x \in DOMAIN M : Active(M[x], g) => O[g] = None

\* The callback for failures is of no use when the future did not fail, ...
Idle(O, k) == O[k.from] # None /\ O[k.from].ok
\* ... and while it may be, the iteration is waiting on the same future: it is
\* registered there, or is about to be, right before.
Before(x, y) ==
    \/ x[1] = "callbacks"
    \/ x[1] = "stack" /\ y[1] = "stack" /\ x[2] = y[2] /\ y[3] = x[3] + 1
WaitsWith(M, x, y) == M[x].op = "on" /\ M[x].ok = TRUE /\ M[x].from = M[y].from /\ Before(x, y)
Guarding(M, O, P) == \A g \in P : \A y \in DOMAIN M : Guards(M[y], g) =>
    \/ Idle(O, M[y])
    \/ /\ O[g] = None
       /\ \A x \in DOMAIN M : Active(M[x], g) => WaitsWith(M, x, y)
       /\ \A z \in DOMAIN M : Guards(M[z], g) /\ ~Idle(O, M[z]) => z = y

Custody(M, O, P) == InParts(M, P) /\ OnePlace(M, P) /\ NotYet(M, O, P) /\ Guarding(M, O, P)

\* A cluster whose promise is g has a manager, and that waits for g.
Above(w, z) == w[1] = "stack" /\ z[1] = "stack" /\ w[2] = z[2] /\ w[3] < z[3]
ManagesFor(M, z, c, g) ==
    /\ z[1] = "stack" /\ Manages(M[z], c)
    /\ M[z].op = "conclude" => \E w \in DOMAIN M : Above(w, z) /\ M[w] = wait(g)
Managed(M, A) == \A c \in A : \A x \in DOMAIN M : \A g \in Futures :
    IsJob(M[x], c, g) => \E z \in DOMAIN M : ManagesFor(M, z, c, g)

Shape ==
    /\ None \notin Futures
    /\ DOMAIN stack = Threads /\ \A t \in Threads : stack[t] \in Seq(Range(stack[t]))
    /\ DOMAIN outcome = Futures /\ DOMAIN callbacks = Futures /\ DOMAIN cells = Futures
    /\ \A f \in Futures : \A ok \in BOOLEAN :
         DOMAIN callbacks[f] = BOOLEAN /\ callbacks[f][ok] \in Seq(Range(callbacks[f][ok]))

IInv == /\ Shape /\ TypeOK /\ AllFine(Held, asked)
        /\ Custody(Held, outcome, PrivateFutures) /\ Managed(Held, asked)

-----------------------------------------------------------------------------
(* From place to place *)

PlacesOf(s, cb, q) ==
    (UNION {{<<"stack", t, i>> : i \in DOMAIN s[t]} : t \in Threads})
    \cup (UNION {{<<"callbacks", l, i>> : i \in DOMAIN cb[l[1]][l[2]]} : l \in Futures \X BOOLEAN})
    \cup {<<"queued", task, 1>> : task \in q}
CallOf(s, cb, x) ==
    CASE x[1] = "stack" -> s[x[2]][x[3]]
      [] x[1] = "callbacks" -> [op |-> "on", from |-> x[2][1], ok |-> x[2][2],
                                call |-> cb[x[2][1]][x[2][2]][x[3]]]
      [] x[1] = "queued" -> x[2]
HeldOf(s, cb, q) == [x \in PlacesOf(s, cb, q) |-> CallOf(s, cb, x)]

\* M is what is held by the stacks s, the lists cb and the queue q.
Holds(M, s, cb, q) ==
    /\ \A x \in DOMAIN M :
         \/ \E t \in Threads : \E i \in DOMAIN s[t] : x = <<"stack", t, i>>
         \/ \E f \in Futures, b \in BOOLEAN : \E i \in DOMAIN cb[f][b] :
              x = <<"callbacks", <<f, b>>, i>>
         \/ \E task \in q : x = <<"queued", task, 1>>
    /\ \A t \in Threads : \A i \in DOMAIN s[t] :
         <<"stack", t, i>> \in DOMAIN M /\ M[<<"stack", t, i>>] = s[t][i]
    /\ \A f \in Futures, b \in BOOLEAN : \A i \in DOMAIN cb[f][b] :
         /\ <<"callbacks", <<f, b>>, i>> \in DOMAIN M
         /\ M[<<"callbacks", <<f, b>>, i>>] = [op |-> "on", from |-> f, ok |-> b, call |-> cb[f][b][i]]
    /\ \A task \in q : <<"queued", task, 1>> \in DOMAIN M /\ M[<<"queued", task, 1>>] = task

LEMMA HoldsOf == ASSUME NEW s, NEW cb, NEW q PROVE Holds(HeldOf(s, cb, q), s, cb, q)
<1> DEFINE L == Futures \X BOOLEAN
           OnStack(t) == {<<"stack", t, i>> : i \in DOMAIN s[t]}
           InList(l) == {<<"callbacks", l, i>> : i \in DOMAIN cb[l[1]][l[2]]}
           Stacks == UNION {OnStack(t) : t \in Threads}
           Lists == UNION {InList(l) : l \in L}
           Tasks == {<<"queued", task, 1>> : task \in q}
           M == HeldOf(s, cb, q)
           D == PlacesOf(s, cb, q)
<1>1. DOMAIN M = D /\ \A x \in D : M[x] = CallOf(s, cb, x)
  BY DEF HeldOf
<1>2. D = Stacks \cup Lists \cup Tasks
  BY DEF PlacesOf
<1>3. ASSUME NEW x \in Stacks PROVE \E t \in Threads : \E i \in DOMAIN s[t] : x = <<"stack", t, i>>
  <2>1. PICK t \in Threads : x \in OnStack(t)
    OBVIOUS
  <2> QED  BY <2>1
<1>4. ASSUME NEW x \in Lists
      PROVE  \E f \in Futures, b \in BOOLEAN : \E i \in DOMAIN cb[f][b] : x = <<"callbacks", <<f, b>>, i>>
  <2>1. PICK l \in L : x \in InList(l)
    OBVIOUS
  <2>2. PICK i \in DOMAIN cb[l[1]][l[2]] : x = <<"callbacks", l, i>>
    BY <2>1
  <2>3. PICK f \in Futures, b \in BOOLEAN : l = <<f, b>>
    OBVIOUS
  <2>4. l[1] = f /\ l[2] = b
    BY <2>3
  <2> QED  BY <2>2, <2>3, <2>4
<1>5. ASSUME NEW x \in D
      PROVE  \/ \E t \in Threads : \E i \in DOMAIN s[t] : x = <<"stack", t, i>>
             \/ \E f \in Futures, b \in BOOLEAN : \E i \in DOMAIN cb[f][b] :
                  x = <<"callbacks", <<f, b>>, i>>
             \/ \E task \in q : x = <<"queued", task, 1>>
  <2>1. CASE x \in Stacks
    BY <2>1, <1>3
  <2>2. CASE x \in Lists
    BY <2>2, <1>4
  <2>3. CASE x \in Tasks
    BY <2>3
  <2> HIDE DEF Stacks, Lists, Tasks, D
  <2> QED  BY <1>2, <2>1, <2>2, <2>3
<1>6. ASSUME NEW t \in Threads, NEW i \in DOMAIN s[t]
      PROVE  <<"stack", t, i>> \in D /\ CallOf(s, cb, <<"stack", t, i>>) = s[t][i]
  <2>1. <<"stack", t, i>> \in OnStack(t)
    OBVIOUS
  <2>2. <<"stack", t, i>> \in Stacks
    BY <2>1
  <2>3. CallOf(s, cb, <<"stack", t, i>>) = s[t][i]
    BY DEF CallOf
  <2> HIDE DEF Stacks, Lists, Tasks, D
  <2> QED  BY <1>2, <2>2, <2>3
<1>7. ASSUME NEW f \in Futures, NEW b \in BOOLEAN, NEW i \in DOMAIN cb[f][b]
      PROVE  /\ <<"callbacks", <<f, b>>, i>> \in D
             /\ CallOf(s, cb, <<"callbacks", <<f, b>>, i>>)
                  = [op |-> "on", from |-> f, ok |-> b, call |-> cb[f][b][i]]
  <2>0. <<f, b>> \in L /\ <<f, b>>[1] = f /\ <<f, b>>[2] = b
    OBVIOUS
  <2>1. PICK l \in L : l = <<f, b>> /\ l[1] = f /\ l[2] = b
    <3> HIDE DEF L
    <3> QED  BY <2>0
  <2>2. <<"callbacks", l, i>> \in InList(l)
    BY <2>1
  <2>3. <<"callbacks", l, i>> \in Lists
    BY <2>2
  <2>4. CallOf(s, cb, <<"callbacks", <<f, b>>, i>>)
          = [op |-> "on", from |-> f, ok |-> b, call |-> cb[f][b][i]]
    BY DEF CallOf
  <2> HIDE DEF Stacks, Lists, Tasks, D
  <2> QED  BY <1>2, <2>1, <2>3, <2>4
<1>8. ASSUME NEW task \in q
      PROVE  <<"queued", task, 1>> \in D /\ CallOf(s, cb, <<"queued", task, 1>>) = task
  <2>1. <<"queued", task, 1>> \in Tasks
    OBVIOUS
  <2>2. CallOf(s, cb, <<"queued", task, 1>>) = task
    BY DEF CallOf
  <2> HIDE DEF Stacks, Lists, Tasks, D
  <2> QED  BY <1>2, <2>1, <2>2
<1> HIDE DEF M, D
<1>9. Holds(M, s, cb, q)
  <2>1. \A x \in DOMAIN M :
          \/ \E t \in Threads : \E i \in DOMAIN s[t] : x = <<"stack", t, i>>
          \/ \E f \in Futures, b \in BOOLEAN : \E i \in DOMAIN cb[f][b] :
               x = <<"callbacks", <<f, b>>, i>>
          \/ \E task \in q : x = <<"queued", task, 1>>
    BY <1>1, <1>5
  <2>2. \A t \in Threads : \A i \in DOMAIN s[t] :
          <<"stack", t, i>> \in DOMAIN M /\ M[<<"stack", t, i>>] = s[t][i]
    BY <1>1, <1>6
  <2>3. \A f \in Futures, b \in BOOLEAN : \A i \in DOMAIN cb[f][b] :
          /\ <<"callbacks", <<f, b>>, i>> \in DOMAIN M
          /\ M[<<"callbacks", <<f, b>>, i>>]
               = [op |-> "on", from |-> f, ok |-> b, call |-> cb[f][b][i]]
    BY <1>1, <1>7, ZenonT(40)
  <2>4. \A task \in q : <<"queued", task, 1>> \in DOMAIN M /\ M[<<"queued", task, 1>>] = task
    BY <1>1, <1>8
  <2> QED  BY <2>1, <2>2, <2>3, <2>4 DEF Holds
<1> QED  BY <1>9 DEF M

LEMMA HeldHolds ==
  Holds(Held, stack, callbacks, queued) /\ Holds(Held', stack', callbacks', queued')
<1>1. Held = HeldOf(stack, callbacks, queued)
  BY DEF Held, HeldOf, Places, PlacesOf, CallAt, CallOf
<1>2. Held' = HeldOf(stack', callbacks', queued')
  BY DEF Held, HeldOf, Places, PlacesOf, CallAt, CallOf
<1> QED  BY <1>1, <1>2, HoldsOf

\* The calls N come from those M by src: what is in K is kept as it is, and
\* right before what it was right before.
Keeps(M, N, K, src) ==
    /\ K \subseteq DOMAIN M /\ src \in [DOMAIN N -> DOMAIN M]
    /\ \A y \in DOMAIN N : src[y] \in K =>
         N[y] = M[src[y]] /\ (src[y][1] = "callbacks" => y[1] = "callbacks")
    /\ \A y, z \in DOMAIN N : src[y] \in K /\ src[z] \in K =>
         /\ src[y] = src[z] => y = z
         /\ Before(src[y], src[z]) => Before(y, z)

\* Nothing in K is lost from a stack, and the order on each stays.
KeepsStacks(M, N, K, src) ==
    /\ \A y, z \in DOMAIN N : src[y] \in K /\ src[z] \in K /\ Above(src[y], src[z]) => Above(y, z)
    /\ \A x \in K : x[1] = "stack" => \E y \in DOMAIN N : src[y] = x /\ y[1] = "stack"

AllStacks(s) == DOMAIN s = Threads /\ \A t \in Threads : s[t] \in Seq(Range(s[t]))

\* Those not on a stack that are in L stay, and on the stack of t all but d.
Stay(M, L, t, d) == L \cup {x \in DOMAIN M : x[1] = "stack" /\ (x[2] = t => x[3] > d)}

\* The first d calls of t are replaced by n, and come first.
Restacked(s, s2, t, d, n) ==
    /\ AllStacks(s) /\ t \in Threads /\ d \in {0, 1} /\ n \in Nat /\ d <= Len(s[t])
    /\ \A u \in Threads \ {t} : s2[u] = s[u]
    /\ DOMAIN s2[t] = 1 .. (n + Len(s[t]) - d)
    /\ \A j \in 1 .. (Len(s[t]) - d) : s2[t][n + j] = s[t][j + d]

\* What is in L stays; the n calls come from the places from, and what is new
\* elsewhere comes from r.
Settled(M, N, L, r, t, d, n, from) ==
    /\ L \subseteq DOMAIN M /\ L \subseteq DOMAIN N
    /\ \A x \in L : x[1] # "stack" /\ N[x] = M[x]
    /\ r \in DOMAIN M \ Stay(M, L, t, d)
    /\ \A i \in 1 .. n : from[i] \in DOMAIN M \ Stay(M, L, t, d)

LEMMA Moves ==
  ASSUME NEW M, NEW N, NEW s, NEW s2, NEW cb, NEW cb2, NEW q, NEW q2,
         Holds(M, s, cb, q), Holds(N, s2, cb2, q2),
         NEW t, NEW d, NEW n, Restacked(s, s2, t, d, n),
         NEW L, NEW r, NEW from, Settled(M, N, L, r, t, d, n, from)
  PROVE  \E src :
           /\ Keeps(M, N, Stay(M, L, t, d), src) /\ KeepsStacks(M, N, Stay(M, L, t, d), src)
           /\ \A i \in 1 .. n : /\ <<"stack", t, i>> \in DOMAIN N
                                /\ N[<<"stack", t, i>>] = s2[t][i]
                                /\ src[<<"stack", t, i>>] = from[i]
           /\ \A y \in DOMAIN N : src[y] \notin Stay(M, L, t, d) =>
                \/ \E i \in 1 .. n : y = <<"stack", t, i>>
                \/ y[1] # "stack" /\ y \notin L /\ src[y] = r
<1> DEFINE K == Stay(M, L, t, d)
           src == [y \in DOMAIN N |->
                     IF y[1] = "stack" /\ y[2] = t
                     THEN IF y[3] <= n THEN from[y[3]] ELSE <<"stack", t, y[3] - n + d>>
                     ELSE IF y[1] = "stack" \/ y \in L THEN y ELSE r]
           shift(u) == IF u = t THEN d - n ELSE 0
           Moved(y) == /\ src[y] \in DOMAIN M /\ N[y] = M[src[y]]
                       /\ \/ /\ y = <<"stack", y[2], y[3]>> /\ y[3] \in Nat
                             /\ src[y] = <<"stack", y[2], y[3] + shift(y[2])>>
                          \/ y[1] # "stack" /\ src[y] = y
<1>0. /\ AllStacks(s) /\ t \in Threads /\ d \in {0, 1} /\ n \in Nat /\ d <= Len(s[t])
      /\ \A u \in Threads \ {t} : s2[u] = s[u]
      /\ DOMAIN s2[t] = 1 .. (n + Len(s[t]) - d)
      /\ \A j \in 1 .. (Len(s[t]) - d) : s2[t][n + j] = s[t][j + d]
      /\ L \subseteq DOMAIN M /\ L \subseteq DOMAIN N
      /\ \A x \in L : x[1] # "stack" /\ N[x] = M[x]
      /\ r \in DOMAIN M /\ r \notin Stay(M, L, t, d)
      /\ \A i \in 1 .. n : from[i] \in DOMAIN M /\ from[i] \notin Stay(M, L, t, d)
  BY DEF Restacked, Settled
<1> USE <1>0
<1>1. \A u \in Threads : Len(s[u]) \in Nat /\ DOMAIN s[u] = 1 .. Len(s[u])
  BY DEF AllStacks
<1>2. \A u \in Threads : \A i \in DOMAIN s[u] :
        <<"stack", u, i>> \in DOMAIN M /\ M[<<"stack", u, i>>] = s[u][i]
  BY DEF Holds
<1>3. \A u \in Threads : \A i \in DOMAIN s2[u] :
        <<"stack", u, i>> \in DOMAIN N /\ N[<<"stack", u, i>>] = s2[u][i]
  BY DEF Holds
<1>4. ASSUME NEW u \in Threads, u # t, NEW i \in DOMAIN s2[u], NEW y, y = <<"stack", u, i>>
      PROVE  Moved(y) /\ src[y] \in K
  <2>1. i \in DOMAIN s[u] /\ s2[u][i] = s[u][i] /\ i \in Nat
    BY <1>1, <1>4
  <2>2. y \in DOMAIN N /\ y \in DOMAIN M /\ N[y] = M[y]
    BY <1>2, <1>3, <1>4, <2>1
  <2>3. y[1] = "stack" /\ y[2] = u /\ y[3] = i
    BY <1>4
  <2>4. src[y] = y
    BY <1>4, <2>2, <2>3
  <2>5. src[y] \in K
    BY <1>4, <2>2, <2>3, <2>4 DEF Stay
  <2> QED  BY <1>4, <2>1, <2>2, <2>3, <2>4, <2>5
<1>5. ASSUME NEW i \in DOMAIN s2[t], i > n, NEW y, y = <<"stack", t, i>>
      PROVE  Moved(y) /\ src[y] \in K
  <2>1. /\ i \in Nat /\ i - n + d \in DOMAIN s[t] /\ i - n \in 1 .. (Len(s[t]) - d)
        /\ i - n + d > d /\ n + (i - n) = i
    BY <1>1, <1>5
  <2>2. s2[t][i] = s[t][i - n + d]
    BY <2>1
  <2>3. y[1] = "stack" /\ y[2] = t /\ y[3] = i /\ y \in DOMAIN N /\ N[y] = s2[t][i]
    BY <1>3, <1>5
  <2>4. PICK x : x = <<"stack", t, i - n + d>>
    OBVIOUS
  <2>5. x \in DOMAIN M /\ M[x] = s[t][i - n + d] /\ x[1] = "stack" /\ x[2] = t /\ x[3] > d
    BY <1>2, <2>1, <2>4
  <2>6. src[y] = x /\ x \in K
    <3>1. x \in K
      BY <2>5 DEF Stay
    <3>2. src[y] = x
      BY <1>5, <2>1, <2>3, <2>4, SMTT(20)
    <3> QED  BY <3>1, <3>2
  <2>7. i - n + d = i + shift(t)
    BY <2>1
  <2> QED  BY <1>5, <2>1, <2>2, <2>3, <2>4, <2>5, <2>6, <2>7
<1>6. ASSUME NEW i \in 1 .. n
      PROVE  /\ <<"stack", t, i>> \in DOMAIN N /\ N[<<"stack", t, i>>] = s2[t][i]
             /\ src[<<"stack", t, i>>] = from[i]
  <2>1. i \in DOMAIN s2[t] /\ i <= n
    BY <1>1
  <2> QED  BY <1>3, <2>1
<1>7. ASSUME NEW y \in L PROVE Moved(y) /\ src[y] \in K
  BY DEF Stay
<1>8. ASSUME NEW y \in DOMAIN N
      PROVE  \/ Moved(y) /\ src[y] \in K
             \/ \E i \in 1 .. n : y = <<"stack", t, i>>
             \/ y[1] # "stack" /\ y \notin L /\ src[y] = r
  <2>1. CASE \E u \in Threads : \E i \in DOMAIN s2[u] : y = <<"stack", u, i>>
    <3>0. PICK u \in Threads : \E i \in DOMAIN s2[u] : y = <<"stack", u, i>>
      BY <2>1
    <3>1. PICK i \in DOMAIN s2[u] : y = <<"stack", u, i>>
      BY <3>0
    <3>2. CASE u # t
      BY <3>1, <3>2, <1>4
    <3>3. CASE u = t /\ i > n
      BY <3>1, <3>3, <1>5, ZenonT(40)
    <3>4. CASE u = t /\ ~(i > n)
      <4>1. i \in 1 .. n
        BY <1>1, <3>4
      <4> QED  BY <3>1, <3>4, <4>1
    <3> HIDE DEF src, K, Moved
    <3> QED  BY <3>2, <3>3, <3>4
  <2>2. CASE ~\E u \in Threads : \E i \in DOMAIN s2[u] : y = <<"stack", u, i>>
    <3>1. y[1] # "stack"
      BY <2>2 DEF Holds
    <3>2. y \notin L => src[y] = r
      BY <3>1
    <3> HIDE DEF src, K, Moved
    <3> QED  BY <3>1, <3>2, <1>7
  <2> QED  BY <2>1, <2>2
<1>9. src \in [DOMAIN N -> DOMAIN M]
  <2>1. ASSUME NEW y \in DOMAIN N PROVE src[y] \in DOMAIN M
    <3> HIDE DEF src
    <3> QED  BY <1>6, <1>8
  <2> QED  BY <2>1
<1>10. K \subseteq DOMAIN M
  BY DEF Stay
<1>11. \A y \in DOMAIN N : src[y] \in K => Moved(y)
  <2> HIDE DEF src, Moved
  <2> QED  BY <1>6, <1>8
<1>12. ASSUME NEW x \in K, x[1] = "stack" PROVE \E y \in DOMAIN N : src[y] = x /\ y[1] = "stack"
  <2>0. PICK u \in Threads : \E i \in DOMAIN s[u] : x = <<"stack", u, i>>
    BY <1>10, <1>12 DEF Holds
  <2>1. PICK i \in DOMAIN s[u] : x = <<"stack", u, i>>
    BY <2>0
  <2>2. x[2] = u /\ x[3] = i /\ i \in Nat
    BY <1>1, <2>1
  <2>3. CASE u # t
    <3>1. i \in DOMAIN s2[u]
      BY <2>3
    <3>2. x \in DOMAIN N /\ src[x] = x
      BY <1>3, <2>1, <2>2, <2>3, <3>1
    <3> QED  BY <1>12, <3>2
  <2>4. CASE u = t
    <3>1. i > d
      BY <1>12, <2>2, <2>4 DEF Stay
    <3>2. i - d + n \in DOMAIN s2[t] /\ i - d + n > n /\ (i - d + n) - n + d = i
      BY <1>1, <2>1, <2>4, <3>1
    <3>3. PICK y : y = <<"stack", t, i - d + n>>
      OBVIOUS
    <3>4. y \in DOMAIN N /\ y[1] = "stack" /\ y[2] = t /\ y[3] = i - d + n
      BY <1>3, <3>2, <3>3
    <3>5. src[y] = <<"stack", t, i>>
      BY <3>2, <3>4
    <3> QED  BY <2>1, <2>4, <3>4, <3>5
  <2> QED  BY <2>3, <2>4
<1> HIDE DEF src, K
<1>13. ASSUME NEW y \in DOMAIN N, NEW z \in DOMAIN N, src[y] \in K, src[z] \in K
       PROVE  /\ src[y] = src[z] => y = z
              /\ Before(src[y], src[z]) => Before(y, z)
              /\ Above(src[y], src[z]) => Above(y, z)
  <2>1. Moved(y) /\ Moved(z)
    BY <1>11, <1>13
  <2>2. CASE y[1] # "stack" /\ src[y] = y
    <3>1. CASE z[1] # "stack" /\ src[z] = z
      BY <2>2, <3>1 DEF Before, Above
    <3>2. CASE z = <<"stack", z[2], z[3]>> /\ src[z] = <<"stack", z[2], z[3] + shift(z[2])>>
      BY <2>2, <3>2 DEF Before, Above
    <3> QED  BY <2>1, <3>1, <3>2
  <2>3. CASE /\ y = <<"stack", y[2], y[3]>> /\ y[3] \in Nat
             /\ src[y] = <<"stack", y[2], y[3] + shift(y[2])>>
    <3>1. CASE z[1] # "stack" /\ src[z] = z
      BY <2>3, <3>1 DEF Before, Above
    <3>2. CASE /\ z = <<"stack", z[2], z[3]>> /\ z[3] \in Nat
               /\ src[z] = <<"stack", z[2], z[3] + shift(z[2])>>
      <4>1. PICK u, i : u = y[2] /\ i = y[3]
        OBVIOUS
      <4>2. PICK v, j : v = z[2] /\ j = z[3]
        OBVIOUS
      <4>3. /\ y = <<"stack", u, i>> /\ z = <<"stack", v, j>> /\ i \in Nat /\ j \in Nat
            /\ src[y] = <<"stack", u, i + shift(u)>> /\ src[z] = <<"stack", v, j + shift(v)>>
        BY <2>3, <3>2, <4>1, <4>2
      <4>4. \A w : shift(w) \in Int
        OBVIOUS
      <4> HIDE DEF shift
      <4>5. src[y] = src[z] => y = z
        BY <4>3, <4>4, SMTT(20)
      <4>6. Before(src[y], src[z]) => Before(y, z)
        BY <4>3, <4>4 DEF Before
      <4>7. Above(src[y], src[z]) => Above(y, z)
        BY <4>3, <4>4 DEF Above
      <4> QED  BY <4>5, <4>6, <4>7
    <3> QED  BY <2>1, <3>1, <3>2
  <2> QED  BY <2>1, <2>2, <2>3
<1>14. ASSUME NEW y \in DOMAIN N, src[y] \in K
       PROVE  N[y] = M[src[y]] /\ (src[y][1] = "callbacks" => y[1] = "callbacks")
  BY <1>11, <1>14
<1>15. Keeps(M, N, K, src) /\ KeepsStacks(M, N, K, src)
  BY <1>9, <1>10, <1>12, <1>13, <1>14 DEF Keeps, KeepsStacks
<1>16. \A y \in DOMAIN N : src[y] \notin K =>
         \/ \E i \in 1 .. n : y = <<"stack", t, i>>
         \/ y[1] # "stack" /\ y \notin L /\ src[y] = r
  BY <1>8
<1> QED  BY <1>6, <1>15, <1>16 DEF K

-----------------------------------------------------------------------------
(* Custody goes on *)

\* Every call comes from one that passes it on.
Comes(M, N, A, src) ==
    /\ src \in [DOMAIN N -> DOMAIN M]
    /\ \A y \in DOMAIN N : Passes(M[src[y]], N[y], A)

LEMMA PassesItself ==
  ASSUME NEW k, NEW A, Fine(k, A)
  PROVE  Passes(k, k, A)
BY DEF Passes

LEMMA ComesFine ==
  ASSUME NEW M, NEW N, NEW A, NEW src, Comes(M, N, A, src)
  PROVE  AllFine(N, A)
BY DEF Comes, AllFine, Passes

LEMMA ComesInParts ==
  ASSUME NEW M, NEW N, NEW A, NEW src, Comes(M, N, A, src),
         NEW P, P \subseteq Futures, NEW P2, P2 \subseteq P, InParts(M, P)
  PROVE  InParts(N, P2)
<1>1. ASSUME NEW g \in P2, NEW y \in DOMAIN N, CanFill(N[y], g)
      PROVE  Part(N[y], g)
  <2>1. g \in P /\ g \in Futures /\ src[y] \in DOMAIN M /\ Passes(M[src[y]], N[y], A)
    BY DEF Comes
  <2>2. CanFill(M[src[y]], g) /\ (Part(M[src[y]], g) => Part(N[y], g))
    BY <1>1, <2>1 DEF Passes
  <2> QED  BY <2>1, <2>2 DEF InParts
<1> QED  BY <1>1 DEF InParts

\* y is to be called right before the callback z for the failure.
Pair(N, y, z, g) ==
    /\ Before(y, z) /\ ~Guards(N[y], g) /\ Guards(N[z], g)
    /\ N[y].op = "on" /\ N[y].ok = TRUE /\ N[y].from = N[z].from

\* The call at r, which registers and fills nothing, becomes others.
LEMMA CustodyTurns ==
  ASSUME NEW M, NEW N, NEW O, NEW A, NEW src, NEW K, NEW r \in DOMAIN M,
         NEW P, P \subseteq Futures, NEW P2, P2 \subseteq P,
         Custody(M, O, P), Keeps(M, N, K, src), Comes(M, N, A, src), r \notin K,
         M[r].op # "on", \A y \in DOMAIN N : src[y] \notin K => src[y] = r,
         \A g \in P2 : \A y, z \in DOMAIN N :
            /\ Part(M[r], g) /\ src[y] = r /\ src[z] = r /\ y # z
            /\ CanFill(N[y], g) /\ CanFill(N[z], g)
            => Pair(N, y, z, g) \/ Pair(N, z, y, g)
  PROVE  Custody(N, O, P2)
<1>1. InParts(N, P2)
  BY ComesInParts DEF Custody
<1>2. ASSUME NEW g \in P2
      PROVE  /\ g \in P /\ g \in Futures
             /\ \A y \in DOMAIN N : CanFill(N[y], g) => CanFill(M[src[y]], g)
             /\ \A x \in DOMAIN M : CanFill(M[x], g) => Part(M[x], g)
             /\ ~Guards(M[r], g)
  <2>1. \A y \in DOMAIN N : CanFill(N[y], g) => CanFill(M[src[y]], g)
    BY DEF Comes, Passes
  <2>2. ~Guards(M[r], g)
    BY DEF Guards
  <2> QED  BY <2>1, <2>2 DEF Custody, InParts
<1>3. \A y \in DOMAIN N : /\ src[y] \in DOMAIN M
                          /\ src[y] \in K => N[y] = M[src[y]]
                          /\ src[y] \notin K => src[y] = r
  BY DEF Keeps
<1>4. \A y, z \in DOMAIN N : src[y] \in K /\ src[z] \in K =>
         (src[y] = src[z] => y = z) /\ (Before(src[y], src[z]) => Before(y, z))
  BY DEF Keeps
<1>5. ASSUME NEW g \in P2, NEW y \in DOMAIN N, Active(N[y], g)
      PROVE  Active(M[src[y]], g)
  BY <1>2, <1>3, <1>5 DEF Active
<1>6. ASSUME NEW g \in P2, NEW y \in DOMAIN N, NEW z \in DOMAIN N, src[y] = r, src[z] = r,
             y # z, CanFill(N[y], g), CanFill(N[z], g)
      PROVE  Pair(N, y, z, g) \/ Pair(N, z, y, g)
  <2>1. Part(M[r], g)
    BY <1>2, <1>6
  <2> QED  BY <1>6, <2>1
<1>7. ASSUME NEW g \in P2, NEW y \in DOMAIN N, NEW z \in DOMAIN N,
             Active(N[y], g), Active(N[z], g)
      PROVE  y = z
  <2>1. src[y] = src[z]
    BY <1>2, <1>3, <1>5, <1>7 DEF Custody, OnePlace
  <2>2. CASE src[y] \in K
    BY <1>4, <2>1, <2>2
  <2>3. CASE src[y] = r /\ y # z
    <3>1. Pair(N, y, z, g) \/ Pair(N, z, y, g)
      BY <1>6, <1>7, <2>1, <2>3 DEF Active
    <3> QED  BY <1>7, <3>1 DEF Pair, Active
  <2> QED  BY <1>3, <2>2, <2>3
<1>8. ASSUME NEW g \in P2, NEW y \in DOMAIN N, Active(N[y], g)
      PROVE  O[g] = None
  BY <1>2, <1>3, <1>5, <1>8 DEF Custody, NotYet
<1>9. ASSUME NEW g \in P2, NEW y \in DOMAIN N, Guards(N[y], g), ~Idle(O, N[y])
      PROVE  /\ O[g] = None
             /\ \A x \in DOMAIN N : Active(N[x], g) => WaitsWith(N, x, y)
             /\ \A z \in DOMAIN N : Guards(N[z], g) /\ ~Idle(O, N[z]) => z = y
  <2>1. CASE src[y] \in K
    <3>1. Guards(M[src[y]], g) /\ ~Idle(O, M[src[y]]) /\ N[y] = M[src[y]] /\ src[y] \in DOMAIN M
      BY <1>3, <1>9, <2>1
    <3>2. /\ O[g] = None
          /\ \A x \in DOMAIN M : Active(M[x], g) => WaitsWith(M, x, src[y])
          /\ \A z \in DOMAIN M : Guards(M[z], g) /\ ~Idle(O, M[z]) => z = src[y]
      BY <1>2, <3>1 DEF Custody, Guarding
    <3>3. ~CanFill(M[r], g)
      <4>1. ~WaitsWith(M, r, src[y])
        BY DEF WaitsWith
      <4> QED  BY <1>2, <3>2, <4>1 DEF Active
    <3>4. \A x \in DOMAIN N : CanFill(N[x], g) => src[x] \in K
      BY <1>2, <1>3, <3>3
    <3>5. ASSUME NEW x \in DOMAIN N, Active(N[x], g) PROVE WaitsWith(N, x, y)
      <4>1. src[x] \in K /\ N[x] = M[src[x]]
        BY <1>3, <3>4, <3>5 DEF Active
      <4>2. WaitsWith(M, src[x], src[y])
        BY <1>3, <1>5, <3>2, <3>5
      <4>3. Before(x, y)
        BY <1>4, <2>1, <4>1, <4>2 DEF WaitsWith
      <4> QED  BY <3>1, <4>1, <4>2, <4>3 DEF WaitsWith
    <3>6. ASSUME NEW z \in DOMAIN N, Guards(N[z], g), ~Idle(O, N[z]) PROVE z = y
      <4>1. CanFill(N[z], g)
        BY <3>6 DEF Guards, CanFill, CanFillPlain, onFailure, forward
      <4>2. src[z] \in K /\ N[z] = M[src[z]] /\ src[z] \in DOMAIN M
        BY <1>3, <3>4, <4>1
      <4>3. src[z] = src[y]
        BY <3>2, <3>6, <4>2
      <4> QED  BY <1>4, <2>1, <4>2, <4>3
    <3> QED  BY <3>2, <3>5, <3>6
  <2>2. CASE src[y] = r
    <3>1. CanFill(N[y], g)
      BY <1>9 DEF Guards, CanFill, CanFillPlain, onFailure, forward
    <3>2. Active(M[r], g) /\ Part(M[r], g)
      BY <1>2, <2>2, <3>1 DEF Active
    <3>3. O[g] = None
      BY <1>2, <3>2 DEF Custody, NotYet
    <3>4. ASSUME NEW x \in DOMAIN N, Active(N[x], g) PROVE WaitsWith(N, x, y)
      <4>1. src[x] = r
        BY <1>2, <1>3, <1>5, <3>2, <3>4 DEF Custody, OnePlace
      <4>2. x # y
        BY <1>9, <3>4 DEF Active
      <4>3. Pair(N, x, y, g) \/ Pair(N, y, x, g)
        BY <1>6, <2>2, <3>1, <3>4, <4>1, <4>2 DEF Active
      <4> QED  BY <1>9, <4>3 DEF Pair, WaitsWith
    <3>5. ASSUME NEW z \in DOMAIN N, Guards(N[z], g), ~Idle(O, N[z]) PROVE z = y
      <4>1. CanFill(N[z], g)
        BY <3>5 DEF Guards, CanFill, CanFillPlain, onFailure, forward
      <4>2. CASE src[z] = r
        <5>1. z # y => Pair(N, z, y, g) \/ Pair(N, y, z, g)
          BY <1>6, <2>2, <3>1, <4>1, <4>2
        <5> QED  BY <1>9, <3>5, <5>1 DEF Pair
      <4>3. CASE src[z] \in K
        <5>1. Guards(M[src[z]], g) /\ ~Idle(O, M[src[z]]) /\ src[z] \in DOMAIN M
          BY <1>3, <3>5, <4>3
        <5>2. WaitsWith(M, r, src[z])
          BY <1>2, <3>2, <5>1 DEF Custody, Guarding
        <5> QED  BY <5>2 DEF WaitsWith
      <4> QED  BY <1>3, <4>2, <4>3
    <3> QED  BY <3>3, <3>4, <3>5
  <2> QED  BY <1>3, <2>1, <2>2
<1>10. OnePlace(N, P2) /\ NotYet(N, O, P2)
  BY <1>7, <1>8 DEF OnePlace, NotYet
<1>11. Guarding(N, O, P2)
  BY <1>9 DEF Guarding
<1> QED  BY <1>1, <1>10, <1>11 DEF Custody

\* Calls are only moved, or forgotten.
LEMMA CustodyKept ==
  ASSUME NEW M, NEW N, NEW O, NEW src, NEW K, NEW P, P \subseteq Futures, NEW P2, P2 \subseteq P,
         Custody(M, O, P), Keeps(M, N, K, src), \A y \in DOMAIN N : src[y] \in K
  PROVE  Custody(N, O, P2)
<1>1. \A y \in DOMAIN N : src[y] \in K /\ src[y] \in DOMAIN M /\ N[y] = M[src[y]]
  BY DEF Keeps
<1>2. \A y, z \in DOMAIN N :
         (src[y] = src[z] => y = z) /\ (Before(src[y], src[z]) => Before(y, z))
  BY DEF Keeps
<1>3. InParts(N, P2) /\ OnePlace(N, P2) /\ NotYet(N, O, P2)
  BY <1>1, <1>2 DEF Custody, InParts, OnePlace, NotYet
<1>4. ASSUME NEW g \in P2, NEW y \in DOMAIN N, Guards(N[y], g), ~Idle(O, N[y])
      PROVE  /\ O[g] = None
             /\ \A x \in DOMAIN N : Active(N[x], g) => WaitsWith(N, x, y)
             /\ \A z \in DOMAIN N : Guards(N[z], g) /\ ~Idle(O, N[z]) => z = y
  <2>1. /\ O[g] = None
        /\ \A x \in DOMAIN M : Active(M[x], g) => WaitsWith(M, x, src[y])
        /\ \A z \in DOMAIN M : Guards(M[z], g) /\ ~Idle(O, M[z]) => z = src[y]
    BY <1>1, <1>4 DEF Custody, Guarding
  <2>2. ASSUME NEW x \in DOMAIN N, Active(N[x], g) PROVE WaitsWith(N, x, y)
    <3>1. WaitsWith(M, src[x], src[y])
      BY <1>1, <2>1, <2>2
    <3> QED  BY <1>1, <1>2, <3>1 DEF WaitsWith
  <2>3. ASSUME NEW z \in DOMAIN N, Guards(N[z], g), ~Idle(O, N[z]) PROVE z = y
    <3>1. src[z] = src[y]
      BY <1>1, <2>1, <2>3
    <3> QED  BY <1>2, <3>1
  <2> QED  BY <2>1, <2>2, <2>3
<1>5. Guarding(N, O, P2)
  BY <1>4 DEF Guarding
<1> QED  BY <1>3, <1>5 DEF Custody

\* Callbacks are registered with futures that are not filled.
Filed(M, O) == \A x \in DOMAIN M : x[1] = "callbacks" =>
    /\ M[x].op = "on" /\ M[x].from = x[2][1] /\ M[x].ok = x[2][2] /\ O[x[2][1]] = None

LEMMA Fills ==
  ASSUME NEW k, NEW g, Guards(k, g)
  PROVE  CanFill(k, g) /\ k.op = "on" /\ k.ok = FALSE /\ k.call = forward(k.from, g)
BY DEF Guards, CanFill, CanFillPlain, onFailure, forward

\* A callback passes on what it calls.
LEMMA PassesToCall ==
  ASSUME NEW k, NEW A, FineOn(k, A)
  PROVE  /\ Passes(k, k.call, A)
         /\ \A g \in Futures : CanFill(k.call, g) <=> CanFill(k, g)
         /\ k.call.op \notin {"on", "wrapped", "run", "cluster"}
<1> PICK c : c = k.call
  OBVIOUS
<1>1. k.op = "on" /\ c.op \in CallbackOps /\ FinePlain(c, A) /\ "op" \in DOMAIN c
  BY DEF FineOn, FinePlain
<1>2. c.op \notin {"on", "wrapped", "run", "cluster", "sequence", "sequenceWithFailures",
                   "repeatForSequence", "runAll", "clusteredRun"}
  BY <1>1 DEF CallbackOps, Iterating
<1>3. Fine(c, A) /\ Private(c) = {}
  BY <1>1, <1>2, PrivateOfClient DEF Fine
<1>4. ASSUME NEW g \in Futures PROVE CanFill(c, g) <=> CanFill(k, g)
  <2>1. CanFill(c, g) <=> CanFillPlain(c, g)
    BY <1>2 DEF CanFill
  <2> QED  BY <2>1, OnCall
<1>5. ASSUME NEW g \in Futures, Part(k, g) PROVE Part(c, g)
  <2>1. CASE c.op \in Iterating /\ g = c.call.to
    BY <2>1 DEF Part, PlainPart
  <2>2. CASE Guards(k, g)
    <3>0. c = forward(k.from, g)
      BY <2>2, Fills
    <3>1. c.op = "forward" /\ c.to = g
      BY <3>0 DEF forward
    <3> QED  BY <3>1 DEF Part, PlainPart
  <2> QED  BY <1>1, <1>5, <2>1, <2>2 DEF Part, PlainPart, Iterating
<1>6. \A d, h : ~IsJob(c, d, h)
  BY <1>2, NotAJob
<1> QED  BY <1>2, <1>3, <1>4, <1>5, <1>6 DEF Passes

\* The callback at r is called at once, ...
Runs(M, N, O, K, src, r) ==
    /\ r \in DOMAIN M \ K
    /\ \A x \in DOMAIN M : Before(x, r) => x[1] = "callbacks"
    /\ O[M[r].from] # None /\ O[M[r].from].ok = M[r].ok
    /\ \A y \in DOMAIN N : src[y] \notin K => src[y] = r /\ N[y] = M[r].call
    /\ \A y, z \in DOMAIN N : src[y] = r /\ src[z] = r => y = z

\* ... and the other one never will be.
LEMMA CustodyRuns ==
  ASSUME NEW M, NEW N, NEW O, NEW A, NEW src, NEW K, NEW r,
         NEW P, P \subseteq Futures, NEW P2, P2 \subseteq P,
         Custody(M, O, P), Keeps(M, N, K, src), FineOn(M[r], A), Filed(M, O),
         Runs(M, N, O, K, src, r)
  PROVE  Custody(N, O, P2)
<1>0. /\ r \in DOMAIN M /\ r \notin K
      /\ \A x \in DOMAIN M : Before(x, r) => x[1] = "callbacks"
      /\ O[M[r].from] # None /\ O[M[r].from].ok = M[r].ok
      /\ \A y \in DOMAIN N : src[y] \notin K => src[y] = r /\ N[y] = M[r].call
      /\ \A y, z \in DOMAIN N : src[y] = r /\ src[z] = r => y = z
  BY DEF Runs
<1> USE <1>0
<1>1. \A y \in DOMAIN N : /\ src[y] \in DOMAIN M
                          /\ src[y] \in K => N[y] = M[src[y]]
                          /\ src[y] \notin K => src[y] = r /\ N[y] = M[r].call
  BY DEF Keeps
<1>2. \A y, z \in DOMAIN N : src[y] = src[z] => y = z
  BY <1>1 DEF Keeps
<1>3. /\ \A g \in Futures : CanFill(M[r].call, g) <=> CanFill(M[r], g)
      /\ Passes(M[r], M[r].call, A) /\ M[r].call.op # "on" /\ M[r].op = "on"
  <2>1. M[r].op = "on"
    BY DEF FineOn
  <2> QED  BY <2>1, PassesToCall
<1>4. ASSUME NEW g \in P2
      PROVE  /\ g \in P /\ g \in Futures /\ ~Guards(M[r].call, g)
             /\ \A y \in DOMAIN N : CanFill(N[y], g) => CanFill(M[src[y]], g)
             /\ \A y \in DOMAIN N : Guards(N[y], g) => src[y] \in K
  BY <1>1, <1>3 DEF Guards
<1>5. InParts(N, P2)
  <2>1. ASSUME NEW g \in P2, NEW y \in DOMAIN N, CanFill(N[y], g) PROVE Part(N[y], g)
    <3>1. Part(M[src[y]], g)
      BY <1>1, <1>4, <2>1 DEF Custody, InParts
    <3>2. CASE src[y] \in K
      BY <1>1, <3>1, <3>2
    <3>3. CASE src[y] \notin K
      <4>1. Passes(M[r], N[y], A) /\ src[y] = r
        BY <1>1, <1>3, <3>3
      <4> QED  BY <1>4, <2>1, <3>1, <4>1 DEF Passes
    <3> QED  BY <3>2, <3>3
  <2> QED  BY <2>1 DEF InParts
<1>7. ASSUME NEW g \in P2, Guards(M[r], g)
      PROVE  /\ O[g] = None
             /\ \A x \in DOMAIN M : ~Active(M[x], g)
             /\ \A z \in DOMAIN M : Guards(M[z], g) /\ ~Idle(O, M[z]) => z = r
  <2>1. ~Idle(O, M[r])
    BY <1>7, Fills DEF Idle
  <2>2. /\ O[g] = None
        /\ \A x \in DOMAIN M : Active(M[x], g) => WaitsWith(M, x, r)
        /\ \A z \in DOMAIN M : Guards(M[z], g) /\ ~Idle(O, M[z]) => z = r
    BY <1>4, <1>7, <2>1 DEF Custody, Guarding
  <2>3. ASSUME NEW x \in DOMAIN M, Active(M[x], g) PROVE FALSE
    <3>1. x[1] = "callbacks" /\ M[x].from = M[r].from
      BY <2>2, <2>3 DEF WaitsWith
    <3> QED  BY <3>1 DEF Filed
  <2> QED  BY <2>2, <2>3
<1>8. ASSUME NEW g \in P2, NEW y \in DOMAIN N, NEW z \in DOMAIN N,
             Active(N[y], g), Active(N[z], g)
      PROVE  y = z
  <2>1. \A x \in DOMAIN N : Active(N[x], g) => Active(M[src[x]], g) \/ (src[x] = r /\ Guards(M[r], g))
    BY <1>1, <1>4 DEF Active
  <2>2. src[y] = src[z]
    BY <1>1, <1>4, <1>7, <1>8, <2>1 DEF Custody, OnePlace
  <2> QED  BY <1>2, <2>2
<1>9. ASSUME NEW g \in P2, NEW y \in DOMAIN N, Active(N[y], g)
      PROVE  O[g] = None
  <2>1. Active(M[src[y]], g) \/ (src[y] = r /\ Guards(M[r], g))
    BY <1>1, <1>4, <1>9 DEF Active
  <2> QED  BY <1>1, <1>4, <1>7, <2>1 DEF Custody, NotYet
<1>10. ASSUME NEW g \in P2, NEW y \in DOMAIN N, Guards(N[y], g), ~Idle(O, N[y])
       PROVE  /\ O[g] = None
              /\ \A x \in DOMAIN N : Active(N[x], g) => WaitsWith(N, x, y)
              /\ \A z \in DOMAIN N : Guards(N[z], g) /\ ~Idle(O, N[z]) => z = y
  <2>1. src[y] \in K /\ N[y] = M[src[y]] /\ src[y] \in DOMAIN M /\ src[y] # r
    BY <1>1, <1>4, <1>10
  <2>2. /\ O[g] = None
        /\ \A x \in DOMAIN M : Active(M[x], g) => WaitsWith(M, x, src[y])
        /\ \A z \in DOMAIN M : Guards(M[z], g) /\ ~Idle(O, M[z]) => z = src[y]
    BY <1>4, <1>10, <2>1 DEF Custody, Guarding
  <2>3. ~Guards(M[r], g)
    BY <1>7, <1>10, <2>1
  <2>4. ~Active(M[r], g)
    <3>1. ASSUME WaitsWith(M, r, src[y]) PROVE FALSE
      <4>1. M[r].from = M[src[y]].from /\ O[M[r].from].ok = TRUE
        BY <3>1 DEF WaitsWith
      <4> QED  BY <1>10, <2>1, <4>1 DEF Idle
    <3> QED  BY <2>2, <3>1
  <2>5. ASSUME NEW x \in DOMAIN N, CanFill(N[x], g) PROVE src[x] \in K
    BY <1>1, <1>4, <2>3, <2>4, <2>5 DEF Active
  <2>6. ASSUME NEW x \in DOMAIN N, Active(N[x], g) PROVE WaitsWith(N, x, y)
    <3>1. src[x] \in K /\ N[x] = M[src[x]] /\ src[x] \in DOMAIN M
      BY <1>1, <2>5, <2>6 DEF Active
    <3>2. WaitsWith(M, src[x], src[y])
      BY <2>2, <2>6, <3>1
    <3>3. Before(x, y)
      BY <2>1, <3>1, <3>2 DEF Keeps, WaitsWith
    <3> QED  BY <2>1, <3>1, <3>2, <3>3 DEF WaitsWith
  <2>7. ASSUME NEW z \in DOMAIN N, Guards(N[z], g), ~Idle(O, N[z]) PROVE z = y
    <3>1. src[z] = src[y]
      BY <1>1, <1>4, <2>2, <2>7
    <3> QED  BY <1>2, <3>1
  <2> QED  BY <2>2, <2>6, <2>7
<1>11. OnePlace(N, P2) /\ NotYet(N, O, P2)
  BY <1>8, <1>9 DEF OnePlace, NotYet
<1>12. Guarding(N, O, P2)
  BY <1>10 DEF Guarding
<1> QED  BY <1>5, <1>11, <1>12 DEF Custody

\* The promise of f is filled with o by the call at r, and its callbacks of
\* that kind are called: ...
Fulfils(M, N, O, O2, K, src, r, f, o) ==
    /\ r \in DOMAIN M \ K /\ f \in Futures
    /\ DOMAIN O = Futures /\ O2 = [O EXCEPT ![f] = o] /\ O[f] = None /\ o # None
    /\ M[r].op # "on" /\ \A g \in Futures : CanFill(M[r], g) <=> g = f
    /\ \A x \in K : x[1] = "callbacks" => x[2][1] # f
    /\ \A y \in DOMAIN N : src[y] \notin K =>
         src[y][1] = "callbacks" /\ src[y][2] = <<f, o.ok>> /\ N[y] = M[src[y]].call
    /\ \A y, z \in DOMAIN N : src[y] \notin K /\ src[z] \notin K /\ src[y] = src[z] => y = z

\* ... a future in custody is filled once, and a callback for the failure of f
\* is called when the one for its success is forgotten.
LEMMA CustodyFills ==
  ASSUME NEW M, NEW N, NEW O, NEW O2, NEW A, NEW src, NEW K, NEW r, NEW f, NEW o,
         NEW P, P \subseteq Futures, NEW P2, P2 \subseteq P,
         Custody(M, O, P), Keeps(M, N, K, src), AllFine(M, A), Filed(M, O),
         Fulfils(M, N, O, O2, K, src, r, f, o)
  PROVE  Custody(N, O2, P2)
<1>0. /\ r \in DOMAIN M /\ r \notin K /\ f \in Futures
      /\ DOMAIN O = Futures /\ O2 = [O EXCEPT ![f] = o] /\ O[f] = None /\ o # None
      /\ M[r].op # "on" /\ \A g \in Futures : CanFill(M[r], g) <=> g = f
      /\ \A x \in K : x[1] = "callbacks" => x[2][1] # f
      /\ \A y \in DOMAIN N : src[y] \notin K =>
           src[y][1] = "callbacks" /\ src[y][2] = <<f, o.ok>> /\ N[y] = M[src[y]].call
      /\ \A y, z \in DOMAIN N : src[y] \notin K /\ src[z] \notin K /\ src[y] = src[z] => y = z
  BY DEF Fulfils
<1> USE <1>0
<1> DEFINE Woken(x) == /\ x \in DOMAIN M /\ x \notin K /\ x[1] = "callbacks"
                      /\ M[x].op = "on" /\ M[x].from = f /\ M[x].ok = o.ok
<1>1. \A y \in DOMAIN N : /\ src[y] \in DOMAIN M
                          /\ src[y] \in K => N[y] = M[src[y]]
                          /\ src[y] \notin K => N[y] = M[src[y]].call
  BY DEF Keeps
<1>2. \A y, z \in DOMAIN N : src[y] = src[z] => y = z
  BY DEF Keeps
<1>3. ASSUME NEW y \in DOMAIN N, src[y] \notin K PROVE Woken(src[y])
  <2>1. src[y] \in DOMAIN M /\ src[y][1] = "callbacks" /\ src[y][2] = <<f, o.ok>>
    BY <1>1, <1>3
  <2>2. src[y][2][1] = f /\ src[y][2][2] = o.ok
    BY <2>1
  <2> QED  BY <2>1, <2>2 DEF Filed
<1>4. ASSUME NEW x, Woken(x)
      PROVE  /\ \A g \in Futures : CanFill(M[x].call, g) <=> CanFill(M[x], g)
             /\ Passes(M[x], M[x].call, A) /\ M[x].call.op # "on"
  <2>1. FineOn(M[x], A)
    BY <1>4 DEF AllFine, Fine
  <2> QED  BY <2>1, PassesToCall
<1>5. \A g \in Futures : g # f => O2[g] = O[g]
  OBVIOUS
<1>6. O2[f] = o
  OBVIOUS
<1> HIDE DEF Woken
<1>7. ASSUME NEW g \in P2
      PROVE  /\ g \in P /\ g \in Futures
             /\ \A y \in DOMAIN N : CanFill(N[y], g) => CanFill(M[src[y]], g)
             /\ \A y \in DOMAIN N : Guards(N[y], g) => src[y] \in K
  <2>1. g \in Futures
    OBVIOUS
  <2>2. \A y \in DOMAIN N : CanFill(N[y], g) => CanFill(M[src[y]], g)
    BY <1>1, <1>3, <1>4, <2>1
  <2>3. ASSUME NEW y \in DOMAIN N, Guards(N[y], g), src[y] \notin K PROVE FALSE
    <3>1. N[y].op = "on"
      BY <2>3, Fills
    <3>2. N[y] = M[src[y]].call /\ M[src[y]].call.op # "on"
      BY <1>1, <1>3, <1>4, <2>3
    <3> QED  BY <3>1, <3>2
  <2> QED  BY <2>2, <2>3
<1>8. InParts(N, P2)
  <2>1. ASSUME NEW g \in P2, NEW y \in DOMAIN N, CanFill(N[y], g) PROVE Part(N[y], g)
    <3>1. Part(M[src[y]], g)
      BY <1>1, <1>7, <2>1 DEF Custody, InParts
    <3>2. CASE src[y] \in K
      BY <1>1, <3>1, <3>2
    <3>3. CASE src[y] \notin K
      <4>1. Passes(M[src[y]], N[y], A)
        BY <1>1, <1>3, <1>4, <3>3
      <4> QED  BY <1>7, <2>1, <3>1, <4>1 DEF Passes
    <3> QED  BY <3>2, <3>3
  <2> QED  BY <2>1 DEF InParts
\* What guards a private future waits for a future.
<1>9. ASSUME NEW g \in P2, NEW y \in DOMAIN M, Guards(M[y], g), Idle(O, M[y])
      PROVE  Idle(O2, M[y])
  <2>1. Part(M[y], g) /\ M[y].op = "on" /\ M[y].call = forward(M[y].from, g)
    BY <1>7, <1>9, Fills DEF Custody, InParts
  <2>2. M[y].call.op = "forward"
    BY <2>1 DEF forward
  <2>3. M[y].from \in Futures
    BY <2>1, <2>2 DEF Part, PlainPart, Iterating
  <2>4. M[y].from # f
    BY <1>9 DEF Idle
  <2> QED  BY <1>5, <1>9, <2>3, <2>4 DEF Idle
<1>10. ASSUME NEW g \in P2, g = f
       PROVE  /\ \A y \in DOMAIN N : ~Active(N[y], g)
              /\ \A y \in DOMAIN N : Guards(N[y], g) => Idle(O2, N[y])
  <2>1. Active(M[r], g)
    BY <1>7, <1>10 DEF Active, Guards
  <2>2. \A y \in DOMAIN M : Guards(M[y], g) => Idle(O, M[y])
    <3>1. ASSUME NEW y \in DOMAIN M, Guards(M[y], g), ~Idle(O, M[y]) PROVE FALSE
      <4>1. WaitsWith(M, r, y)
        BY <1>7, <2>1, <3>1 DEF Custody, Guarding
      <4> QED  BY <4>1 DEF WaitsWith
    <3> QED  BY <3>1
  <2>3. ASSUME NEW y \in DOMAIN N, Active(N[y], g) PROVE FALSE
    <3>1. CanFill(M[src[y]], g) /\ src[y] \in DOMAIN M
      BY <1>1, <1>7, <2>3 DEF Active
    <3>2. CASE Guards(M[src[y]], g)
      <4>1. Idle(O, M[src[y]])
        BY <2>2, <3>1, <3>2
      <4>2. src[y] \notin K
        BY <1>1, <2>3, <3>2 DEF Active
      <4>3. O[M[src[y]].from] = None
        BY <1>3, <4>2 DEF Woken
      <4> QED  BY <4>1, <4>3 DEF Idle
    <3>3. CASE ~Guards(M[src[y]], g)
      <4>1. src[y] = r
        BY <1>7, <2>1, <3>1, <3>3 DEF Active, Custody, OnePlace
      <4>2. Woken(r)
        BY <1>3, <4>1
      <4> QED  BY <4>2 DEF Woken
    <3> QED  BY <3>2, <3>3
  <2>4. ASSUME NEW y \in DOMAIN N, Guards(N[y], g) PROVE Idle(O2, N[y])
    <3>1. src[y] \in DOMAIN M /\ N[y] = M[src[y]]
      BY <1>1, <1>7, <2>4
    <3> QED  BY <1>9, <2>2, <2>4, <3>1
  <2> QED  BY <2>3, <2>4
\* The callback for the failure of f is called.
<1>11. ASSUME NEW g \in P2, g # f, NEW x, Woken(x), Guards(M[x], g)
       PROVE  /\ O[g] = None
              /\ \A y \in DOMAIN N : Active(N[y], g) => src[y] = x
              /\ \A y \in DOMAIN N : Guards(N[y], g) => Idle(O2, N[y])
  <2>1. x \in DOMAIN M /\ ~Idle(O, M[x]) /\ o.ok = FALSE /\ x \notin K
    <3>1. M[x].ok = FALSE /\ M[x].op = "on"
      BY <1>11, Fills
    <3>2. x \in DOMAIN M /\ ~Idle(O, M[x]) /\ o.ok = FALSE
      BY <1>11, <3>1 DEF Woken, Idle
    <3> QED  BY <1>11, <3>2 DEF Woken
  <2>2. /\ O[g] = None
        /\ \A w \in DOMAIN M : Active(M[w], g) => WaitsWith(M, w, x)
        /\ \A z \in DOMAIN M : Guards(M[z], g) /\ ~Idle(O, M[z]) => z = x
    BY <1>7, <1>11, <2>1 DEF Custody, Guarding
  <2>3. ASSUME NEW y \in DOMAIN N, Active(N[y], g) PROVE src[y] = x
    <3>1. CanFill(M[src[y]], g) /\ src[y] \in DOMAIN M
      BY <1>1, <1>7, <2>3 DEF Active
    <3>2. CASE Guards(M[src[y]], g)
      <4>1. src[y] \notin K
        BY <1>1, <2>3, <3>2 DEF Active
      <4>2. O[M[src[y]].from] = None
        BY <1>3, <4>1 DEF Woken
      <4>3. ~Idle(O, M[src[y]])
        BY <4>2 DEF Idle
      <4> QED  BY <2>2, <3>1, <3>2, <4>3
    <3>3. CASE ~Guards(M[src[y]], g)
      <4>1. WaitsWith(M, src[y], x)
        BY <2>2, <3>1, <3>3 DEF Active
      <4>2. src[y][1] = "callbacks"
        BY <1>11, <4>1 DEF WaitsWith, Before, Woken
      <4>3. src[y][2][1] = f
        BY <1>11, <3>1, <4>1, <4>2 DEF WaitsWith, Filed, Woken
      <4>4. src[y] \notin K
        BY <4>2, <4>3
      <4>5. M[src[y]].ok = FALSE
        BY <1>3, <2>1, <4>4 DEF Woken
      <4> QED  BY <4>1, <4>5 DEF WaitsWith
    <3> QED  BY <3>2, <3>3
  <2>4. ASSUME NEW y \in DOMAIN N, Guards(N[y], g) PROVE Idle(O2, N[y])
    <3>1. src[y] \in K /\ src[y] \in DOMAIN M /\ N[y] = M[src[y]]
      BY <1>1, <1>7, <2>4
    <3>2. src[y] # x
      BY <2>1, <3>1
    <3>3. Idle(O, M[src[y]])
      BY <2>2, <2>4, <3>1, <3>2
    <3> QED  BY <1>9, <2>4, <3>1, <3>3
  <2> QED  BY <2>2, <2>3, <2>4
\* It is not.
<1>12. ASSUME NEW g \in P2, g # f, \A x : Woken(x) => ~Guards(M[x], g)
       PROVE  /\ \A y \in DOMAIN N : Active(N[y], g) => Active(M[src[y]], g)
              /\ \A y \in DOMAIN N : Guards(N[y], g) /\ ~Idle(O2, N[y]) =>
                   /\ O[g] = None
                   /\ \A x \in DOMAIN N : Active(N[x], g) => WaitsWith(N, x, y)
                   /\ \A z \in DOMAIN N : Guards(N[z], g) /\ ~Idle(O2, N[z]) => z = y
  <2>1. ASSUME NEW y \in DOMAIN N, Active(N[y], g) PROVE Active(M[src[y]], g)
    <3>1. CanFill(M[src[y]], g)
      BY <1>7, <2>1 DEF Active
    <3>2. CASE src[y] \in K
      BY <1>1, <2>1, <3>2
    <3>3. CASE src[y] \notin K
      BY <1>3, <1>12, <3>1, <3>3 DEF Active
    <3> QED  BY <3>2, <3>3
  <2>2. ASSUME NEW y \in DOMAIN N, Guards(N[y], g), ~Idle(O2, N[y])
        PROVE  /\ O[g] = None
               /\ \A x \in DOMAIN N : Active(N[x], g) => WaitsWith(N, x, y)
               /\ \A z \in DOMAIN N : Guards(N[z], g) /\ ~Idle(O2, N[z]) => z = y
    <3>1. src[y] \in K /\ src[y] \in DOMAIN M /\ N[y] = M[src[y]]
      BY <1>1, <1>7, <2>2
    <3>2. ~Idle(O, M[src[y]])
      BY <1>9, <2>2, <3>1
    <3>3. /\ O[g] = None
          /\ \A x \in DOMAIN M : Active(M[x], g) => WaitsWith(M, x, src[y])
          /\ \A z \in DOMAIN M : Guards(M[z], g) /\ ~Idle(O, M[z]) => z = src[y]
      BY <1>7, <2>2, <3>1, <3>2 DEF Custody, Guarding
    <3>4. ASSUME NEW x \in DOMAIN N, Active(N[x], g) PROVE WaitsWith(N, x, y)
      <4>1. WaitsWith(M, src[x], src[y]) /\ src[x] \in DOMAIN M
        BY <1>1, <2>1, <3>3, <3>4
      <4>2. CASE src[x] \in K
        <5>1. N[x] = M[src[x]] /\ Before(x, y)
          BY <1>1, <3>1, <4>1, <4>2 DEF Keeps, WaitsWith
        <5> QED  BY <3>1, <4>1, <5>1 DEF WaitsWith
      <4>3. CASE src[x] \notin K
        <5>1. M[src[x]].from = f /\ o.ok = TRUE
          BY <1>3, <4>1, <4>3 DEF WaitsWith, Woken
        <5>2. M[src[y]].from = f
          BY <4>1, <5>1 DEF WaitsWith
        <5> QED  BY <1>6, <2>2, <3>1, <5>1, <5>2 DEF Idle
      <4> QED  BY <4>2, <4>3
    <3>5. ASSUME NEW z \in DOMAIN N, Guards(N[z], g), ~Idle(O2, N[z]) PROVE z = y
      <4>1. src[z] \in K /\ src[z] \in DOMAIN M /\ N[z] = M[src[z]]
        BY <1>1, <1>7, <3>5
      <4>2. ~Idle(O, M[src[z]])
        BY <1>9, <3>5, <4>1
      <4>3. src[z] = src[y]
        BY <3>3, <3>5, <4>1, <4>2
      <4> QED  BY <1>2, <4>3
    <3> QED  BY <3>3, <3>4, <3>5
  <2> QED  BY <2>1, <2>2
<1>13. ASSUME NEW g \in P2
       PROVE  /\ \A y, z \in DOMAIN N : Active(N[y], g) /\ Active(N[z], g) => y = z
              /\ \A y \in DOMAIN N : Active(N[y], g) => O2[g] = None
              /\ \A y \in DOMAIN N : Guards(N[y], g) =>
                   \/ Idle(O2, N[y])
                   \/ /\ O2[g] = None
                      /\ \A x \in DOMAIN N : Active(N[x], g) => WaitsWith(N, x, y)
                      /\ \A z \in DOMAIN N : Guards(N[z], g) /\ ~Idle(O2, N[z]) => z = y
  <2>1. CASE g = f
    BY <1>10, <2>1
  <2>2. CASE g # f /\ \E x : Woken(x) /\ Guards(M[x], g)
    <3>1. PICK x : Woken(x) /\ Guards(M[x], g)
      BY <2>2
    <3>2. O2[g] = None
      BY <1>5, <1>7, <1>11, <2>2, <3>1
    <3>3. \A y \in DOMAIN N : Active(N[y], g) => src[y] = x
      BY <1>11, <2>2, <3>1
    <3>4. \A y, z \in DOMAIN N : Active(N[y], g) /\ Active(N[z], g) => y = z
      BY <1>2, <3>3
    <3>5. \A y \in DOMAIN N : Guards(N[y], g) => Idle(O2, N[y])
      BY <1>11, <2>2, <3>1
    <3> QED  BY <3>2, <3>4, <3>5
  <2>3. CASE g # f /\ \A x : Woken(x) => ~Guards(M[x], g)
    <3>1. O2[g] = O[g]
      BY <1>5, <1>7, <2>3
    <3>2. ASSUME NEW y \in DOMAIN N, NEW z \in DOMAIN N, Active(N[y], g), Active(N[z], g)
          PROVE  y = z
      <4>1. src[y] = src[z]
        BY <1>1, <1>7, <1>12, <2>3, <3>2 DEF Custody, OnePlace
      <4> QED  BY <1>2, <4>1
    <3>3. ASSUME NEW y \in DOMAIN N, Active(N[y], g) PROVE O[g] = None
      BY <1>1, <1>7, <1>12, <2>3, <3>3 DEF Custody, NotYet
    <3> QED  BY <1>12, <2>3, <3>1, <3>2, <3>3
  <2> QED  BY <2>1, <2>2, <2>3
<1>14. OnePlace(N, P2) /\ NotYet(N, O2, P2) /\ Guarding(N, O2, P2)
  BY <1>13 DEF OnePlace, NotYet, Guarding
<1> QED  BY <1>8, <1>14 DEF Custody

-----------------------------------------------------------------------------
(* Clusters stay within their manager *)

LEMMA ClusterOfManager ==
  ASSUME NEW k, NEW A, NEW c, FineCluster(k, A), k.of = c, k.promise # None
  PROVE  /\ c \in A /\ FineManager(c, A) /\ k.promise \in Futures
         /\ k.promise \in Private(c) /\ \E j \in Jobs(c) : k.promise = c.clusters[j]
<1>1. FineManager(c, A) /\ \E j \in Jobs(c) : k.promise = c.clusters[j]
  BY DEF FineCluster
<1>2. c \in A /\ k.promise \in Futures /\ k.promise \in Range(c.clusters) /\ c.op = "clusteredRun"
  BY <1>1, Manager
<1> QED  BY <1>1, <1>2 DEF Private

\* A cluster that has a promise may fill it: nobody has yet.
LEMMA JobOfManager ==
  ASSUME NEW k, NEW A, NEW c, NEW g, Fine(k, A), IsJob(k, c, g)
  PROVE  /\ c \in A /\ FineManager(c, A) /\ g \in Futures /\ g \in Private(c)
         /\ \E j \in Jobs(c) : g = c.clusters[j]
         /\ Active(k, g)
<1>1. CASE k.op = "wrapped"
  <2>1. k.run.op = "run" /\ FinePlain(k.run, A) /\ k.run.body.op = "cluster"
        /\ k.run.body.of = c /\ k.run.body.promise = g /\ g # None
    BY <1>1 DEF Fine, FineWrapped, IsJob, BodyOf
  <2>2. FineCluster(k.run.body, A) /\ g = k.run.to
    BY <2>1 DEF FinePlain, FineRun
  <2>3. Active(k, g)
    BY <1>1, <2>1, <2>2 DEF Active, CanFill, CanFillPlain, Guards
  <2> QED  BY <2>1, <2>2, <2>3, ClusterOfManager
<1>2. CASE k.op = "run"
  <2>1. FinePlain(k, A) /\ k.body.op = "cluster" /\ k.body.of = c /\ k.body.promise = g /\ g # None
    BY <1>2 DEF Fine, IsJob, BodyOf
  <2>2. FineCluster(k.body, A) /\ g = k.to
    BY <1>2, <2>1 DEF FinePlain, FineRun
  <2>3. Active(k, g)
    BY <1>2, <2>2 DEF Active, CanFill, CanFillPlain, Guards
  <2> QED  BY <2>1, <2>2, <2>3, ClusterOfManager
<1>3. CASE k.op \notin {"wrapped", "run"}
  <2>1. k.op = "cluster" /\ k.of = c /\ k.promise = g /\ g # None
    BY <1>3 DEF IsJob, BodyOf
  <2>2. FineCluster(k, A)
    BY <2>1 DEF Fine, FinePlain
  <2>3. Active(k, g)
    BY <2>1 DEF Active, CanFill, CanFillPlain, Guards
  <2> QED  BY <2>1, <2>2, <2>3, ClusterOfManager
<1> QED  BY <1>1, <1>2, <1>3

\* Of the calls N: one that manages the clusters of c, and waits for all of them.
ManagesAll(N, c) ==
    \/ \E z \in DOMAIN N :
         z[1] = "stack" /\ N[z].op = "cluster" /\ N[z].of = c /\ N[z].promise = None
    \/ \E z \in DOMAIN N :
         /\ z[1] = "stack" /\ N[z].op = "conclude" /\ N[z].of = c
         /\ \A j \in Jobs(c) : \E w \in DOMAIN N : Above(w, z) /\ N[w] = wait(c.clusters[j])

\* The call at r is over only when others manage, and wait, in its place.
HandsOver(M, N, O, K, src, r) ==
    /\ r \in DOMAIN M /\ \A w \in DOMAIN M : ~Above(w, r)
    /\ \A x \in DOMAIN M : x[1] = "stack" => x \in K \/ x = r
    /\ \A y \in DOMAIN N : src[y] \notin K => src[y] = r \/ M[src[y]].op # "manage"
    /\ M[r].op = "wait" => O[M[r].from] # None
    /\ M[r].op = "manage" => ManagesAll(N, M[r].of)
    /\ M[r].op = "cluster" /\ M[r].promise = None => ManagesAll(N, M[r].of)

LEMMA ManagedGoesOn ==
  ASSUME NEW M, NEW N, NEW O, NEW A, NEW A2, NEW src, NEW K, NEW r, NEW P,
         AllFine(M, A), NotYet(M, O, P), Managed(M, A), \A c \in A : Private(c) \subseteq P,
         Keeps(M, N, K, src), KeepsStacks(M, N, K, src), Comes(M, N, A2, src),
         HandsOver(M, N, O, K, src, r)
  PROVE  Managed(N, A2)
<1>0. /\ r \in DOMAIN M /\ \A w \in DOMAIN M : ~Above(w, r)
      /\ \A x \in DOMAIN M : x[1] = "stack" => x \in K \/ x = r
      /\ \A y \in DOMAIN N : src[y] \notin K => src[y] = r \/ M[src[y]].op # "manage"
      /\ M[r].op = "wait" => O[M[r].from] # None
      /\ M[r].op = "manage" => ManagesAll(N, M[r].of)
      /\ M[r].op = "cluster" /\ M[r].promise = None => ManagesAll(N, M[r].of)
  BY DEF HandsOver
<1> USE <1>0
<1>1. ASSUME NEW c \in A2, NEW y \in DOMAIN N, NEW g \in Futures, IsJob(N[y], c, g)
      PROVE  \E z \in DOMAIN N : ManagesFor(N, z, c, g)
  <2>1. /\ src[y] \in DOMAIN M /\ (src[y] \in K => N[y] = M[src[y]])
        /\ Fine(N[y], A2) /\ Fine(M[src[y]], A)
        /\ IsJob(M[src[y]], c, g) \/ (M[src[y]].op = "manage" /\ c = M[src[y]].of)
    BY <1>1 DEF Keeps, Comes, Passes, AllFine
  <2>2. \E j \in Jobs(c) : g = c.clusters[j]
    BY <1>1, <2>1, JobOfManager
  <2>3. ASSUME ManagesAll(N, c) PROVE \E z \in DOMAIN N : ManagesFor(N, z, c, g)
    <3>1. PICK j \in Jobs(c) : g = c.clusters[j]
      BY <2>2
    <3>2. PICK z \in DOMAIN N :
            /\ z[1] = "stack" /\ N[z].of = c
            /\ \/ N[z].op = "cluster" /\ N[z].promise = None
               \/ N[z].op = "conclude" /\ \E w \in DOMAIN N : Above(w, z) /\ N[w] = wait(g)
      BY <2>3, <3>1 DEF ManagesAll
    <3> QED  BY <3>2 DEF ManagesFor, Manages
  <2>4. CASE IsJob(M[src[y]], c, g)
    <3>1. c \in A /\ g \in Private(c) /\ Active(M[src[y]], g)
      BY <2>1, <2>4, JobOfManager
    <3>2. O[g] = None
      BY <2>1, <3>1 DEF NotYet
    <3>3. PICK z \in DOMAIN M : ManagesFor(M, z, c, g)
      BY <1>1, <2>1, <2>4, <3>1 DEF Managed
    <3>4. CASE z \in K
      <4>1. PICK u \in DOMAIN N : src[u] = z /\ u[1] = "stack" /\ N[u] = M[z]
        BY <3>3, <3>4 DEF Keeps, KeepsStacks, ManagesFor
      <4>2. ASSUME N[u].op = "conclude" PROVE \E w \in DOMAIN N : Above(w, u) /\ N[w] = wait(g)
        <5>1. PICK x \in DOMAIN M : Above(x, z) /\ M[x] = wait(g)
          BY <3>3, <4>1, <4>2 DEF ManagesFor
        <5>2. x # r
          BY <3>2, <5>1 DEF wait
        <5>3. x \in K /\ x[1] = "stack"
          BY <5>1, <5>2 DEF Above
        <5>4. PICK w \in DOMAIN N : src[w] = x /\ N[w] = M[x]
          BY <5>3 DEF Keeps, KeepsStacks
        <5>5. Above(w, u)
          BY <3>4, <4>1, <5>1, <5>3, <5>4 DEF KeepsStacks
        <5> QED  BY <5>1, <5>4, <5>5
      <4>3. Manages(N[u], c)
        BY <3>3, <4>1 DEF ManagesFor
      <4> QED  BY <4>1, <4>2, <4>3 DEF ManagesFor
    <3>5. CASE z = r
      <4>1. M[r].op # "conclude"
        BY <3>3, <3>5 DEF ManagesFor
      <4>2. M[r].op = "cluster" /\ M[r].promise = None /\ M[r].of = c
        BY <3>3, <3>5, <4>1 DEF ManagesFor, Manages
      <4> QED  BY <2>3, <4>2
    <3> QED  BY <3>3, <3>4, <3>5 DEF ManagesFor
  <2>5. CASE M[src[y]].op = "manage" /\ c = M[src[y]].of
    <3>1. ~IsJob(M[src[y]], c, g)
      BY <2>5, NotAJob
    <3>2. src[y] = r
      BY <1>1, <2>1, <2>5, <3>1
    <3> QED  BY <2>3, <2>5, <3>2
  <2> QED  BY <2>1, <2>4, <2>5
<1> QED  BY <1>1 DEF Managed

-----------------------------------------------------------------------------
(* What a step does to the calls at their places *)

Followed == /\ AllFine(Held, asked)
            /\ Custody(Held, outcome, PrivateFutures) /\ Managed(Held, asked)

LEMMA InnermostCall ==
  ASSUME Shape, NEW t \in Threads, stack[t] # <<>>, NEW r, r = <<"stack", t, 1>>
  PROVE  /\ r \in DOMAIN Held /\ Held[r] = Call(t)
         /\ \A x \in DOMAIN Held : Before(x, r) => x[1] = "callbacks"
         /\ \A x \in DOMAIN Held : ~Above(x, r)
<1>1. \A u \in Threads : stack[u] \in Seq(Range(stack[u]))
  BY DEF Shape
<1>2. 1 \in DOMAIN stack[t] /\ Call(t) = stack[t][1]
  BY <1>1 DEF Call
<1>3. r \in DOMAIN Held /\ Held[r] = Call(t)
  BY <1>2, HeldHolds DEF Holds
<1>4. \A x \in DOMAIN Held : x[1] = "stack" => x[3] \in Nat \ {0}
  <2>1. ASSUME NEW x \in DOMAIN Held, x[1] = "stack" PROVE x[3] \in Nat \ {0}
    <3>1. PICK u \in Threads : \E i \in DOMAIN stack[u] : x = <<"stack", u, i>>
      BY <2>1, HeldHolds DEF Holds
    <3>2. PICK i \in DOMAIN stack[u] : x = <<"stack", u, i>>
      BY <3>1
    <3>3. i \in Nat \ {0}
      BY <1>1
    <3> QED  BY <3>2, <3>3
  <2> QED  BY <2>1
<1>5. r[1] = "stack" /\ r[2] = t /\ r[3] = 1
  OBVIOUS
<1>6. ASSUME NEW x \in DOMAIN Held, Before(x, r) PROVE x[1] = "callbacks"
  BY <1>4, <1>5, <1>6 DEF Before
<1>7. ASSUME NEW x \in DOMAIN Held, Above(x, r) PROVE FALSE
  BY <1>4, <1>5, <1>7 DEF Above
<1> QED  BY <1>3, <1>6, <1>7

LEMMA BeforeTail ==
  ASSUME NEW S, NEW s \in Seq(S), s # <<>>, NEW R, NEW new \in Seq(R)
  PROVE  /\ DOMAIN (new \o Tail(s)) = 1 .. (Len(new) + Len(s) - 1)
         /\ \A i \in 1 .. Len(new) : (new \o Tail(s))[i] = new[i]
         /\ \A j \in 1 .. (Len(s) - 1) : (new \o Tail(s))[Len(new) + j] = s[j + 1]
<1> DEFINE a == Tail(s)
           U == S \cup R
<1>1. a \in Seq(S) /\ Len(a) = Len(s) - 1 /\ \A j \in 1 .. (Len(s) - 1) : a[j] = s[j + 1]
  OBVIOUS
<1>2. \A b : b \in Seq(S) \/ b \in Seq(R) => b \in Seq(U)
  BY SeqDef
<1> HIDE DEF U
<1>3. new \in Seq(U) /\ a \in Seq(U)
  BY <1>1, <1>2
<1> HIDE DEF a
<1>4. /\ DOMAIN (new \o a) = 1 .. (Len(new) + Len(a))
      /\ \A i \in 1 .. Len(new) : (new \o a)[i] = new[i]
      /\ \A j \in 1 .. Len(a) : (new \o a)[Len(new) + j] = a[j]
  BY <1>3
<1> QED  BY <1>1, <1>4 DEF a

\* The call of t becomes new, which come from the places from; L stays where it
\* is, and what is new elsewhere comes from the call of t.
Becomes(t, new, L, r, from) ==
    /\ t \in Threads /\ stack[t] # <<>> /\ r = <<"stack", t, 1>>
    /\ new \in Seq(Range(new)) /\ Return(t, new)
    /\ L \subseteq DOMAIN Held /\ L \subseteq DOMAIN Held'
    /\ \A x \in L : x[1] # "stack" /\ Held'[x] = Held[x]
    /\ \A i \in DOMAIN new : /\ from[i] \in DOMAIN Held
                             /\ from[i] = r \/ (from[i][1] # "stack" /\ from[i] \notin L)

LEMMA Replaced ==
  ASSUME Shape, NEW t, NEW new, NEW L, NEW r, NEW from, Becomes(t, new, L, r, from)
  PROVE  \E K, src :
           /\ Keeps(Held, Held', K, src) /\ KeepsStacks(Held, Held', K, src)
           /\ \A x \in DOMAIN Held : x \in K <=> x \in L \/ (x[1] = "stack" /\ x # r)
           /\ \A i \in DOMAIN new : /\ <<"stack", t, i>> \in DOMAIN Held'
                                    /\ Held'[<<"stack", t, i>>] = new[i]
                                    /\ src[<<"stack", t, i>>] = from[i]
           /\ \A y \in DOMAIN Held' : src[y] \notin K =>
                \/ \E i \in DOMAIN new : y = <<"stack", t, i>>
                \/ y[1] # "stack" /\ y \notin L /\ src[y] = r
<1> DEFINE K == Stay(Held, L, t, 1)
           n == Len(new)
<1>0. /\ t \in Threads /\ stack[t] # <<>> /\ r = <<"stack", t, 1>>
      /\ new \in Seq(Range(new)) /\ Return(t, new)
      /\ L \subseteq DOMAIN Held /\ L \subseteq DOMAIN Held'
      /\ \A x \in L : x[1] # "stack" /\ Held'[x] = Held[x]
      /\ \A i \in DOMAIN new : /\ from[i] \in DOMAIN Held
                               /\ from[i] = r \/ (from[i][1] # "stack" /\ from[i] \notin L)
  BY DEF Becomes
<1>1. AllStacks(stack) /\ stack[t] \in Seq(Range(stack[t])) /\ Len(stack[t]) \in Nat \ {0}
  BY <1>0 DEF Shape, AllStacks
<1>2. n \in Nat /\ DOMAIN new = 1 .. n
  BY <1>0
<1>3. stack' = [stack EXCEPT ![t] = new \o Tail(stack[t])]
  BY <1>0 DEF Return
<1>4. (\A u \in Threads \ {t} : stack'[u] = stack[u]) /\ stack'[t] = new \o Tail(stack[t])
  BY <1>0, <1>1, <1>3 DEF AllStacks
<1>5. /\ DOMAIN stack'[t] = 1 .. (n + Len(stack[t]) - 1)
      /\ \A i \in 1 .. n : stack'[t][i] = new[i]
      /\ \A j \in 1 .. (Len(stack[t]) - 1) : stack'[t][n + j] = stack[t][j + 1]
  BY <1>0, <1>1, <1>4, BeforeTail
<1>50. Restacked(stack, stack', t, 1, n)
  BY <1>0, <1>1, <1>2, <1>4, <1>5 DEF Restacked
<1>6. r \in DOMAIN Held /\ \A x \in DOMAIN Held : x \in K <=> x \in L \/ (x[1] = "stack" /\ x # r)
  <2>1. r \in DOMAIN Held
    BY <1>0, InnermostCall
  <2>2. ASSUME NEW x \in DOMAIN Held, x[1] = "stack" PROVE (x[2] = t => x[3] > 1) <=> x # r
    <3>1. PICK u \in Threads : \E i \in DOMAIN stack[u] : x = <<"stack", u, i>>
      BY <2>2, HeldHolds DEF Holds
    <3>2. PICK i \in DOMAIN stack[u] : x = <<"stack", u, i>>
      BY <3>1
    <3>3. i \in Nat \ {0}
      BY DEF Shape
    <3> QED  BY <1>0, <3>2, <3>3
  <2> QED  BY <1>0, <2>1, <2>2 DEF Stay
<1>7. Settled(Held, Held', L, r, t, 1, n, from)
  <2>1. ASSUME NEW x \in L PROVE x # r
    <3>1. x[1] # "stack" /\ r[1] = "stack"
      BY <1>0, <2>1
    <3> QED  BY <3>1
  <2>2. r \in DOMAIN Held \ K
    BY <1>6, <2>1
  <2>3. ASSUME NEW i \in 1 .. n PROVE from[i] \in DOMAIN Held \ K
    <3>1. i \in DOMAIN new
      BY <1>2
    <3> HIDE DEF K
    <3> QED  BY <1>0, <1>6, <2>2, <3>1
  <2> QED  BY <1>0, <2>2, <2>3 DEF Settled
<1> HIDE DEF n
<1>8. \E src :
        /\ Keeps(Held, Held', K, src) /\ KeepsStacks(Held, Held', K, src)
        /\ \A i \in 1 .. n : /\ <<"stack", t, i>> \in DOMAIN Held'
                             /\ Held'[<<"stack", t, i>>] = stack'[t][i]
                             /\ src[<<"stack", t, i>>] = from[i]
        /\ \A y \in DOMAIN Held' : src[y] \notin K =>
             \/ \E i \in 1 .. n : y = <<"stack", t, i>>
             \/ y[1] # "stack" /\ y \notin L /\ src[y] = r
  BY <1>50, <1>7, HeldHolds, Moves
<1> HIDE DEF K
<1>9. PICK src :
        /\ Keeps(Held, Held', K, src) /\ KeepsStacks(Held, Held', K, src)
        /\ \A i \in 1 .. n : /\ <<"stack", t, i>> \in DOMAIN Held'
                             /\ Held'[<<"stack", t, i>>] = stack'[t][i]
                             /\ src[<<"stack", t, i>>] = from[i]
        /\ \A y \in DOMAIN Held' : src[y] \notin K =>
             \/ \E i \in 1 .. n : y = <<"stack", t, i>>
             \/ y[1] # "stack" /\ y \notin L /\ src[y] = r
  BY <1>8
<1>10. \A i \in DOMAIN new : /\ <<"stack", t, i>> \in DOMAIN Held'
                            /\ Held'[<<"stack", t, i>>] = new[i]
                            /\ src[<<"stack", t, i>>] = from[i]
  BY <1>2, <1>5, <1>9
<1>11. \A y \in DOMAIN Held' : src[y] \notin K =>
         \/ \E i \in DOMAIN new : y = <<"stack", t, i>>
         \/ y[1] # "stack" /\ y \notin L /\ src[y] = r
  BY <1>2, <1>9
<1> QED  BY <1>6, <1>9, <1>10, <1>11

LEMMA HeldCalls ==
  /\ DOMAIN Held = Places /\ \A x \in Places : Held[x] = CallAt(x)
  /\ DOMAIN Held' = Places' /\ \A x \in Places' : Held'[x] = CallAt(x)'
<1>1. DOMAIN Held = Places /\ \A x \in Places : Held[x] = CallAt(x)
  BY DEF Held
<1>2. DOMAIN Held' = Places' /\ \A x \in Places' : Held'[x] = CallAt(x)'
  BY DEF Held
<1> QED  BY <1>1, <1>2

LEMMA FiledCallbacks ==
  ASSUME Shape, TypeOK
  PROVE  Filed(Held, outcome)
<1>1. ASSUME NEW x \in DOMAIN Held, x[1] = "callbacks"
      PROVE  /\ Held[x].op = "on" /\ Held[x].from = x[2][1] /\ Held[x].ok = x[2][2]
             /\ outcome[x[2][1]] = None
  <2>1. PICK f \in Futures, b \in BOOLEAN : \E i \in DOMAIN callbacks[f][b] : x = <<"callbacks", <<f, b>>, i>>
    BY <1>1, HeldHolds DEF Holds
  <2>2. PICK i \in DOMAIN callbacks[f][b] : x = <<"callbacks", <<f, b>>, i>>
    BY <2>1
  <2>3. Held[x] = [op |-> "on", from |-> f, ok |-> b, call |-> callbacks[f][b][i]]
    BY <2>2, HeldHolds DEF Holds
  <2>4. x[2][1] = f /\ x[2][2] = b
    BY <2>2
  <2>5. callbacks[f] # NoCallbacks
    <3>1. DOMAIN NoCallbacks[b] = {}
      BY Tuples DEF NoCallbacks
    <3> QED  BY <2>2, <3>1
  <2>6. outcome[f] = None
    BY <2>5 DEF TypeOK
  <2> QED  BY <2>3, <2>4, <2>6
<1> QED  BY <1>1 DEF Filed

\* Where else calls are than on stacks.
LEMMA Elsewhere ==
  ASSUME NEW M, NEW s, NEW cb, NEW q, Holds(M, s, cb, q), NEW x \in DOMAIN M, x[1] # "stack"
  PROVE  \/ /\ x[1] = "callbacks"
            /\ \E f \in Futures, b \in BOOLEAN : \E i \in DOMAIN cb[f][b] :
                 /\ x = <<"callbacks", <<f, b>>, i>>
                 /\ M[x] = [op |-> "on", from |-> f, ok |-> b, call |-> cb[f][b][i]]
         \/ /\ x[1] = "queued"
            /\ \E task \in q : x = <<"queued", task, 1>> /\ M[x] = task
<1>1. \/ \E f \in Futures, b \in BOOLEAN : \E i \in DOMAIN cb[f][b] :
           x = <<"callbacks", <<f, b>>, i>>
      \/ \E task \in q : x = <<"queued", task, 1>>
  BY DEF Holds
<1>2. CASE \E f \in Futures, b \in BOOLEAN : \E i \in DOMAIN cb[f][b] :
             x = <<"callbacks", <<f, b>>, i>>
  BY <1>2 DEF Holds
<1>3. CASE \E task \in q : x = <<"queued", task, 1>>
  BY <1>3 DEF Holds
<1> QED  BY <1>1, <1>2, <1>3

\* No future becomes private.
LEMMA Privacy ==
  /\ PrivateFutures \subseteq Futures
  /\ \A c \in asked : Private(c) \subseteq PrivateFutures
  /\ \A A, src, r : Comes(Held, Held', A, src) /\ r \in DOMAIN Held
                    /\ asked' \in {asked, asked \cup {Held[r]}}
                    => PrivateFutures' \subseteq PrivateFutures
<1>1. PrivateFutures \subseteq Futures
  BY DEF PrivateFutures
<1>2. \A c \in asked : Private(c) \subseteq PrivateFutures
  BY DEF PrivateFutures, Private
<1>3. \A x \in DOMAIN Held : Private(Held[x]) \subseteq PrivateFutures
  BY HeldCalls DEF PrivateFutures, Private
<1>4. PrivateFutures' = {f \in Futures : \/ \E c \in asked' : f \in Private(c)
                                         \/ \E x \in DOMAIN Held' : f \in Private(Held'[x])}
  BY HeldCalls DEF PrivateFutures
<1>5. ASSUME NEW A, NEW src, NEW r, Comes(Held, Held', A, src), r \in DOMAIN Held,
             asked' \in {asked, asked \cup {Held[r]}}
      PROVE  PrivateFutures' \subseteq PrivateFutures
  <2>1. \A x \in DOMAIN Held' : Private(Held'[x]) \subseteq PrivateFutures
    BY <1>3, <1>5 DEF Comes, Passes
  <2>2. \A c \in asked' : Private(c) \subseteq PrivateFutures
    BY <1>2, <1>3, <1>5
  <2> QED  BY <1>4, <2>1, <2>2
<1> QED  BY <1>1, <1>2, <1>5

\* Calls that stay where they are, or are moved, are passed on.
LEMMA StaysFine ==
  ASSUME AllFine(Held, asked), NEW A, asked \subseteq A
  PROVE  \A x \in DOMAIN Held : Passes(Held[x], Held[x], A)
BY FineGrows, PassesItself DEF AllFine

\* With the lists of callbacks and the queue as they are or longer, what is
\* there stays.
LEMMA StaysElsewhere ==
  ASSUME queued \subseteq queued',
         \A f \in Futures, b \in BOOLEAN : \A i \in DOMAIN callbacks[f][b] :
            i \in DOMAIN callbacks'[f][b] /\ callbacks'[f][b][i] = callbacks[f][b][i]
  PROVE  \A x \in DOMAIN Held : x[1] # "stack" => x \in DOMAIN Held' /\ Held'[x] = Held[x]
<1>1. ASSUME NEW x \in DOMAIN Held, x[1] # "stack"
      PROVE  x \in DOMAIN Held' /\ Held'[x] = Held[x]
  <2>1. CASE \E f \in Futures, b \in BOOLEAN : \E i \in DOMAIN callbacks[f][b] :
               /\ x = <<"callbacks", <<f, b>>, i>>
               /\ Held[x] = [op |-> "on", from |-> f, ok |-> b, call |-> callbacks[f][b][i]]
    <3>1. PICK f \in Futures, b \in BOOLEAN : \E i \in DOMAIN callbacks[f][b] :
               /\ x = <<"callbacks", <<f, b>>, i>>
               /\ Held[x] = [op |-> "on", from |-> f, ok |-> b, call |-> callbacks[f][b][i]]
      BY <2>1
    <3>2. PICK i \in DOMAIN callbacks[f][b] :
               /\ x = <<"callbacks", <<f, b>>, i>>
               /\ Held[x] = [op |-> "on", from |-> f, ok |-> b, call |-> callbacks[f][b][i]]
      BY <3>1
    <3>3. i \in DOMAIN callbacks'[f][b]
      OBVIOUS
    <3>4. Holds(Held', stack', callbacks', queued')
      BY HeldHolds
    <3>5. x \in DOMAIN Held'
          /\ Held'[x] = [op |-> "on", from |-> f, ok |-> b, call |-> callbacks'[f][b][i]]
      BY <3>2, <3>3, <3>4, SMTT(20) DEF Holds
    <3> QED  BY <3>2, <3>5
  <2>2. CASE \E task \in queued : x = <<"queued", task, 1>> /\ Held[x] = task
    BY <2>2, HeldHolds DEF Holds
  <2> QED  BY <1>1, <2>1, <2>2, HeldHolds, Elsewhere
<1> QED  BY <1>1

LEMMA TurnFollowed ==
  ASSUME IInv, NEW t \in Threads, TurnStep(t)
  PROVE  Followed'
<1>1. PICK r, L : r = <<"stack", t, 1>> /\ L = {x \in DOMAIN Held : x[1] # "stack"}
  OBVIOUS
<1>2. PICK new : Return(t, new) /\ Turns(Call(t), new, asked') /\ Hands(Call(t), new)
  BY DEF TurnStep
<1>3. /\ stack[t] # <<>> /\ Shape /\ TypeOK /\ new \in Seq(Range(new))
      /\ AllFine(Held, asked) /\ Custody(Held, outcome, PrivateFutures) /\ Managed(Held, asked)
      /\ Call(t).op # "on" /\ UNCHANGED <<outcome, callbacks, queued>>
      /\ asked' \in {asked, asked \cup {Call(t)}}
      /\ Call(t).op = "wait" => outcome[Call(t).from] # None
  BY <1>2 DEF IInv, TurnStep, Turns
<1>4. /\ r \in DOMAIN Held /\ Held[r] = Call(t)
      /\ \A x \in DOMAIN Held : Before(x, r) => x[1] = "callbacks"
      /\ \A x \in DOMAIN Held : ~Above(x, r)
  BY <1>1, <1>3, InnermostCall
<1>5. \A x \in DOMAIN Held : x[1] # "stack" => x \in DOMAIN Held' /\ Held'[x] = Held[x]
  BY <1>3, StaysElsewhere
<1>6. PICK from : from = [i \in DOMAIN new |-> r]
  OBVIOUS
<1>7. PICK K, src :
        /\ Keeps(Held, Held', K, src) /\ KeepsStacks(Held, Held', K, src)
        /\ \A x \in DOMAIN Held : x \in K <=> x \in L \/ (x[1] = "stack" /\ x # r)
        /\ \A i \in DOMAIN new : /\ <<"stack", t, i>> \in DOMAIN Held'
                                 /\ Held'[<<"stack", t, i>>] = new[i]
                                 /\ src[<<"stack", t, i>>] = from[i]
        /\ \A y \in DOMAIN Held' : src[y] \notin K =>
             \/ \E i \in DOMAIN new : y = <<"stack", t, i>>
             \/ y[1] # "stack" /\ y \notin L /\ src[y] = r
  <2>1. L \subseteq DOMAIN Held /\ L \subseteq DOMAIN Held'
        /\ \A x \in L : x[1] # "stack" /\ Held'[x] = Held[x]
    BY <1>1, <1>5
  <2>2. \A i \in DOMAIN new : from[i] \in DOMAIN Held /\ (from[i] = r \/ (from[i][1] # "stack" /\ from[i] \notin L))
    BY <1>4, <1>6
  <2>3. Becomes(t, new, L, r, from)
    BY <1>1, <1>2, <1>3, <2>1, <2>2 DEF Becomes
  <2> QED  BY <1>3, <2>3, Replaced
<1>8. r \notin K /\ \A x \in DOMAIN Held : x = r \/ x \in K
  BY <1>1, <1>4, <1>7
<1>9. ASSUME NEW y \in DOMAIN Held', src[y] \notin K
      PROVE  src[y] = r /\ \E i \in DOMAIN new : y = <<"stack", t, i>> /\ Held'[y] = new[i]
  <2>1. src[y] = r
    BY <1>7, <1>8, <1>9 DEF Keeps
  <2>2. y[1] # "stack" => y \in L
    <3>1. ASSUME y[1] # "stack" PROVE y \in DOMAIN Held
      <4>1. Holds(Held, stack, callbacks, queued) /\ Holds(Held', stack', callbacks, queued)
        BY <1>3, HeldHolds
      <4>2. \/ \E f \in Futures, b \in BOOLEAN : \E i \in DOMAIN callbacks[f][b] :
                 y = <<"callbacks", <<f, b>>, i>>
            \/ \E task \in queued : y = <<"queued", task, 1>>
        BY <3>1, <4>1, Elsewhere
      <4>3. \A f \in Futures, b \in BOOLEAN : \A i \in DOMAIN callbacks[f][b] :
              <<"callbacks", <<f, b>>, i>> \in DOMAIN Held
        BY <4>1 DEF Holds
      <4>4. \A task \in queued : <<"queued", task, 1>> \in DOMAIN Held
        BY <4>1 DEF Holds
      <4> QED  BY <4>2, <4>3, <4>4
    <3> QED  BY <1>1, <3>1
  <2> QED  BY <1>7, <1>9, <2>1, <2>2
<1>10. Comes(Held, Held', asked', src)
  <2>1. ASSUME NEW y \in DOMAIN Held' PROVE Passes(Held[src[y]], Held'[y], asked')
    <3>1. CASE src[y] \in K
      <4>1. src[y] \in DOMAIN Held /\ Held'[y] = Held[src[y]]
        BY <1>7, <3>1 DEF Keeps
      <4> QED  BY <1>3, <4>1, StaysFine
    <3>2. CASE src[y] \notin K
      BY <1>2, <1>4, <1>9, <3>2 DEF Turns
    <3> QED  BY <3>1, <3>2
  <2> QED  BY <1>7, <2>1 DEF Comes, Keeps
<1>11. AllFine(Held', asked')
  BY <1>10, ComesFine
<1>12. PrivateFutures \subseteq Futures /\ PrivateFutures' \subseteq PrivateFutures
       /\ \A c \in asked : Private(c) \subseteq PrivateFutures
  BY <1>3, <1>4, <1>10, Privacy
<1>13. Custody(Held', outcome, PrivateFutures')
  <2>1. ASSUME NEW g \in PrivateFutures', NEW y \in DOMAIN Held', NEW z \in DOMAIN Held',
               Part(Held[r], g), src[y] = r, src[z] = r, y # z,
               CanFill(Held'[y], g), CanFill(Held'[z], g)
        PROVE  Pair(Held', y, z, g) \/ Pair(Held', z, y, g)
    <3>1. PICK i \in DOMAIN new : y = <<"stack", t, i>> /\ Held'[y] = new[i]
      BY <1>8, <1>9, <2>1
    <3>2. PICK j \in DOMAIN new : z = <<"stack", t, j>> /\ Held'[z] = new[j]
      BY <1>8, <1>9, <2>1
    <3>3. Apart(new, g) /\ i \in Nat /\ j \in Nat /\ i # j
      BY <1>2, <1>3, <1>4, <1>12, <2>1, <3>1, <3>2 DEF Turns
    <3>4. ASSUME i < j PROVE Pair(Held', y, z, g)
      BY <2>1, <3>1, <3>2, <3>3, <3>4 DEF Apart, Pair, Before
    <3>5. ASSUME j < i PROVE Pair(Held', z, y, g)
      BY <2>1, <3>1, <3>2, <3>3, <3>5 DEF Apart, Pair, Before
    <3> QED  BY <3>3, <3>4, <3>5
  <2>2. Held[r].op # "on" /\ \A y \in DOMAIN Held' : src[y] \notin K => src[y] = r
    BY <1>3, <1>4, <1>9
  <2>3. \A g \in PrivateFutures' : \A y, z \in DOMAIN Held' :
            /\ Part(Held[r], g) /\ src[y] = r /\ src[z] = r /\ y # z
            /\ CanFill(Held'[y], g) /\ CanFill(Held'[z], g)
            => Pair(Held', y, z, g) \/ Pair(Held', z, y, g)
    BY <2>1
  <2> QED  BY <1>3, <1>4, <1>7, <1>8, <1>10, <1>12, <2>2, <2>3, CustodyTurns
<1>14. Managed(Held', asked')
  <2>1. \A i \in DOMAIN new : \A h \in DOMAIN new : h < i => Above(<<"stack", t, h>>, <<"stack", t, i>>)
    BY DEF Above
  <2>2. ASSUME NEW i \in DOMAIN new
        PROVE  \E z \in DOMAIN Held' :
                 /\ z[1] = "stack" /\ Held'[z] = new[i]
                 /\ \A h \in DOMAIN new : h < i => \E w \in DOMAIN Held' : Above(w, z) /\ Held'[w] = new[h]
    <3>1. PICK z : z = <<"stack", t, i>>
      OBVIOUS
    <3>2. z[1] = "stack" /\ z \in DOMAIN Held' /\ Held'[z] = new[i]
      BY <1>7, <3>1
    <3>3. \A h \in DOMAIN new : h < i => \E w \in DOMAIN Held' : Above(w, z) /\ Held'[w] = new[h]
      BY <1>7, <2>1, <3>1
    <3> QED  BY <3>2, <3>3
  <2>3. Held[r].op = "manage" => ManagesAll(Held', Held[r].of)
    BY <1>2, <1>4, <2>2 DEF Hands, ManagesAll
  <2>4. Held[r].op = "cluster" /\ Held[r].promise = None => ManagesAll(Held', Held[r].of)
    <3>1. ASSUME NEW i \in DOMAIN new, new[i].op = "conclude", new[i].of = Held[r].of,
                 \A j \in Jobs(Held[r].of) :
                    \E h \in DOMAIN new : h < i /\ new[h] = wait(Held[r].of.clusters[j])
          PROVE  ManagesAll(Held', Held[r].of)
      <4>1. PICK z \in DOMAIN Held' :
              /\ z[1] = "stack" /\ Held'[z] = new[i]
              /\ \A h \in DOMAIN new : h < i => \E w \in DOMAIN Held' : Above(w, z) /\ Held'[w] = new[h]
        BY <2>2
      <4>2. ASSUME NEW j \in Jobs(Held[r].of)
            PROVE  \E w \in DOMAIN Held' : Above(w, z) /\ Held'[w] = wait(Held[r].of.clusters[j])
        BY <3>1, <4>1
      <4> QED  BY <3>1, <4>1, <4>2 DEF ManagesAll
    <3>2. ASSUME NEW i \in DOMAIN new, new[i].op = "cluster", new[i].of = Held[r].of,
                 new[i].promise = None
          PROVE  ManagesAll(Held', Held[r].of)
      BY <2>2, <3>2 DEF ManagesAll
    <3> QED  BY <1>2, <1>4, <3>1, <3>2 DEF Hands
  <2>5. \A y \in DOMAIN Held' : src[y] \notin K => src[y] = r \/ Held[src[y]].op # "manage"
    BY <1>9
  <2>6. NotYet(Held, outcome, PrivateFutures)
    BY <1>3 DEF Custody
  <2>7. /\ \A x \in DOMAIN Held : x[1] = "stack" => x \in K \/ x = r
        /\ Held[r].op = "wait" => outcome[Held[r].from] # None
    BY <1>3, <1>4, <1>8
  <2>8. HandsOver(Held, Held', outcome, K, src, r)
    BY <1>4, <2>3, <2>4, <2>5, <2>7 DEF HandsOver
  <2> QED  BY <1>3, <1>7, <1>10, <1>12, <2>6, <2>8, ManagedGoesOn
<1> QED  BY <1>3, <1>11, <1>13, <1>14 DEF Followed

LEMMA FollowsOn ==
  ASSUME IInv, NEW K, NEW src, NEW r, Keeps(Held, Held', K, src), KeepsStacks(Held, Held', K, src),
         Comes(Held, Held', asked', src), HandsOver(Held, Held', outcome, K, src, r),
         asked' \in {asked, asked \cup {Held[r]}},
         PrivateFutures' \subseteq PrivateFutures => Custody(Held', outcome', PrivateFutures')
  PROVE  Followed'
<1>1. /\ AllFine(Held, asked) /\ NotYet(Held, outcome, PrivateFutures) /\ Managed(Held, asked)
      /\ r \in DOMAIN Held
  BY DEF IInv, Custody, HandsOver
<1>2. /\ \A c \in asked : Private(c) \subseteq PrivateFutures
      /\ PrivateFutures' \subseteq PrivateFutures
  BY <1>1, Privacy
<1>3. AllFine(Held', asked')
  BY ComesFine
<1>4. Managed(Held', asked')
  BY <1>1, <1>2, ManagedGoesOn
<1> QED  BY <1>2, <1>3, <1>4 DEF Followed

\* The call at r, which neither registers nor manages, becomes one other at most.
BecomesOne(K, src, r) ==
    /\ r \in DOMAIN Held \ K /\ Held[r].op \notin {"on", "wait", "manage", "cluster"}
    /\ \A x \in DOMAIN Held : ~Above(x, r) /\ (x[1] = "stack" => x \in K \/ x = r)
    /\ \A y \in DOMAIN Held' : src[y] \notin K => src[y] = r /\ Passes(Held[r], Held'[y], asked')
    /\ \A y, z \in DOMAIN Held' : src[y] = r /\ src[z] = r => y = z

LEMMA OneFollowed ==
  ASSUME IInv, NEW K, NEW src, NEW r, Keeps(Held, Held', K, src), KeepsStacks(Held, Held', K, src),
         BecomesOne(K, src, r), asked' \in {asked, asked \cup {Held[r]}}, UNCHANGED outcome
  PROVE  Followed'
<1>1. /\ r \in DOMAIN Held /\ r \notin K /\ Held[r].op \notin {"on", "wait", "manage", "cluster"}
      /\ \A x \in DOMAIN Held : ~Above(x, r) /\ (x[1] = "stack" => x \in K \/ x = r)
      /\ \A y \in DOMAIN Held' : src[y] \notin K => src[y] = r /\ Passes(Held[r], Held'[y], asked')
      /\ \A y, z \in DOMAIN Held' : src[y] = r /\ src[z] = r => y = z
  BY DEF BecomesOne
<1>2. AllFine(Held, asked) /\ Custody(Held, outcome, PrivateFutures)
  BY DEF IInv
<1>3. Comes(Held, Held', asked', src)
  <2>1. ASSUME NEW y \in DOMAIN Held', src[y] \in K PROVE Passes(Held[src[y]], Held'[y], asked')
    <3>1. src[y] \in DOMAIN Held /\ Held'[y] = Held[src[y]]
      BY <2>1 DEF Keeps
    <3> QED  BY <1>2, <3>1, StaysFine
  <2> QED  BY <1>1, <2>1 DEF Comes, Keeps
<1>4. HandsOver(Held, Held', outcome, K, src, r)
  BY <1>1 DEF HandsOver
<1>5. ASSUME PrivateFutures' \subseteq PrivateFutures
      PROVE  Custody(Held', outcome', PrivateFutures')
  <2>1. PrivateFutures \subseteq Futures
    BY Privacy
  <2>2. /\ \A y \in DOMAIN Held' : src[y] \notin K => src[y] = r
        /\ \A g \in PrivateFutures' : \A y, z \in DOMAIN Held' :
             /\ Part(Held[r], g) /\ src[y] = r /\ src[z] = r /\ y # z
             /\ CanFill(Held'[y], g) /\ CanFill(Held'[z], g)
             => Pair(Held', y, z, g) \/ Pair(Held', z, y, g)
    BY <1>1
  <2>3. Custody(Held', outcome, PrivateFutures')
    BY <1>1, <1>2, <1>3, <1>5, <2>1, <2>2, CustodyTurns
  <2> QED  BY <2>3
<1> QED  BY <1>3, <1>4, <1>5, FollowsOn

\* The dispatcher is given what the call of t makes.
LEMMA QueueFollowed ==
  ASSUME IInv, NEW t \in Threads, stack[t] # <<>>, Call(t).op \in {"run", "runAndForget"},
         Return(t, <<>>), NEW task, queued' = queued \cup {task},
         UNCHANGED <<outcome, callbacks>>, asked' \in {asked, asked \cup {Call(t)}},
         Passes(Call(t), task, asked')
  PROVE  Followed'
<1>1. PICK r, L : r = <<"stack", t, 1>> /\ L = {x \in DOMAIN Held : x[1] # "stack"}
  OBVIOUS
<1>2. Shape /\ TypeOK /\ AllFine(Held, asked)
  BY DEF IInv
<1>3. /\ r \in DOMAIN Held /\ Held[r] = Call(t)
      /\ \A x \in DOMAIN Held : ~Above(x, r)
  BY <1>1, <1>2, InnermostCall
<1>4. \A x \in DOMAIN Held : x[1] # "stack" => x \in DOMAIN Held' /\ Held'[x] = Held[x]
  BY StaysElsewhere
<1>5. Becomes(t, <<>>, L, r, <<>>)
  BY <1>1, <1>4, Tuples DEF Becomes
<1>6. PICK K, src :
        /\ Keeps(Held, Held', K, src) /\ KeepsStacks(Held, Held', K, src)
        /\ \A x \in DOMAIN Held : x \in K <=> x \in L \/ (x[1] = "stack" /\ x # r)
        /\ \A y \in DOMAIN Held' : src[y] \notin K =>
             \/ \E i \in DOMAIN <<>> : y = <<"stack", t, i>>
             \/ y[1] # "stack" /\ y \notin L /\ src[y] = r
  BY <1>2, <1>5, Replaced
<1>7. r[1] = "stack" /\ r \notin K /\ \A x \in DOMAIN Held : x = r \/ x \in K
  BY <1>1, <1>3, <1>6
<1>8. ASSUME NEW y \in DOMAIN Held', src[y] \notin K
      PROVE  src[y] = r /\ y = <<"queued", task, 1>> /\ Held'[y] = task
  <2>1. src[y] = r /\ y[1] # "stack" /\ y \notin L
    BY <1>6, <1>8, Tuples
  <2>2. y \notin DOMAIN Held
    BY <1>1, <2>1
  <2>3. Holds(Held, stack, callbacks, queued) /\ Holds(Held', stack', callbacks, queued \cup {task})
    BY HeldHolds
  <2>4. CASE \E f \in Futures, b \in BOOLEAN : \E i \in DOMAIN callbacks[f][b] :
               y = <<"callbacks", <<f, b>>, i>>
    <3>1. \A f \in Futures, b \in BOOLEAN : \A i \in DOMAIN callbacks[f][b] :
            <<"callbacks", <<f, b>>, i>> \in DOMAIN Held
      BY <2>3 DEF Holds
    <3> QED  BY <2>2, <2>4, <3>1
  <2>5. CASE \E k \in queued \cup {task} : y = <<"queued", k, 1>> /\ Held'[y] = k
    <3>1. PICK k \in queued \cup {task} : y = <<"queued", k, 1>> /\ Held'[y] = k
      BY <2>5
    <3>2. k \notin queued
      BY <2>2, <2>3, <3>1 DEF Holds
    <3> QED  BY <2>1, <3>1, <3>2
  <2>6. \/ \E f \in Futures, b \in BOOLEAN : \E i \in DOMAIN callbacks[f][b] :
             y = <<"callbacks", <<f, b>>, i>>
        \/ \E k \in queued \cup {task} : y = <<"queued", k, 1>> /\ Held'[y] = k
    BY <2>1, <2>3, Elsewhere
  <2> QED  BY <2>4, <2>5, <2>6
<1>9. BecomesOne(K, src, r)
  BY <1>3, <1>7, <1>8 DEF BecomesOne
<1> QED  BY <1>3, <1>6, <1>9, OneFollowed

\* A worker takes a task.
LEMMA TakeFollowed ==
  ASSUME IInv, NEW t \in Threads, TakeTask(t)
  PROVE  Followed'
<1>1. PICK task \in queued : queued' = queued \ {task} /\ stack' = [stack EXCEPT ![t] = <<task>>]
  BY DEF TakeTask
<1>2. PICK r : r = <<"queued", task, 1>>
  OBVIOUS
<1>3. PICK L, from : L = {x \in DOMAIN Held : x[1] # "stack" /\ x # r} /\ from = <<r>>
  OBVIOUS
<1>4. /\ Shape /\ TypeOK /\ AllFine(Held, asked) /\ stack[t] = <<>>
      /\ UNCHANGED <<outcome, callbacks, asked>>
  BY DEF IInv, TakeTask
<1>5. Holds(Held, stack, callbacks, queued) /\ Holds(Held', stack', callbacks, queued \ {task})
  BY <1>1, <1>4, HeldHolds
<1>6. r \in DOMAIN Held /\ Held[r] = task /\ r[1] = "queued" /\ Held[r].op \in {"wrapped", "forward"}
  BY <1>2, <1>4, <1>5 DEF Holds, TypeOK
<1>7. AllStacks(stack) /\ Len(stack[t]) = 0 /\ Len(<<task>>) = 1 /\ DOMAIN <<task>> = 1 .. 1
  BY <1>4 DEF Shape, AllStacks
<1>8. /\ \A u \in Threads \ {t} : stack'[u] = stack[u]
      /\ stack'[t] = <<task>>
  BY <1>1, <1>7 DEF AllStacks
<1>9. Restacked(stack, stack', t, 0, 1)
  BY <1>7, <1>8 DEF Restacked
<1>10. \A x \in DOMAIN Held : x \in Stay(Held, L, t, 0) <=> x # r
  <2>1. ASSUME NEW x \in DOMAIN Held, x[1] = "stack" PROVE (x[2] = t => x[3] > 0) /\ x # r
    <3>1. PICK u \in Threads : \E i \in DOMAIN stack[u] : x = <<"stack", u, i>>
      BY <1>5, <2>1 DEF Holds
    <3>2. PICK i \in DOMAIN stack[u] : x = <<"stack", u, i>>
      BY <3>1
    <3>3. i \in Nat \ {0}
      BY <1>4 DEF Shape
    <3> QED  BY <1>6, <2>1, <3>2, <3>3
  <2> QED  BY <1>3, <2>1 DEF Stay
<1>11. ASSUME NEW x \in L PROVE x \in DOMAIN Held' /\ Held'[x] = Held[x]
  <2>1. x \in DOMAIN Held /\ x[1] # "stack" /\ x # r
    BY <1>3
  <2>2. \/ \E f \in Futures, b \in BOOLEAN : \E i \in DOMAIN callbacks[f][b] :
             /\ x = <<"callbacks", <<f, b>>, i>>
             /\ Held[x] = [op |-> "on", from |-> f, ok |-> b, call |-> callbacks[f][b][i]]
        \/ \E k \in queued : x = <<"queued", k, 1>> /\ Held[x] = k
    BY <1>5, <2>1, Elsewhere
  <2>3. CASE \E k \in queued : x = <<"queued", k, 1>> /\ Held[x] = k
    <3>1. PICK k \in queued : x = <<"queued", k, 1>> /\ Held[x] = k
      BY <2>3
    <3>2. k \in queued \ {task}
      BY <1>2, <2>1, <3>1
    <3> QED  BY <1>5, <3>1, <3>2 DEF Holds
  <2>4. CASE \E f \in Futures, b \in BOOLEAN : \E i \in DOMAIN callbacks[f][b] :
               /\ x = <<"callbacks", <<f, b>>, i>>
               /\ Held[x] = [op |-> "on", from |-> f, ok |-> b, call |-> callbacks[f][b][i]]
    <3>1. \A f \in Futures, b \in BOOLEAN : \A i \in DOMAIN callbacks[f][b] :
            /\ <<"callbacks", <<f, b>>, i>> \in DOMAIN Held'
            /\ Held'[<<"callbacks", <<f, b>>, i>>] =
                 [op |-> "on", from |-> f, ok |-> b, call |-> callbacks[f][b][i]]
      BY <1>5 DEF Holds
    <3> QED  BY <2>4, <3>1
  <2> QED  BY <2>2, <2>3, <2>4
<1>12. Settled(Held, Held', L, r, t, 0, 1, from)
  <2>1. \A i \in 1 .. 1 : from[i] = r
    BY <1>3
  <2> QED  BY <1>3, <1>6, <1>10, <1>11, <2>1 DEF Settled
<1>13. PICK K : K = Stay(Held, L, t, 0)
  OBVIOUS
<1>14. PICK src :
         /\ Keeps(Held, Held', K, src) /\ KeepsStacks(Held, Held', K, src)
         /\ \A i \in 1 .. 1 : /\ <<"stack", t, i>> \in DOMAIN Held'
                              /\ Held'[<<"stack", t, i>>] = stack'[t][i]
                              /\ src[<<"stack", t, i>>] = from[i]
         /\ \A y \in DOMAIN Held' : src[y] \notin K =>
              \/ \E i \in 1 .. 1 : y = <<"stack", t, i>>
              \/ y[1] # "stack" /\ y \notin L /\ src[y] = r
  BY <1>5, <1>9, <1>12, <1>13, Moves
<1>15. ASSUME NEW y \in DOMAIN Held', src[y] \notin K
       PROVE  src[y] = r /\ y = <<"stack", t, 1>> /\ Held'[y] = task
  <2>1. CASE y = <<"stack", t, 1>>
    BY <1>3, <1>8, <1>14, <2>1
  <2>2. CASE y[1] # "stack" /\ y \notin L /\ src[y] = r
    <3>1. y \in DOMAIN Held /\ y # r
      <4>1. CASE \E f \in Futures, b \in BOOLEAN : \E i \in DOMAIN callbacks[f][b] :
                   y = <<"callbacks", <<f, b>>, i>>
        <5>1. \A f \in Futures, b \in BOOLEAN : \A i \in DOMAIN callbacks[f][b] :
                <<"callbacks", <<f, b>>, i>> \in DOMAIN Held
          BY <1>5 DEF Holds
        <5> QED  BY <1>6, <4>1, <5>1
      <4>2. CASE \E k \in queued \ {task} : y = <<"queued", k, 1>>
        BY <1>2, <1>5, <4>2 DEF Holds
      <4> QED  BY <1>5, <2>2, <4>1, <4>2, Elsewhere
    <3> QED  BY <1>3, <2>2, <3>1
  <2> QED  BY <1>14, <1>15, <2>1, <2>2
<1>16. Passes(Held[r], task, asked')
  BY <1>4, <1>6, StaysFine
<1>17. BecomesOne(K, src, r)
  BY <1>6, <1>10, <1>13, <1>14, <1>15, <1>16 DEF BecomesOne, Above
<1> QED  BY <1>4, <1>14, <1>17, OneFollowed

-----------------------------------------------------------------------------
(* A callback is registered *)

LEMMA NothingNew ==
  ASSUME UNCHANGED <<callbacks, queued>>, NEW y \in DOMAIN Held', y[1] # "stack"
  PROVE  y \in DOMAIN Held
<1>1. Holds(Held, stack, callbacks, queued) /\ Holds(Held', stack', callbacks, queued)
  BY HeldHolds
<1>2. \/ \E f \in Futures, b \in BOOLEAN : \E i \in DOMAIN callbacks[f][b] :
           y = <<"callbacks", <<f, b>>, i>>
      \/ \E task \in queued : y = <<"queued", task, 1>>
  BY <1>1, Elsewhere
<1>3. \A f \in Futures, b \in BOOLEAN : \A i \in DOMAIN callbacks[f][b] :
        <<"callbacks", <<f, b>>, i>> \in DOMAIN Held
  BY <1>1 DEF Holds
<1>4. \A task \in queued : <<"queued", task, 1>> \in DOMAIN Held
  BY <1>1 DEF Holds
<1> QED  BY <1>2, <1>3, <1>4

\* The call c, a registration, is filed with its future.
Files(c) == \A f \in Futures, b \in BOOLEAN : callbacks'[f][b] =
    IF f = c.from /\ b = c.ok THEN Append(callbacks[f][b], c.call) ELSE callbacks[f][b]

LEMMA FilesAtTheEnd ==
  ASSUME Shape, NEW c, Files(c)
  PROVE  \A f \in Futures, b \in BOOLEAN :
           /\ \A i \in DOMAIN callbacks[f][b] :
                i \in DOMAIN callbacks'[f][b] /\ callbacks'[f][b][i] = callbacks[f][b][i]
           /\ \A i \in DOMAIN callbacks'[f][b] \ DOMAIN callbacks[f][b] :
                /\ f = c.from /\ b = c.ok /\ i = Len(callbacks[f][b]) + 1
                /\ callbacks'[f][b][i] = c.call
<1> SUFFICES ASSUME NEW f \in Futures, NEW b \in BOOLEAN
             PROVE  /\ \A i \in DOMAIN callbacks[f][b] :
                         i \in DOMAIN callbacks'[f][b] /\ callbacks'[f][b][i] = callbacks[f][b][i]
                    /\ \A i \in DOMAIN callbacks'[f][b] \ DOMAIN callbacks[f][b] :
                         /\ f = c.from /\ b = c.ok /\ i = Len(callbacks[f][b]) + 1
                         /\ callbacks'[f][b][i] = c.call
  OBVIOUS
<1>1. PICK s : s = callbacks[f][b]
  OBVIOUS
<1>2. s \in Seq(Range(s))
  BY <1>1 DEF Shape
<1>3. /\ \A i \in DOMAIN s : i \in DOMAIN Append(s, c.call) /\ Append(s, c.call)[i] = s[i]
      /\ \A i \in DOMAIN Append(s, c.call) \ DOMAIN s :
           i = Len(s) + 1 /\ Append(s, c.call)[i] = c.call
  <2>1. PICK S : S = Range(s) \cup {c.call}
    OBVIOUS
  <2>2. s \in Seq(S) /\ c.call \in S
    BY <1>2, <2>1, SeqDef
  <2> QED  BY <2>2
<1>4. callbacks'[f][b] = IF f = c.from /\ b = c.ok THEN Append(s, c.call) ELSE s
  BY <1>1 DEF Files
<1> QED  BY <1>1, <1>3, <1>4

LEMMA RegisterCases ==
  ASSUME Shape, NEW t \in Threads, Register(t), UNCHANGED queued
  PROVE  /\ stack[t] # <<>> /\ Call(t).op = "on" /\ UNCHANGED <<outcome, asked, queued>>
         /\ \/ /\ Return(t, <<>>) /\ (UNCHANGED callbacks \/ Files(Call(t)))
            \/ /\ outcome[Call(t).from] # None /\ outcome[Call(t).from].ok = Call(t).ok
               /\ Return(t, <<Call(t).call>>) /\ UNCHANGED callbacks
<1>1. /\ stack[t] # <<>> /\ Call(t).op = "on" /\ UNCHANGED <<outcome, asked, queued>>
      /\ \/ /\ callbacks' = [callbacks EXCEPT ![Call(t).from][Call(t).ok] = Append(@, Call(t).call)]
            /\ Return(t, <<>>)
         \/ /\ outcome[Call(t).from] # None
            /\ Return(t, IF outcome[Call(t).from].ok = Call(t).ok THEN <<Call(t).call>> ELSE <<>>)
            /\ UNCHANGED callbacks
  BY DEF Register, Calls
<1>2. ASSUME callbacks' = [callbacks EXCEPT ![Call(t).from][Call(t).ok] = Append(@, Call(t).call)]
      PROVE  Files(Call(t))
  <2>1. PICK c : c = Call(t)
    OBVIOUS
  <2>2. callbacks' = [callbacks EXCEPT ![c.from][c.ok] = Append(@, c.call)]
    BY <1>2, <2>1
  <2>3. ASSUME NEW f \in Futures, NEW b \in BOOLEAN
        PROVE  callbacks'[f][b] = IF f = c.from /\ b = c.ok THEN Append(callbacks[f][b], c.call)
                                                            ELSE callbacks[f][b]
    BY <2>2 DEF Shape
  <2> QED  BY <2>1, <2>3 DEF Files
<1> QED  BY <1>1, <1>2

\* It stays what it is, wherever it goes.
LEMMA KeepsAll ==
  ASSUME NEW M, NEW N, NEW K, NEW src, NEW r, Keeps(M, N, K, src), r \in DOMAIN M,
         r[1] = "stack", r \notin K, \A x \in DOMAIN M : Before(x, r) => x[1] = "callbacks",
         \A x \in DOMAIN M : x \in K \/ x = r,
         \A y \in DOMAIN N : src[y] \notin K => y[1] = "callbacks" /\ N[y] = M[r],
         \A y, z \in DOMAIN N : src[y] = r /\ src[z] = r => y = z
  PROVE  Keeps(M, N, DOMAIN M, src)
<1>1. /\ src \in [DOMAIN N -> DOMAIN M]
      /\ \A y \in DOMAIN N : src[y] \in K =>
           N[y] = M[src[y]] /\ (src[y][1] = "callbacks" => y[1] = "callbacks")
      /\ \A y, z \in DOMAIN N : src[y] \in K /\ src[z] \in K =>
           /\ src[y] = src[z] => y = z
           /\ Before(src[y], src[z]) => Before(y, z)
  BY DEF Keeps
<1>2. \A y \in DOMAIN N : src[y] \in DOMAIN M /\ (src[y] \notin K <=> src[y] = r)
  BY <1>1
<1>3. ASSUME NEW y \in DOMAIN N
      PROVE  N[y] = M[src[y]] /\ (src[y][1] = "callbacks" => y[1] = "callbacks")
  BY <1>1, <1>2
<1>4. ASSUME NEW y \in DOMAIN N, NEW z \in DOMAIN N
      PROVE  (src[y] = src[z] => y = z) /\ (Before(src[y], src[z]) => Before(y, z))
  <2>1. CASE src[y] \in K /\ src[z] \in K
    BY <1>1, <2>1
  <2>2. CASE src[y] = r
    <3>1. Before(y, z)
      BY <1>2, <2>2 DEF Before
    <3> QED  BY <1>2, <2>2, <3>1
  <2>3. CASE src[y] \in K /\ src[z] = r
    <3>1. Before(src[y], src[z]) => Before(y, z)
      <4>1. ASSUME Before(src[y], r) PROVE y[1] = "callbacks"
        BY <1>1, <1>2, <2>3, <4>1
      <4> QED  BY <2>3, <4>1 DEF Before
    <3> QED  BY <1>2, <2>3, <3>1
  <2> QED  BY <1>2, <2>1, <2>2, <2>3
<1> QED  BY <1>1, <1>3, <1>4 DEF Keeps

LEMMA FiledFollowed ==
  ASSUME IInv, NEW t \in Threads, stack[t] # <<>>, Call(t).op = "on", Return(t, <<>>),
         UNCHANGED <<outcome, asked, queued>>, UNCHANGED callbacks \/ Files(Call(t))
  PROVE  Followed'
<1>1. PICK r, L : r = <<"stack", t, 1>> /\ L = {x \in DOMAIN Held : x[1] # "stack"}
  OBVIOUS
<1>2. Shape /\ TypeOK /\ AllFine(Held, asked) /\ Custody(Held, outcome, PrivateFutures)
  BY DEF IInv
<1>3. /\ r \in DOMAIN Held /\ Held[r] = Call(t)
      /\ \A x \in DOMAIN Held : Before(x, r) => x[1] = "callbacks"
      /\ \A x \in DOMAIN Held : ~Above(x, r)
  BY <1>1, <1>2, InnermostCall
<1>4. \A f \in Futures, b \in BOOLEAN :
        /\ \A i \in DOMAIN callbacks[f][b] :
             i \in DOMAIN callbacks'[f][b] /\ callbacks'[f][b][i] = callbacks[f][b][i]
        /\ \A i \in DOMAIN callbacks'[f][b] \ DOMAIN callbacks[f][b] :
             /\ f = Call(t).from /\ b = Call(t).ok /\ i = Len(callbacks[f][b]) + 1
             /\ callbacks'[f][b][i] = Call(t).call
  BY <1>2, FilesAtTheEnd
<1>5. \A x \in DOMAIN Held : x[1] # "stack" => x \in DOMAIN Held' /\ Held'[x] = Held[x]
  BY <1>4, StaysElsewhere
<1>6. Becomes(t, <<>>, L, r, <<>>)
  BY <1>1, <1>5, Tuples DEF Becomes
<1>7. PICK K, src :
        /\ Keeps(Held, Held', K, src) /\ KeepsStacks(Held, Held', K, src)
        /\ \A x \in DOMAIN Held : x \in K <=> x \in L \/ (x[1] = "stack" /\ x # r)
        /\ \A y \in DOMAIN Held' : src[y] \notin K =>
             \/ \E i \in DOMAIN <<>> : y = <<"stack", t, i>>
             \/ y[1] # "stack" /\ y \notin L /\ src[y] = r
  BY <1>2, <1>6, Replaced
<1>8. r[1] = "stack" /\ r \notin K /\ \A x \in DOMAIN Held : x \in K \/ x = r
  BY <1>1, <1>3, <1>7
<1>9. ASSUME NEW y \in DOMAIN Held', src[y] \notin K
      PROVE  /\ src[y] = r /\ Held'[y] = Held[r]
             /\ y = <<"callbacks", <<Call(t).from, Call(t).ok>>,
                      Len(callbacks[Call(t).from][Call(t).ok]) + 1>>
  <2>1. src[y] = r /\ y[1] # "stack" /\ y \notin L
    BY <1>7, <1>9, Tuples
  <2>2. y \notin DOMAIN Held
    BY <1>1, <2>1
  <2>3. Holds(Held, stack, callbacks, queued) /\ Holds(Held', stack', callbacks', queued)
    BY HeldHolds
  <2>4. /\ \A f \in Futures, b \in BOOLEAN : \A i \in DOMAIN callbacks[f][b] :
             <<"callbacks", <<f, b>>, i>> \in DOMAIN Held
        /\ \A task \in queued : <<"queued", task, 1>> \in DOMAIN Held
    BY <2>3 DEF Holds
  <2>5. \/ \E f \in Futures, b \in BOOLEAN : \E i \in DOMAIN callbacks'[f][b] :
             /\ y = <<"callbacks", <<f, b>>, i>>
             /\ Held'[y] = [op |-> "on", from |-> f, ok |-> b, call |-> callbacks'[f][b][i]]
        \/ \E task \in queued : y = <<"queued", task, 1>>
    BY <2>1, <2>3, Elsewhere
  <2>6. PICK f \in Futures, b \in BOOLEAN : \E i \in DOMAIN callbacks'[f][b] :
             /\ y = <<"callbacks", <<f, b>>, i>>
             /\ Held'[y] = [op |-> "on", from |-> f, ok |-> b, call |-> callbacks'[f][b][i]]
    BY <2>2, <2>4, <2>5
  <2>7. PICK i \in DOMAIN callbacks'[f][b] :
             /\ y = <<"callbacks", <<f, b>>, i>>
             /\ Held'[y] = [op |-> "on", from |-> f, ok |-> b, call |-> callbacks'[f][b][i]]
    BY <2>6
  <2>8. i \notin DOMAIN callbacks[f][b]
    BY <2>2, <2>4, <2>7
  <2>9. /\ f = Call(t).from /\ b = Call(t).ok /\ i = Len(callbacks[f][b]) + 1
        /\ callbacks'[f][b][i] = Call(t).call
    BY <1>4, <2>8
  <2>10. Fine(Held[r], asked) /\ Held[r].op = "on"
    BY <1>2, <1>3 DEF AllFine
  <2>11. Call(t) = [op |-> "on", from |-> Call(t).from, ok |-> Call(t).ok, call |-> Call(t).call]
    BY <1>3, <2>10 DEF Fine, FineOn
  <2> QED  BY <1>3, <2>1, <2>7, <2>9, <2>11
<1>10. \A y \in DOMAIN Held' : src[y] \notin K => y[1] = "callbacks" /\ Held'[y] = Held[r]
  BY <1>9
<1>11. \A y, z \in DOMAIN Held' : src[y] = r /\ src[z] = r => y = z
  BY <1>8, <1>9
<1>12. Keeps(Held, Held', DOMAIN Held, src)
  BY <1>3, <1>7, <1>8, <1>10, <1>11, KeepsAll
<1>13. /\ src \in [DOMAIN Held' -> DOMAIN Held]
       /\ \A y \in DOMAIN Held' : src[y] \in DOMAIN Held /\ Held'[y] = Held[src[y]]
  BY <1>12 DEF Keeps
<1>14. Comes(Held, Held', asked', src)
  BY <1>2, <1>13, StaysFine DEF Comes
<1>15. HandsOver(Held, Held', outcome, K, src, r)
  BY <1>3, <1>8, <1>9 DEF HandsOver
<1>16. ASSUME PrivateFutures' \subseteq PrivateFutures
       PROVE  Custody(Held', outcome', PrivateFutures')
  <2>1. PrivateFutures \subseteq Futures
    BY Privacy
  <2>2. Custody(Held', outcome, PrivateFutures')
    BY <1>2, <1>12, <1>13, <1>16, <2>1, CustodyKept
  <2> QED  BY <2>2
<1> QED  BY <1>7, <1>14, <1>15, <1>16, FollowsOn

LEMMA RunFollowed ==
  ASSUME IInv, NEW t \in Threads, stack[t] # <<>>, Call(t).op = "on",
         outcome[Call(t).from] # None, outcome[Call(t).from].ok = Call(t).ok,
         Return(t, <<Call(t).call>>), UNCHANGED <<outcome, asked, queued, callbacks>>
  PROVE  Followed'
<1>1. PICK r, L : r = <<"stack", t, 1>> /\ L = {x \in DOMAIN Held : x[1] # "stack"}
  OBVIOUS
<1>2. Shape /\ TypeOK /\ AllFine(Held, asked) /\ Custody(Held, outcome, PrivateFutures)
  BY DEF IInv
<1>3. /\ r \in DOMAIN Held /\ Held[r] = Call(t)
      /\ \A x \in DOMAIN Held : Before(x, r) => x[1] = "callbacks"
      /\ \A x \in DOMAIN Held : ~Above(x, r)
  BY <1>1, <1>2, InnermostCall
<1>4. \A x \in DOMAIN Held : x[1] # "stack" => x \in DOMAIN Held' /\ Held'[x] = Held[x]
  BY StaysElsewhere
<1>5. PICK new, from : new = <<Call(t).call>> /\ from = <<r>>
  OBVIOUS
<1>6. new \in Seq(Range(new)) /\ DOMAIN new = {1} /\ new[1] = Held[r].call /\ from[1] = r
  <2>1. new \in Seq({Call(t).call}) /\ DOMAIN new = {1}
    BY <1>5
  <2>2. Range(new) = {Call(t).call}
    BY <1>5, <2>1 DEF Range
  <2> QED  BY <1>3, <1>5, <2>1, <2>2
<1>7. Becomes(t, new, L, r, from)
  BY <1>1, <1>3, <1>4, <1>5, <1>6 DEF Becomes
<1>8. PICK K, src :
        /\ Keeps(Held, Held', K, src) /\ KeepsStacks(Held, Held', K, src)
        /\ \A x \in DOMAIN Held : x \in K <=> x \in L \/ (x[1] = "stack" /\ x # r)
        /\ \A i \in DOMAIN new : /\ <<"stack", t, i>> \in DOMAIN Held'
                                 /\ Held'[<<"stack", t, i>>] = new[i]
                                 /\ src[<<"stack", t, i>>] = from[i]
        /\ \A y \in DOMAIN Held' : src[y] \notin K =>
             \/ \E i \in DOMAIN new : y = <<"stack", t, i>>
             \/ y[1] # "stack" /\ y \notin L /\ src[y] = r
  BY <1>2, <1>7, Replaced
<1>9. r[1] = "stack" /\ r \notin K /\ \A x \in DOMAIN Held : x \in K \/ x = r
  BY <1>1, <1>3, <1>8
<1>10. ASSUME NEW y \in DOMAIN Held', src[y] \notin K
       PROVE  src[y] = r /\ y = <<"stack", t, 1>> /\ Held'[y] = Held[r].call
  <2>1. y[1] # "stack" => y \in L
    BY <1>1, NothingNew
  <2> QED  BY <1>6, <1>8, <1>10, <2>1
<1>11. FineOn(Held[r], asked) /\ Held[r].op = "on"
  BY <1>2, <1>3 DEF AllFine, Fine
<1>12. Passes(Held[r], Held[r].call, asked)
  BY <1>11, PassesToCall
<1>13. Comes(Held, Held', asked', src)
  <2>1. ASSUME NEW y \in DOMAIN Held', src[y] \in K PROVE Passes(Held[src[y]], Held'[y], asked')
    <3>1. src[y] \in DOMAIN Held /\ Held'[y] = Held[src[y]]
      BY <1>8, <2>1 DEF Keeps
    <3> QED  BY <1>2, <3>1, StaysFine
  <2> QED  BY <1>8, <1>10, <1>12, <2>1 DEF Comes, Keeps
<1>14. HandsOver(Held, Held', outcome, K, src, r)
  BY <1>3, <1>9, <1>10, <1>11 DEF HandsOver
<1>15. ASSUME PrivateFutures' \subseteq PrivateFutures
       PROVE  Custody(Held', outcome', PrivateFutures')
  <2>1. PrivateFutures \subseteq Futures /\ Filed(Held, outcome)
    BY <1>2, Privacy, FiledCallbacks
  <2>2. /\ outcome[Held[r].from] # None /\ outcome[Held[r].from].ok = Held[r].ok
        /\ \A y \in DOMAIN Held' : src[y] \notin K => src[y] = r /\ Held'[y] = Held[r].call
        /\ \A y, z \in DOMAIN Held' : src[y] = r /\ src[z] = r => y = z
    BY <1>3, <1>9, <1>10
  <2>3. Runs(Held, Held', outcome, K, src, r)
    BY <1>3, <1>9, <2>2 DEF Runs
  <2>4. Custody(Held', outcome, PrivateFutures')
    BY <1>2, <1>8, <1>11, <1>15, <2>1, <2>3, CustodyRuns
  <2> QED  BY <2>4
<1> QED  BY <1>8, <1>13, <1>14, <1>15, FollowsOn

LEMMA RegisterFollowed ==
  ASSUME IInv, NEW t \in Threads, Register(t), UNCHANGED queued
  PROVE  Followed'
<1>1. Shape
  BY DEF IInv
<1> QED  BY <1>1, RegisterCases, FiledFollowed, RunFollowed

-----------------------------------------------------------------------------
(* A promise is filled *)

\* The call of t fills f with o.
FillsWith(t, f, o) ==
    /\ t \in Threads /\ stack[t] # <<>> /\ Call(t).op \in {"fillSuccess", "fillFailure"}
    /\ f \in Futures /\ f = Call(t).to /\ outcome[f] = None
    /\ o.ok \in BOOLEAN /\ DOMAIN o = {"ok", "is"} /\ o # None
    /\ outcome' = [outcome EXCEPT ![f] = o]
    /\ callbacks' = [callbacks EXCEPT ![f] = NoCallbacks]
    /\ Return(t, callbacks[f][o.ok]) /\ UNCHANGED <<asked, queued>>

LEMMA FillCases ==
  ASSUME NEW t \in Threads, FillSuccess(t) \/ FillFailure(t), UNCHANGED queued,
         Fine(Call(t), asked), outcome[Call(t).to] = None
  PROVE  \E f, o : FillsWith(t, f, o)
<1>1. PICK o : /\ o \in {Success(Call(t).value), Failure(lastFailure[t]), Failure(Call(t).reason)}
               /\ Fill(t, Call(t).to, o)
  BY DEF FillSuccess, FillFailure
<1>2. o.ok \in BOOLEAN /\ DOMAIN o = {"ok", "is"} /\ o # None
  <2>1. ASSUME NEW b \in BOOLEAN, NEW v, o = [ok |-> b, is |-> v]
        PROVE  o.ok \in BOOLEAN /\ DOMAIN o = {"ok", "is"}
    BY <2>1
  <2>2. o.ok \in BOOLEAN /\ DOMAIN o = {"ok", "is"}
    BY <1>1, <2>1 DEF Success, Failure
  <2>3. DOMAIN None = {}
    BY Tuples DEF None
  <2> QED  BY <2>2, <2>3
<1>3. stack[t] # <<>> /\ Call(t).op \in {"fillSuccess", "fillFailure"} /\ UNCHANGED <<asked, queued>>
  BY DEF FillSuccess, FillFailure, Calls
<1>4. Call(t).to \in Futures
  BY <1>3 DEF Fine, FinePlain, ClientOps, IsClientCall
<1>5. /\ outcome' = [outcome EXCEPT ![Call(t).to] = o]
      /\ callbacks' = [callbacks EXCEPT ![Call(t).to] = NoCallbacks]
      /\ Return(t, callbacks[Call(t).to][o.ok])
  BY <1>1 DEF Fill
<1> QED  BY <1>2, <1>3, <1>4, <1>5 DEF FillsWith

\* The lists of f are emptied.
Empties(f) == \A g \in Futures, b \in BOOLEAN :
    /\ g # f => callbacks'[g][b] = callbacks[g][b]
    /\ g = f => DOMAIN callbacks'[g][b] = {}

LEMMA FilledLists ==
  ASSUME Shape, NEW f \in Futures, callbacks' = [callbacks EXCEPT ![f] = NoCallbacks]
  PROVE  Empties(f)
<1>1. \A b \in BOOLEAN : DOMAIN NoCallbacks[b] = {}
  BY Tuples DEF NoCallbacks
<1> QED  BY <1>1 DEF Shape, Empties

\* What stays where it is when f is filled.
LEMMA FillLeaves ==
  ASSUME NEW f \in Futures, Empties(f), UNCHANGED queued, NEW L,
         L = {x \in DOMAIN Held : x[1] # "stack" /\ ~(x[1] = "callbacks" /\ x[2][1] = f)}
  PROVE  /\ \A x \in L : x \in DOMAIN Held' /\ Held'[x] = Held[x]
         /\ \A y \in DOMAIN Held' : y[1] # "stack" => y \in L
<1>1. Holds(Held, stack, callbacks, queued) /\ Holds(Held', stack', callbacks', queued)
  BY HeldHolds
<1>2. \A g \in Futures, b \in BOOLEAN :
        /\ g # f => callbacks'[g][b] = callbacks[g][b]
        /\ g = f => DOMAIN callbacks'[g][b] = {}
  BY DEF Empties
<1>3. /\ \A g \in Futures, b \in BOOLEAN : \A i \in DOMAIN callbacks[g][b] :
           <<"callbacks", <<g, b>>, i>> \in DOMAIN Held
      /\ \A task \in queued : <<"queued", task, 1>> \in DOMAIN Held
  BY <1>1 DEF Holds
<1>4. /\ \A g \in Futures, b \in BOOLEAN : \A i \in DOMAIN callbacks'[g][b] :
           /\ <<"callbacks", <<g, b>>, i>> \in DOMAIN Held'
           /\ Held'[<<"callbacks", <<g, b>>, i>>] =
                [op |-> "on", from |-> g, ok |-> b, call |-> callbacks'[g][b][i]]
      /\ \A task \in queued : /\ <<"queued", task, 1>> \in DOMAIN Held'
                              /\ Held'[<<"queued", task, 1>>] = task
  BY <1>1 DEF Holds
<1>5. ASSUME NEW x \in L PROVE x \in DOMAIN Held' /\ Held'[x] = Held[x]
  <2>1. x \in DOMAIN Held /\ x[1] # "stack" /\ ~(x[1] = "callbacks" /\ x[2][1] = f)
    BY <1>5
  <2>2. CASE \E g \in Futures, b \in BOOLEAN : \E i \in DOMAIN callbacks[g][b] :
               /\ x = <<"callbacks", <<g, b>>, i>>
               /\ Held[x] = [op |-> "on", from |-> g, ok |-> b, call |-> callbacks[g][b][i]]
    <3>1. PICK g \in Futures, b \in BOOLEAN : \E i \in DOMAIN callbacks[g][b] :
               /\ x = <<"callbacks", <<g, b>>, i>>
               /\ Held[x] = [op |-> "on", from |-> g, ok |-> b, call |-> callbacks[g][b][i]]
      BY <2>2
    <3>2. g # f
      BY <2>1, <3>1
    <3> QED  BY <1>2, <1>4, <3>1, <3>2
  <2>3. CASE \E task \in queued : x = <<"queued", task, 1>> /\ Held[x] = task
    BY <1>4, <2>3
  <2> QED  BY <1>1, <2>1, <2>2, <2>3, Elsewhere
<1>6. ASSUME NEW y \in DOMAIN Held', y[1] # "stack" PROVE y \in L
  <2>1. CASE \E g \in Futures, b \in BOOLEAN : \E i \in DOMAIN callbacks'[g][b] :
               y = <<"callbacks", <<g, b>>, i>>
    <3>1. PICK g \in Futures, b \in BOOLEAN : \E i \in DOMAIN callbacks'[g][b] :
               y = <<"callbacks", <<g, b>>, i>>
      BY <2>1
    <3>2. g # f
      BY <1>2, <3>1
    <3>3. y \in DOMAIN Held
      BY <1>2, <1>3, <3>1, <3>2
    <3> QED  BY <3>1, <3>2, <3>3
  <2>2. CASE \E task \in queued : y = <<"queued", task, 1>>
    BY <1>3, <2>2
  <2>3. Holds(Held', stack', callbacks', queued)
    BY <1>1
  <2>4. \/ \E g \in Futures, b \in BOOLEAN : \E i \in DOMAIN callbacks'[g][b] :
             /\ y = <<"callbacks", <<g, b>>, i>>
             /\ Held'[y] = [op |-> "on", from |-> g, ok |-> b, call |-> callbacks'[g][b][i]]
        \/ \E task \in queued : y = <<"queued", task, 1>>
    BY <1>6, <2>3, Elsewhere
  <2> QED  BY <2>1, <2>2, <2>4
<1> QED  BY <1>5, <1>6

\* The callbacks of f for b are what the call of t becomes, and nothing else moves.
Woken(t, f, b, K, src) ==
    /\ \A x \in DOMAIN Held : x \in K <=>
         IF x[1] = "stack" THEN x # <<"stack", t, 1>> ELSE ~(x[1] = "callbacks" /\ x[2][1] = f)
    /\ \A y \in DOMAIN Held' : src[y] \notin K =>
         \E i \in DOMAIN callbacks[f][b] :
            /\ y = <<"stack", t, i>> /\ src[y] = <<"callbacks", <<f, b>>, i>>
            /\ Held'[y] = callbacks[f][b][i]
            /\ Held[src[y]] = [op |-> "on", from |-> f, ok |-> b, call |-> callbacks[f][b][i]]

LEMMA Wakes ==
  ASSUME Shape, NEW t \in Threads, stack[t] # <<>>, NEW f \in Futures, NEW b \in BOOLEAN,
         Empties(f), UNCHANGED queued, Return(t, callbacks[f][b])
  PROVE  \E K, src :
           /\ Keeps(Held, Held', K, src) /\ KeepsStacks(Held, Held', K, src)
           /\ Woken(t, f, b, K, src)
<1>1. PICK new : new = callbacks[f][b]
  OBVIOUS
<1>2. PICK from : from = [i \in DOMAIN new |-> <<"callbacks", <<f, b>>, i>>]
  OBVIOUS
<1>0. PICK r, L : /\ r = <<"stack", t, 1>>
                  /\ L = {x \in DOMAIN Held :
                            x[1] # "stack" /\ ~(x[1] = "callbacks" /\ x[2][1] = f)}
  OBVIOUS
<1>3. \A x \in L : x \in DOMAIN Held' /\ Held'[x] = Held[x] /\ x \in DOMAIN Held /\ x[1] # "stack"
  BY <1>0, FillLeaves
<1>4. \A y \in DOMAIN Held' : y[1] # "stack" => y \in L
  BY <1>0, FillLeaves
<1>5. new \in Seq(Range(new))
  BY <1>1 DEF Shape
<1>6. \A i \in DOMAIN new :
        /\ from[i] = <<"callbacks", <<f, b>>, i>> /\ from[i] \in DOMAIN Held
        /\ Held[from[i]] = [op |-> "on", from |-> f, ok |-> b, call |-> new[i]]
  <2>1. \A i \in DOMAIN callbacks[f][b] :
          /\ <<"callbacks", <<f, b>>, i>> \in DOMAIN Held
          /\ Held[<<"callbacks", <<f, b>>, i>>] =
               [op |-> "on", from |-> f, ok |-> b, call |-> callbacks[f][b][i]]
    BY HeldHolds DEF Holds
  <2> QED  BY <1>1, <1>2, <2>1
<1>7. \A i \in DOMAIN new : from[i][1] # "stack" /\ from[i] \notin L
  <2>1. ASSUME NEW i \in DOMAIN new PROVE from[i][1] = "callbacks" /\ from[i][2][1] = f
    <3>1. PICK z : z = <<"callbacks", <<f, b>>, i>>
      OBVIOUS
    <3>2. z[1] = "callbacks" /\ z[2][1] = f
      BY <3>1
    <3> QED  BY <1>6, <3>1, <3>2
  <2> QED  BY <1>0, <2>1
<1>8. Return(t, new)
  BY <1>1
<1>9. Becomes(t, new, L, r, from)
  BY <1>0, <1>3, <1>5, <1>6, <1>7, <1>8 DEF Becomes
<1>10. PICK K, src :
        /\ Keeps(Held, Held', K, src) /\ KeepsStacks(Held, Held', K, src)
        /\ \A x \in DOMAIN Held : x \in K <=> x \in L \/ (x[1] = "stack" /\ x # r)
        /\ \A i \in DOMAIN new : /\ <<"stack", t, i>> \in DOMAIN Held'
                                 /\ Held'[<<"stack", t, i>>] = new[i]
                                 /\ src[<<"stack", t, i>>] = from[i]
        /\ \A y \in DOMAIN Held' : src[y] \notin K =>
             \/ \E i \in DOMAIN new : y = <<"stack", t, i>>
             \/ y[1] # "stack" /\ y \notin L /\ src[y] = r
  BY <1>9, Replaced
<1>11. ASSUME NEW y \in DOMAIN Held', src[y] \notin K
       PROVE  \E i \in DOMAIN new :
                /\ y = <<"stack", t, i>> /\ src[y] = <<"callbacks", <<f, b>>, i>>
                /\ Held'[y] = new[i]
                /\ Held[src[y]] = [op |-> "on", from |-> f, ok |-> b, call |-> new[i]]
  <2>1. PICK i \in DOMAIN new : y = <<"stack", t, i>>
    BY <1>4, <1>10, <1>11
  <2>2. Held'[y] = new[i] /\ src[y] = from[i]
    BY <1>10, <2>1
  <2> QED  BY <1>6, <2>1, <2>2
<1>12. ASSUME NEW x \in DOMAIN Held
       PROVE  x \in K <=> IF x[1] = "stack" THEN x # <<"stack", t, 1>>
                                            ELSE ~(x[1] = "callbacks" /\ x[2][1] = f)
  BY <1>0, <1>10
<1>13. Woken(t, f, b, K, src)
  BY <1>1, <1>11, <1>12 DEF Woken
<1> QED  BY <1>10, <1>13

LEMMA FillFollowed ==
  ASSUME IInv, NEW t, NEW f, NEW o, FillsWith(t, f, o)
  PROVE  Followed'
<1>1. PICK r : r = <<"stack", t, 1>>
  OBVIOUS
<1>2. Shape /\ TypeOK /\ AllFine(Held, asked) /\ Custody(Held, outcome, PrivateFutures)
  BY DEF IInv
<1>3. /\ t \in Threads /\ stack[t] # <<>> /\ Call(t).op \in {"fillSuccess", "fillFailure"}
      /\ f \in Futures /\ f = Call(t).to /\ outcome[f] = None /\ o.ok \in BOOLEAN /\ o # None
      /\ outcome' = [outcome EXCEPT ![f] = o] /\ UNCHANGED <<asked, queued>>
      /\ Return(t, callbacks[f][o.ok])
  BY DEF FillsWith
<1>4. Empties(f)
  BY <1>2, FilledLists DEF FillsWith
<1>5. /\ r \in DOMAIN Held /\ Held[r] = Call(t) /\ r[1] = "stack"
      /\ \A x \in DOMAIN Held : ~Above(x, r)
  BY <1>1, <1>2, <1>3, InnermostCall
<1>6. PICK b : b = o.ok
  OBVIOUS
<1>0. PICK K, src :
           /\ Keeps(Held, Held', K, src) /\ KeepsStacks(Held, Held', K, src)
           /\ Woken(t, f, b, K, src)
  <2>1. /\ Shape /\ t \in Threads /\ stack[t] # <<>> /\ f \in Futures /\ b \in BOOLEAN
        /\ Empties(f) /\ UNCHANGED queued /\ Return(t, callbacks[f][b])
    BY <1>2, <1>3, <1>4, <1>6
  <2> QED  BY <2>1, Wakes
<1>7. /\ Keeps(Held, Held', K, src) /\ KeepsStacks(Held, Held', K, src)
      /\ \A x \in DOMAIN Held : x \in K <=>
           IF x[1] = "stack" THEN x # <<"stack", t, 1>> ELSE ~(x[1] = "callbacks" /\ x[2][1] = f)
      /\ \A y \in DOMAIN Held' : src[y] \notin K =>
           \E i \in DOMAIN callbacks[f][b] :
              /\ y = <<"stack", t, i>> /\ src[y] = <<"callbacks", <<f, b>>, i>>
              /\ Held'[y] = callbacks[f][b][i]
              /\ Held[src[y]] = [op |-> "on", from |-> f, ok |-> b, call |-> callbacks[f][b][i]]
  BY <1>0 DEF Woken
<1>8. ASSUME NEW y \in DOMAIN Held', src[y] \notin K
      PROVE  /\ src[y] \in DOMAIN Held /\ Held[src[y]].op = "on"
             /\ src[y][1] = "callbacks" /\ src[y][2] = <<f, b>>
             /\ Held'[y] = Held[src[y]].call /\ y = <<"stack", t, src[y][3]>>
  <2>1. PICK i \in DOMAIN callbacks[f][b] :
                   /\ y = <<"stack", t, i>> /\ src[y] = <<"callbacks", <<f, b>>, i>>
                   /\ Held'[y] = callbacks[f][b][i]
                   /\ Held[src[y]] = [op |-> "on", from |-> f, ok |-> b, call |-> callbacks[f][b][i]]
    BY <1>7, <1>8
  <2>2. src[y] \in DOMAIN Held
    BY <1>7 DEF Keeps
  <2> QED  BY <2>1, <2>2
<1>9. r \notin K /\ \A x \in DOMAIN Held : x[1] = "stack" => x \in K \/ x = r
  BY <1>1, <1>5, <1>7
<1>10. \A x \in K : x[1] = "callbacks" => x[2][1] # f
  <2>1. ASSUME NEW x \in K, x[1] = "callbacks" PROVE x[2][1] # f
    <3>1. x \in DOMAIN Held
      BY <1>7 DEF Keeps
    <3> QED  BY <1>1, <1>7, <2>1, <3>1
  <2> QED  BY <2>1
<1>11. /\ Held[r].op \in {"fillSuccess", "fillFailure"}
       /\ \A g \in Futures : CanFill(Held[r], g) <=> g = f
  <2>1. Fine(Call(t), asked)
    BY <1>2, <1>5 DEF AllFine
  <2>2. "op" \in DOMAIN Call(t)
    BY <1>3, <2>1 DEF Fine, FinePlain
  <2>3. \A g \in Futures : CanFill(Call(t), g) <=> g = Call(t).to
    BY <1>3, <2>2, TargetCall DEF TargetOps
  <2> QED  BY <1>3, <1>5, <2>3
<1>12. Comes(Held, Held', asked', src)
  <2>1. ASSUME NEW y \in DOMAIN Held' PROVE Passes(Held[src[y]], Held'[y], asked')
    <3>1. CASE src[y] \in K
      <4>1. src[y] \in DOMAIN Held /\ Held'[y] = Held[src[y]]
        BY <1>7, <3>1 DEF Keeps
      <4> QED  BY <1>2, <1>3, <4>1, StaysFine
    <3>2. CASE src[y] \notin K
      <4>1. src[y] \in DOMAIN Held /\ Held[src[y]].op = "on" /\ Held'[y] = Held[src[y]].call
        BY <1>8, <3>2
      <4>2. FineOn(Held[src[y]], asked)
        BY <1>2, <4>1 DEF AllFine, Fine
      <4>3. Passes(Held[src[y]], Held[src[y]].call, asked)
        BY <4>2, PassesToCall
      <4> QED  BY <1>3, <4>1, <4>3
    <3> QED  BY <3>1, <3>2
  <2> QED  BY <1>7, <2>1 DEF Comes, Keeps
<1>13. HandsOver(Held, Held', outcome, K, src, r)
  BY <1>5, <1>8, <1>9, <1>11 DEF HandsOver
<1>14. Fulfils(Held, Held', outcome, outcome', K, src, r, f, o)
  <2>1. ASSUME NEW y \in DOMAIN Held', NEW z \in DOMAIN Held', src[y] \notin K, src[z] \notin K,
               src[y] = src[z]
        PROVE  y = z
    BY <1>8, <2>1
  <2>2. Held[r].op # "on" /\ DOMAIN outcome = Futures
    BY <1>2, <1>11 DEF Shape
  <2> QED  BY <1>3, <1>5, <1>6, <1>8, <1>9, <1>10, <1>11, <2>1, <2>2 DEF Fulfils
<1>15. ASSUME PrivateFutures' \subseteq PrivateFutures
       PROVE  Custody(Held', outcome', PrivateFutures')
  <2>1. PrivateFutures \subseteq Futures /\ Filed(Held, outcome)
    BY <1>2, Privacy, FiledCallbacks
  <2> QED  BY <1>2, <1>7, <1>14, <1>15, <2>1, CustodyFills
<1>16. asked' \in {asked, asked \cup {Held[r]}}
  BY <1>3
<1> QED  BY <1>7, <1>12, <1>13, <1>15, <1>16, FollowsOn

-----------------------------------------------------------------------------
(* The dispatcher is given a task *)

LEMMA PassesToWrapped ==
  ASSUME NEW c, NEW A, c.op = "run", Fine(c, A)
  PROVE  Passes(c, wrapped(c), A)
<1>1. PICK k : k = wrapped(c)
  OBVIOUS
<1>2. /\ Fine(k, A) /\ Private(k) = {}
      /\ \A g \in Futures :
           ~Guards(k, g) /\ (CanFill(k, g) <=> CanFill(c, g)) /\ (Part(k, g) <=> Part(c, g))
  BY <1>1, WrappedCall
<1>3. BodyOf(k) = BodyOf(c)
  BY <1>1 DEF BodyOf, wrapped
<1>4. \A d, g : IsJob(k, d, g) => IsJob(c, d, g)
  BY <1>3 DEF IsJob
<1> QED  BY <1>1, <1>2, <1>4 DEF Passes

LEMMA PassesToTask ==
  ASSUME NEW c, NEW A, c.op = "runAndForget", Fine(c, A)
  PROVE  Passes(c, c.task, A) /\ c.task.op = "forward"
<1>1. PICK k : k = c.task
  OBVIOUS
<1>2. "op" \in DOMAIN c /\ "op" \in DOMAIN k /\ k.op = "forward" /\ k.to \in Futures
  BY <1>1 DEF Fine, FinePlain
<1>3. /\ Fine(k, A) /\ Private(k) = {}
      /\ \A g \in Futures : CanFill(k, g) <=> g = k.to
  BY <1>2, TargetCall DEF TargetOps
<1>4. ASSUME NEW g \in Futures, CanFill(k, g) PROVE CanFill(c, g) /\ ~Part(c, g)
  <2>1. CanFill(c, g)
    BY <1>1, <1>2, <1>3, <1>4 DEF CanFill, CanFillPlain
  <2>2. ~Part(c, g)
    BY DEF Part, PlainPart, Iterating
  <2> QED  BY <2>1, <2>2
<1>5. \A d, g : ~IsJob(k, d, g)
  BY <1>2 DEF IsJob, BodyOf
<1> QED  BY <1>1, <1>2, <1>3, <1>4, <1>5 DEF Passes

LEMMA RunTaskFollowed ==
  ASSUME IInv, NEW t \in Threads, RunTask(t), Fine(Call(t), asked)
  PROVE  Followed'
<1>1. /\ stack[t] # <<>> /\ Call(t).op = "run" /\ Return(t, <<>>)
      /\ queued' = queued \cup {wrapped(Call(t))} /\ UNCHANGED <<outcome, callbacks>>
      /\ asked' = asked \cup {Call(t)}
  BY DEF RunTask, Calls, Ask
<1>2. Fine(Call(t), asked')
  BY <1>1, FineGrows
<1>3. Passes(Call(t), wrapped(Call(t)), asked')
  BY <1>1, <1>2, PassesToWrapped
<1> QED  BY <1>1, <1>3, QueueFollowed

LEMMA RunAndForgetFollowed ==
  ASSUME IInv, NEW t \in Threads, RunAndForget(t), Fine(Call(t), asked)
  PROVE  Followed'
<1>1. /\ stack[t] # <<>> /\ Call(t).op = "runAndForget" /\ Return(t, <<>>)
      /\ queued' = queued \cup {Call(t).task} /\ UNCHANGED <<outcome, callbacks, asked>>
  BY DEF RunAndForget, Calls
<1>2. Passes(Call(t), Call(t).task, asked')
  BY <1>1, PassesToTask
<1> QED  BY <1>1, <1>2, QueueFollowed

-----------------------------------------------------------------------------
(* Every step *)

\* Results of clusters are written for those who asked for them.
CellsKept == /\ DOMAIN cells' = DOMAIN cells
             /\ \A f \in Futures : \/ cells'[f] = cells[f]
                                   \/ \E c \in asked : c.op = "clusteredRun" /\ c.to = f

LEMMA ManageCells ==
  ASSUME Shape, NEW t \in Threads, Manage(t) \/ ClusterElement(t), Fine(Call(t), asked)
  PROVE  CellsKept
<1>1. PICK c : c = Call(t).of
  OBVIOUS
<1>2. c \in asked /\ c.op = "clusteredRun"
  <2>1. Call(t).op \in {"manage", "cluster"}
    BY DEF Manage, ClusterElement, Calls
  <2>2. FinePlain(Call(t), asked)
    BY <2>1 DEF Fine
  <2>3. FineManager(Call(t).of, asked)
    BY <2>1, <2>2 DEF FinePlain, FineCluster
  <2> QED  BY <1>1, <2>3 DEF FineManager
<1>3. \E v : cells' = [cells EXCEPT ![c.to] = v]
  <2>1. CASE Manage(t)
    BY <1>1, <2>1 DEF Manage
  <2>2. CASE ClusterElement(t)
    BY <1>1, <2>2 DEF ClusterElement
  <2> QED  BY <2>1, <2>2
<1> QED  BY <1>2, <1>3 DEF CellsKept, Shape

\* What a step of t is: its call turns into others, or fills, or registers, or
\* a task is given or taken.
LEMMA StepKinds ==
  ASSUME IInv, NEW t \in Threads, Step(t)
  PROVE  \/ TurnStep(t) /\ CellsKept
         \/ (\E f, o : FillsWith(t, f, o)) /\ UNCHANGED cells
         \/ Register(t) /\ UNCHANGED <<queued, cells>>
         \/ stack[t] # <<>> /\ Fine(Call(t), asked) /\ RunTask(t) /\ UNCHANGED cells
         \/ stack[t] # <<>> /\ Fine(Call(t), asked) /\ RunAndForget(t) /\ UNCHANGED cells
         \/ TakeTask(t) /\ UNCHANGED cells
<1>1. ASSUME stack[t] # <<>> PROVE Fine(Call(t), asked)
  <2>1. PICK r : r = <<"stack", t, 1>>
    OBVIOUS
  <2>2. r \in DOMAIN Held /\ Held[r] = Call(t)
    BY <1>1, <2>1, InnermostCall DEF IInv
  <2> QED  BY <2>2 DEF IInv, AllFine
<1>2. UNCHANGED cells => CellsKept
  BY DEF CellsKept
<1>3. ASSUME CallbackStep(t), UNCHANGED <<queued, cells>>
      PROVE  \/ TurnStep(t) /\ UNCHANGED cells
             \/ (\E f, o : FillsWith(t, f, o)) /\ UNCHANGED cells
             \/ Register(t) /\ UNCHANGED <<queued, cells>>
  <2>1. CASE FillSuccess(t) \/ FillFailure(t)
    <3>1. stack[t] # <<>>
      BY <2>1 DEF FillSuccess, FillFailure, Calls
    <3>2. CASE outcome[Call(t).to] # None
      BY <1>3, <2>1, <3>2, FillTurns
    <3>3. CASE outcome[Call(t).to] = None
      BY <1>1, <1>3, <2>1, <3>1, <3>3, FillCases
    <3> QED  BY <3>2, <3>3
  <2>2. CASE Forward(t)
    <3>1. stack[t] # <<>>
      BY <2>2 DEF Forward, Calls
    <3> QED  BY <1>1, <1>3, <2>2, <3>1, ForwardTurns
  <2>3. CASE Register(t)
    BY <1>3, <2>3
  <2>4. CASE Wait(t)
    BY <1>3, <2>4, WaitTurns
  <2> QED  BY <1>3, <2>1, <2>2, <2>3, <2>4 DEF CallbackStep
<1>4. ASSUME MorphismStep(t), UNCHANGED queued PROVE TurnStep(t)
  <2>1. stack[t] # <<>>
    BY <1>4 DEF MorphismStep, Morph, Apply, ZipHead, ZipTail, Calls
  <2>2. Fine(Call(t), asked)
    BY <1>1, <2>1
  <2> QED  BY <1>4, <2>2, MorphTurns, ApplyTurns, ZipHeadTurns, ZipTailTurns DEF MorphismStep
<1>5. ASSUME SequenceStep(t), UNCHANGED queued PROVE TurnStep(t)
  <2>1. stack[t] # <<>>
    BY <1>5 DEF SequenceStep, StartSequence, SequenceEnd, SequencePass, SequenceWait, Calls
  <2>2. Fine(Call(t), asked)
    BY <1>1, <2>1
  <2> QED  BY <1>5, <2>2, StartSequenceTurns, SequenceTurns DEF SequenceStep
<1>6. ASSUME TaskStep(t)
      PROVE  \/ TurnStep(t)
             \/ stack[t] # <<>> /\ Fine(Call(t), asked) /\ RunTask(t)
             \/ stack[t] # <<>> /\ Fine(Call(t), asked) /\ RunAndForget(t)
             \/ TakeTask(t)
  <2>1. TakeTask(t) \/ stack[t] # <<>>
    BY <1>6 DEF TaskStep, RunTask, RunAndForget, RunAll, Wrapped, Cancel, Trampoline, Calls
  <2>2. TakeTask(t) \/ (stack[t] # <<>> /\ Fine(Call(t), asked))
    BY <1>1, <2>1
  <2> QED  BY <1>6, <2>2, RunAllTurns, WrappedTurns, CancelTurns, TrampolineTurns DEF TaskStep
<1>7. ASSUME RepeatStep(t) PROVE TurnStep(t)
  <2>1. stack[t] # <<>>
    BY <1>7 DEF RepeatStep, RepeatData, RepeatFuture, NextStep, RepeatForSequence,
                RepeaterElement, RepeaterEnd, RepeaterResume, Calls
  <2>2. Fine(Call(t), asked)
    BY <1>1, <2>1
  <2> QED  BY <1>7, <2>2, RepeatDataTurns, RepeatFutureTurns, NextStepTurns,
              RepeatForSequenceTurns, RepeaterTurns DEF RepeatStep
<1>8. ASSUME ClusterStep(t) PROVE TurnStep(t) /\ CellsKept
  <2>1. stack[t] # <<>>
    BY <1>8 DEF ClusterStep, StartClusteredRun, Manage, ClusterElement, ClusterThrow, ClusterEnd,
                Conclude, Calls
  <2>2. Fine(Call(t), asked) /\ Shape
    BY <1>1, <2>1 DEF IInv
  <2>3. TurnStep(t)
    BY <1>8, <2>2, StartClusteredRunTurns, ManageTurns, ClusterTurns, ConcludeTurns DEF ClusterStep
  <2>4. CASE Manage(t) \/ ClusterElement(t)
    BY <2>2, <2>3, <2>4, ManageCells
  <2>5. CASE ~(Manage(t) \/ ClusterElement(t))
    <3>1. UNCHANGED cells
      BY <1>8, <2>5 DEF ClusterStep, StartClusteredRun, ClusterThrow, ClusterEnd, Conclude
    <3> QED  BY <1>2, <2>3, <3>1
  <2> QED  BY <2>4, <2>5
<1> QED  BY <1>2, <1>3, <1>4, <1>5, <1>6, <1>7, <1>8 DEF Step

LEMMA StepFollowed ==
  ASSUME IInv, NEW t \in Threads, Step(t)
  PROVE  Followed'
BY StepKinds, TurnFollowed, FillFollowed, RegisterFollowed, RunTaskFollowed,
   RunAndForgetFollowed, TakeFollowed

LEMMA OfItsOwn ==
  ASSUME NEW S, NEW s \in Seq(S)
  PROVE  s \in Seq(Range(s))
<1>1. PICK n \in Nat : n = Len(s)
  OBVIOUS
<1>2. DOMAIN s = 1 .. n /\ s = [i \in 1 .. n |-> s[i]]
  BY <1>1
<1>3. \A i \in 1 .. n : s[i] \in Range(s)
  BY <1>2 DEF Range
<1>4. s \in [1 .. n -> Range(s)]
  BY <1>2, <1>3
<1> QED  BY <1>4, ASequence

LEMMA ReturnStacks ==
  ASSUME Shape, NEW t \in Threads, stack[t] # <<>>, NEW new, new \in Seq(Range(new)),
         Return(t, new)
  PROVE  AllStacks(stack')
<1>1. stack[t] \in Seq(Range(stack[t])) /\ DOMAIN stack = Threads
      /\ \A u \in Threads : stack[u] \in Seq(Range(stack[u]))
  BY DEF Shape
<1>2. PICK s : s = new \o Tail(stack[t])
  OBVIOUS
<1>3. s \in Seq(Range(s))
  <2>1. PICK a : a = Tail(stack[t])
    OBVIOUS
  <2>2. a \in Seq(Range(stack[t]))
    BY <1>1, <2>1
  <2>3. PICK S : S = Range(new) \cup Range(stack[t])
    OBVIOUS
  <2>4. new \in Seq(S) /\ a \in Seq(S)
    BY <2>2, <2>3, SeqDef
  <2>5. s \in Seq(S)
    BY <1>2, <2>1, <2>4
  <2> QED  BY <2>5, OfItsOwn
<1>4. stack' = [stack EXCEPT ![t] = s]
  BY <1>2 DEF Return
<1> QED  BY <1>1, <1>3, <1>4 DEF AllStacks

\* The list a callback is filed in is that of a future that is not filled.
LEMMA RegisterLists ==
  ASSUME Shape, NEW t \in Threads, Register(t)
  PROVE  /\ DOMAIN callbacks' = Futures
         /\ \A f \in Futures, ok \in BOOLEAN :
              DOMAIN callbacks'[f] = BOOLEAN /\ callbacks'[f][ok] \in Seq(Range(callbacks'[f][ok]))
         /\ \A f \in Futures : callbacks'[f] = callbacks[f] \/ outcome[f] = None
<1>1. PICK c : c = Call(t)
  OBVIOUS
<1>2. /\ DOMAIN callbacks = Futures
      /\ \A f \in Futures, ok \in BOOLEAN :
           DOMAIN callbacks[f] = BOOLEAN /\ callbacks[f][ok] \in Seq(Range(callbacks[f][ok]))
  BY DEF Shape
<1>3. CASE UNCHANGED callbacks
  BY <1>2, <1>3
<1>4. CASE outcome[c.from] = None
           /\ callbacks' = [callbacks EXCEPT ![c.from][c.ok] = Append(callbacks[c.from][c.ok], c.call)]
  <2>1. /\ DOMAIN callbacks' = Futures
        /\ \A f \in Futures : f # c.from => callbacks'[f] = callbacks[f]
        /\ c.from \in Futures => callbacks'[c.from] =
             [callbacks[c.from] EXCEPT ![c.ok] = Append(callbacks[c.from][c.ok], c.call)]
    BY <1>2, <1>4
  <2>2. ASSUME NEW s, s \in Seq(Range(s)) PROVE Append(s, c.call) \in Seq(Range(Append(s, c.call)))
    <3>1. PICK S : S = Range(s) \cup {c.call}
      OBVIOUS
    <3>2. s \in Seq(S) /\ c.call \in S
      BY <2>2, <3>1, SeqDef
    <3>3. Append(s, c.call) \in Seq(S)
      BY <3>2
    <3> QED  BY <3>3, OfItsOwn
  <2>3. ASSUME NEW f \in Futures, NEW ok \in BOOLEAN
        PROVE  DOMAIN callbacks'[f] = BOOLEAN /\ callbacks'[f][ok] \in Seq(Range(callbacks'[f][ok]))
    <3>1. CASE f # c.from
      BY <1>2, <2>1, <3>1
    <3>2. CASE f = c.from
      <4>1. PICK l : l = callbacks[f]
        OBVIOUS
      <4>2. callbacks'[f] = [l EXCEPT ![c.ok] = Append(l[c.ok], c.call)]
        BY <2>1, <3>2, <4>1
      <4>3. DOMAIN l = BOOLEAN /\ \A b \in BOOLEAN : l[b] \in Seq(Range(l[b]))
        BY <1>2, <4>1
      <4>4. DOMAIN callbacks'[f] = BOOLEAN
        BY <4>2, <4>3
      <4>5. callbacks'[f][ok] = IF ok = c.ok THEN Append(l[ok], c.call) ELSE l[ok]
        BY <4>2, <4>3
      <4> QED  BY <2>2, <4>3, <4>4, <4>5
    <3> QED  BY <3>1, <3>2
  <2> QED  BY <1>4, <2>1, <2>3
<1> QED  BY <1>1, <1>3, <1>4 DEF Register

LEMMA ShapeKept ==
  ASSUME IInv, NEW t \in Threads, Step(t)
  PROVE  Shape'
<1>1. Shape /\ DOMAIN stack = Threads /\ AllStacks(stack)
  BY DEF IInv, Shape, AllStacks
<1>2. \/ UNCHANGED <<outcome, callbacks>>
      \/ \E f, o : FillsWith(t, f, o)
      \/ Register(t)
  BY StepKinds DEF TurnStep, RunTask, RunAndForget, TakeTask
<1>3. AllStacks(stack')
  <2>1. CASE stack[t] # <<>> /\ \E new : new \in Seq(Range(new)) /\ Return(t, new)
    BY <1>1, <2>1, ReturnStacks
  <2>2. <<>> \in Seq(Range(<<>>)) /\ \A a : <<a>> \in Seq(Range(<<a>>))
    BY Tuples
  <2>3. CASE \E f, o : FillsWith(t, f, o)
    <3>1. PICK f, o : FillsWith(t, f, o)
      BY <2>3
    <3>2. PICK new : new = callbacks[f][o.ok]
      OBVIOUS
    <3>3. new \in Seq(Range(new))
      BY <1>1, <3>1, <3>2 DEF FillsWith, Shape
    <3> QED  BY <2>1, <3>1, <3>2, <3>3 DEF FillsWith
  <2>4. CASE TurnStep(t)
    BY <2>1, <2>4 DEF TurnStep, Turns
  <2>5. CASE Register(t)
    BY <2>1, <2>2, <2>5 DEF Register, Calls
  <2>6. CASE TakeTask(t)
    <3>1. PICK task : stack' = [stack EXCEPT ![t] = <<task>>]
      BY <2>6 DEF TakeTask
    <3> QED  BY <1>1, <2>2, <3>1 DEF AllStacks
  <2>7. CASE RunTask(t) \/ RunAndForget(t)
    BY <2>1, <2>2, <2>7 DEF RunTask, RunAndForget, Calls
  <2> QED  BY <2>3, <2>4, <2>5, <2>6, <2>7, StepKinds
<1>4. /\ DOMAIN outcome' = Futures /\ DOMAIN callbacks' = Futures
      /\ \A f \in Futures : \A ok \in BOOLEAN :
           DOMAIN callbacks'[f] = BOOLEAN /\ callbacks'[f][ok] \in Seq(Range(callbacks'[f][ok]))
  <2>1. CASE UNCHANGED <<outcome, callbacks>>
    BY <1>1, <2>1 DEF Shape
  <2>2. CASE Register(t)
    <3>1. DOMAIN outcome' = Futures
      BY <1>1, <2>2 DEF Register, Shape
    <3> QED  BY <1>1, <2>2, <3>1, RegisterLists
  <2>3. CASE \E f, o : FillsWith(t, f, o)
    <3>1. PICK f, o : FillsWith(t, f, o)
      BY <2>3
    <3>2. /\ outcome' = [outcome EXCEPT ![f] = o]
          /\ callbacks' = [callbacks EXCEPT ![f] = NoCallbacks]
      BY <3>1 DEF FillsWith
    <3>3. DOMAIN NoCallbacks = BOOLEAN
          /\ \A ok \in BOOLEAN : NoCallbacks[ok] \in Seq(Range(NoCallbacks[ok]))
      BY Tuples DEF NoCallbacks
    <3>4. \A g \in Futures : callbacks'[g] = IF g = f THEN NoCallbacks ELSE callbacks[g]
      BY <1>1, <3>2 DEF Shape
    <3>5. DOMAIN outcome' = Futures /\ DOMAIN callbacks' = Futures
      BY <1>1, <3>2 DEF Shape
    <3>6. \A g \in Futures : \A ok \in BOOLEAN :
            DOMAIN callbacks[g] = BOOLEAN /\ callbacks[g][ok] \in Seq(Range(callbacks[g][ok]))
      BY <1>1 DEF Shape
    <3>7. ASSUME NEW g \in Futures, NEW ok \in BOOLEAN
          PROVE  DOMAIN callbacks'[g] = BOOLEAN /\ callbacks'[g][ok] \in Seq(Range(callbacks'[g][ok]))
      <4>1. CASE g = f
        <5>1. callbacks'[g] = NoCallbacks
          BY <3>4, <4>1
        <5> QED  BY <3>3, <5>1
      <4>2. CASE g # f
        <5>1. callbacks'[g] = callbacks[g]
          BY <3>4, <4>2
        <5> QED  BY <3>6, <5>1
      <4> QED  BY <4>1, <4>2
    <3> QED  BY <3>5, <3>7
  <2> QED  BY <1>2, <2>1, <2>2, <2>3
<1>5. DOMAIN cells' = Futures
  BY <1>1, StepKinds DEF CellsKept, Shape
<1>6. None \notin Futures
  BY <1>1 DEF Shape
<1> QED  BY <1>3, <1>4, <1>5, <1>6 DEF Shape, AllStacks

LEMMA OpsOfFine ==
  ASSUME NEW M, NEW s, NEW cb, NEW q, Holds(M, s, cb, q), NEW A, AllFine(M, A)
  PROVE  \A t \in Threads : \A i \in DOMAIN s[t] : "op" \in DOMAIN s[t][i]
<1>1. ASSUME NEW k, Fine(k, A) PROVE "op" \in DOMAIN k
  <2>1. FineOn(k, A) => "op" \in DOMAIN k
    BY DEF FineOn
  <2> QED  BY <1>1, <2>1 DEF Fine, FineWrapped, FinePlain
<1>2. \A t \in Threads : \A i \in DOMAIN s[t] :
        <<"stack", t, i>> \in DOMAIN M /\ M[<<"stack", t, i>>] = s[t][i]
  BY DEF Holds
<1>3. \A t \in Threads : \A i \in DOMAIN s[t] : Fine(s[t][i], A)
  BY <1>2 DEF AllFine
<1> QED  BY <1>1, <1>3

LEMMA OutcomesKept ==
  ASSUME IInv, NEW t \in Threads, Step(t)
  PROVE  \A f \in Futures :
           \/ outcome'[f] = None
           \/ DOMAIN outcome'[f] = {"ok", "is"} /\ callbacks'[f] = NoCallbacks
<1>1. /\ Shape /\ DOMAIN outcome = Futures /\ DOMAIN callbacks = Futures
      /\ \A f \in Futures : \/ outcome[f] = None
                            \/ DOMAIN outcome[f] = {"ok", "is"} /\ callbacks[f] = NoCallbacks
  BY DEF IInv, Shape, TypeOK
<1>2. CASE UNCHANGED <<outcome, callbacks>>
  BY <1>1, <1>2
<1>3. CASE \E f, o : FillsWith(t, f, o)
  <2>1. PICK f, o : FillsWith(t, f, o)
    BY <1>3
  <2>2. /\ outcome' = [outcome EXCEPT ![f] = o] /\ DOMAIN o = {"ok", "is"}
        /\ callbacks' = [callbacks EXCEPT ![f] = NoCallbacks]
    BY <2>1 DEF FillsWith
  <2>3. ASSUME NEW g \in Futures
        PROVE  /\ outcome'[g] = IF g = f THEN o ELSE outcome[g]
               /\ callbacks'[g] = IF g = f THEN NoCallbacks ELSE callbacks[g]
    BY <1>1, <2>2
  <2> QED  BY <1>1, <2>2, <2>3
<1>4. CASE Register(t)
  <2>1. UNCHANGED outcome
    BY <1>4 DEF Register
  <2>2. \A f \in Futures : callbacks'[f] = callbacks[f] \/ outcome[f] = None
    BY <1>1, <1>4, RegisterLists
  <2> QED  BY <1>1, <2>1, <2>2
<1> QED  BY <1>2, <1>3, <1>4, StepKinds DEF TurnStep, RunTask, RunAndForget, TakeTask

LEMMA TypesKept ==
  ASSUME IInv, NEW t \in Threads, Step(t)
  PROVE  TypeOK'
<1>1. \A u \in Threads : \A i \in DOMAIN stack'[u] : "op" \in DOMAIN stack'[u][i]
  <2>1. AllFine(Held', asked')
    BY StepFollowed DEF Followed
  <2>2. Holds(Held', stack', callbacks', queued')
    BY HeldHolds
  <2> QED  BY <2>1, <2>2, OpsOfFine
<1>2. \A task \in queued' : task.op \in {"wrapped", "forward"}
  <2>1. \A task \in queued : task.op \in {"wrapped", "forward"}
    BY DEF IInv, TypeOK
  <2>2. CASE queued' \subseteq queued
    BY <2>1, <2>2
  <2>3. CASE RunTask(t)
    <3>1. queued' = queued \cup {wrapped(Call(t))} /\ wrapped(Call(t)).op = "wrapped"
      BY <2>3 DEF RunTask, wrapped
    <3> QED  BY <2>1, <3>1
  <2>4. CASE Fine(Call(t), asked) /\ RunAndForget(t)
    <3>1. Call(t).op = "runAndForget" /\ queued' = queued \cup {Call(t).task}
      BY <2>4 DEF RunAndForget, Calls
    <3>2. Call(t).task.op = "forward"
      BY <2>4, <3>1, PassesToTask
    <3> QED  BY <2>1, <3>1, <3>2
  <2> QED  BY <2>2, <2>3, <2>4, StepKinds DEF TurnStep, FillsWith, TakeTask
<1>3. \A f \in Futures : cells'[f] # <<>> => \E c \in asked' : c.op = "clusteredRun" /\ c.to = f
  <2>1. \A f \in Futures : cells[f] # <<>> => \E c \in asked : c.op = "clusteredRun" /\ c.to = f
    BY DEF IInv, TypeOK
  <2>2. asked \subseteq asked'
    BY StepKinds DEF TurnStep, FillsWith, Register, RunTask, RunAndForget, TakeTask, Ask
  <2>3. \A f \in Futures : \/ cells'[f] = cells[f]
                           \/ \E c \in asked : c.op = "clusteredRun" /\ c.to = f
    BY StepKinds DEF CellsKept
  <2> QED  BY <2>1, <2>2, <2>3
<1> QED  BY <1>1, <1>2, <1>3, OutcomesKept DEF TypeOK

-----------------------------------------------------------------------------
(* The invariant, and what follows from it *)

LEMMA InitIInv == Init => IInv
<1> SUFFICES ASSUME Init PROVE IInv
  OBVIOUS
<1>1. PICK p \in Programs : stack = p
  BY DEF Init
<1>2. /\ outcome = [f \in Futures |-> None] /\ callbacks = [f \in Futures |-> NoCallbacks]
      /\ asked = {} /\ queued = {} /\ cells = [f \in Futures |-> <<>>]
  BY DEF Init
<1>3. /\ None \notin Futures /\ DOMAIN p = Threads
      /\ \A t \in Threads :
           /\ p[t] \in Seq(Range(p[t]))
           /\ \A i \in DOMAIN p[t] : IsClientCall(p[t][i]) /\ FillsOnce(p[t][i])
      /\ \A t, u \in Threads : \A i \in DOMAIN p[t], j \in DOMAIN p[u] :
           Private(p[t][i]) \cap MayFill(p[u][j]) # {} => t = u /\ i = j
  BY ProgramsCallTheLibrary
<1>4. DOMAIN NoCallbacks = BOOLEAN
      /\ \A ok \in BOOLEAN : NoCallbacks[ok] \in Seq(Range(NoCallbacks[ok])) /\ DOMAIN NoCallbacks[ok] = {}
  BY Tuples DEF NoCallbacks
<1>5. Shape
  BY <1>1, <1>2, <1>3, <1>4 DEF Shape
<1>6. TypeOK
  BY <1>1, <1>2, <1>3 DEF TypeOK, IsClientCall
<1>7. ASSUME NEW x \in DOMAIN Held
      PROVE  \E t \in Threads : \E i \in DOMAIN p[t] : x = <<"stack", t, i>> /\ Held[x] = p[t][i]
  <2>1. Holds(Held, stack, callbacks, queued)
    BY HeldHolds
  <2>2. \A f \in Futures, b \in BOOLEAN : DOMAIN callbacks[f][b] = {}
    BY <1>2, <1>4
  <2>3. \/ \E t \in Threads : \E i \in DOMAIN stack[t] : x = <<"stack", t, i>>
        \/ \E f \in Futures, b \in BOOLEAN : \E i \in DOMAIN callbacks[f][b] :
             x = <<"callbacks", <<f, b>>, i>>
    BY <1>2, <2>1 DEF Holds
  <2>4. PICK t \in Threads : \E i \in DOMAIN stack[t] : x = <<"stack", t, i>>
    BY <2>2, <2>3
  <2>5. PICK i \in DOMAIN stack[t] : x = <<"stack", t, i>>
    BY <2>4
  <2>6. Held[x] = stack[t][i]
    BY <2>1, <2>5 DEF Holds
  <2> QED  BY <1>1, <2>5, <2>6
<1>8. \A x \in DOMAIN Held : IsClientCall(Held[x]) /\ FillsOnce(Held[x])
  BY <1>3, <1>7
<1>9. AllFine(Held, asked)
  BY <1>8, ClientCall DEF AllFine
<1>10. ASSUME NEW g \in PrivateFutures
       PROVE  /\ g \in Futures
              /\ \E x \in DOMAIN Held : /\ g \in Private(Held[x])
                                        /\ \A y \in DOMAIN Held : CanFill(Held[y], g) => y = x
  <2>1. g \in Futures
    BY DEF PrivateFutures
  <2>2. PICK x \in DOMAIN Held : g \in Private(Held[x])
    BY <1>2, HeldCalls DEF PrivateFutures
  <2>3. PICK t \in Threads : \E i \in DOMAIN p[t] : x = <<"stack", t, i>> /\ Held[x] = p[t][i]
    BY <1>7
  <2>4. PICK i \in DOMAIN p[t] : x = <<"stack", t, i>> /\ Held[x] = p[t][i]
    BY <2>3
  <2>5. ASSUME NEW y \in DOMAIN Held, CanFill(Held[y], g) PROVE y = x
    <3>1. PICK u \in Threads : \E j \in DOMAIN p[u] : y = <<"stack", u, j>> /\ Held[y] = p[u][j]
      BY <1>7
    <3>2. PICK j \in DOMAIN p[u] : y = <<"stack", u, j>> /\ Held[y] = p[u][j]
      BY <3>1
    <3>3. g \in MayFill(Held[y])
      BY <1>8, <2>1, <2>5, ClientCall
    <3>4. g \in Private(p[t][i]) \cap MayFill(p[u][j])
      BY <2>2, <2>4, <3>2, <3>3
    <3>5. t = u /\ i = j
      BY <1>3, <3>4
    <3> QED  BY <2>4, <3>2, <3>5
  <2> QED  BY <2>1, <2>2, <2>5
<1>11. ASSUME NEW g \in PrivateFutures, NEW x \in DOMAIN Held, g \in Private(Held[x])
       PROVE  Part(Held[x], g)
  BY <1>11 DEF Private, Part, PlainPart
<1>12. \A g \in PrivateFutures : \A x \in DOMAIN Held : ~Guards(Held[x], g)
  BY <1>8, <1>10, ClientCall
<1>13. InParts(Held, PrivateFutures)
  BY <1>10, <1>11 DEF InParts
<1>14. OnePlace(Held, PrivateFutures)
  BY <1>10 DEF OnePlace, Active
<1>15. NotYet(Held, outcome, PrivateFutures)
  BY <1>2, <1>10 DEF NotYet
<1>16. Guarding(Held, outcome, PrivateFutures)
  BY <1>12 DEF Guarding
<1>17. Managed(Held, asked)
  BY <1>2 DEF Managed
<1> QED  BY <1>5, <1>6, <1>9, <1>13, <1>14, <1>15, <1>16, <1>17 DEF IInv, Custody

LEMMA NextIInv == IInv /\ [Next]_vars => IInv'
<1> SUFFICES ASSUME IInv, [Next]_vars PROVE IInv'
  OBVIOUS
<1>1. ASSUME NEW t \in Threads, Step(t) PROVE IInv'
  BY <1>1, ShapeKept, TypesKept, StepFollowed DEF IInv, Followed
<1>2. CASE UNCHANGED vars
  <2>1. UNCHANGED <<outcome, callbacks, stack, asked, queued, cells>>
    BY <1>2 DEF vars
  <2>2. Held' = Held
    <3>1. Held = HeldOf(stack, callbacks, queued)
      BY DEF Held, HeldOf, Places, PlacesOf, CallAt, CallOf
    <3>2. Held' = HeldOf(stack', callbacks', queued')
      BY DEF Held, HeldOf, Places, PlacesOf, CallAt, CallOf
    <3> QED  BY <2>1, <3>1, <3>2
  <2>3. PrivateFutures' = PrivateFutures
    <3>1. PrivateFutures = {f \in Futures : \/ \E c \in asked : f \in Private(c)
                                            \/ \E x \in DOMAIN Held : f \in Private(Held[x])}
      BY HeldCalls DEF PrivateFutures
    <3>2. PrivateFutures' = {f \in Futures : \/ \E c \in asked' : f \in Private(c)
                                             \/ \E x \in DOMAIN Held' : f \in Private(Held'[x])}
      BY HeldCalls DEF PrivateFutures
    <3> QED  BY <2>1, <2>2, <3>1, <3>2
  <2>4. Shape' /\ TypeOK'
    BY <2>1 DEF IInv, Shape, TypeOK
  <2>5. AllFine(Held', asked') /\ Custody(Held', outcome', PrivateFutures') /\ Managed(Held', asked')
    BY <2>1, <2>2, <2>3 DEF IInv
  <2> QED  BY <2>4, <2>5 DEF IInv
<1> QED  BY <1>1, <1>2 DEF Next

\* In every state, what may fill a private future is at one place, and where
\* there is a cluster there is the task that waits for it (tasks.h:212).
THEOREM Invariance == Spec => []IInv
BY InitIInv, NextIInv, PTL DEF Spec

\* Futures have outcomes, calls are calls, and there is one result of clusters
\* for each managing task at most (future.h:694, tasks.h:150).
THEOREM TypeCorrect == Spec => []TypeOK
<1>1. IInv => TypeOK
  BY DEF IInv
<1> QED  BY <1>1, Invariance, PTL

\* Where an iteration is, the future of its sequence may be filled from there.
LEMMA CarriesFills ==
  ASSUME NEW k, NEW A, Fine(k, A), NEW c, Carries(k, c)
  PROVE  Active(k, c.to)
<1>1. CASE k.op \in Iterating /\ k.call = c
  <2>1. "op" \in DOMAIN k /\ FineIteration(k)
    BY <1>1 DEF Fine, FinePlain, Iterating
  <2>2. c.to \in Futures /\ c.to \in MayFill(c)
    BY <1>1, <2>1 DEF FineIteration, IsClientCall, MayFill
  <2> QED  BY <1>1, <2>1, <2>2, IterationCall DEF Active
<1>2. CASE k.op = "on" /\ k.call.op \in Iterating /\ k.call.call = c
  <2>1. FineOn(k, A)
    BY <1>2 DEF Fine
  <2>2. FinePlain(k.call, A)
    BY <2>1 DEF FineOn
  <2>3. "op" \in DOMAIN k.call /\ FineIteration(k.call)
    BY <1>2, <2>2 DEF FinePlain
  <2>4. c.to \in Futures /\ c.to \in MayFill(c)
    BY <1>2, <2>3 DEF FineIteration, IsClientCall, MayFill
  <2>5. CanFillPlain(k.call, c.to)
    BY <1>2, <2>3, <2>4, IterationCall
  <2>6. k.call.op # "forward"
    BY <1>2 DEF Iterating
  <2> QED  BY <2>1, <2>4, <2>5, <2>6, OnCall DEF Active
<1> QED  BY <1>1, <1>2 DEF Carries

LEMMA OneAtMost ==
  ASSUME NEW S, \A x, y \in S : x = y
  PROVE  Cardinality(S) = IF S = {} THEN 0 ELSE 1
<1>1. CASE S = {}
  BY <1>1, FS_EmptySet
<1>2. CASE S # {}
  <2>1. PICK x : S = {x}
    BY <1>2
  <2>2. Cardinality(S) = 1
    BY <2>1, FS_Singleton
  <2> QED  BY <1>2, <2>2
<1> QED  BY <1>1, <1>2

\* The iteration of a sequence is never in two places, and in none when the
\* result is filled (future.h:783, repeat.h:170).
THEOREM IterationInOnePlace == Spec => []OneIteration
<1>1. ASSUME IInv, NEW c \in asked, c.op \in {"sequence", "sequenceWithFailures", "repeatForSequence"}
      PROVE  Cardinality(Iterations(c)) <= IF outcome[c.to] = None THEN 1 ELSE 0
  <2>1. /\ AllFine(Held, asked) /\ OnePlace(Held, PrivateFutures)
        /\ NotYet(Held, outcome, PrivateFutures)
    BY <1>1 DEF IInv, Custody
  <2>2. \A x \in Iterations(c) : x \in DOMAIN Held /\ Carries(Held[x], c)
    BY HeldCalls DEF Iterations
  <2>3. \A x \in Iterations(c) : Active(Held[x], c.to)
    BY <2>1, <2>2, CarriesFills DEF AllFine
  <2>4. ASSUME NEW x \in Iterations(c) PROVE c.to \in PrivateFutures
    <3>1. Fine(Held[x], asked) /\ Carries(Held[x], c)
      BY <2>1, <2>2 DEF AllFine
    <3>2. IsClientCall(c)
      BY <3>1 DEF Carries, Fine, FineOn, FinePlain, FineIteration, Iterating
    <3>3. c.to \in Private(c)
      BY <1>1, <3>2 DEF IsClientCall, Private
    <3> QED  BY <3>3, Privacy
  <2>5. \A x, y \in Iterations(c) : x = y
    BY <2>1, <2>2, <2>3, <2>4 DEF OnePlace
  <2>6. Iterations(c) # {} => outcome[c.to] = None
    BY <2>1, <2>2, <2>3, <2>4 DEF NotYet
  <2>7. Cardinality(Iterations(c)) = IF Iterations(c) = {} THEN 0 ELSE 1
    BY <2>5, OneAtMost
  <2> QED  BY <2>6, <2>7
<1>2. IInv => OneIteration
  BY <1>1 DEF OneIteration
<1> QED  BY <1>2, Invariance, PTL

\* Clusters do not outlive the task that manages them (tasks.h:212).
THEOREM ClustersAreWaitedFor == Spec => []ClustersWithinTheirManager
<1>1. ASSUME IInv, NEW c \in asked, c.op = "clusteredRun", NEW x \in Places, IsClusterOf(CallAt(x), c)
      PROVE  \E z \in Places : Manages(CallAt(z), c)
  <2>1. AllFine(Held, asked) /\ Managed(Held, asked)
    BY <1>1 DEF IInv
  <2>2. x \in DOMAIN Held /\ Held[x] = CallAt(x)
    BY HeldCalls
  <2>3. PICK g : g = BodyOf(Held[x]).promise
    OBVIOUS
  <2>4. IsJob(Held[x], c, g)
    BY <1>1, <2>2, <2>3 DEF IsClusterOf, IsJob
  <2>5. g \in Futures
    BY <2>1, <2>2, <2>4, JobOfManager DEF AllFine
  <2>6. PICK z \in DOMAIN Held : ManagesFor(Held, z, c, g)
    BY <2>1, <2>2, <2>4, <2>5 DEF Managed
  <2>7. z \in Places /\ Manages(CallAt(z), c)
    BY <2>6, HeldCalls DEF ManagesFor
  <2> QED  BY <2>7
<1>2. IInv => ClustersWithinTheirManager
  BY <1>1 DEF ClustersWithinTheirManager
<1> QED  BY <1>2, Invariance, PTL
=============================================================================
