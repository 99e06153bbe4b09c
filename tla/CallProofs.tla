----------------------------- MODULE CallProofs -----------------------------
(***************************************************************************)
(* Proofs about the calls of programs that make futures from futures: what *)
(* each may fill, and what it turns into, one lemma for each action.  A    *)
(* future that is private to a call goes on to one of those it turns into, *)
(* and a cluster comes with the manager that is to wait for it.            *)
(***************************************************************************)
EXTENDS Combinators, TLAPS, SequenceTheorems

-----------------------------------------------------------------------------
(* Which calls there are *)

CallbackOps == Iterating \cup {"forward", "apply", "zipTail", "nextStep", "runAndForget"}
PlainOps == ClientOps \cup CallbackOps \cup {"wait", "manage", "cluster", "conclude"}

FineIteration(k) ==
    /\ IsClientCall(k.call) /\ FillsOnce(k.call) /\ k.current \in Nat \ {0}
    /\ k.call.op \in IF k.op = "iterateSequence" THEN {"sequence", "sequenceWithFailures"}
                                                 ELSE {"repeatForSequence"}

\* Those asked for are in A.
FineManager(c, A) ==
    c \in A /\ c.op = "clusteredRun" /\ IsClientCall(c) /\ FillsOnce(c) /\ c.data # <<>>

FineCluster(k, A) ==
    /\ k = cluster(k.of, k.at, k.right, k.promise)
    /\ FineManager(k.of, A)
    /\ k.promise = None \/ \E j \in Jobs(k.of) : k.promise = k.of.clusters[j]

FineRun(k, A) ==
    /\ k.to \in Futures
    /\ "op" \in DOMAIN k.body /\ k.body.op \in {"apply", "manage", "cluster"}
    /\ k.body.op = "apply" => k.body.to = k.to
    /\ k.body.op = "manage" => FineManager(k.body.of, A) /\ k.body.of.to = k.to
    /\ k.body.op = "cluster" => FineCluster(k.body, A) /\ k.body.promise = k.to

FinePlain(k, A) ==
    /\ "op" \in DOMAIN k /\ k.op \in PlainOps
    /\ k.op \in ClientOps /\ k.op # "run" => IsClientCall(k) /\ FillsOnce(k)
    /\ k.op = "run" => FineRun(k, A)
    /\ k.op \in Iterating => FineIteration(k)
    /\ k.op \in {"forward", "apply"} => k.to \in Futures
    /\ k.op = "zipTail" => /\ k.to \in Futures /\ k.others \in Seq(Futures) /\ k.others # <<>>
                           /\ k.via \in Seq(Futures) /\ 2 * Len(k.others) <= Len(k.via)
    /\ k.op = "nextStep" => k.of.op = "repeat" /\ IsClientCall(k.of)
    /\ k.op = "runAndForget" => /\ "op" \in DOMAIN k.task /\ k.task.op = "forward"
                                /\ k.task.to \in Futures
    /\ k.op \in {"manage", "conclude"} => FineManager(k.of, A)
    /\ k.op = "cluster" => FineCluster(k, A)

FineOn(k, A) ==
    /\ k = [op |-> "on", from |-> k.from, ok |-> k.ok, call |-> k.call]
    /\ k.ok \in BOOLEAN /\ k.call.op \in CallbackOps /\ FinePlain(k.call, A)
    /\ k.call.op \in Iterating => k.ok = TRUE

FineWrapped(k, A) == "op" \in DOMAIN k /\ k.run.op = "run" /\ FinePlain(k.run, A)

Fine(k, A) ==
    CASE k.op = "on" -> FineOn(k, A)
      [] k.op = "wrapped" -> FineWrapped(k, A)
      [] OTHER -> FinePlain(k, A)

(* What they may fill: what is to be called next included. *)

CanFillPlain(k, f) ==
    \/ k.op \in ClientOps /\ k.op # "run" /\ f \in MayFill(k)
    \/ k.op = "run" /\ (f = k.to \/ (k.body.op = "manage" /\ f \in MayFill(k.body.of)))
    \/ k.op \in Iterating /\ f \in MayFill(k.call)
    \/ k.op \in {"forward", "apply"} /\ f = k.to
    \/ k.op = "zipTail" /\ (f = k.to \/ f \in Range(k.via))
    \/ k.op = "nextStep" /\ f \in MayFill(k.of)
    \/ k.op = "runAndForget" /\ f = k.task.to
    \/ k.op = "manage" /\ f \in MayFill(k.of)
    \/ k.op = "cluster" /\ f = IF k.promise = None THEN k.of.to ELSE k.promise
    \/ k.op = "conclude" /\ f = k.of.to

CanFill(k, f) ==
    \/ CanFillPlain(k, f)
    \/ k.op = "on" /\ CanFillPlain(k.call, f)
    \/ k.op = "wrapped" /\ CanFillPlain(k.run, f)

\* The callback of an iteration for the failure of the future it waits for.
Guards(k, g) == k.op = "on" /\ k = onFailure(k.from, forward(k.from, g))

\* What may have become of the call whose private future g is.
PlainPart(k, g) ==
    \/ /\ k.op \in {"fillSuccess", "fillFailure", "forward", "runAll",
                    "sequence", "sequenceWithFailures", "repeatForSequence"}
       /\ g = k.to
    \/ k.op \in Iterating /\ g = k.call.to
    \/ k.op = "clusteredRun" /\ g \in Range(k.clusters)
    \/ k.op = "run" /\ \/ k.body.op = "manage" /\ g \in Range(k.body.of.clusters)
                       \/ k.body.op = "cluster" /\ g = k.to
    \/ k.op = "manage" /\ g \in Range(k.of.clusters)
    \/ k.op = "cluster" /\ k.promise # None /\ g = k.promise

Part(k, g) ==
    \/ PlainPart(k, g)
    \/ k.op = "on" /\ \/ k.call.op \in Iterating /\ g = k.call.call.to
                      \/ k.from \in Futures /\ Guards(k, g)
    \/ k.op = "wrapped" /\ PlainPart(k.run, g)

Active(k, g) == CanFill(k, g) /\ ~Guards(k, g)

\* A cluster that is to fill g, for the managing task of c.
IsJob(k, c, g) ==
    BodyOf(k).op = "cluster" /\ BodyOf(k).of = c /\ BodyOf(k).promise = g /\ g # None

-----------------------------------------------------------------------------
(* What each kind of call may fill *)

TargetOps == AppliedToSuccess \cup AppliedToFailure \cup
    {"fillSuccess", "fillFailure", "cancel", "trampoline", "repeatData", "forward", "apply"}

\* Calls that fill the future they are given.
LEMMA TargetCall ==
  ASSUME NEW k, NEW A, "op" \in DOMAIN k, k.op \in TargetOps, k.to \in Futures,
         k.op = "repeatData" => k = repeatData(k.steps, k.k, k.to)
  PROVE  /\ Fine(k, A) /\ FinePlain(k, A) /\ Private(k) = {}
         /\ \A g \in Futures :
              /\ ~Guards(k, g)
              /\ (CanFill(k, g) <=> g = k.to) /\ (CanFillPlain(k, g) <=> g = k.to)
              /\ g = k.to /\ k.op \in {"fillSuccess", "fillFailure", "forward"} => Part(k, g)
<1> USE DEF TargetOps, AppliedToSuccess, AppliedToFailure
<1>1. k.op \in ClientOps => IsClientCall(k) /\ FillsOnce(k)
  BY DEF IsClientCall, FillsOnce, ClientOps
<1>2. Fine(k, A) /\ FinePlain(k, A)
  BY <1>1 DEF Fine, FinePlain, PlainOps, ClientOps, CallbackOps, Iterating
<1>3. Private(k) = {}
  BY DEF Private
<1>4. ASSUME NEW g \in Futures
      PROVE  ~Guards(k, g) /\ (CanFill(k, g) <=> g = k.to) /\ (CanFillPlain(k, g) <=> g = k.to)
  BY DEF Guards, CanFill, CanFillPlain, MayFill, ClientOps, Iterating
<1>5. ASSUME NEW g \in Futures, g = k.to, k.op \in {"fillSuccess", "fillFailure", "forward"}
      PROVE  Part(k, g)
  BY <1>5 DEF Part, PlainPart
<1> QED  BY <1>2, <1>3, <1>4, <1>5

\* Callbacks fill what they call.
LEMMA OnCall ==
  ASSUME NEW k, NEW A, FineOn(k, A)
  PROVE  /\ Fine(k, A) /\ Private(k) = {}
         /\ \A g \in Futures :
              /\ CanFill(k, g) <=> CanFillPlain(k.call, g)
              /\ k.ok = TRUE \/ k.call.op # "forward" => ~Guards(k, g)
              /\ k.call.op \in Iterating /\ g = k.call.call.to => Part(k, g)
<1>1. k.op = "on" /\ "op" \in DOMAIN k
  BY DEF FineOn
<1>2. Fine(k, A)
  BY <1>1 DEF Fine
<1>3. Private(k) = {}
  BY <1>1 DEF Private
<1>4. ASSUME NEW g \in Futures PROVE CanFill(k, g) <=> CanFillPlain(k.call, g)
  <2>1. ~CanFillPlain(k, g)
    BY <1>1 DEF CanFillPlain, ClientOps, AppliedToSuccess, AppliedToFailure, Iterating
  <2> QED  BY <1>1, <2>1 DEF CanFill
<1>5. ASSUME NEW g \in Futures, k.ok = TRUE \/ k.call.op # "forward" PROVE ~Guards(k, g)
  BY <1>1, <1>5 DEF Guards, onFailure, forward
<1>6. ASSUME NEW g \in Futures, k.call.op \in Iterating, g = k.call.call.to PROVE Part(k, g)
  BY <1>1, <1>6 DEF Part
<1> QED  BY <1>2, <1>3, <1>4, <1>5, <1>6

LEMMA IterationCall ==
  ASSUME NEW k, NEW A, "op" \in DOMAIN k, k.op \in Iterating, FineIteration(k)
  PROVE  /\ Fine(k, A) /\ FinePlain(k, A) /\ Private(k) = {}
         /\ \A g \in Futures :
              /\ ~Guards(k, g)
              /\ CanFill(k, g) <=> g \in MayFill(k.call)
              /\ CanFillPlain(k, g) <=> g \in MayFill(k.call)
              /\ Part(k, g) <=> g = k.call.to
<1> USE DEF Iterating
<1>2. Fine(k, A) /\ FinePlain(k, A)
  BY DEF Fine, FinePlain, PlainOps, ClientOps, CallbackOps, AppliedToSuccess, AppliedToFailure
<1>3. Private(k) = {}
  BY DEF Private
<1>4. ASSUME NEW g \in Futures
      PROVE  /\ ~Guards(k, g)
             /\ CanFill(k, g) <=> g \in MayFill(k.call)
             /\ CanFillPlain(k, g) <=> g \in MayFill(k.call)
  BY DEF Guards, CanFill, CanFillPlain, ClientOps, AppliedToSuccess, AppliedToFailure
<1>5. ASSUME NEW g \in Futures PROVE Part(k, g) <=> g = k.call.to
  BY <1>5 DEF Part, PlainPart
<1> QED  BY <1>2, <1>3, <1>4, <1>5

\* What clients may call, and zip and repeat again for what is left.
LEMMA ClientCall ==
  ASSUME NEW k, NEW A, IsClientCall(k), FillsOnce(k)
  PROVE  /\ Fine(k, A)
         /\ \A g \in Futures : ~Guards(k, g) /\ (CanFill(k, g) <=> g \in MayFill(k))
<1> USE DEF IsClientCall
<1>1. Fine(k, A)
  <2>1. k.op = "run" => FineRun(k, A)
    BY DEF FineRun
  <2> QED
    BY <2>1 DEF Fine, FinePlain, PlainOps, ClientOps, AppliedToSuccess, AppliedToFailure,
                CallbackOps, Iterating
<1>2. ASSUME NEW g \in Futures PROVE ~Guards(k, g) /\ (CanFill(k, g) <=> g \in MayFill(k))
  BY DEF Guards, CanFill, CanFillPlain, MayFill, ClientOps, AppliedToSuccess,
         AppliedToFailure, Iterating
<1> QED  BY <1>1, <1>2

LEMMA PrivateOfClient ==
  ASSUME NEW k, k.op \notin {"sequence", "sequenceWithFailures", "repeatForSequence",
                             "runAll", "clusteredRun"}
  PROVE  Private(k) = {}
BY DEF Private

LEMMA ZipTailCall ==
  ASSUME NEW k, NEW A, "op" \in DOMAIN k, k.op = "zipTail", k.to \in Futures,
         k.others \in Seq(Futures), k.others # <<>>, k.via \in Seq(Futures),
         2 * Len(k.others) <= Len(k.via)
  PROVE  /\ FinePlain(k, A)
         /\ \A g \in Futures : CanFillPlain(k, g) <=> g = k.to \/ g \in Range(k.via)
<1>1. FinePlain(k, A)
  BY DEF FinePlain, PlainOps, CallbackOps, Iterating, ClientOps, AppliedToSuccess,
         AppliedToFailure
<1>2. ASSUME NEW g \in Futures PROVE CanFillPlain(k, g) <=> g = k.to \/ g \in Range(k.via)
  BY DEF CanFillPlain, ClientOps, AppliedToSuccess, AppliedToFailure, Iterating
<1> QED  BY <1>1, <1>2

LEMMA NextStepCall ==
  ASSUME NEW k, NEW A, "op" \in DOMAIN k, k.op = "nextStep", k.of.op = "repeat",
         IsClientCall(k.of)
  PROVE  /\ FinePlain(k, A) /\ k.op \in CallbackOps \ Iterating
         /\ \A g \in Futures : CanFillPlain(k, g) <=> g \in MayFill(k.of)
<1>1. FinePlain(k, A) /\ k.op \in CallbackOps \ Iterating
  BY DEF FinePlain, PlainOps, CallbackOps, Iterating, ClientOps, AppliedToSuccess,
         AppliedToFailure
<1>2. ASSUME NEW g \in Futures PROVE CanFillPlain(k, g) <=> g \in MayFill(k.of)
  BY DEF CanFillPlain, ClientOps, AppliedToSuccess, AppliedToFailure, Iterating
<1> QED  BY <1>1, <1>2

LEMMA RunAndForgetCall ==
  ASSUME NEW k, NEW A, "op" \in DOMAIN k, k.op = "runAndForget", "op" \in DOMAIN k.task,
         k.task.op = "forward", k.task.to \in Futures
  PROVE  /\ FinePlain(k, A) /\ k.op \in CallbackOps \ Iterating
         /\ \A g \in Futures : CanFillPlain(k, g) <=> g = k.task.to
<1>1. FinePlain(k, A) /\ k.op \in CallbackOps \ Iterating
  BY DEF FinePlain, PlainOps, CallbackOps, Iterating, ClientOps, AppliedToSuccess,
         AppliedToFailure
<1>2. ASSUME NEW g \in Futures PROVE CanFillPlain(k, g) <=> g = k.task.to
  BY DEF CanFillPlain, ClientOps, AppliedToSuccess, AppliedToFailure, Iterating
<1> QED  BY <1>1, <1>2

LEMMA RunCall ==
  ASSUME NEW k, NEW A, "op" \in DOMAIN k, k.op = "run", FineRun(k, A)
  PROVE  /\ Fine(k, A) /\ FinePlain(k, A) /\ Private(k) = {}
         /\ \A g \in Futures :
              /\ ~Guards(k, g)
              /\ CanFill(k, g) <=> g = k.to \/ (k.body.op = "manage" /\ g \in MayFill(k.body.of))
              /\ Part(k, g) <=> \/ k.body.op = "manage" /\ g \in Range(k.body.of.clusters)
                                \/ k.body.op = "cluster" /\ g = k.to
<1>1. Fine(k, A) /\ FinePlain(k, A)
  BY DEF Fine, FinePlain, PlainOps, ClientOps, CallbackOps, Iterating, AppliedToSuccess,
         AppliedToFailure
<1>2. Private(k) = {}
  BY DEF Private
<1>3. ASSUME NEW g \in Futures
      PROVE  /\ ~Guards(k, g)
             /\ CanFill(k, g) <=> g = k.to \/ (k.body.op = "manage" /\ g \in MayFill(k.body.of))
  BY DEF Guards, CanFill, CanFillPlain, ClientOps, Iterating
<1>4. ASSUME NEW g \in Futures
      PROVE  Part(k, g) <=> \/ k.body.op = "manage" /\ g \in Range(k.body.of.clusters)
                            \/ k.body.op = "cluster" /\ g = k.to
  BY DEF Part, PlainPart, Iterating
<1> QED  BY <1>1, <1>2, <1>3, <1>4

LEMMA WrappedCall ==
  ASSUME NEW c, NEW A, c.op = "run", Fine(c, A), NEW k, k = wrapped(c)
  PROVE  /\ Fine(k, A) /\ Private(k) = {}
         /\ \A g \in Futures :
              ~Guards(k, g) /\ (CanFill(k, g) <=> CanFill(c, g)) /\ (Part(k, g) <=> Part(c, g))
<1>1. k.op = "wrapped" /\ k.run = c /\ "op" \in DOMAIN k
  BY DEF wrapped
<1>2. Fine(k, A)
  <2>1. FinePlain(c, A)
    BY DEF Fine
  <2> QED  BY <1>1, <2>1 DEF Fine, FineWrapped
<1>3. Private(k) = {}
  BY <1>1 DEF Private
<1>4. ASSUME NEW g \in Futures
      PROVE  ~Guards(k, g) /\ (CanFill(k, g) <=> CanFill(c, g)) /\ (Part(k, g) <=> Part(c, g))
  <2>1. ~CanFillPlain(k, g) /\ ~PlainPart(k, g)
    BY <1>1 DEF CanFillPlain, PlainPart, ClientOps, AppliedToSuccess, AppliedToFailure, Iterating
  <2> QED  BY <1>1, <2>1 DEF Guards, CanFill, Part
<1> QED  BY <1>2, <1>3, <1>4

LEMMA ManageCall ==
  ASSUME NEW k, NEW A, "op" \in DOMAIN k, k.op = "manage", FineManager(k.of, A)
  PROVE  /\ Fine(k, A) /\ Private(k) = {}
         /\ \A g \in Futures : /\ ~Guards(k, g) /\ (CanFill(k, g) <=> g \in MayFill(k.of))
                               /\ Part(k, g) <=> g \in Range(k.of.clusters)
<1>1. Fine(k, A)
  BY DEF Fine, FinePlain, PlainOps, ClientOps, CallbackOps, Iterating, AppliedToSuccess,
         AppliedToFailure
<1>2. Private(k) = {}
  BY DEF Private
<1>3. ASSUME NEW g \in Futures
      PROVE  ~Guards(k, g) /\ (CanFill(k, g) <=> g \in MayFill(k.of))
  BY DEF Guards, CanFill, CanFillPlain, ClientOps, AppliedToSuccess, AppliedToFailure, Iterating
<1>4. ASSUME NEW g \in Futures PROVE Part(k, g) <=> g \in Range(k.of.clusters)
  BY DEF Part, PlainPart, Iterating
<1> QED  BY <1>1, <1>2, <1>3, <1>4

LEMMA ClusterCall ==
  ASSUME NEW k, NEW A, "op" \in DOMAIN k, k.op = "cluster", FineCluster(k, A)
  PROVE  /\ Fine(k, A) /\ Private(k) = {}
         /\ \A g \in Futures :
              /\ ~Guards(k, g)
              /\ CanFill(k, g) <=> g = IF k.promise = None THEN k.of.to ELSE k.promise
              /\ Part(k, g) <=> k.promise # None /\ g = k.promise
<1>1. Fine(k, A)
  BY DEF Fine, FinePlain, PlainOps, ClientOps, CallbackOps, Iterating, AppliedToSuccess,
         AppliedToFailure
<1>2. Private(k) = {}
  BY DEF Private
<1>3. ASSUME NEW g \in Futures
      PROVE  ~Guards(k, g) /\ (CanFill(k, g) <=> g = IF k.promise = None THEN k.of.to ELSE k.promise)
  BY DEF Guards, CanFill, CanFillPlain, ClientOps, AppliedToSuccess, AppliedToFailure, Iterating
<1>4. ASSUME NEW g \in Futures PROVE Part(k, g) <=> k.promise # None /\ g = k.promise
  BY DEF Part, PlainPart, Iterating
<1> QED  BY <1>1, <1>2, <1>3, <1>4

LEMMA ConcludeCall ==
  ASSUME NEW k, NEW A, "op" \in DOMAIN k, k.op = "conclude", FineManager(k.of, A)
  PROVE  /\ Fine(k, A) /\ Private(k) = {}
         /\ \A g \in Futures : ~Guards(k, g) /\ (CanFill(k, g) <=> g = k.of.to) /\ ~Part(k, g)
<1>1. Fine(k, A)
  BY DEF Fine, FinePlain, PlainOps, ClientOps, CallbackOps, Iterating, AppliedToSuccess,
         AppliedToFailure
<1>2. Private(k) = {}
  BY DEF Private
<1>3. ASSUME NEW g \in Futures
      PROVE  ~Guards(k, g) /\ (CanFill(k, g) <=> g = k.of.to) /\ ~Part(k, g)
  BY DEF Guards, CanFill, CanFillPlain, ClientOps, AppliedToSuccess, AppliedToFailure,
         Iterating, Part, PlainPart
<1> QED  BY <1>1, <1>2, <1>3

LEMMA WaitCall ==
  ASSUME NEW k, NEW A, NEW f, k = wait(f)
  PROVE  /\ Fine(k, A) /\ Private(k) = {}
         /\ \A g \in Futures : ~Guards(k, g) /\ ~CanFill(k, g) /\ ~Part(k, g)
<1>1. k.op = "wait" /\ "op" \in DOMAIN k
  BY DEF wait
<1>2. Fine(k, A)
  BY <1>1 DEF Fine, FinePlain, PlainOps, ClientOps, CallbackOps, Iterating, AppliedToSuccess,
              AppliedToFailure
<1>3. Private(k) = {}
  BY <1>1 DEF Private
<1>4. ASSUME NEW g \in Futures PROVE ~Guards(k, g) /\ ~CanFill(k, g) /\ ~Part(k, g)
  BY <1>1 DEF Guards, CanFill, CanFillPlain, ClientOps, AppliedToSuccess, AppliedToFailure,
              Iterating, Part, PlainPart
<1> QED  BY <1>2, <1>3, <1>4

\* Calls that were fine are when more has been asked for.
LEMMA FineGrows ==
  ASSUME NEW k, NEW A, NEW B, A \subseteq B, Fine(k, A)
  PROVE  Fine(k, B)
<1>1. \A c : FineManager(c, A) => FineManager(c, B)
  BY DEF FineManager
<1>2. \A c : FineCluster(c, A) => FineCluster(c, B)
  BY <1>1 DEF FineCluster
<1>3. \A c : FineRun(c, A) => FineRun(c, B)
  BY <1>1, <1>2 DEF FineRun
<1>4. \A c : FinePlain(c, A) => FinePlain(c, B)
  BY <1>1, <1>2, <1>3 DEF FinePlain
<1> QED  BY <1>4 DEF Fine, FineOn, FineWrapped

-----------------------------------------------------------------------------
(* What a call turns into *)

Passes(k, n, A) ==
    /\ Fine(n, A) /\ Private(n) \subseteq Private(k)
    /\ \A g \in Futures : CanFill(n, g) => CanFill(k, g) /\ (Part(k, g) => Part(n, g))
    /\ \A c, g : IsJob(n, c, g) => IsJob(k, c, g) \/ (k.op = "manage" /\ c = k.of)

\* A private future goes on to one call, or to the two callbacks of a sequence.
Apart(new, g) ==
    \A i, j \in DOMAIN new : i < j /\ CanFill(new[i], g) /\ CanFill(new[j], g) =>
        /\ j = i + 1 /\ ~Guards(new[i], g) /\ Guards(new[j], g)
        /\ new[i].op = "on" /\ new[i].ok = TRUE /\ new[i].from = new[j].from

Turns(k, new, A) ==
    /\ new \in Seq(Range(new))
    /\ \A i \in DOMAIN new : Passes(k, new[i], A)
    /\ \A g \in Futures : Part(k, g) => Apart(new, g)

LEMMA OverRange ==
  ASSUME NEW S, NEW s \in Seq(S)
  PROVE  s \in Seq(Range(s))
<1>1. Len(s) \in Nat /\ DOMAIN s = 1 .. Len(s) /\ s = [i \in 1 .. Len(s) |-> s[i]]
  OBVIOUS
<1>2. s \in [1 .. Len(s) -> Range(s)]
  BY <1>1 DEF Range
<1> QED  BY <1>1, <1>2, SeqDef

LEMMA Tuples ==
  /\ <<>> \in Seq(Range(<<>>)) /\ DOMAIN <<>> = {}
  /\ \A a : <<a>> \in Seq(Range(<<a>>)) /\ DOMAIN <<a>> = {1} /\ <<a>>[1] = a
  /\ \A a, b : /\ <<a, b>> \in Seq(Range(<<a, b>>)) /\ DOMAIN <<a, b>> = {1, 2}
               /\ <<a, b>>[1] = a /\ <<a, b>>[2] = b
  /\ \A a, b, c : /\ <<a, b, c>> \in Seq(Range(<<a, b, c>>)) /\ DOMAIN <<a, b, c>> = {1, 2, 3}
                  /\ <<a, b, c>>[1] = a /\ <<a, b, c>>[2] = b /\ <<a, b, c>>[3] = c
  /\ \A a, b, c, d : /\ <<a, b, c, d>> \in Seq(Range(<<a, b, c, d>>))
                     /\ DOMAIN <<a, b, c, d>> = {1, 2, 3, 4}
                     /\ <<a, b, c, d>>[1] = a /\ <<a, b, c, d>>[2] = b
                     /\ <<a, b, c, d>>[3] = c /\ <<a, b, c, d>>[4] = d
<1>1. <<>> \in Seq({}) /\ DOMAIN <<>> = {}
  OBVIOUS
<1>2. ASSUME NEW a PROVE <<a>> \in Seq({a}) /\ DOMAIN <<a>> = {1} /\ <<a>>[1] = a
  OBVIOUS
<1>3. ASSUME NEW a, NEW b
      PROVE  <<a, b>> \in Seq({a, b}) /\ DOMAIN <<a, b>> = {1, 2} /\ <<a, b>>[1] = a
             /\ <<a, b>>[2] = b
  OBVIOUS
<1>4. ASSUME NEW a, NEW b, NEW c
      PROVE  /\ <<a, b, c>> \in Seq({a, b, c}) /\ DOMAIN <<a, b, c>> = {1, 2, 3}
             /\ <<a, b, c>>[1] = a /\ <<a, b, c>>[2] = b /\ <<a, b, c>>[3] = c
  OBVIOUS
<1>5. ASSUME NEW a, NEW b, NEW c, NEW d
      PROVE  /\ <<a, b, c, d>> \in Seq({a, b, c, d}) /\ DOMAIN <<a, b, c, d>> = {1, 2, 3, 4}
             /\ <<a, b, c, d>>[1] = a /\ <<a, b, c, d>>[2] = b
             /\ <<a, b, c, d>>[3] = c /\ <<a, b, c, d>>[4] = d
  OBVIOUS
<1>7. <<>> \in Seq(Range(<<>>))
  BY <1>1, OverRange
<1>8. ASSUME NEW a PROVE <<a>> \in Seq(Range(<<a>>))
  BY <1>2, OverRange
<1>9. ASSUME NEW a, NEW b PROVE <<a, b>> \in Seq(Range(<<a, b>>))
  <2> DEFINE S == {a, b}
             s == <<a, b>>
  <2>1. s \in Seq(S)
    BY <1>3
  <2> HIDE DEF S, s
  <2>2. s \in Seq(Range(s))
    BY <2>1, OverRange
  <2> QED  BY <2>2 DEF s
<1>10. ASSUME NEW a, NEW b, NEW c PROVE <<a, b, c>> \in Seq(Range(<<a, b, c>>))
  <2> DEFINE S == {a, b, c}
             s == <<a, b, c>>
  <2>1. s \in Seq(S)
    BY <1>4
  <2> HIDE DEF S, s
  <2>2. s \in Seq(Range(s))
    BY <2>1, OverRange
  <2> QED  BY <2>2 DEF s
<1>11. ASSUME NEW a, NEW b, NEW c, NEW d PROVE <<a, b, c, d>> \in Seq(Range(<<a, b, c, d>>))
  <2> DEFINE S == {a, b, c, d}
             s == <<a, b, c, d>>
  <2>1. s \in Seq(S)
    BY <1>5
  <2> HIDE DEF S, s
  <2>2. s \in Seq(Range(s))
    BY <2>1, OverRange
  <2> QED  BY <2>2 DEF s
<1> QED  BY <1>1, <1>2, <1>3, <1>4, <1>5, <1>7, <1>8, <1>9, <1>10, <1>11

LEMMA NotAJob ==
  ASSUME NEW k, k.op \notin {"wrapped", "run", "cluster"}
  PROVE  \A c, g : ~IsJob(k, c, g)
BY DEF IsJob, BodyOf

LEMMA NoPart ==
  ASSUME NEW k, NEW g,
         k.op \in {"map", "filter", "flatMap", "mapFailure", "recover", "recoverWith", "cancel",
                   "trampoline", "zip", "repeat", "repeatData", "apply", "zipTail", "nextStep",
                   "runAndForget", "wait", "conclude"}
  PROVE  ~Part(k, g)
BY DEF Part, PlainPart, Iterating

LEMMA TurnsNone ==
  ASSUME NEW k, NEW A
  PROVE  Turns(k, <<>>, A)
BY Tuples DEF Turns, Apart

LEMMA TurnsOne ==
  ASSUME NEW k, NEW A, NEW n, Passes(k, n, A)
  PROVE  Turns(k, <<n>>, A)
<1> PICK new : new = <<n>>
  OBVIOUS
<1>1. new \in Seq(Range(new)) /\ DOMAIN new = {1} /\ new[1] = n
  BY Tuples
<1>2. \A g : Apart(new, g)
  BY <1>1 DEF Apart
<1> QED  BY <1>1, <1>2 DEF Turns

LEMMA TurnsTwo ==
  ASSUME NEW k, NEW A, NEW n, NEW m, Passes(k, n, A), Passes(k, m, A),
         \A g \in Futures : Part(k, g) /\ CanFill(n, g) /\ CanFill(m, g) =>
            ~Guards(n, g) /\ Guards(m, g) /\ n.op = "on" /\ n.ok = TRUE /\ n.from = m.from
  PROVE  Turns(k, <<n, m>>, A)
<1> PICK new : new = <<n, m>>
  OBVIOUS
<1>1. new \in Seq(Range(new)) /\ DOMAIN new = {1, 2} /\ new[1] = n /\ new[2] = m
  BY Tuples
<1>2. ASSUME NEW g \in Futures, Part(k, g) PROVE Apart(new, g)
  <2>1. ASSUME NEW i \in {1, 2}, NEW j \in {1, 2}, i < j PROVE i = 1 /\ j = 2
    BY <2>1
  <2> QED  BY <1>1, <1>2, <2>1 DEF Apart
<1> QED  BY <1>1, <1>2 DEF Turns

LEMMA TurnsThree ==
  ASSUME NEW k, NEW A, NEW a, NEW b, NEW n, Passes(k, a, A), Passes(k, b, A), Passes(k, n, A),
         \A g \in Futures : Part(k, g) => ~CanFill(a, g) /\ ~CanFill(b, g)
  PROVE  Turns(k, <<a, b, n>>, A)
<1> PICK new : new = <<a, b, n>>
  OBVIOUS
<1>1. new \in Seq(Range(new)) /\ DOMAIN new = {1, 2, 3} /\ new[1] = a /\ new[2] = b /\ new[3] = n
  BY Tuples
<1>2. ASSUME NEW g \in Futures, Part(k, g) PROVE Apart(new, g)
  <2>1. ASSUME NEW i \in {1, 2, 3}, CanFill(new[i], g) PROVE i = 3
    BY <1>1, <1>2, <2>1
  <2> QED  BY <1>1, <2>1 DEF Apart
<1>3. \A i \in DOMAIN new : Passes(k, new[i], A)
  BY <1>1
<1> QED  BY <1>1, <1>2, <1>3 DEF Turns

LEMMA TurnsUnparted ==
  ASSUME NEW k, NEW A, NEW new, new \in Seq(Range(new)),
         \A i \in DOMAIN new : Passes(k, new[i], A), \A g \in Futures : ~Part(k, g)
  PROVE  Turns(k, new, A)
BY DEF Turns

LEMMA PassesToTarget ==
  ASSUME NEW k, NEW A, NEW n, "op" \in DOMAIN n, n.op \in TargetOps, n.to \in Futures,
         n.op = "repeatData" => n = repeatData(n.steps, n.k, n.to), CanFill(k, n.to),
         n.op \in {"fillSuccess", "fillFailure", "forward"} \/ ~Part(k, n.to)
  PROVE  Passes(k, n, A)
<1>1. n.op \notin {"wrapped", "run", "cluster"}
  BY DEF TargetOps, AppliedToSuccess, AppliedToFailure
<1> QED  BY <1>1, TargetCall, NotAJob DEF Passes

LEMMA PassesToOn ==
  ASSUME NEW k, NEW A, NEW n, FineOn(n, A),
         \A g \in Futures : CanFillPlain(n.call, g) => CanFill(k, g) /\
            (Part(k, g) => n.call.op \in Iterating /\ g = n.call.call.to)
  PROVE  Passes(k, n, A)
<1>1. n.op \notin {"wrapped", "run", "cluster"}
  BY DEF FineOn
<1>2. \A d, h : ~IsJob(n, d, h)
  BY <1>1, NotAJob
<1> QED  BY <1>2, OnCall DEF Passes

LEMMA OnIsFine ==
  ASSUME NEW A, NEW f, NEW c, c.op \in CallbackOps, FinePlain(c, A)
  PROVE  FineOn(onSuccess(f, c), A) /\ (c.op \notin Iterating => FineOn(onFailure(f, c), A))
<1>1. FineOn(onSuccess(f, c), A)
  BY DEF FineOn, onSuccess
<1>2. c.op \notin Iterating => FineOn(onFailure(f, c), A)
  BY DEF FineOn, onFailure
<1> QED  BY <1>1, <1>2

LEMMA PassesToOnSuccess ==
  ASSUME NEW k, NEW A, NEW f, NEW c, c.op \in CallbackOps, FinePlain(c, A),
         \A g \in Futures : CanFillPlain(c, g) => CanFill(k, g) /\
            (Part(k, g) => c.op \in Iterating /\ g = c.call.to)
  PROVE  Passes(k, onSuccess(f, c), A)
<1>1. FineOn(onSuccess(f, c), A)
  BY OnIsFine
<1>2. onSuccess(f, c).call = c
  BY DEF onSuccess
<1> QED  BY <1>1, <1>2, PassesToOn

LEMMA PassesToOnFailure ==
  ASSUME NEW k, NEW A, NEW f, NEW c, c.op \in CallbackOps \ Iterating, FinePlain(c, A),
         \A g \in Futures : CanFillPlain(c, g) => CanFill(k, g) /\ ~Part(k, g)
  PROVE  Passes(k, onFailure(f, c), A)
<1>1. FineOn(onFailure(f, c), A)
  BY OnIsFine
<1>2. onFailure(f, c).call = c
  BY DEF onFailure
<1> QED  BY <1>1, <1>2, PassesToOn

LEMMA PassesToGuard ==
  ASSUME NEW k, NEW A, NEW f, NEW g \in Futures, CanFill(k, g), Part(k, g) => f \in Futures,
         NEW n, n = onFailure(f, forward(f, g))
  PROVE  Passes(k, n, A) /\ \A h \in Futures : CanFill(n, h) => h = g /\ Guards(n, h)
<1>1. n = [op |-> "on", from |-> f, ok |-> FALSE, call |-> forward(f, g)]
  BY DEF onFailure
<1> PICK c : c = forward(f, g)
  OBVIOUS
<1>2. "op" \in DOMAIN c /\ c.op = "forward" /\ c.to = g
  BY DEF forward
<1>3. c.op \in TargetOps /\ c.op \in CallbackOps \ Iterating
  BY <1>2 DEF TargetOps, CallbackOps, Iterating
<1>4. FinePlain(c, A) /\ \A h \in Futures : CanFillPlain(c, h) <=> h = c.to
  BY <1>2, <1>3, TargetCall
<1>5. Fine(n, A) /\ Private(n) = {} /\ \A h \in Futures : CanFill(n, h) <=> h = g
  <2>0. n = onFailure(f, c) 
    OBVIOUS
  <2>1. FineOn(n, A)
    BY <2>0, <1>3, <1>4, OnIsFine
  <2>2. n.call = c
    BY <2>0, <1>1
  <2> QED  BY <1>2, <1>4, <2>1, <2>2, OnCall
<1>6. n.op = "on" /\ n.from = f /\ Guards(n, g)
  <2>1. n.op = "on" /\ n.from = f
    BY <1>1
  <2> QED  BY <2>1 DEF Guards
<1>7. Part(k, g) => Part(n, g)
  BY <1>6 DEF Part
<1>8. \A d, h : ~IsJob(n, d, h)
  BY <1>6, NotAJob
<1> QED  BY <1>5, <1>6, <1>7, <1>8 DEF Passes

LEMMA ForwardCall ==
  ASSUME NEW A, NEW f, NEW g \in Futures
  PROVE  /\ FinePlain(forward(f, g), A) /\ forward(f, g).op \in CallbackOps \ Iterating
         /\ \A h \in Futures : CanFillPlain(forward(f, g), h) <=> h = g
<1> PICK c : c = forward(f, g)
  OBVIOUS
<1>1. "op" \in DOMAIN c /\ c.op = "forward" /\ c.to = g
  BY DEF forward
<1>2. c.op \in TargetOps /\ c.op \in CallbackOps \ Iterating
  BY <1>1 DEF TargetOps, CallbackOps, Iterating
<1>3. FinePlain(c, A) /\ \A h \in Futures : CanFillPlain(c, h) <=> h = c.to
  BY <1>1, <1>2, TargetCall
<1> QED  BY <1>1, <1>2, <1>3

LEMMA PassesToForwards ==
  ASSUME NEW k, NEW A, NEW e, NEW f, NEW g \in Futures, CanFill(k, g), ~Part(k, g)
  PROVE  /\ Passes(k, onSuccess(e, forward(f, g)), A)
         /\ Passes(k, onFailure(e, forward(f, g)), A)
<1> PICK c : c = forward(f, g)
  OBVIOUS
<1>1. FinePlain(c, A) /\ c.op \in CallbackOps \ Iterating
  BY ForwardCall
<1>2. \A h \in Futures : CanFillPlain(c, h) => h = g
  BY ForwardCall
<1>3. Passes(k, onSuccess(e, c), A)
  BY <1>1, <1>2, PassesToOnSuccess
<1>4. Passes(k, onFailure(e, c), A)
  BY <1>1, <1>2, PassesToOnFailure
<1> QED  BY <1>3, <1>4

\* A promise is filled.
LEMMA PassesToFill ==
  ASSUME NEW k, NEW A, NEW g \in Futures, CanFill(k, g), NEW v
  PROVE  Passes(k, fillSuccess(g, v), A) /\ Passes(k, fillFailure(g, v), A)
<1>1. Passes(k, fillSuccess(g, v), A)
  <2> PICK n : n = fillSuccess(g, v)
    OBVIOUS
  <2>1. "op" \in DOMAIN n /\ n.op = "fillSuccess" /\ n.to = g
    BY DEF fillSuccess
  <2> QED  BY <2>1, PassesToTarget DEF TargetOps
<1>2. Passes(k, fillFailure(g, v), A)
  <2> PICK n : n = fillFailure(g, v)
    OBVIOUS
  <2>1. "op" \in DOMAIN n /\ n.op = "fillFailure" /\ n.to = g
    BY DEF fillFailure
  <2> QED  BY <2>1, PassesToTarget DEF TargetOps
<1> QED  BY <1>1, <1>2

LEMMA PassesToMorphism ==
  ASSUME NEW k, NEW A, NEW m \in AppliedToSuccess \cup AppliedToFailure, NEW f,
         NEW g \in Futures, NEW fn, CanFill(k, g), ~Part(k, g)
  PROVE  Passes(k, morphism(m, f, g, fn), A)
<1> PICK n : n = morphism(m, f, g, fn)
  OBVIOUS
<1>1. "op" \in DOMAIN n /\ n.op = m /\ n.to = g
  BY DEF morphism
<1> QED  BY <1>1, PassesToTarget DEF TargetOps, AppliedToSuccess, AppliedToFailure

-----------------------------------------------------------------------------
(* Steps that only replace the call of a thread by others *)

\* What manages clusters goes on to do so, or to wait for all of them.
Hands(k, new) ==
    /\ k.op = "manage" =>
         \E i \in DOMAIN new : new[i].op = "cluster" /\ new[i].of = k.of /\ new[i].promise = None
    /\ k.op = "cluster" /\ k.promise = None =>
         \/ \E i \in DOMAIN new : new[i].op = "cluster" /\ new[i].of = k.of /\ new[i].promise = None
         \/ \E i \in DOMAIN new :
              /\ new[i].op = "conclude" /\ new[i].of = k.of
              /\ \A j \in Jobs(k.of) : \E h \in DOMAIN new : h < i /\ new[h] = wait(k.of.clusters[j])

TurnStep(t) ==
    /\ t \in Threads /\ stack[t] # <<>> /\ Call(t).op # "on"
    /\ UNCHANGED <<outcome, callbacks, queued>>
    /\ asked' \in {asked, asked \cup {Call(t)}}
    /\ Call(t).op = "wait" => outcome[Call(t).from] # None
    /\ \E new : Return(t, new) /\ Turns(Call(t), new, asked') /\ Hands(Call(t), new)

LEMMA Turned ==
  ASSUME NEW t \in Threads, stack[t] # <<>>, Call(t).op \notin {"on", "wait", "manage", "cluster"},
         UNCHANGED <<outcome, callbacks, queued>>, asked' \in {asked, asked \cup {Call(t)}},
         NEW new, Return(t, new), Turns(Call(t), new, asked')
  PROVE  TurnStep(t)
<1>1. Hands(Call(t), new)
  BY DEF Hands
<1> QED  BY <1>1 DEF TurnStep

LEMMA FillTurns ==
  ASSUME NEW t \in Threads, FillSuccess(t) \/ FillFailure(t), outcome[Call(t).to] # None,
         UNCHANGED queued
  PROVE  TurnStep(t)
<1>1. /\ stack[t] # <<>> /\ Call(t).op \in {"fillSuccess", "fillFailure"}
      /\ UNCHANGED <<outcome, callbacks, queued, asked>> /\ Return(t, <<>>)
  BY DEF FillSuccess, FillFailure, Fill, Calls
<1>2. Turns(Call(t), <<>>, asked')
  BY TurnsNone
<1> QED  BY <1>1, <1>2, Turned

LEMMA ForwardTurns ==
  ASSUME NEW t \in Threads, Forward(t), UNCHANGED queued, Fine(Call(t), asked)
  PROVE  TurnStep(t)
<1> PICK k : k = Call(t)
  OBVIOUS
<1>1. /\ stack[t] # <<>> /\ k.op = "forward" /\ UNCHANGED <<outcome, callbacks, queued, asked>>
      /\ \/ Return(t, <<fillSuccess(k.to, outcome[k.from].is)>>)
         \/ Return(t, <<fillFailure(k.to, outcome[k.from].is)>>)
  BY DEF Forward, Calls
<1>2. k.to \in Futures /\ "op" \in DOMAIN k
  BY <1>1 DEF Fine, FinePlain
<1>3. CanFill(k, k.to)
  BY <1>1, <1>2, TargetCall DEF TargetOps
<1>4. \A v : Passes(k, fillSuccess(k.to, v), asked') /\ Passes(k, fillFailure(k.to, v), asked')
  BY <1>2, <1>3, PassesToFill
<1>5. \A v : Turns(k, <<fillSuccess(k.to, v)>>, asked') /\ Turns(k, <<fillFailure(k.to, v)>>, asked')
  BY <1>4, TurnsOne
<1> QED  BY <1>1, <1>5, Turned

LEMMA WaitTurns ==
  ASSUME NEW t \in Threads, Wait(t), UNCHANGED queued
  PROVE  TurnStep(t)
<1>1. /\ stack[t] # <<>> /\ Call(t).op = "wait" /\ outcome[Call(t).from] # None
      /\ UNCHANGED <<outcome, callbacks, queued, asked>> /\ Return(t, <<>>)
  BY DEF Wait, Calls
<1>2. Turns(Call(t), <<>>, asked')
  BY TurnsNone
<1>3. Hands(Call(t), <<>>)
  BY <1>1 DEF Hands
<1> QED  BY <1>1, <1>2, <1>3 DEF TurnStep

LEMMA MorphTurns ==
  ASSUME NEW t \in Threads, Morph(t), UNCHANGED queued, Fine(Call(t), asked)
  PROVE  TurnStep(t)
<1> PICK k : k = Call(t)
  OBVIOUS
<1> PICK applied : applied = apply(k.op, k.from, k.to, k.fn)
  OBVIOUS
<1> PICK passed : passed = forward(k.from, k.to)
  OBVIOUS
<1>1. /\ stack[t] # <<>> /\ k.op \in AppliedToSuccess \cup AppliedToFailure
      /\ UNCHANGED <<outcome, callbacks, queued>> /\ asked' = asked \cup {k}
      /\ \/ Return(t, <<onSuccess(k.from, applied), onFailure(k.from, passed)>>)
         \/ Return(t, <<onSuccess(k.from, passed), onFailure(k.from, applied)>>)
  BY DEF Morph, Calls, Ask
<1>2. k.to \in Futures /\ "op" \in DOMAIN k
  BY <1>1 DEF Fine, FinePlain, IsClientCall, ClientOps, AppliedToSuccess, AppliedToFailure
<1>3. CanFill(k, k.to)
  BY <1>1, <1>2, TargetCall DEF TargetOps, AppliedToSuccess, AppliedToFailure
<1>4. \A g \in Futures : ~Part(k, g)
  BY <1>1, NoPart DEF AppliedToSuccess, AppliedToFailure
<1>5. \A f : Passes(k, onSuccess(f, passed), asked') /\ Passes(k, onFailure(f, passed), asked')
  BY <1>2, <1>3, <1>4, PassesToForwards
<1>6. FinePlain(applied, asked') /\ applied.op \in CallbackOps \ Iterating
      /\ \A h \in Futures : CanFillPlain(applied, h) <=> h = k.to
  <2>1. "op" \in DOMAIN applied /\ applied.op = "apply" /\ applied.to = k.to
    BY DEF apply
  <2>2. applied.op \in TargetOps /\ applied.op \in CallbackOps \ Iterating
    BY <2>1 DEF TargetOps, CallbackOps, Iterating
  <2> QED  BY <1>2, <2>1, <2>2, TargetCall
<1>7. \A f : Passes(k, onSuccess(f, applied), asked') /\ Passes(k, onFailure(f, applied), asked')
  BY <1>3, <1>4, <1>6, PassesToOnSuccess, PassesToOnFailure
<1>8. /\ Turns(k, <<onSuccess(k.from, applied), onFailure(k.from, passed)>>, asked')
      /\ Turns(k, <<onSuccess(k.from, passed), onFailure(k.from, applied)>>, asked')
  BY <1>4, <1>5, <1>7, TurnsTwo
<1>9. k.op \notin {"on", "wait", "manage", "cluster"}
  BY <1>1 DEF AppliedToSuccess, AppliedToFailure
<1> QED  BY <1>1, <1>8, <1>9, Turned

LEMMA ApplyTurns ==
  ASSUME NEW t \in Threads, Apply(t), UNCHANGED queued, Fine(Call(t), asked)
  PROVE  TurnStep(t)
<1> PICK k : k = Call(t)
  OBVIOUS
<1> DEFINE Flat(v) == <<onSuccess(v, forward(v, k.to)), onFailure(v, forward(v, k.to))>>
<1>1. stack[t] # <<>> /\ k.op = "apply" /\ UNCHANGED <<outcome, callbacks, queued, asked>>
  BY DEF Apply, Calls
<1>2. PICK new : /\ Return(t, new)
                 /\ \E v : \/ new = <<fillSuccess(k.to, v)>> \/ new = <<fillFailure(k.to, v)>>
                           \/ new = <<forward(v, k.to)>> \/ new = Flat(v)
  <2> PICK fn : fn = Does(k.fn, k.from)
    OBVIOUS
  <2> PICK new : /\ Return(t, new)
                 /\ new = CASE fn.does = "return" -> Given(k, fn.is)
                            [] fn.does = "WithFailure" /\ ReturnsFuture(k.how) ->
                                 <<fillFailure(k.to, fn.is)>>
                            [] fn.does = "WithFailure" /\ ~ReturnsFuture(k.how) ->
                                 Given(k, Default)
                            [] fn.does = "future" -> Flat(fn.is)
                            [] OTHER -> <<fillFailure(k.to, Exception)>>
    BY DEF Apply
  <2>1. ASSUME NEW v
        PROVE  \/ Given(k, v) = <<fillSuccess(k.to, v)>> \/ Given(k, v) = <<fillFailure(k.to, v)>>
               \/ Given(k, v) = <<fillFailure(k.to, Rejected)>>
               \/ Given(k, v) = <<forward(k.from, k.to)>>
    <3>1. k.how = "filter" => Given(k, v) = <<forward(k.from, k.to)>>
                              \/ Given(k, v) = <<fillFailure(k.to, Rejected)>>
      BY DEF Given
    <3>2. k.how # "filter" => Given(k, v) = <<fillSuccess(k.to, v)>>
                              \/ Given(k, v) = <<fillFailure(k.to, v)>>
      BY DEF Given
    <3> QED  BY <3>1, <3>2
  <2> HIDE DEF Flat
  <2>2. \/ new = Given(k, fn.is) \/ new = Given(k, Default) \/ new = Flat(fn.is)
        \/ new = <<fillFailure(k.to, Exception)>> \/ new = <<fillFailure(k.to, fn.is)>>
    OBVIOUS
  <2>3. \E v : \/ new = <<fillSuccess(k.to, v)>> \/ new = <<fillFailure(k.to, v)>>
               \/ new = <<forward(v, k.to)>> \/ new = Flat(v)
    BY <2>1, <2>2
  <2> QED  BY <2>3
<1>3. k.to \in Futures /\ "op" \in DOMAIN k
  BY <1>1 DEF Fine, FinePlain
<1>4. CanFill(k, k.to) /\ \A g : ~Part(k, g)
  BY <1>1, <1>3, TargetCall, NoPart DEF TargetOps
<1>5. \A v : Passes(k, fillSuccess(k.to, v), asked') /\ Passes(k, fillFailure(k.to, v), asked')
  BY <1>3, <1>4, PassesToFill
<1>6. ASSUME NEW v PROVE Passes(k, forward(v, k.to), asked')
  <2> PICK n : n = forward(v, k.to)
    OBVIOUS
  <2>1. "op" \in DOMAIN n /\ n.op = "forward" /\ n.to = k.to
    BY DEF forward
  <2> QED  BY <1>3, <1>4, <2>1, PassesToTarget DEF TargetOps
<1>7. ASSUME NEW v PROVE Turns(k, Flat(v), asked')
  <2>1. /\ Passes(k, onSuccess(v, forward(v, k.to)), asked')
        /\ Passes(k, onFailure(v, forward(v, k.to)), asked')
    BY <1>3, <1>4, PassesToForwards
  <2> QED  BY <1>4, <2>1, TurnsTwo
<1>8. ASSUME NEW n, Passes(k, n, asked') PROVE Turns(k, <<n>>, asked')
  BY <1>8, TurnsOne
<1> HIDE DEF Flat
<1>9. Turns(k, new, asked')
  BY <1>2, <1>5, <1>6, <1>7, <1>8
<1> QED  BY <1>1, <1>2, <1>9, Turned

LEMMA ZipHeadTurns ==
  ASSUME NEW t \in Threads, ZipHead(t), UNCHANGED queued, Fine(Call(t), asked)
  PROVE  TurnStep(t)
<1> PICK k : k = Call(t)
  OBVIOUS
<1> PICK tail : tail = [k EXCEPT !.op = "zipTail"]
  OBVIOUS
<1>1. /\ stack[t] # <<>> /\ k.op = "zip"
      /\ UNCHANGED <<outcome, callbacks, queued>> /\ asked' = asked \cup {k}
      /\ \/ Return(t, <<morphism("map", k.from, k.to, Joins(<<>>))>>)
         \/ /\ k.others # <<>>
            /\ Return(t, <<onSuccess(k.from, tail), onFailure(k.from, forward(k.from, k.to))>>)
  BY DEF ZipHead, Calls, Ask
<1>2. IsClientCall(k) /\ FillsOnce(k)
  BY <1>1 DEF Fine, FinePlain, ClientOps
<1>3. /\ k.to \in Futures /\ k = zip(k.from, k.others, k.via, k.to)
      /\ k.others \in Seq(Futures) /\ k.via \in Seq(Futures) /\ 2 * Len(k.others) <= Len(k.via)
  BY <1>1, <1>2 DEF IsClientCall
<1>4. \A g \in Futures : CanFill(k, g) <=> g = k.to \/ g \in Range(k.via)
  BY <1>1, <1>2, <1>3, ClientCall DEF MayFill
<1>5. \A g : ~Part(k, g)
  BY <1>1, NoPart
<1>6. Passes(k, morphism("map", k.from, k.to, Joins(<<>>)), asked')
  BY <1>3, <1>4, <1>5, PassesToMorphism DEF AppliedToSuccess
<1>7. CASE k.others # <<>>
  <2>1. /\ "op" \in DOMAIN tail /\ tail.op = "zipTail" /\ tail.to = k.to
        /\ tail.others = k.others /\ tail.via = k.via
    BY <1>3 DEF zip
  <2>2. FinePlain(tail, asked')
        /\ \A g \in Futures : CanFillPlain(tail, g) <=> g = k.to \/ g \in Range(k.via)
    BY <1>3, <1>7, <2>1, ZipTailCall
  <2>3. tail.op \in CallbackOps
    BY <2>1 DEF CallbackOps
  <2>4. Passes(k, onSuccess(k.from, tail), asked')
    BY <1>4, <1>5, <2>2, <2>3, PassesToOnSuccess
  <2>5. Passes(k, onFailure(k.from, forward(k.from, k.to)), asked')
    BY <1>3, <1>4, <1>5, PassesToForwards
  <2> QED  BY <1>1, <1>5, <1>6, <2>4, <2>5, TurnsOne, TurnsTwo, Turned
<1>8. CASE k.others = <<>>
  BY <1>1, <1>6, <1>8, TurnsOne, Turned
<1> QED  BY <1>7, <1>8

LEMMA ZipTailTurns ==
  ASSUME NEW t \in Threads, ZipTail(t), UNCHANGED queued, Fine(Call(t), asked)
  PROVE  TurnStep(t)
<1> PICK k : k = Call(t)
  OBVIOUS
<1> PICK zipped : zipped = k.via[1]
  OBVIOUS
<1> PICK joined : joined = k.via[2]
  OBVIOUS
<1> PICK rest : rest = zip(Head(k.others), Tail(k.others), SubSeq(k.via, 3, Len(k.via)), zipped)
  OBVIOUS
<1> PICK left : left = Joins(AsTuple(outcome[k.from].is))
  OBVIOUS
<1>1. /\ stack[t] # <<>> /\ k.op = "zipTail" /\ UNCHANGED <<outcome, callbacks, queued, asked>>
      /\ Return(t, <<rest, morphism("map", zipped, joined, left),
                     onSuccess(joined, forward(joined, k.to)),
                     onFailure(joined, forward(joined, k.to))>>)
  BY DEF ZipTail, Calls
<1>2. /\ k.to \in Futures /\ "op" \in DOMAIN k
      /\ k.others \in Seq(Futures) /\ k.others # <<>> /\ k.via \in Seq(Futures)
      /\ 2 * Len(k.others) <= Len(k.via)
  BY <1>1 DEF Fine, FinePlain
<1>3. \A g \in Futures : CanFill(k, g) <=> g = k.to \/ g \in Range(k.via)
  <2>1. \A g \in Futures : CanFillPlain(k, g) <=> g = k.to \/ g \in Range(k.via)
    BY <1>1, <1>2, ZipTailCall
  <2> QED  BY <1>1, <2>1 DEF CanFill
<1>4. \A g : ~Part(k, g)
  BY <1>1, NoPart
<1>5. zipped \in Futures /\ joined \in Futures /\ CanFill(k, zipped) /\ CanFill(k, joined)
  <2>1. 1 \in DOMAIN k.via /\ 2 \in DOMAIN k.via
    BY <1>2
  <2> QED  BY <1>2, <1>3, <2>1 DEF Range
<1>6. Passes(k, rest, asked')
  <2> PICK others : others = Tail(k.others)
    OBVIOUS
  <2> PICK via : via = SubSeq(k.via, 3, Len(k.via))
    OBVIOUS
  <2>1. others \in Seq(Futures) /\ Len(others) = Len(k.others) - 1
    BY <1>2
  <2>2. via \in Seq(Futures) /\ Len(via) = Len(k.via) - 2
        /\ \A i \in 1 .. Len(via) : via[i] = k.via[i + 2]
    <3>1. Len(k.others) \in Nat \ {0} /\ Len(k.via) \in Nat
      BY <1>2
    <3>2. \A i \in 3 .. Len(k.via) : k.via[i] \in Futures
      BY <1>2
    <3> QED  BY <1>2, <3>1, <3>2, SubSeqProperties
  <2>3. 2 * Len(others) <= Len(via)
    BY <1>2, <2>1, <2>2
  <2>4. Range(via) \subseteq Range(k.via)
    BY <1>2, <2>2 DEF Range
  <2>5. rest = zip(Head(k.others), others, via, zipped)
    OBVIOUS
  <2>6. /\ "op" \in DOMAIN rest /\ rest.op = "zip" /\ rest.to = zipped
        /\ rest.others = others /\ rest.via = via
        /\ rest = zip(rest.from, rest.others, rest.via, rest.to)
    BY <2>5 DEF zip
  <2>7. IsClientCall(rest) /\ FillsOnce(rest)
    BY <1>5, <2>1, <2>2, <2>3, <2>6 DEF IsClientCall, FillsOnce, ClientOps
  <2>8. Private(rest) = {} /\ \A d, h : ~IsJob(rest, d, h)
    BY <2>6, PrivateOfClient, NotAJob
  <2>9. \A g \in Futures : CanFill(rest, g) <=> g \in MayFill(rest)
    BY <2>7, ClientCall
  <2>10. \A g \in MayFill(rest) : g = zipped \/ g \in Range(via)
    BY <2>6 DEF MayFill
  <2>11. Fine(rest, asked')
    BY <2>7, ClientCall
  <2> QED  BY <1>3, <1>4, <1>5, <2>4, <2>8, <2>9, <2>10, <2>11 DEF Passes
<1>7. Passes(k, morphism("map", zipped, joined, left), asked')
  BY <1>4, <1>5, PassesToMorphism DEF AppliedToSuccess
<1>8. /\ Passes(k, onSuccess(joined, forward(joined, k.to)), asked')
      /\ Passes(k, onFailure(joined, forward(joined, k.to)), asked')
  BY <1>2, <1>3, <1>4, PassesToForwards
<1>9. PICK new : new = <<rest, morphism("map", zipped, joined, left),
                         onSuccess(joined, forward(joined, k.to)),
                         onFailure(joined, forward(joined, k.to))>>
  OBVIOUS
<1>10. new \in Seq(Range(new)) /\ \A i \in DOMAIN new : Passes(k, new[i], asked')
  BY <1>6, <1>7, <1>8, <1>9, Tuples
<1>11. Turns(k, new, asked')
  BY <1>4, <1>10, TurnsUnparted
<1> QED  BY <1>1, <1>9, <1>11, Turned

LEMMA PassesToIteration ==
  ASSUME NEW k, NEW A, NEW n, "op" \in DOMAIN n, n.op \in Iterating, FineIteration(n),
         \A g \in Futures : g \in MayFill(n.call) => CanFill(k, g) /\ (Part(k, g) => g = n.call.to)
  PROVE  Passes(k, n, A)
<1>1. \A d, h : ~IsJob(n, d, h)
  BY NotAJob DEF Iterating
<1>2. /\ Fine(n, A) /\ Private(n) = {}
      /\ \A g \in Futures : /\ CanFill(n, g) <=> g \in MayFill(n.call)
                            /\ Part(n, g) <=> g = n.call.to
  BY IterationCall
<1> QED  BY <1>1, <1>2 DEF Passes

\* What is known of an iteration.
LEMMA Iteration ==
  ASSUME NEW k, NEW A, k.op \in Iterating, Fine(k, A)
  PROVE  /\ "op" \in DOMAIN k /\ FineIteration(k) /\ FinePlain(k, A)
         /\ IsClientCall(k.call) /\ FillsOnce(k.call) /\ k.call.to \in Futures
         /\ \A g \in Futures : /\ CanFill(k, g) <=> g \in MayFill(k.call)
                               /\ CanFillPlain(k, g) <=> g \in MayFill(k.call)
                               /\ Part(k, g) <=> g = k.call.to
         /\ k.call.to \in MayFill(k.call)
<1>1. "op" \in DOMAIN k /\ FineIteration(k) /\ FinePlain(k, A)
  BY DEF Iterating, Fine, FinePlain
<1>2. IsClientCall(k.call) /\ FillsOnce(k.call)
  BY <1>1 DEF FineIteration
<1>3. k.call.to \in Futures
  BY <1>2 DEF IsClientCall
<1>4. \A g \in Futures : /\ CanFill(k, g) <=> g \in MayFill(k.call)
                         /\ CanFillPlain(k, g) <=> g \in MayFill(k.call)
                         /\ Part(k, g) <=> g = k.call.to
  BY <1>1, IterationCall
<1>5. k.call.to \in MayFill(k.call)
  BY <1>3 DEF MayFill
<1> QED  BY <1>1, <1>2, <1>3, <1>4, <1>5

\* The callbacks of an iteration: to go on, and to pass on a failure.
LEMMA TurnsToWaiting ==
  ASSUME NEW k, NEW A, NEW f \in Futures, NEW i, i.op \in Iterating, FinePlain(i, A),
         NEW g \in Futures, g = i.call.to, CanFill(k, g),
         \A h \in Futures : CanFillPlain(i, h) => CanFill(k, h) /\ (Part(k, h) => h = g),
         \A h \in Futures : Part(k, h) => h = g
  PROVE  Turns(k, <<onSuccess(f, i), onFailure(f, forward(f, g))>>, A)
<1> PICK n : n = onSuccess(f, i)
  OBVIOUS
<1> PICK m : m = onFailure(f, forward(f, g))
  OBVIOUS
<1>1. n.op = "on" /\ n.ok = TRUE /\ n.from = f
  BY DEF onSuccess
<1>2. m.from = f
  BY DEF onFailure
<1>3. Passes(k, n, A)
  <2>1. i.op \in CallbackOps
    BY DEF CallbackOps
  <2> QED  BY <2>1, PassesToOnSuccess
<1>4. Passes(k, m, A) /\ \A h \in Futures : CanFill(m, h) => h = g /\ Guards(m, h)
  <2>1. Passes(k, m, A)
    BY PassesToGuard
  <2>2. ASSUME NEW h \in Futures, CanFill(m, h) PROVE h = g /\ Guards(m, h)
    BY <2>2, PassesToGuard
  <2> QED  BY <2>1, <2>2
<1>5. \A h : ~Guards(n, h)
  BY <1>1 DEF Guards, onFailure
<1>6. Turns(k, <<n, m>>, A)
  BY <1>1, <1>2, <1>3, <1>4, <1>5, TurnsTwo
<1> QED  BY <1>6

LEMMA StartSequenceTurns ==
  ASSUME NEW t \in Threads, StartSequence(t), UNCHANGED queued, Fine(Call(t), asked)
  PROVE  TurnStep(t)
<1> PICK k : k = Call(t)
  OBVIOUS
<1> PICK n : n = iterateSequence(k, 1, <<>>)
  OBVIOUS
<1>1. /\ stack[t] # <<>> /\ k.op \in {"sequence", "sequenceWithFailures"}
      /\ UNCHANGED <<outcome, callbacks, queued>> /\ asked' = asked \cup {k}
      /\ Return(t, <<n>>)
  BY DEF StartSequence, Calls, Ask
<1>2. IsClientCall(k) /\ FillsOnce(k)
  BY <1>1 DEF Fine, FinePlain, ClientOps
<1>3. "op" \in DOMAIN n /\ n.op = "iterateSequence" /\ n.call = k /\ n.current = 1
  BY DEF iterateSequence
<1>4. FineIteration(n) /\ n.op \in Iterating
  BY <1>1, <1>2, <1>3 DEF FineIteration, Iterating
<1>5. \A g \in Futures : /\ CanFill(k, g) <=> g \in MayFill(k)
                         /\ Part(k, g) => g = k.to
  <2>1. \A g \in Futures : Part(k, g) => g = k.to
    BY <1>1 DEF Part, PlainPart, Iterating
  <2> QED  BY <1>2, <2>1, ClientCall
<1>6. Turns(k, <<n>>, asked')
  BY <1>3, <1>4, <1>5, PassesToIteration, TurnsOne
<1> QED  BY <1>1, <1>6, Turned

LEMMA SequenceTurns ==
  ASSUME NEW t \in Threads, SequenceEnd(t) \/ SequencePass(t) \/ SequenceWait(t),
         UNCHANGED queued, Fine(Call(t), asked)
  PROVE  TurnStep(t)
<1> PICK k : k = Call(t)
  OBVIOUS
<1> PICK c : c = k.call
  OBVIOUS
<1>1. stack[t] # <<>> /\ k.op = "iterateSequence" /\ UNCHANGED <<outcome, callbacks, queued, asked>>
  BY DEF SequenceEnd, SequencePass, SequenceWait, Calls
<1>2. k.op \in Iterating
  BY <1>1 DEF Iterating
<1>3. /\ "op" \in DOMAIN k /\ FineIteration(k) /\ FinePlain(k, asked')
      /\ IsClientCall(c) /\ FillsOnce(c) /\ c.to \in Futures /\ c.to \in MayFill(c)
      /\ \A g \in Futures : /\ CanFill(k, g) <=> g \in MayFill(c)
                            /\ CanFillPlain(k, g) <=> g \in MayFill(c)
                            /\ Part(k, g) <=> g = c.to
  BY <1>1, <1>2, Iteration
<1>4. c.op \in {"sequence", "sequenceWithFailures"} /\ k.current \in Nat \ {0}
  BY <1>1, <1>3 DEF FineIteration
<1>5. c.of \in Seq(Futures)
  BY <1>3, <1>4 DEF IsClientCall
<1>6. CASE SequenceEnd(t)
  <2>1. Return(t, <<fillSuccess(c.to, k.result)>>)
    BY <1>6 DEF SequenceEnd
  <2> QED  BY <1>1, <1>3, <2>1, PassesToFill, TurnsOne, Turned
<1>7. CASE SequencePass(t)
  <2>1. PICK o, v : \/ Return(t, <<fillFailure(c.to, o.is)>>)
                    \/ Return(t, <<iterateSequence(c, k.current + 1, v)>>)
    BY <1>7 DEF SequencePass
  <2>2. CASE Return(t, <<fillFailure(c.to, o.is)>>)
    BY <1>1, <1>3, <2>2, PassesToFill, TurnsOne, Turned
  <2>3. CASE Return(t, <<iterateSequence(c, k.current + 1, v)>>)
    <3> PICK n : n = iterateSequence(c, k.current + 1, v)
      OBVIOUS
    <3>1. "op" \in DOMAIN n /\ n.op = "iterateSequence" /\ n.call = c /\ n.current = k.current + 1
      BY DEF iterateSequence
    <3>2. FineIteration(n) /\ n.op \in Iterating
      BY <1>3, <1>4, <3>1 DEF FineIteration, Iterating
    <3>3. Turns(k, <<n>>, asked')
      BY <1>3, <3>1, <3>2, PassesToIteration, TurnsOne
    <3> QED  BY <1>1, <2>3, <3>3, Turned
  <2> QED  BY <2>1, <2>2, <2>3
<1>8. CASE SequenceWait(t)
  <2> PICK f : f = c.of[k.current]
    OBVIOUS
  <2>1. k.current <= Len(c.of)
    BY <1>8 DEF SequenceWait
  <2>2. f \in Futures
    BY <1>4, <1>5, <2>1
  <2>3. CASE c.op = "sequence"
    <3>1. Return(t, <<onSuccess(f, k), onFailure(f, forward(f, c.to))>>)
      BY <1>8, <2>3 DEF SequenceWait
    <3>2. Turns(k, <<onSuccess(f, k), onFailure(f, forward(f, c.to))>>, asked')
      BY <1>2, <1>3, <2>2, TurnsToWaiting
    <3> QED  BY <1>1, <3>1, <3>2, Turned
  <2>4. CASE c.op = "sequenceWithFailures"
    <3> PICK v : v = c.via[k.current]
      OBVIOUS
    <3> PICK n : n = onSuccess(v[2], k)
      OBVIOUS
    <3> PICK new : new = <<andThenValue(f, v[1], TRUE), recoverValue(v[1], v[2], TRUE), n>>
      OBVIOUS
    <3>1. Return(t, new)
      BY <1>8, <2>4 DEF SequenceWait
    <3>2. v \in Futures \X Futures /\ v \in Range(c.via)
      <4>1. c.via \in Seq(Futures \X Futures) /\ Len(c.of) <= Len(c.via)
        BY <1>3, <2>4 DEF IsClientCall
      <4>2. k.current \in DOMAIN c.via
        BY <1>4, <1>5, <2>1, <4>1
      <4> QED  BY <4>1, <4>2 DEF Range
    <3>3. v[1] \in MayFill(c) /\ v[2] \in MayFill(c) /\ v[1] # c.to /\ v[2] # c.to
          /\ v[1] \in Futures /\ v[2] \in Futures
      BY <1>3, <2>4, <3>2 DEF MayFill, FillsOnce
    <3>4. Passes(k, andThenValue(f, v[1], TRUE), asked')
      BY <1>3, <3>3, PassesToMorphism DEF andThenValue, AppliedToSuccess
    <3>5. Passes(k, recoverValue(v[1], v[2], TRUE), asked')
      BY <1>3, <3>3, PassesToMorphism DEF recoverValue, AppliedToFailure
    <3>6. Passes(k, n, asked')
      BY <1>2, <1>3, PassesToOnSuccess DEF CallbackOps
    <3>7. ASSUME NEW g \in Futures, Part(k, g)
          PROVE  ~CanFill(andThenValue(f, v[1], TRUE), g) /\ ~CanFill(recoverValue(v[1], v[2], TRUE), g)
      <4> PICK a : a = andThenValue(f, v[1], TRUE)
        OBVIOUS
      <4> PICK b : b = recoverValue(v[1], v[2], TRUE)
        OBVIOUS
      <4>1. "op" \in DOMAIN a /\ a.op = "map" /\ a.to = v[1]
        BY DEF andThenValue, morphism
      <4>2. "op" \in DOMAIN b /\ b.op = "recover" /\ b.to = v[2]
        BY DEF recoverValue, morphism
      <4>3. a.op \in TargetOps /\ b.op \in TargetOps
        BY <4>1, <4>2 DEF TargetOps, AppliedToSuccess, AppliedToFailure
      <4>4. CanFill(a, g) <=> g = a.to
        BY <3>3, <4>1, <4>3, TargetCall, ZenonT(40) DEF TargetOps
      <4>5. CanFill(b, g) <=> g = b.to
        BY <3>3, <4>2, <4>3, TargetCall, ZenonT(40) DEF TargetOps
      <4> QED  BY <1>3, <3>3, <3>7, <4>1, <4>2, <4>4, <4>5
    <3>8. Turns(k, new, asked')
      BY <3>4, <3>5, <3>6, <3>7, TurnsThree
    <3> QED  BY <1>1, <3>1, <3>8, Turned
  <2> QED  BY <1>4, <2>3, <2>4
<1> QED  BY <1>6, <1>7, <1>8

LEMMA TurnsSingly ==
  ASSUME NEW k, NEW A, NEW new, new \in Seq(Range(new)),
         \A i \in DOMAIN new : Passes(k, new[i], A),
         \A g \in Futures : \A i, j \in DOMAIN new :
            Part(k, g) /\ CanFill(new[i], g) /\ CanFill(new[j], g) => i = j
  PROVE  Turns(k, new, A)
<1>1. ASSUME NEW g \in Futures, Part(k, g) PROVE Apart(new, g)
  <2>1. ASSUME NEW i \in DOMAIN new, NEW j \in DOMAIN new, CanFill(new[i], g), CanFill(new[j], g)
        PROVE  ~(i < j)
    <3>1. i = j
      BY <1>1, <2>1
    <3>2. i \in Int
      OBVIOUS
    <3> QED  BY <3>1, <3>2
  <2> QED  BY <2>1 DEF Apart
<1> QED  BY <1>1 DEF Turns

LEMMA ASequence ==
  ASSUME NEW n \in Nat, NEW S, NEW s \in [1 .. n -> S]
  PROVE  s \in Seq(S) /\ Len(s) = n
OBVIOUS

\* One more call after those of a sequence.
LEMMA AndLast ==
  ASSUME NEW S, NEW s \in Seq(S), NEW f
  PROVE  /\ s \o <<f>> \in Seq(Range(s \o <<f>>))
         /\ Len(s) \in Nat /\ DOMAIN s = 1 .. Len(s)
         /\ DOMAIN (s \o <<f>>) = 1 .. (Len(s) + 1) /\ (s \o <<f>>)[Len(s) + 1] = f
         /\ \A i \in DOMAIN s : (s \o <<f>>)[i] = s[i]
<1> DEFINE new == s \o <<f>>
<1>1. s \in Seq(S \cup {f}) /\ <<f>> \in Seq(S \cup {f}) /\ Len(<<f>>) = 1 /\ <<f>>[1] = f
  OBVIOUS
<1>2. /\ new \in Seq(S \cup {f}) /\ Len(new) = Len(s) + 1
      /\ \A i \in 1 .. Len(s) + 1 : new[i] = IF i <= Len(s) THEN s[i] ELSE <<f>>[i - Len(s)]
  BY <1>1, ConcatProperties
<1>3. Len(s) \in Nat /\ DOMAIN s = 1 .. Len(s)
  OBVIOUS
<1> HIDE DEF new
<1>4. DOMAIN new = 1 .. (Len(s) + 1)
  BY <1>2
<1>5. new \in Seq(Range(new))
  BY <1>2, OverRange
<1>6. new[Len(s) + 1] = f /\ \A i \in DOMAIN s : new[i] = s[i]
  BY <1>1, <1>2, <1>3
<1> QED  BY <1>3, <1>4, <1>5, <1>6 DEF new

LEMMA PassesToRun ==
  ASSUME NEW k, NEW A, NEW g \in Futures, NEW body, "op" \in DOMAIN body, body.op = "apply",
         body.to = g
  PROVE  /\ CanFill(k, g) /\ ~Part(k, g) => Passes(k, runBody(g, body), A)
         /\ \A h \in Futures : CanFill(runBody(g, body), h) <=> h = g
<1> PICK n : n = runBody(g, body)
  OBVIOUS
<1>1. n.op = "run" /\ "op" \in DOMAIN n /\ n.to = g /\ n.body = body
  BY DEF runBody
<1>2. FineRun(n, A)
  BY <1>1 DEF FineRun
<1>3. Fine(n, A) /\ Private(n) = {} /\ \A h \in Futures : CanFill(n, h) <=> h = g
  BY <1>1, <1>2, RunCall
<1>4. \A c, h : ~IsJob(n, c, h)
  BY <1>1 DEF IsJob, BodyOf
<1>5. CanFill(k, g) /\ ~Part(k, g) => Passes(k, n, A)
  BY <1>3, <1>4 DEF Passes
<1> QED  BY <1>3, <1>5

LEMMA TurnsAndLast ==
  ASSUME NEW k, NEW A, NEW S, NEW s \in Seq(S), NEW f,
         \A i \in DOMAIN s : Passes(k, s[i], A), Passes(k, f, A),
         \A g \in Futures : \A i, j \in DOMAIN s :
            Part(k, g) /\ CanFill(s[i], g) => ~CanFill(f, g) /\ (CanFill(s[j], g) => i = j)
  PROVE  Turns(k, s \o <<f>>, A)
<1> DEFINE new == s \o <<f>>
<1>1. /\ new \in Seq(Range(new)) /\ Len(s) \in Nat /\ DOMAIN s = 1 .. Len(s)
      /\ DOMAIN new = 1 .. (Len(s) + 1) /\ new[Len(s) + 1] = f
      /\ \A i \in DOMAIN s : new[i] = s[i]
  BY AndLast DEF new
<1> HIDE DEF new
<1>2. \A i \in DOMAIN new : i \in DOMAIN s \/ i = Len(s) + 1
  BY <1>1
<1>3. ASSUME NEW i \in DOMAIN new PROVE Passes(k, new[i], A)
  BY <1>1, <1>2
<1>4. ASSUME NEW g \in Futures, NEW i \in DOMAIN new, NEW j \in DOMAIN new,
             Part(k, g), CanFill(new[i], g), CanFill(new[j], g)
      PROVE  i = j
  BY <1>1, <1>2, <1>4
<1>5. Turns(k, new, A)
  BY <1>1, <1>3, <1>4, TurnsSingly
<1> QED  BY <1>5 DEF new

LEMMA RunAllTurns ==
  ASSUME NEW t \in Threads, RunAll(t), Fine(Call(t), asked)
  PROVE  TurnStep(t)
<1> PICK k : k = Call(t)
  OBVIOUS
<1> DEFINE runs == [i \in DOMAIN k.of |-> run(k.of[i], k.fns[i])]
           last == sequence(k.of, k.to)
<1>1. /\ stack[t] # <<>> /\ k.op = "runAll" /\ UNCHANGED <<outcome, callbacks, queued, asked>>
      /\ Return(t, runs \o <<last>>)
  BY DEF RunAll, Calls
<1>2. IsClientCall(k) /\ FillsOnce(k)
  BY <1>1 DEF Fine, FinePlain, ClientOps
<1>3. k.to \in Futures /\ k.of \in Seq(Futures) /\ k.to \notin Range(k.of)
  BY <1>1, <1>2 DEF IsClientCall, FillsOnce
<1>4. \A g \in Futures : CanFill(k, g) <=> g = k.to \/ g \in Range(k.of)
  BY <1>1, <1>2, ClientCall DEF MayFill
<1>5. \A g \in Futures : Part(k, g) <=> g = k.to
  BY <1>1 DEF Part, PlainPart, Iterating
<1>6. ASSUME NEW i \in DOMAIN k.of
      PROVE  Passes(k, runs[i], asked') /\ \A g \in Futures : CanFill(runs[i], g) <=> g = k.of[i]
  <2> DEFINE f == k.of[i]
             body == apply("run", None, f, k.fns[i])
  <2>1. f \in Futures /\ f \in Range(k.of)
    BY <1>3 DEF Range
  <2>2. "op" \in DOMAIN body /\ body.op = "apply" /\ body.to = f
    BY DEF apply
  <2>3. runs[i] = runBody(f, body)
    BY DEF run
  <2> HIDE DEF f, body, runs
  <2>4. CanFill(k, f) /\ ~Part(k, f)
    BY <1>3, <1>4, <1>5, <2>1
  <2>5. Passes(k, runBody(f, body), asked')
    BY <2>1, <2>2, <2>4, PassesToRun
  <2>6. \A g \in Futures : CanFill(runBody(f, body), g) <=> g = f
    BY <2>1, <2>2, PassesToRun
  <2> QED  BY <2>3, <2>5, <2>6 DEF f
<1>7. Passes(k, last, asked') /\ \A g \in Futures : CanFill(last, g) <=> g = k.to
  <2>1. last.op = "sequence" /\ "op" \in DOMAIN last /\ last.to = k.to /\ last.of = k.of
    BY DEF sequence
  <2> HIDE DEF last
  <2>2. IsClientCall(last) /\ FillsOnce(last)
    BY <1>3, <2>1 DEF IsClientCall, FillsOnce, ClientOps, AppliedToSuccess, AppliedToFailure
  <2>3. MayFill(last) = {k.to} /\ Private(last) = {k.to} /\ k.to \in Private(k)
    BY <1>1, <1>3, <2>1 DEF MayFill, Private
  <2>4. \A g \in Futures : CanFill(last, g) <=> g = k.to
    BY <2>2, <2>3, ClientCall
  <2>5. \A g \in Futures : g = k.to => Part(last, g)
    BY <2>1 DEF Part, PlainPart
  <2>6. Fine(last, asked') /\ \A d, h : ~IsJob(last, d, h)
    BY <2>1, <2>2, ClientCall, NotAJob
  <2> QED  BY <1>4, <2>3, <2>4, <2>5, <2>6 DEF Passes
<1>8. DOMAIN runs = DOMAIN k.of /\ runs \in Seq(Range(runs))
  <2>1. Len(k.of) \in Nat /\ DOMAIN k.of = 1 .. Len(k.of)
    BY <1>3
  <2>2. runs \in [1 .. Len(k.of) -> Range(runs)] /\ DOMAIN runs = DOMAIN k.of
    BY <2>1 DEF Range
  <2> HIDE DEF runs
  <2> QED  BY <2>1, <2>2
<1> HIDE DEF runs, last
<1>9. ASSUME NEW g \in Futures, NEW i \in DOMAIN runs, Part(k, g) PROVE ~CanFill(runs[i], g)
  <2>1. k.of[i] \in Range(k.of)
    BY <1>8 DEF Range
  <2> QED  BY <1>3, <1>5, <1>6, <1>8, <1>9, <2>1
<1>10. Turns(k, runs \o <<last>>, asked')
  BY <1>6, <1>7, <1>8, <1>9, TurnsAndLast
<1> QED  BY <1>1, <1>10, Turned

LEMMA WrappedTurns ==
  ASSUME NEW t \in Threads, Wrapped(t), Fine(Call(t), asked)
  PROVE  TurnStep(t)
<1> PICK k : k = Call(t)
  OBVIOUS
<1> PICK c : c = k.run
  OBVIOUS
<1> PICK body : body = c.body
  OBVIOUS
<1>1. /\ stack[t] # <<>> /\ k.op = "wrapped" /\ UNCHANGED <<outcome, callbacks, queued, asked>>
      /\ Return(t, <<>>) \/ Return(t, <<body>>)
  BY DEF Wrapped, Calls
<1>2. c.op = "run" /\ "op" \in DOMAIN c /\ FineRun(c, asked)
  BY <1>1 DEF Fine, FineWrapped, FinePlain
<1>3. \A g : (CanFill(k, g) <=> CanFillPlain(c, g)) /\ (Part(k, g) <=> PlainPart(c, g))
  <2>1. \A g : ~CanFillPlain(k, g) /\ ~PlainPart(k, g)
    BY <1>1 DEF CanFillPlain, PlainPart, ClientOps, AppliedToSuccess, AppliedToFailure, Iterating
  <2> QED  BY <1>1, <2>1 DEF CanFill, Part
<1>4. /\ c.to \in Futures /\ "op" \in DOMAIN body /\ body.op \in {"apply", "manage", "cluster"}
      /\ body.op = "apply" => body.to = c.to
      /\ body.op = "manage" => FineManager(body.of, asked) /\ body.of.to = c.to
      /\ body.op = "cluster" => FineCluster(body, asked) /\ body.promise = c.to
  BY <1>2 DEF FineRun
<1>5. \A d, g : IsJob(body, d, g) => IsJob(k, d, g)
  <2>1. BodyOf(k) = body /\ BodyOf(body) = body
    BY <1>1, <1>4 DEF BodyOf
  <2> QED  BY <2>1 DEF IsJob
<1>6. /\ Fine(body, asked) /\ Private(body) = {}
      /\ \A g \in Futures : CanFill(body, g) => CanFill(k, g) /\ (Part(k, g) => Part(body, g))
  <2>1. \A g \in Futures : /\ g = c.to => CanFill(k, g)
                           /\ body.op = "manage" /\ g \in MayFill(body.of) => CanFill(k, g)
                           /\ Part(k, g) => \/ body.op = "manage" /\ g \in Range(body.of.clusters)
                                            \/ body.op = "cluster" /\ g = c.to
    BY <1>2, <1>3 DEF CanFillPlain, PlainPart, Iterating
  <2>2. CASE body.op = "apply"
    BY <1>4, <2>1, <2>2, TargetCall DEF TargetOps
  <2>3. CASE body.op = "manage"
    BY <1>4, <2>1, <2>3, ManageCall
  <2>4. CASE body.op = "cluster"
    <3>1. body.promise = c.to /\ c.to # None
      BY <1>4, <2>4, ProgramsCallTheLibrary
    <3> QED  BY <1>4, <2>1, <2>4, <3>1, ClusterCall
  <2> QED  BY <1>4, <2>2, <2>3, <2>4
<1>7. Passes(k, body, asked')
  BY <1>1, <1>5, <1>6 DEF Passes
<1> QED  BY <1>1, <1>7, TurnsNone, TurnsOne, Turned

LEMMA CancelTurns ==
  ASSUME NEW t \in Threads, Cancel(t), Fine(Call(t), asked)
  PROVE  TurnStep(t)
<1> PICK k : k = Call(t)
  OBVIOUS
<1>1. /\ stack[t] # <<>> /\ k.op = "cancel" /\ UNCHANGED <<outcome, callbacks, queued>>
      /\ asked' = asked \cup {k}
      /\ Return(t, <<>>) \/ Return(t, <<fillFailure(k.to, Canceled)>>)
  BY DEF Cancel, Calls, Ask
<1>2. k.to \in Futures /\ "op" \in DOMAIN k
  BY <1>1 DEF Fine, FinePlain, IsClientCall, ClientOps
<1>3. CanFill(k, k.to)
  BY <1>1, <1>2, TargetCall DEF TargetOps
<1>4. Passes(k, fillFailure(k.to, Canceled), asked')
  BY <1>2, <1>3, PassesToFill
<1> QED  BY <1>1, <1>4, TurnsNone, TurnsOne, Turned

LEMMA TrampolineTurns ==
  ASSUME NEW t \in Threads, Trampoline(t), Fine(Call(t), asked)
  PROVE  TurnStep(t)
<1> PICK k : k = Call(t)
  OBVIOUS
<1> PICK bounce : bounce = runAndForget(forward(k.from, k.to))
  OBVIOUS
<1>1. /\ stack[t] # <<>> /\ k.op = "trampoline" /\ UNCHANGED <<outcome, callbacks, queued>>
      /\ asked' = asked \cup {k}
      /\ Return(t, <<onSuccess(k.from, bounce), onFailure(k.from, bounce)>>)
  BY DEF Trampoline, Calls, Ask
<1>2. k.to \in Futures /\ "op" \in DOMAIN k
  BY <1>1 DEF Fine, FinePlain, IsClientCall, ClientOps
<1>3. CanFill(k, k.to) /\ \A g : ~Part(k, g)
  BY <1>1, <1>2, TargetCall, NoPart DEF TargetOps
<1>4. FinePlain(bounce, asked') /\ bounce.op \in CallbackOps \ Iterating
      /\ \A g \in Futures : CanFillPlain(bounce, g) <=> g = k.to
  <2>1. /\ "op" \in DOMAIN bounce /\ bounce.op = "runAndForget"
        /\ "op" \in DOMAIN bounce.task /\ bounce.task.op = "forward" /\ bounce.task.to = k.to
    BY DEF runAndForget, forward
  <2> QED  BY <1>2, <2>1, RunAndForgetCall
<1>5. /\ Passes(k, onSuccess(k.from, bounce), asked')
      /\ Passes(k, onFailure(k.from, bounce), asked')
  BY <1>3, <1>4, PassesToOnSuccess, PassesToOnFailure
<1> QED  BY <1>1, <1>3, <1>5, TurnsTwo, Turned

LEMMA OneAndTwo ==
  ASSUME NEW a, NEW b, NEW c
  PROVE  <<a>> \o <<b, c>> = <<a, b, c>>
<1> DEFINE S == {a, b, c}
           s == <<a>> \o <<b, c>>
<1>1. <<a>> \in Seq(S) /\ <<b, c>> \in Seq(S) /\ <<a, b, c>> \in Seq(S)
  OBVIOUS
<1>2. s \in Seq(S) /\ Len(s) = 3 /\ s[1] = a /\ s[2] = b /\ s[3] = c
  BY <1>1, ConcatProperties
<1> HIDE DEF s
<1>3. s = <<a, b, c>>
  BY <1>1, <1>2, SeqEqual
<1> QED  BY <1>3 DEF s

LEMMA TwoAndTwo ==
  ASSUME NEW a, NEW b, NEW c, NEW d
  PROVE  <<a, b>> \o <<c, d>> = <<a, b, c, d>>
<1> DEFINE S == {a, b, c, d}
           s == <<a, b>> \o <<c, d>>
<1>1. <<a, b>> \in Seq(S) /\ <<c, d>> \in Seq(S) /\ <<a, b, c, d>> \in Seq(S)
  OBVIOUS
<1>2. s \in Seq(S) /\ Len(s) = 4 /\ s[1] = a /\ s[2] = b /\ s[3] = c /\ s[4] = d
  BY <1>1, ConcatProperties
<1> HIDE DEF s
<1>3. s = <<a, b, c, d>>
  BY <1>1, <1>2, SeqEqual
<1> QED  BY <1>3 DEF s

LEMMA RepeatDataTurns ==
  ASSUME NEW t \in Threads, RepeatData(t), Fine(Call(t), asked)
  PROVE  TurnStep(t)
<1> PICK k : k = Call(t)
  OBVIOUS
<1> DEFINE next == [k EXCEPT !.k = @ + 1]
<1>1. /\ stack[t] # <<>> /\ k.op = "repeatData" /\ UNCHANGED <<outcome, callbacks, queued>>
      /\ asked' \in {asked, asked \cup {k}}
      /\ \/ Return(t, <<next>>) \/ \E v : Return(t, <<fillSuccess(k.to, v)>>)
         \/ \E v : Return(t, <<fillFailure(k.to, v)>>)
  <2>1. /\ stack[t] # <<>> /\ k.op = "repeatData" /\ UNCHANGED <<outcome, callbacks, queued>>
        /\ asked' \in {asked, asked \cup {k}}
    BY DEF RepeatData, Calls, Ask
  <2> PICK fn : fn = k.steps[k.k]
    OBVIOUS
  <2> PICK new : /\ Return(t, new)
                 /\ new = CASE fn.does = "return" /\ fn.is = Continue -> <<next>>
                            [] fn.does = "return" /\ fn.is # Continue -> <<fillSuccess(k.to, fn.is)>>
                            [] fn.does = "WithFailure" -> <<fillFailure(k.to, fn.is)>>
                            [] OTHER -> <<fillFailure(k.to, Exception)>>
    BY DEF RepeatData
  <2> HIDE DEF next
  <2>2. \/ new = <<next>> \/ new = <<fillSuccess(k.to, fn.is)>> \/ new = <<fillFailure(k.to, fn.is)>>
        \/ new = <<fillFailure(k.to, Exception)>>
    OBVIOUS
  <2> QED  BY <2>1, <2>2
<1>2. IsClientCall(k) /\ FillsOnce(k)
  BY <1>1 DEF Fine, FinePlain, ClientOps
<1>3. k.to \in Futures /\ k = repeatData(k.steps, k.k, k.to)
  BY <1>1, <1>2 DEF IsClientCall
<1>4. CanFill(k, k.to) /\ \A g : ~Part(k, g)
  BY <1>1, <1>2, <1>3, ClientCall, NoPart DEF MayFill
<1>5. Passes(k, next, asked')
  <2>1. "op" \in DOMAIN next /\ next.op = "repeatData" /\ next.to = k.to
        /\ next = repeatData(next.steps, next.k, next.to)
    BY <1>3 DEF repeatData
  <2> HIDE DEF next
  <2> QED  BY <1>3, <1>4, <2>1, PassesToTarget DEF TargetOps
<1> HIDE DEF next
<1>6. \A v : Passes(k, fillSuccess(k.to, v), asked') /\ Passes(k, fillFailure(k.to, v), asked')
  BY <1>3, <1>4, PassesToFill
<1>7. CASE Return(t, <<next>>)
  BY <1>1, <1>5, <1>7, TurnsOne, Turned
<1>8. CASE \E v : Return(t, <<fillSuccess(k.to, v)>>) \/ Return(t, <<fillFailure(k.to, v)>>)
  BY <1>1, <1>6, <1>8, TurnsOne, Turned
<1> QED  BY <1>1, <1>7, <1>8

LEMMA RepeatFutureTurns ==
  ASSUME NEW t \in Threads, RepeatFuture(t), Fine(Call(t), asked)
  PROVE  TurnStep(t)
<1> PICK k : k = Call(t)
  OBVIOUS
<1> DEFINE Goes(f) == <<onSuccess(f, nextStep(k)), onFailure(f, forward(f, k.to))>>
<1>1. /\ stack[t] # <<>> /\ k.op = "repeat" /\ UNCHANGED <<outcome, callbacks, queued>>
      /\ asked' = asked \cup {k}
      /\ \/ \E f : Return(t, Goes(f))
         \/ \E v : Return(t, <<fillFailure(k.to, v)>>)
  <2> PICK fn : fn = k.steps[k.k]
    OBVIOUS
  <2>1. Return(t, CASE fn.does = "future" -> Goes(fn.is)
                    [] fn.does = "WithFailure" -> <<fillFailure(k.to, fn.is)>>
                    [] OTHER -> <<fillFailure(k.to, Exception)>>)
    BY DEF RepeatFuture
  <2> HIDE DEF Goes
  <2>2. \/ \E f : Return(t, Goes(f))
        \/ \E v : Return(t, <<fillFailure(k.to, v)>>)
    BY <2>1
  <2> QED  BY <2>2 DEF RepeatFuture, Calls, Ask
<1>2. IsClientCall(k) /\ FillsOnce(k)
  BY <1>1 DEF Fine, FinePlain, ClientOps
<1>3. k.to \in Futures /\ k.to \in MayFill(k)
  BY <1>2 DEF IsClientCall, MayFill
<1>4. (\A g \in Futures : CanFill(k, g) <=> g \in MayFill(k)) /\ \A g : ~Part(k, g)
  BY <1>1, <1>2, ClientCall, NoPart
<1>5. ASSUME NEW f PROVE Turns(k, Goes(f), asked')
  <2> DEFINE n == nextStep(k)
  <2>1. "op" \in DOMAIN n /\ n.op = "nextStep" /\ n.of = k
    BY DEF nextStep
  <2> HIDE DEF n
  <2>2. /\ FinePlain(n, asked') /\ n.op \in CallbackOps \ Iterating
        /\ \A g \in Futures : CanFillPlain(n, g) <=> g \in MayFill(k)
    BY <1>1, <1>2, <2>1, NextStepCall
  <2>3. Passes(k, onSuccess(f, n), asked')
    BY <1>4, <2>2, PassesToOnSuccess
  <2>4. Passes(k, onFailure(f, forward(f, k.to)), asked')
    BY <1>3, <1>4, PassesToForwards
  <2>5. Turns(k, <<onSuccess(f, n), onFailure(f, forward(f, k.to))>>, asked')
    BY <1>4, <2>3, <2>4, TurnsTwo
  <2> QED  BY <2>5 DEF n
<1>6. \A v : Turns(k, <<fillFailure(k.to, v)>>, asked')
  BY <1>3, <1>4, PassesToFill, TurnsOne
<1> HIDE DEF Goes
<1> QED  BY <1>1, <1>5, <1>6, Turned

LEMMA NextStepTurns ==
  ASSUME NEW t \in Threads, NextStep(t), Fine(Call(t), asked)
  PROVE  TurnStep(t)
<1> PICK k : k = Call(t)
  OBVIOUS
<1> PICK c : c = k.of
  OBVIOUS
<1> DEFINE next == repeat(c.steps, c.k + 1, c.tos, c.via)
           bounced == c.via[c.k]
           Waits(f) == <<onSuccess(f, forward(f, c.to)), onFailure(f, forward(f, c.to))>>
<1>1. /\ stack[t] # <<>> /\ k.op = "nextStep" /\ UNCHANGED <<outcome, callbacks, queued, asked>>
      /\ \/ c.k < Len(c.steps) /\ Return(t, <<next>> \o Waits(next.to))
         \/ c.k < Len(c.steps)
            /\ Return(t, <<next, trampoline(next.to, bounced)>> \o Waits(bounced))
         \/ \E v : Return(t, <<fillSuccess(c.to, v)>>)
  <2>1. stack[t] # <<>> /\ k.op = "nextStep" /\ UNCHANGED <<outcome, callbacks, queued, asked>>
    BY DEF NextStep, Calls
  <2> PICK result : result = outcome[c.steps[c.k].is].is
    OBVIOUS
  <2> PICK new :
        /\ Return(t, new)
        /\ new = CASE result = Continue -> <<next>> \o Waits(next.to)
                   [] result = TrampolinedContinue ->
                        <<next, trampoline(next.to, bounced)>> \o Waits(bounced)
                   [] OTHER -> <<fillSuccess(c.to, result)>>
        /\ result \in {Continue, TrampolinedContinue} => c.k < Len(c.steps)
    BY DEF NextStep, Flattened
  <2> DEFINE one == <<next>> \o Waits(next.to)
             two == <<next, trampoline(next.to, bounced)>> \o Waits(bounced)
  <2> HIDE DEF one, two
  <2>2. new = CASE result = Continue -> one
               [] result = TrampolinedContinue -> two
               [] OTHER -> <<fillSuccess(c.to, result)>>
    BY DEF one, two
  <2> HIDE DEF next, bounced, Waits
  <2>3. \/ c.k < Len(c.steps) /\ new = one
        \/ c.k < Len(c.steps) /\ new = two
        \/ new = <<fillSuccess(c.to, result)>>
    BY <2>2
  <2> QED  BY <2>1, <2>3 DEF one, two
<1>2. IsClientCall(c) /\ c.op = "repeat"
  BY <1>1 DEF Fine, FinePlain, ClientOps, AppliedToSuccess, AppliedToFailure
<1>3. c.to \in Futures /\ c.to \in MayFill(c)
  BY <1>2 DEF IsClientCall, MayFill
<1>4. (\A g \in Futures : CanFill(k, g) <=> g \in MayFill(c)) /\ \A g : ~Part(k, g)
  <2>1. \A g \in Futures : CanFillPlain(k, g) <=> g \in MayFill(c)
    BY <1>1 DEF CanFillPlain, ClientOps, AppliedToSuccess, AppliedToFailure, Iterating
  <2> QED  BY <1>1, <2>1, NoPart DEF CanFill
<1>5. \A v : Turns(k, <<fillSuccess(c.to, v)>>, asked')
  BY <1>3, <1>4, PassesToFill, TurnsOne
<1>6. ASSUME NEW f
      PROVE  /\ Passes(k, onSuccess(f, forward(f, c.to)), asked')
             /\ Passes(k, onFailure(f, forward(f, c.to)), asked')
  BY <1>3, <1>4, PassesToForwards
<1>7. ASSUME c.k < Len(c.steps)
      PROVE  /\ Passes(k, next, asked') /\ next.to \in Futures
             /\ bounced \in Futures /\ bounced \in MayFill(c)
  <2>1. /\ c.steps \in Seq(Range(c.steps)) /\ c.tos \in Seq(Futures) /\ c.via \in Seq(Futures)
        /\ c.k \in DOMAIN c.steps /\ DOMAIN c.steps = DOMAIN c.tos
        /\ Len(c.steps) <= Len(c.via) + 1
    BY <1>2 DEF IsClientCall
  <2>2. c.k \in Nat /\ c.k + 1 \in DOMAIN c.tos /\ c.k \in DOMAIN c.via
        /\ c.k + 1 \in DOMAIN c.steps
    BY <1>7, <2>1
  <2>3. bounced \in Futures /\ bounced \in Range(c.via)
    BY <2>1, <2>2 DEF Range
  <2>4. c.tos[c.k + 1] \in Futures /\ c.tos[c.k + 1] \in Range(c.tos)
    BY <2>1, <2>2, SMTT(20) DEF Range
  <2>5. /\ "op" \in DOMAIN next /\ next.op = "repeat" /\ next.to = c.tos[c.k + 1]
        /\ next.steps = c.steps /\ next.tos = c.tos /\ next.via = c.via /\ next.k = c.k + 1
    BY DEF repeat
  <2> HIDE DEF next, bounced
  <2>6. IsClientCall(next) /\ FillsOnce(next)
    BY <2>1, <2>2, <2>4, <2>5 DEF IsClientCall, FillsOnce, ClientOps, AppliedToSuccess, AppliedToFailure
  <2>7. MayFill(next) \subseteq MayFill(c)
    BY <1>2, <2>4, <2>5 DEF MayFill
  <2>8. Fine(next, asked') /\ \A g \in Futures : CanFill(next, g) <=> g \in MayFill(next)
    BY <2>6, ClientCall
  <2>9. Private(next) = {} /\ \A d, h : ~IsJob(next, d, h)
    BY <2>5, PrivateOfClient, NotAJob
  <2>10. Passes(k, next, asked')
    BY <1>4, <2>7, <2>8, <2>9 DEF Passes
  <2>11. bounced \in MayFill(c)
    BY <1>2, <2>3 DEF MayFill
  <2> QED  BY <2>3, <2>4, <2>5, <2>10, <2>11
<1>8. ASSUME c.k < Len(c.steps) PROVE Passes(k, trampoline(next.to, bounced), asked')
  <2> DEFINE n == trampoline(next.to, bounced)
  <2>1. "op" \in DOMAIN n /\ n.op = "trampoline" /\ n.to = bounced
    BY DEF trampoline
  <2> HIDE DEF n, bounced, next
  <2>2. Passes(k, n, asked')
    BY <1>4, <1>7, <1>8, <2>1, PassesToTarget DEF TargetOps
  <2> QED  BY <2>2 DEF n
<1> HIDE DEF next, bounced
<1>9. ASSUME c.k < Len(c.steps) PROVE Turns(k, <<next>> \o Waits(next.to), asked')
  <2> DEFINE a == onSuccess(next.to, forward(next.to, c.to))
             b == onFailure(next.to, forward(next.to, c.to))
  <2>1. Passes(k, a, asked') /\ Passes(k, b, asked') /\ Passes(k, next, asked')
    BY <1>6, <1>7, <1>9
  <2>2. Waits(next.to) = <<a, b>>
    OBVIOUS
  <2> HIDE DEF a, b, Waits
  <2>3. <<next>> \o Waits(next.to) = <<next, a, b>>
    BY <2>2, OneAndTwo
  <2> DEFINE new == <<next, a, b>>
  <2>4. new \in Seq(Range(new)) /\ DOMAIN new = {1, 2, 3} /\ new[1] = next /\ new[2] = a /\ new[3] = b
    BY Tuples
  <2> HIDE DEF new
  <2>5. Turns(k, new, asked')
    BY <1>4, <2>1, <2>4, TurnsUnparted
  <2> QED  BY <2>3, <2>5 DEF new
<1>10. ASSUME c.k < Len(c.steps)
       PROVE  Turns(k, <<next, trampoline(next.to, bounced)>> \o Waits(bounced), asked')
  <2> DEFINE a == onSuccess(bounced, forward(bounced, c.to))
             b == onFailure(bounced, forward(bounced, c.to))
             n == trampoline(next.to, bounced)
  <2>1. /\ Passes(k, a, asked') /\ Passes(k, b, asked') /\ Passes(k, next, asked')
        /\ Passes(k, n, asked')
    BY <1>6, <1>7, <1>8, <1>10
  <2>2. Waits(bounced) = <<a, b>>
    OBVIOUS
  <2> HIDE DEF a, b, n, Waits
  <2>3. <<next, n>> \o Waits(bounced) = <<next, n, a, b>>
    BY <2>2, TwoAndTwo
  <2> DEFINE new == <<next, n, a, b>>
  <2>4. new \in Seq(Range(new)) /\ DOMAIN new = {1, 2, 3, 4} /\ new[1] = next /\ new[2] = n
        /\ new[3] = a /\ new[4] = b
    BY Tuples
  <2> HIDE DEF new
  <2>5. Turns(k, new, asked')
    BY <1>4, <2>1, <2>4, TurnsUnparted
  <2> QED  BY <2>3, <2>5 DEF new, n
<1> HIDE DEF Waits
<1>11. k.op \notin {"on", "wait", "manage", "cluster"}
  BY <1>1
<1> QED  BY <1>1, <1>5, <1>9, <1>10, <1>11, Turned

LEMMA RepeatForSequenceTurns ==
  ASSUME NEW t \in Threads, RepeatForSequence(t), Fine(Call(t), asked)
  PROVE  TurnStep(t)
<1> PICK k : k = Call(t)
  OBVIOUS
<1> DEFINE n == iterateSequenceRepeater(k, 1, k.initial)
<1>1. /\ stack[t] # <<>> /\ k.op = "repeatForSequence"
      /\ UNCHANGED <<outcome, callbacks, queued>> /\ asked' = asked \cup {k}
      /\ Return(t, <<n>>)
  BY DEF RepeatForSequence, Calls, Ask
<1>2. IsClientCall(k) /\ FillsOnce(k)
  BY <1>1 DEF Fine, FinePlain, ClientOps
<1>3. "op" \in DOMAIN n /\ n.op = "iterateSequenceRepeater" /\ n.call = k /\ n.current = 1
  BY DEF iterateSequenceRepeater
<1> HIDE DEF n
<1>4. FineIteration(n) /\ n.op \in Iterating
  BY <1>1, <1>2, <1>3 DEF FineIteration, Iterating
<1>5. \A g \in Futures : /\ CanFill(k, g) <=> g \in MayFill(k)
                         /\ Part(k, g) => g = k.to
  <2>1. \A g \in Futures : Part(k, g) => g = k.to
    BY <1>1 DEF Part, PlainPart, Iterating
  <2> QED  BY <1>2, <2>1, ClientCall
<1>6. Turns(k, <<n>>, asked')
  BY <1>3, <1>4, <1>5, PassesToIteration, TurnsOne
<1> QED  BY <1>1, <1>6, Turned

LEMMA RepeaterTurns ==
  ASSUME NEW t \in Threads, RepeaterElement(t) \/ RepeaterEnd(t) \/ RepeaterResume(t),
         Fine(Call(t), asked)
  PROVE  TurnStep(t)
<1> PICK k : k = Call(t)
  OBVIOUS
<1> PICK c : c = k.call
  OBVIOUS
<1> DEFINE Next1(i, v) == iterateSequenceRepeater(c, i, v)
           Later == resume(c, k.current + 1)
           Waits(f) == <<onSuccess(f, Later), onFailure(f, forward(f, c.to))>>
<1>1. /\ stack[t] # <<>> /\ k.op \in {"iterateSequenceRepeater", "resume"}
      /\ UNCHANGED <<outcome, callbacks, queued, asked>>
  BY DEF RepeaterElement, RepeaterEnd, RepeaterResume, Calls
<1>2. k.op \in Iterating
  BY <1>1 DEF Iterating
<1>3. /\ "op" \in DOMAIN k /\ FineIteration(k) /\ FinePlain(k, asked')
      /\ IsClientCall(c) /\ FillsOnce(c) /\ c.to \in Futures /\ c.to \in MayFill(c)
      /\ \A g \in Futures : /\ CanFill(k, g) <=> g \in MayFill(c)
                            /\ CanFillPlain(k, g) <=> g \in MayFill(c)
                            /\ Part(k, g) <=> g = c.to
  BY <1>1, <1>2, Iteration
<1>4. c.op = "repeatForSequence" /\ k.current \in Nat \ {0}
  BY <1>1, <1>3 DEF FineIteration
<1>5. \/ \E v : Return(t, <<fillFailure(c.to, v)>>) \/ Return(t, <<fillSuccess(c.to, v)>>)
      \/ \E i \in {k.current, k.current + 1} : \E v : Return(t, <<Next1(i, v)>>)
      \/ \E f \in Futures : Return(t, Waits(f))
  <2>1. CASE RepeaterElement(t)
    <3>1. c.steps[k.current].does = "future" => c.steps[k.current].is \in Futures
      <4>1. c.steps \in Seq(Range(c.steps))
            /\ \A i \in DOMAIN c.steps : c.steps[i].does = "future" => c.steps[i].is \in Futures
        BY <1>3, <1>4 DEF IsClientCall
      <4>2. k.current <= Len(c.steps)
        BY <2>1 DEF RepeaterElement
      <4>3. k.current \in DOMAIN c.steps
        BY <1>4, <4>1, <4>2
      <4> QED  BY <4>1, <4>3
    <3> PICK fn : fn = c.steps[k.current]
      OBVIOUS
    <3> PICK new :
          /\ Return(t, new)
          /\ new = CASE fn.does = "WithFailure" -> <<fillFailure(c.to, fn.is)>>
                     [] fn.does \notin {"future", "WithFailure"} ->
                          <<fillFailure(c.to, Exception)>>
                     [] fn.does = "future" /\ outcome[fn.is] = None -> Waits(fn.is)
                     [] fn.does = "future" /\ outcome[fn.is] # None /\ ~outcome[fn.is].ok ->
                          <<fillFailure(c.to, outcome[fn.is].is)>>
                     [] OTHER -> <<Next1(k.current + 1, outcome[fn.is].is)>>
      BY <2>1 DEF RepeaterElement
    <3> HIDE DEF Next1, Waits
    <3>2. \/ new = <<fillFailure(c.to, Exception)>> \/ new = <<fillFailure(c.to, fn.is)>>
          \/ fn.does = "future" /\ new = Waits(fn.is)
          \/ new = <<fillFailure(c.to, outcome[fn.is].is)>>
          \/ new = <<Next1(k.current + 1, outcome[fn.is].is)>>
      OBVIOUS
    <3> QED  BY <3>1, <3>2
  <2>2. CASE RepeaterEnd(t)
    BY <2>2 DEF RepeaterEnd
  <2>3. CASE RepeaterResume(t)
    BY <2>3 DEF RepeaterResume
  <2> QED  BY <2>1, <2>2, <2>3
<1>6. \A v : Turns(k, <<fillFailure(c.to, v)>>, asked') /\ Turns(k, <<fillSuccess(c.to, v)>>, asked')
  BY <1>3, PassesToFill, TurnsOne
<1>7. ASSUME NEW i \in {k.current, k.current + 1}, NEW v PROVE Turns(k, <<Next1(i, v)>>, asked')
  <2> DEFINE n == iterateSequenceRepeater(c, i, v)
  <2>1. "op" \in DOMAIN n /\ n.op = "iterateSequenceRepeater" /\ n.call = c /\ n.current = i
    BY DEF iterateSequenceRepeater
  <2> HIDE DEF n
  <2>2. FineIteration(n) /\ n.op \in Iterating
    BY <1>3, <1>4, <2>1 DEF FineIteration, Iterating
  <2>3. Turns(k, <<n>>, asked')
    BY <1>3, <2>1, <2>2, PassesToIteration, TurnsOne
  <2> QED  BY <2>3 DEF n
<1>8. ASSUME NEW f \in Futures PROVE Turns(k, Waits(f), asked')
  <2>1. "op" \in DOMAIN Later /\ Later.op = "resume" /\ Later.call = c
        /\ Later.current = k.current + 1
    BY DEF resume
  <2> HIDE DEF Later
  <2>2. FineIteration(Later) /\ Later.op \in Iterating
    BY <1>3, <1>4, <2>1 DEF FineIteration, Iterating
  <2>3. FinePlain(Later, asked') /\ \A g \in Futures : CanFillPlain(Later, g) <=> g \in MayFill(c)
    BY <2>1, <2>2, IterationCall
  <2> QED  BY <1>3, <2>1, <2>2, <2>3, TurnsToWaiting
<1> HIDE DEF Next1, Waits, Later
<1>9. k.op \notin {"on", "wait", "manage", "cluster"}
  BY <1>1
<1> QED  BY <1>1, <1>5, <1>6, <1>7, <1>8, <1>9, Turned

-----------------------------------------------------------------------------
(* Clusters and what manages them *)

LEMMA SomeCapacity ==
  ASSUME NEW c, c.data \in Seq(Range(c.data)), c.data # <<>>, c.minClusterSize \in Int
  PROVE  Capacity(c) \in Nat \ {0}
<1>1. \A n \in Nat \ {0}, s \in Nat \ {0} : (n + s - 1) \div s \in Nat \ {0}
  <2> SUFFICES ASSUME NEW n \in Nat \ {0}, NEW s \in Nat \ {0}
               PROVE  (n + s - 1) \div s \in Nat \ {0}
    OBVIOUS
  <2> DEFINE q == (n + s - 1) \div s
             r == (n + s - 1) % s
  <2>1. q \in Int /\ r \in 0 .. (s - 1) /\ n + s - 1 = s * q + r
    OBVIOUS
  <2> HIDE DEF q, r
  <2>2. ASSUME q <= 0 PROVE FALSE
    <3>1. s * q <= 0
      BY <2>1, <2>2
    <3> QED  BY <2>1, <3>1
  <2>3. q \in Nat \ {0}
    BY <2>1, <2>2
  <2> QED  BY <2>3 DEF q
<1> DEFINE size == IF c.minClusterSize <= 0 THEN 1 ELSE c.minClusterSize
           needed == (Len(c.data) + size - 1) \div size
<1>2. size \in Nat \ {0} /\ Len(c.data) \in Nat \ {0}
  OBVIOUS
<1> HIDE DEF size
<1>3. needed \in Nat \ {0}
  BY <1>1, <1>2
<1> HIDE DEF needed
<1>4. Capacity(c) = IF needed < SubPoolCapacity THEN needed ELSE SubPoolCapacity
  BY DEF Capacity, needed, size
<1> QED  BY <1>3, <1>4, SubPoolIsNotEmpty

LEMMA Manager ==
  ASSUME NEW c, NEW A, FineManager(c, A)
  PROVE  /\ c \in A /\ c.op = "clusteredRun" /\ c.to \in Futures /\ c.to \notin Range(c.clusters)
         /\ c.clusters \in Seq(Futures) /\ Capacity(c) \in Nat \ {0}
         /\ \A i, j \in DOMAIN c.clusters : c.clusters[i] = c.clusters[j] => i = j
         /\ \A j \in Jobs(c) : /\ j \in Nat /\ j \in DOMAIN c.clusters /\ c.clusters[j] \in Futures
                               /\ c.clusters[j] \in Range(c.clusters)
         /\ \A g \in Futures : g \in MayFill(c) <=> g = c.to \/ g \in Range(c.clusters)
<1>1. c \in A /\ c.op = "clusteredRun" /\ IsClientCall(c) /\ FillsOnce(c) /\ c.data # <<>>
  BY DEF FineManager
<1>2. c.to \in Futures /\ c.to \notin Range(c.clusters)
  BY <1>1 DEF IsClientCall, FillsOnce
<1>3. /\ c.data \in Seq(Range(c.data)) /\ c.minClusterSize \in Int
      /\ c.clusters \in Seq(Futures) /\ IsInjective(c.clusters)
      /\ Capacity(c) <= Len(c.clusters) + 1
  BY <1>1 DEF IsClientCall
<1>4. Capacity(c) \in Nat \ {0}
  BY <1>1, <1>3, SomeCapacity
<1>5. \A i, j \in DOMAIN c.clusters : c.clusters[i] = c.clusters[j] => i = j
  BY <1>3 DEF IsInjective
<1>6. ASSUME NEW j \in Jobs(c)
      PROVE  /\ j \in Nat /\ j \in DOMAIN c.clusters /\ c.clusters[j] \in Futures
             /\ c.clusters[j] \in Range(c.clusters)
  <2>1. j \in Nat /\ j \in DOMAIN c.clusters
    BY <1>3, <1>4 DEF Jobs
  <2> QED  BY <1>3, <2>1 DEF Range
<1>7. \A g \in Futures : g \in MayFill(c) <=> g = c.to \/ g \in Range(c.clusters)
  BY <1>1 DEF MayFill
<1> QED  BY <1>1, <1>2, <1>3, <1>4, <1>5, <1>6, <1>7

LEMMA StartClusteredRunTurns ==
  ASSUME NEW t \in Threads, StartClusteredRun(t), Fine(Call(t), asked)
  PROVE  TurnStep(t)
<1> PICK k : k = Call(t)
  OBVIOUS
<1> DEFINE body == manage(k)
           n == runBody(k.to, body)
<1>1. /\ stack[t] # <<>> /\ k.op = "clusteredRun"
      /\ UNCHANGED <<outcome, callbacks, queued>> /\ asked' = asked \cup {k}
      /\ \/ Return(t, <<fillSuccess(k.to, <<>>)>>)
         \/ k.data # <<>> /\ Return(t, <<n>>)
  BY DEF StartClusteredRun, Calls, Ask
<1>2. IsClientCall(k) /\ FillsOnce(k)
  BY <1>1 DEF Fine, FinePlain, ClientOps
<1>3. k.to \in Futures /\ k.to \in MayFill(k)
  BY <1>2 DEF IsClientCall, MayFill
<1>4. \A g \in Futures : /\ CanFill(k, g) <=> g \in MayFill(k)
                         /\ Part(k, g) <=> g \in Range(k.clusters)
  <2>1. \A g \in Futures : Part(k, g) <=> g \in Range(k.clusters)
    BY <1>1 DEF Part, PlainPart, Iterating
  <2> QED  BY <1>2, <2>1, ClientCall
<1>5. Turns(k, <<fillSuccess(k.to, <<>>)>>, asked')
  BY <1>3, <1>4, PassesToFill, TurnsOne
<1>6. ASSUME k.data # <<>> PROVE Turns(k, <<n>>, asked')
  <2>1. FineManager(k, asked')
    BY <1>1, <1>2, <1>6 DEF FineManager
  <2>2. "op" \in DOMAIN body /\ body.op = "manage" /\ body.of = k
    BY DEF manage
  <2> HIDE DEF body
  <2>3. "op" \in DOMAIN n /\ n.op = "run" /\ n.to = k.to /\ n.body = body
    BY DEF runBody
  <2> HIDE DEF n
  <2>4. FineRun(n, asked')
    BY <1>3, <2>1, <2>2, <2>3 DEF FineRun
  <2>5. /\ Fine(n, asked') /\ Private(n) = {}
        /\ \A g \in Futures :
             /\ CanFill(n, g) <=> g = n.to \/ (n.body.op = "manage" /\ g \in MayFill(n.body.of))
             /\ Part(n, g) <=> \/ n.body.op = "manage" /\ g \in Range(n.body.of.clusters)
                               \/ n.body.op = "cluster" /\ g = n.to
    BY <2>3, <2>4, RunCall
  <2>6. \A g \in Futures : /\ CanFill(n, g) <=> g \in MayFill(k)
                           /\ Part(n, g) <=> g \in Range(k.clusters)
    BY <1>3, <2>2, <2>3, <2>5
  <2>7. \A d, h : ~IsJob(n, d, h)
    BY <2>2, <2>3 DEF IsJob, BodyOf
  <2>8. Passes(k, n, asked')
    BY <1>4, <2>5, <2>6, <2>7 DEF Passes
  <2> QED  BY <2>8, TurnsOne
<1> HIDE DEF n, body
<1> QED  BY <1>1, <1>5, <1>6, Turned

\* What a call of a managing task has become.
LEMMA ManageTurns ==
  ASSUME NEW t \in Threads, Manage(t), Fine(Call(t), asked)
  PROVE  TurnStep(t)
<1> PICK k : k = Call(t)
  OBVIOUS
<1> PICK c : c = k.of
  OBVIOUS
<1> PICK size : size = ClusterSize(c)
  OBVIOUS
<1> DEFINE Job(j) == cluster(c, (j - 1) * size + 1, j * size, c.clusters[j])
           jobs == [j \in Jobs(c) |-> runBody(c.clusters[j], Job(j))]
           last == cluster(c, (Capacity(c) - 1) * size + 1, Len(c.data), None)
<1>1. /\ stack[t] # <<>> /\ k.op = "manage" /\ UNCHANGED <<outcome, callbacks, queued, asked>>
      /\ Return(t, jobs \o <<last>>)
  BY DEF Manage, Calls
<1>2. FineManager(c, asked')
  BY <1>1 DEF Fine, FinePlain
<1>3. /\ c.op = "clusteredRun" /\ c.to \in Futures /\ c.to \notin Range(c.clusters)
      /\ Capacity(c) \in Nat \ {0}
      /\ \A i, j \in DOMAIN c.clusters : c.clusters[i] = c.clusters[j] => i = j
      /\ \A j \in Jobs(c) : /\ j \in Nat /\ j \in DOMAIN c.clusters /\ c.clusters[j] \in Futures
                            /\ c.clusters[j] \in Range(c.clusters)
      /\ \A g \in Futures : g \in MayFill(c) <=> g = c.to \/ g \in Range(c.clusters)
  BY <1>2, Manager
<1>4. \A g \in Futures : /\ CanFill(k, g) <=> g \in MayFill(c)
                         /\ Part(k, g) <=> g \in Range(c.clusters)
  <2>1. \A g \in Futures : CanFillPlain(k, g) <=> g \in MayFill(c)
    BY <1>1 DEF CanFillPlain, ClientOps, AppliedToSuccess, AppliedToFailure, Iterating
  <2>2. \A g \in Futures : Part(k, g) <=> g \in Range(c.clusters)
    BY <1>1 DEF Part, PlainPart, Iterating
  <2> QED  BY <1>1, <2>1, <2>2 DEF CanFill
<1>5. ASSUME NEW j \in Jobs(c)
      PROVE  Passes(k, jobs[j], asked') /\ \A g \in Futures : CanFill(jobs[j], g) <=> g = c.clusters[j]
  <2> DEFINE f == c.clusters[j]
             n == jobs[j]
             at == (j - 1) * size + 1
             right == j * size
  <2>1. f \in Futures /\ f \in Range(c.clusters) /\ f # None
    BY <1>3, ProgramsCallTheLibrary
  <2>2. n = runBody(f, cluster(c, at, right, f))
    OBVIOUS
  <2> HIDE DEF f, n, at, right, jobs, Job, last
  <2> DEFINE body == cluster(c, at, right, f)
  <2>3. /\ "op" \in DOMAIN body /\ body.op = "cluster" /\ body.of = c /\ body.promise = f
        /\ body = cluster(body.of, body.at, body.right, body.promise)
    BY DEF cluster
  <2>4. "op" \in DOMAIN n /\ n.op = "run" /\ n.to = f /\ n.body = body
    BY <2>2 DEF runBody
  <2> HIDE DEF body
  <2>5. FineCluster(body, asked')
    BY <1>2, <2>3 DEF FineCluster, f
  <2>6. FineRun(n, asked')
    BY <2>1, <2>3, <2>4, <2>5 DEF FineRun
  <2>7. /\ Fine(n, asked') /\ Private(n) = {}
        /\ \A g \in Futures :
             /\ CanFill(n, g) <=> g = n.to \/ (n.body.op = "manage" /\ g \in MayFill(n.body.of))
             /\ Part(n, g) <=> \/ n.body.op = "manage" /\ g \in Range(n.body.of.clusters)
                               \/ n.body.op = "cluster" /\ g = n.to
    BY <2>4, <2>6, RunCall
  <2>8. \A g \in Futures : (CanFill(n, g) <=> g = f) /\ (Part(n, g) <=> g = f)
    BY <2>3, <2>4, <2>7
  <2>9. \A d, h : IsJob(n, d, h) => d = c
    BY <2>3, <2>4 DEF IsJob, BodyOf
  <2>10. CanFill(k, f)
    BY <1>3, <1>4, <2>1
  <2>11. Passes(k, n, asked')
    BY <1>1, <2>7, <2>8, <2>9, <2>10 DEF Passes
  <2> QED  BY <2>8, <2>11 DEF f, n
<1>6. Passes(k, last, asked') /\ (\A g \in Futures : CanFill(last, g) <=> g = c.to)
      /\ last.op = "cluster" /\ last.of = c /\ last.promise = None
  <2>1. /\ "op" \in DOMAIN last /\ last.op = "cluster" /\ last.of = c /\ last.promise = None
        /\ last = cluster(last.of, last.at, last.right, last.promise)
    BY DEF cluster
  <2> HIDE DEF last
  <2>2. FineCluster(last, asked')
    BY <1>2, <2>1 DEF FineCluster
  <2>3. /\ Fine(last, asked') /\ Private(last) = {}
        /\ \A g \in Futures : CanFill(last, g) <=> g = c.to
    <3>1. /\ Fine(last, asked') /\ Private(last) = {}
          /\ \A g \in Futures : CanFill(last, g) <=> g = IF last.promise = None THEN last.of.to ELSE last.promise
      BY <2>1, <2>2, ClusterCall
    <3> QED  BY <2>1, <3>1
  <2>4. \A d, h : ~IsJob(last, d, h)
    BY <2>1 DEF IsJob, BodyOf
  <2>5. Passes(k, last, asked')
    BY <1>3, <1>4, <2>3, <2>4 DEF Passes
  <2> QED  BY <2>1, <2>3, <2>5
<1>7. DOMAIN jobs = Jobs(c) /\ jobs \in Seq(Range(jobs))
  <2>1. Capacity(c) - 1 \in Nat /\ Jobs(c) = 1 .. (Capacity(c) - 1)
    BY <1>3 DEF Jobs
  <2>2. jobs \in [1 .. (Capacity(c) - 1) -> Range(jobs)] /\ DOMAIN jobs = Jobs(c)
    BY <2>1 DEF Range
  <2> HIDE DEF jobs
  <2> QED  BY <2>1, <2>2, ASequence
<1> HIDE DEF jobs, last
<1>8. ASSUME NEW g \in Futures, NEW i \in DOMAIN jobs, NEW j \in DOMAIN jobs,
             Part(k, g), CanFill(jobs[i], g)
      PROVE  ~CanFill(last, g) /\ (CanFill(jobs[j], g) => i = j)
  <2>1. g = c.clusters[i] /\ (CanFill(jobs[j], g) => g = c.clusters[j])
    BY <1>5, <1>7, <1>8
  <2>2. i \in DOMAIN c.clusters /\ j \in DOMAIN c.clusters /\ g \in Range(c.clusters)
    BY <1>3, <1>7, <2>1
  <2> QED  BY <1>3, <1>6, <2>1, <2>2
<1>9. Turns(k, jobs \o <<last>>, asked')
  BY <1>5, <1>6, <1>7, <1>8, TurnsAndLast
<1>10. Hands(k, jobs \o <<last>>)
  <2>1. Len(jobs) + 1 \in DOMAIN (jobs \o <<last>>) /\ (jobs \o <<last>>)[Len(jobs) + 1] = last
    BY <1>7, AndLast
  <2> QED  BY <1>1, <1>6, <2>1 DEF Hands
<1> QED  BY <1>1, <1>9, <1>10 DEF TurnStep

\* The managing task goes on to wait for the clusters.
LEMMA Awaits ==
  ASSUME NEW k, NEW A, NEW failure, k.op = "cluster", k.promise = None, FineManager(k.of, A),
         \A g \in Futures : (CanFill(k, g) <=> g = k.of.to) /\ ~Part(k, g)
  PROVE  Turns(k, Await(k.of, failure), A) /\ Hands(k, Await(k.of, failure))
<1> PICK c : c = k.of
  OBVIOUS
<1> DEFINE waits == [j \in Jobs(c) |-> wait(c.clusters[j])]
           last == conclude(c, failure)
<1>1. Await(c, failure) = waits \o <<last>>
  BY DEF Await
<1>2. Capacity(c) \in Nat \ {0} /\ c.to \in Futures
  BY Manager
<1>3. ASSUME NEW j \in Jobs(c)
      PROVE  Passes(k, waits[j], A) /\ waits[j] = wait(c.clusters[j])
  <2> DEFINE n == wait(c.clusters[j])
  <2>1. Fine(n, A) /\ Private(n) = {} /\ \A g \in Futures : ~CanFill(n, g)
    BY WaitCall
  <2>2. \A d, h : ~IsJob(n, d, h)
    <3>1. n.op = "wait"
      BY DEF wait
    <3> QED  BY <3>1, NotAJob
  <2> HIDE DEF n
  <2>3. Passes(k, n, A)
    BY <2>1, <2>2 DEF Passes
  <2> QED  BY <2>3 DEF n
<1>4. /\ Passes(k, last, A) /\ last.op = "conclude" /\ last.of = c
  <2>1. "op" \in DOMAIN last /\ last.op = "conclude" /\ last.of = c
    BY DEF conclude
  <2> HIDE DEF last
  <2>2. Fine(last, A) /\ Private(last) = {} /\ \A g \in Futures : CanFill(last, g) <=> g = c.to
    BY <2>1, ConcludeCall
  <2>3. \A d, h : ~IsJob(last, d, h)
    BY <2>1, NotAJob
  <2> QED  BY <2>1, <2>2, <2>3 DEF Passes
<1>5. DOMAIN waits = Jobs(c) /\ waits \in Seq(Range(waits)) /\ Jobs(c) \subseteq Nat
  <2>1. Capacity(c) - 1 \in Nat /\ Jobs(c) = 1 .. (Capacity(c) - 1)
    BY <1>2 DEF Jobs
  <2>2. waits \in [1 .. (Capacity(c) - 1) -> Range(waits)] /\ DOMAIN waits = Jobs(c)
    BY <2>1 DEF Range
  <2> HIDE DEF waits
  <2> QED  BY <2>1, <2>2, ASequence
<1> HIDE DEF waits, last
<1> DEFINE new == waits \o <<last>>
<1>6. Turns(k, new, A)
  BY <1>3, <1>4, <1>5, TurnsAndLast
<1>7. /\ Len(waits) \in Nat /\ Jobs(c) = 1 .. Len(waits) /\ DOMAIN new = 1 .. (Len(waits) + 1)
      /\ new[Len(waits) + 1] = last /\ \A j \in Jobs(c) : new[j] = waits[j]
  BY <1>5, AndLast
<1> HIDE DEF new
<1>8. Hands(k, new)
  <2> DEFINE i == Len(waits) + 1
  <2>1. i \in DOMAIN new /\ new[i].op = "conclude" /\ new[i].of = c
    BY <1>4, <1>7
  <2>2. ASSUME NEW j \in Jobs(c) PROVE j \in DOMAIN new /\ j < i /\ new[j] = wait(c.clusters[j])
    BY <1>3, <1>7
  <2> HIDE DEF i
  <2> QED  BY <2>1, <2>2 DEF Hands
<1> QED  BY <1>1, <1>6, <1>8 DEF new

LEMMA ClusterTurns ==
  ASSUME NEW t \in Threads, ClusterElement(t) \/ ClusterThrow(t) \/ ClusterEnd(t),
         Fine(Call(t), asked)
  PROVE  TurnStep(t)
<1> PICK k : k = Call(t)
  OBVIOUS
<1> DEFINE next == [k EXCEPT !.at = @ + 1]
<1>1. /\ stack[t] # <<>> /\ k.op = "cluster" /\ UNCHANGED <<outcome, callbacks, queued, asked>>
      /\ \/ Return(t, <<next>>)
         \/ k.promise = None /\ \E v : Return(t, Await(k.of, v))
         \/ k.promise # None /\ \E v : \/ Return(t, <<fillSuccess(k.promise, v)>>)
                                       \/ Return(t, <<fillFailure(k.promise, v)>>)
  <2>1. stack[t] # <<>> /\ k.op = "cluster" /\ UNCHANGED <<outcome, callbacks, queued, asked>>
    BY DEF ClusterElement, ClusterThrow, ClusterEnd, Calls
  <2>2. CASE ClusterElement(t)
    BY <2>1, <2>2 DEF ClusterElement
  <2>3. CASE ClusterThrow(t)
    <3>1. Return(t, IF k.promise = None THEN Await(k.of, Exception)
                    ELSE <<fillFailure(k.promise, Exception)>>)
      BY <2>3 DEF ClusterThrow
    <3> QED  BY <2>1, <3>1
  <2>4. CASE ClusterEnd(t)
    <3>1. \/ k.promise # None /\ Return(t, <<fillSuccess(k.promise, TRUE)>>)
          \/ k.promise = None /\ Return(t, Await(k.of, lastFailure[t]))
      BY <2>4 DEF ClusterEnd
    <3> QED  BY <2>1, <3>1
  <2> QED  BY <2>2, <2>3, <2>4
<1>2. FineCluster(k, asked')
  BY <1>1 DEF Fine, FinePlain
<1>3. /\ k = cluster(k.of, k.at, k.right, k.promise) /\ FineManager(k.of, asked')
      /\ k.promise = None \/ \E j \in Jobs(k.of) : k.promise = k.of.clusters[j]
  BY <1>2 DEF FineCluster
<1>4. "op" \in DOMAIN k /\ k.of.to \in Futures /\ (k.promise # None => k.promise \in Futures)
  <2>1. "op" \in DOMAIN k
    BY <1>3 DEF cluster
  <2>2. k.of.to \in Futures /\ \A j \in Jobs(k.of) : k.of.clusters[j] \in Futures
    BY <1>3, Manager
  <2> QED  BY <1>3, <2>1, <2>2
<1>5. \A g \in Futures :
        /\ CanFill(k, g) <=> g = IF k.promise = None THEN k.of.to ELSE k.promise
        /\ Part(k, g) <=> k.promise # None /\ g = k.promise
  BY <1>1, <1>2, <1>4, ClusterCall
<1>6. Turns(k, <<next>>, asked') /\ Hands(k, <<next>>)
  <2>1. /\ "op" \in DOMAIN next /\ next.op = "cluster" /\ next.of = k.of /\ next.promise = k.promise
        /\ next = cluster(next.of, next.at, next.right, next.promise)
    BY <1>3 DEF cluster
  <2> HIDE DEF next
  <2>2. FineCluster(next, asked')
    BY <1>3, <2>1 DEF FineCluster
  <2>3. /\ Fine(next, asked') /\ Private(next) = {}
        /\ \A g \in Futures :
             /\ CanFill(next, g) <=> g = IF next.promise = None THEN next.of.to ELSE next.promise
             /\ Part(next, g) <=> next.promise # None /\ g = next.promise
    BY <2>1, <2>2, ClusterCall
  <2>4. \A d, h : IsJob(next, d, h) => IsJob(k, d, h)
    BY <1>1, <2>1 DEF IsJob, BodyOf
  <2>5. Passes(k, next, asked')
    BY <1>5, <2>1, <2>3, <2>4 DEF Passes
  <2>6. Turns(k, <<next>>, asked')
    BY <2>5, TurnsOne
  <2>7. Hands(k, <<next>>)
    <3> DEFINE new == <<next>>
    <3>1. 1 \in DOMAIN new /\ new[1] = next
      OBVIOUS
    <3> HIDE DEF new
    <3>2. Hands(k, new)
      BY <1>1, <2>1, <3>1 DEF Hands
    <3> QED  BY <3>2 DEF new
  <2> QED  BY <2>6, <2>7
<1>7. ASSUME k.promise = None, NEW v
      PROVE  Turns(k, Await(k.of, v), asked') /\ Hands(k, Await(k.of, v))
  BY <1>1, <1>3, <1>5, <1>7, Awaits
<1>8. ASSUME k.promise # None, NEW v
      PROVE  /\ Turns(k, <<fillSuccess(k.promise, v)>>, asked')
             /\ Turns(k, <<fillFailure(k.promise, v)>>, asked')
  BY <1>4, <1>5, <1>8, PassesToFill, TurnsOne
<1>9. k.promise # None => \A new : Hands(k, new)
  BY <1>1 DEF Hands
<1> HIDE DEF next
<1>10. CASE Return(t, <<next>>)
  BY <1>1, <1>6, <1>10 DEF TurnStep
<1>11. CASE k.promise = None /\ \E v : Return(t, Await(k.of, v))
  BY <1>1, <1>7, <1>11 DEF TurnStep
<1>12. CASE k.promise # None /\ \E v : \/ Return(t, <<fillSuccess(k.promise, v)>>)
                                      \/ Return(t, <<fillFailure(k.promise, v)>>)
  BY <1>1, <1>8, <1>9, <1>12 DEF TurnStep
<1> QED  BY <1>1, <1>10, <1>11, <1>12

LEMMA ConcludeTurns ==
  ASSUME NEW t \in Threads, Conclude(t), Fine(Call(t), asked)
  PROVE  TurnStep(t)
<1> PICK k : k = Call(t)
  OBVIOUS
<1>1. /\ stack[t] # <<>> /\ k.op = "conclude" /\ UNCHANGED <<outcome, callbacks, queued, asked>>
      /\ \E v : Return(t, <<fillSuccess(k.of.to, v)>>)
  BY DEF Conclude, Calls
<1>2. FineManager(k.of, asked') /\ "op" \in DOMAIN k
  BY <1>1 DEF Fine, FinePlain
<1>3. k.of.to \in Futures /\ CanFill(k, k.of.to)
  BY <1>1, <1>2, Manager, ConcludeCall
<1> QED  BY <1>1, <1>3, PassesToFill, TurnsOne, Turned
=============================================================================
