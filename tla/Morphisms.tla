------------------------------ MODULE Morphisms ------------------------------
(***************************************************************************)
(* map, filter, flatMap, mapFailure, recover and recoverWith: each returns *)
(* a new future and registers twice on the one it is called on, to apply a *)
(* function of the user on one side and to pass on the other.  The rest of *)
(* the family is made of these: andThen of flatMap, andThenValue and inner *)
(* morphisms of map, recoverValue of recover, zip of flatMap and map.      *)
(***************************************************************************)
EXTENDS Callbacks, Containers
LOCAL INSTANCE SequencesExt

CONSTANTS Default,    \* what T() is
          Exception,  \* the failure an exception is turned into
          Rejected,   \* the failure filter() is given
          Atoms       \* the values that are not tuples

(* What a function of the user does when it is called. *)
Gives(v) == [does |-> "return", is |-> v]
GivesFuture(f) == [does |-> "future", is |-> f]
GivesFailure(e) == [does |-> "WithFailure", is |-> e]
Throws == [does |-> "throw"]
ThrowsAfterFailure(e) == [does |-> "WithFailure, throw", is |-> e]

\* What map() is given by the inner morphisms and by zip: a loop over the value,
\* whose function does each[x] for an element x; a tuple put together.
Traverses(how, each, dest) == [does |-> "traverse", how |-> how, each |-> each, dest |-> dest]
Joins(left) == [does |-> "join", left |-> left]

AppliedToSuccess == {"map", "filter", "flatMap"}
AppliedToFailure == {"mapFailure", "recover", "recoverWith"}

morphism(m, f, g, fn) == [op |-> m, from |-> f, to |-> g, fn |-> fn]
andThenValue(f, g, v) == morphism("map", f, g, Gives(v))
recoverValue(f, g, v) == morphism("recover", f, g, Gives(v))
andThen(f, g, h) == morphism("flatMap", f, g, GivesFuture(h))
innerMap(f, g, each, dest) == morphism("map", f, g, Traverses("map", each, dest))
innerFilter(f, g, each) == morphism("map", f, g, Traverses("filter", each, None))
innerReduce(f, g, each, acc) == morphism("map", f, g, Traverses("reduce", each, acc))
innerFlatten(f, g, acc) == morphism("map", f, g, Traverses("flatten", None, acc))
\* via are the futures zip makes for its tail: two for each.
zip(f, others, via, to) ==
    [op |-> "zip", from |-> f, others |-> others, via |-> via, to |-> to]
apply(m, f, g, fn) == [op |-> "apply", how |-> m, from |-> f, to |-> g, fn |-> fn]

Morph(t) ==
    /\ \E m \in AppliedToSuccess \cup AppliedToFailure :
         /\ Calls(t, m)
         /\ LET c == Call(t)
                applied == apply(m, c.from, c.to, c.fn)
                passed == forward(c.from, c.to)
            IN  IF m \in AppliedToSuccess
                THEN Return(t, <<onSuccess(c.from, applied), onFailure(c.from, passed)>>)
                ELSE Return(t, <<onSuccess(c.from, passed), onFailure(c.from, applied)>>)
    /\ Ask(t)
    /\ UNCHANGED <<outcome, callbacks, lastFailure>>

\* The value or failure of the user's function is given to the new future.
Given(c, v) ==
    CASE c.how = "filter" /\ v = TRUE -> <<forward(c.from, c.to)>>
      [] c.how = "filter" /\ v # TRUE -> <<fillFailure(c.to, Rejected)>>
      [] c.how = "mapFailure" -> <<fillFailure(c.to, v)>>
      [] OTHER -> <<fillSuccess(c.to, v)>>

AsTuple(v) == IF v \in Atoms THEN <<v>> ELSE v

\* Mutant: the loop ends at the first WithFailure.
FirstFailure(sofar, does) == IF sofar.does = "return" THEN does ELSE sofar

\* What a loop has done after one more element: it goes on after a WithFailure,
\* and the next takes its place, and ends at an exception.
AfterElement(sofar, does) ==
    CASE sofar.does \in {"throw", "WithFailure, throw"} -> sofar
      [] sofar.does = "WithFailure" /\ does.does = "throw" -> ThrowsAfterFailure(sofar.is)
      [] does.does = "return" -> sofar
      [] OTHER -> does

Traversed(fn, v) ==
    LET f == [x \in DOMAIN fn.each |-> fn.each[x].is]
        ends == IF fn.how = "flatten" THEN Gives(None)
                ELSE FoldLeft(LAMBDA sofar, x : AfterElement(sofar, fn.each[x]),
                              Gives(None), Elements(v))
    IN  CASE ends.does # "return" -> ends
          [] fn.how = "map" -> Gives(map(v, f, fn.dest))
          [] fn.how = "filter" -> Gives(filter(v, f))
          [] fn.how = "reduce" -> Gives(reduce(v, f, fn.dest))
          [] fn.how = "flatten" -> Gives(flatten(v, fn.dest))

\* What fn does when it is called with what f is filled with.
Does(fn, f) ==
    CASE fn.does = "traverse" -> Traversed(fn, outcome[f].is)
      [] fn.does = "join" -> Gives(fn.left \o AsTuple(outcome[f].is))
      [] OTHER -> fn

\* A function of these is to return a future, and a WithFailure becomes one.
ReturnsFuture(how) == how \in {"flatMap", "recoverWith"}

\* A WithFailure that becomes a value leaves its failure with the thread; the
\* value is T(), or FALSE.
Apply(t) ==
    /\ Calls(t, "apply")
    /\ LET c == Call(t)
           fn == Does(c.fn, c.from)
           failed == fn.does = "WithFailure" /\ ReturnsFuture(c.how)
       IN  /\ lastFailure' = IF fn.does \in {"WithFailure", "WithFailure, throw"} /\ ~failed
                             THEN [lastFailure EXCEPT ![t] = fn.is]
                             ELSE lastFailure
           /\ Return(t,
                CASE fn.does = "return" -> Given(c, fn.is)
                  [] failed -> <<fillFailure(c.to, fn.is)>>
                  [] fn.does = "WithFailure" /\ ~failed -> Given(c, Default)
                  [] fn.does = "future" ->
                       <<onSuccess(fn.is, forward(fn.is, c.to)),
                         onFailure(fn.is, forward(fn.is, c.to))>>
                  [] OTHER -> <<fillFailure(c.to, Exception)>>)
    /\ UNCHANGED <<outcome, callbacks, asked>>

\* zip is a map to a tuple when nothing is left to zip with, or a flatMap.
ZipHead(t) ==
    /\ Calls(t, "zip")
    /\ Ask(t)
    /\ LET c == Call(t) IN
         Return(t, IF c.others = <<>> THEN <<morphism("map", c.from, c.to, Joins(<<>>))>>
                   ELSE <<onSuccess(c.from, [c EXCEPT !.op = "zipTail"]),
                          onFailure(c.from, forward(c.from, c.to))>>)
    /\ UNCHANGED <<outcome, callbacks, lastFailure>>

\* Its function zips the tail and maps that to the tuple of all.
ZipTail(t) ==
    /\ Calls(t, "zipTail")
    /\ LET c == Call(t)
           zipped == c.via[1]
           joined == c.via[2]
       IN  Return(t, <<zip(Head(c.others), Tail(c.others), SubSeq(c.via, 3, Len(c.via)), zipped),
                       morphism("map", zipped, joined, Joins(AsTuple(outcome[c.from].is))),
                       onSuccess(joined, forward(joined, c.to)),
                       onFailure(joined, forward(joined, c.to))>>)
    /\ UNCHANGED <<outcome, callbacks, lastFailure, asked>>

MorphismStep(t) == Morph(t) \/ Apply(t) \/ ZipHead(t) \/ ZipTail(t)

(***************************************************************************)
(* What the future a morphism returns is to be filled with, by what it is  *)
(* made from alone; None as long as that is not decided.                   *)
(***************************************************************************)
\* An exception or the last failure of an element; otherwise the comprehension
\* the loop stands for, in a map with the first of the entries of a key.
TraversalAnswer(fn, v) ==
    LET xs == Elements(v)
        dest == fn.dest
        f(x) == fn.each[x].is
        Ones(kind) == IF fn.how = "flatten" THEN <<>>
                      ELSE SelectSeq(xs, LAMBDA x : fn.each[x].does = kind)
        Made == [i \in DOMAIN xs |-> f(xs[i])]
        Keys == DOMAIN dest.map \cup {Made[i][1] : i \in DOMAIN xs}
        First(k) == CHOOSE i \in DOMAIN xs :
                        Made[i][1] = k /\ \A j \in DOMAIN xs : Made[j][1] = k => i <= j
    IN  CASE Ones("throw") # <<>> -> Failure(Exception)
          [] Ones("WithFailure") # <<>> -> Failure(f(Last(Ones("WithFailure"))))
          [] fn.how = "filter" -> Success(
               CASE Is("vector", v) -> vector(SelectSeq(v.vector, f))
                 [] Is("set", v) -> set({x \in v.set : f(x)})
                 [] Is("map", v) -> assoc([k \in {k \in DOMAIN v.map : f(<<k, v.map[k]>>)} |->
                                             v.map[k]]))
          [] fn.how = "map" -> Success(
               CASE Is("vector", dest) -> vector(dest.vector \o Made)
                 [] Is("set", dest) -> set(dest.set \cup {Made[i] : i \in DOMAIN xs})
                 [] Is("map", dest) -> assoc([k \in Keys |->
                      IF k \in DOMAIN dest.map THEN dest.map[k] ELSE Made[First(k)][2]]))
          [] fn.how = "reduce" -> Success(vector(Reverse(Made) \o dest.vector))
          [] fn.how = "flatten" -> Success(
               CASE Is("vector", dest) ->
                      vector(dest.vector \o FlattenSeq([i \in DOMAIN xs |-> xs[i].vector]))
                 [] Is("set", dest) ->
                      set(dest.set \cup UNION {{xs[i].vector[j] : j \in DOMAIN xs[i].vector} :
                                                  i \in DOMAIN xs}))

\* Futures are zipped in order: the first that fails, or has not been filled,
\* decides, and those behind it are not asked.
ZipAnswer(c) ==
    LET fs == <<c.from>> \o c.others
        stops == {i \in DOMAIN fs : outcome[fs[i]] = None \/ ~outcome[fs[i]].ok}
    IN  IF stops = {} THEN Success(FlattenSeq([i \in DOMAIN fs |-> AsTuple(outcome[fs[i]].is)]))
        ELSE outcome[fs[CHOOSE i \in stops : \A j \in stops : i <= j]]

Result(how, from, fn) ==
    CASE fn.does = "future" -> outcome[fn.is]
      [] fn.does = "traverse" -> TraversalAnswer(fn, outcome[from].is)
      [] fn.does = "join" -> Success(fn.left \o AsTuple(outcome[from].is))
      [] fn.does \in {"throw", "WithFailure, throw"} -> Failure(Exception)
      [] how = "filter" /\ fn.does = "WithFailure" -> Failure(Rejected)
      [] fn.does = "WithFailure" -> Failure(fn.is)
      [] how = "filter" -> IF fn.is THEN outcome[from] ELSE Failure(Rejected)
      [] how = "mapFailure" -> Failure(fn.is)
      [] OTHER -> Success(fn.is)

MorphismAnswer(c) ==
    CASE outcome[c.from] = None -> None
      [] outcome[c.from] # None /\ outcome[c.from].ok = (c.op \in AppliedToSuccess) ->
           Result(c.op, c.from, c.fn)
      [] OTHER -> outcome[c.from]
=============================================================================
