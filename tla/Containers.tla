------------------------------ MODULE Containers ------------------------------
(***************************************************************************)
(* The loops of containers_traverse.h over vectors, sets and maps, each    *)
(* container a record with one field: the sequence, set or function it is. *)
(* A map is gone over as pairs <<key, value>>, which is what the overloads *)
(* for ->first and ->second give a function.                               *)
(***************************************************************************)
EXTENDS Integers, Sequences, FiniteSets
LOCAL INSTANCE SequencesExt

vector(s) == [vector |-> s]
set(S) == [set |-> S]
assoc(m) == [map |-> m]

Is(kind, c) == kind \in DOMAIN c
Emptied(c) == IF Is("set", c) THEN set({}) ELSE [kind \in DOMAIN c |-> <<>>]

\* Mutant: an entry of a map replaces the one with its key.
MutantAdd(c, x) ==
    CASE Is("vector", c) -> vector(Append(c.vector, x))
      [] Is("set", c) -> set(c.set \cup {x})
      [] Is("map", c) ->
           assoc([k \in DOMAIN c.map \cup {x[1]} |-> IF k = x[1] THEN x[2] ELSE c.map[k]])

\* push_back, or insert, which leaves the entry of a map that is there alone.
add(c, x) ==
    CASE Is("vector", c) -> vector(Append(c.vector, x))
      [] Is("set", c) -> set(c.set \cup {x})
      [] Is("map", c) ->
           assoc([k \in DOMAIN c.map \cup {x[1]} |->
                    IF k \in DOMAIN c.map THEN c.map[k] ELSE x[2]])

\* The order iterators go in: any, but always the same, where keys decide it.
Elements(c) ==
    CASE Is("vector", c) -> c.vector
      [] Is("set", c) -> SetToSeq(c.set)
      [] Is("map", c) -> LET keys == SetToSeq(DOMAIN c.map)
                         IN  [i \in DOMAIN keys |-> <<keys[i], c.map[keys[i]]>>]

\* f is what the function of the user makes of each element; that of reduce puts
\* it in front of what it has.
filter(src, f) ==
    FoldLeft(LAMBDA result, x : IF f[x] THEN add(result, x) ELSE result,
             Emptied(src), Elements(src))
map(src, f, dest) ==
    FoldLeft(LAMBDA result, x : add(result, f[x]), dest, Elements(src))
reduce(src, f, acc) ==
    FoldLeft(LAMBDA result, x : vector(<<f[x]>> \o result.vector), acc, Elements(src))
flatten(src, dest) ==
    FoldLeft(LAMBDA result, inner : FoldLeft(add, result, Elements(inner)),
             dest, Elements(src))
=============================================================================
