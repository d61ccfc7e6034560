------------------------------ MODULE MCContainer ------------------------------
(* Instances of Container for TLC. *)
EXTENDS Container

CONSTANTS a, b, c,            \* services
          ta, tb, tc,         \* their types
          madeA, typeB, typeC, oneC

\* A factory that may fail makes a of b and c, and b needs c too, which is
\* created or was registered as an instance.
NameDef  == [r \in Recipes |-> CASE r = madeA -> a [] r = typeB -> b [] OTHER -> c]
KindDef  == [r \in Recipes |->
               CASE r = madeA -> "factory" [] r = oneC -> "instance" [] OTHER -> "type"]
NeedsDef == [r \in Recipes |->
               CASE r = madeA -> <<tb, tc>> [] r = typeB -> <<tc>> [] OTHER -> <<>>]
TypesDef == [r \in Recipes |-> CASE r = madeA -> {ta} [] r = typeB -> {tb} [] OTHER -> {tc}]
RankDef  == [n \in Names |-> CASE n = a -> 2 [] n = b -> 1 [] n = c -> 0]
=============================================================================
