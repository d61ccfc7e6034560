CONSTANTS
  a = a b = b c = c ta = ta tb = tb tc = tc
  madeA = madeA typeB = typeB typeC = typeC oneC = oneC
  NoOne = NoOne
  Names = {a, b, c}
  Types = {ta, tb, tc}
  Recipes = {madeA, typeB, typeC}
  NameOf <- NameDef
  KindOf <- KindDef
  Singletons = {madeA, typeC}
  NeedsOf <- NeedsDef
  TypesOf <- TypesDef
  RankOf <- RankDef
  Goroutines = {g1, g2}
  MaxDescriptors = 4
SPECIFICATION FairSpec
INVARIANTS TypeOK OneInstance NoDeadlock
PROPERTY GetReturns
