CONSTANTS
  a = a b = b c = c ta = ta tb = tb tc = tc
  madeA = madeA typeB = typeB typeC = typeC oneC = oneC
  NoOne = NoOne
  Names = {a, b, c}
  Types = {ta, tb, tc}
  Recipes = {typeB, oneC}
  NameOf <- NameDef
  KindOf <- KindDef
  Singletons = {oneC}
  NeedsOf <- NeedsDef
  TypesOf <- TypesDef
  RankOf <- RankDef
  Goroutines = {g1}
  MaxDescriptors = 2
SPECIFICATION Spec
INVARIANT ResolvesRegistered
