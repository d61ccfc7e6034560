------------------------------- MODULE Container -------------------------------
(***************************************************************************)
(* The dependency-injection container of internal/core/container.go.       *)
(*                                                                         *)
(* Get finds a service's descriptor under the container's lock, and then   *)
(* holds the descriptor's own lock while it creates the instance, which    *)
(* gets the dependencies in turn.  A goroutine is thus a stack of Gets,    *)
(* innermost first, and holds the lock of every descriptor below the top.  *)
(*                                                                         *)
(* What a caller can register is a recipe: the service, how to make it,    *)
(* its lifetime, and the types of its parameters or tagged fields.  Only   *)
(* the instances of singletons are told apart, as the first, second, ...   *)
(* that their descriptor has made.                                         *)
(***************************************************************************)
EXTENDS Integers, Sequences

CONSTANTS
  Names,          \* service names, the keys of Container.services
  Types,          \* parameter types, interfaces included
  Recipes,        \* what is registered:
  NameOf,         \*   the service,
  KindOf,         \*   Register, RegisterFactory or RegisterInstance,
  Singletons,     \*   the recipes of that lifetime,
  NeedsOf,        \*   the types of its parameters, in order,
  TypesOf,        \*   the types that what it makes satisfies
  RankOf,         \* a rank of the services, to say that none depends on itself
  Goroutines,     \* the callers of Get
  MaxDescriptors, \* bound on the registrations
  NoOne           \* no goroutine

ASSUME ContainerAssumption ==
  /\ NameOf \in [Recipes -> Names]
  /\ KindOf \in [Recipes -> {"type", "factory", "instance"}]
  /\ Singletons \subseteq Recipes /\ \A r \in Recipes : KindOf[r] = "instance" => r \in Singletons
  /\ NeedsOf \in [Recipes -> Seq(Types)] /\ TypesOf \in [Recipes -> SUBSET Types]
  /\ RankOf \in [Names -> Nat]
  /\ NoOne \notin Goroutines /\ MaxDescriptors \in Nat

VARIABLES
  services,  \* Container.services: the descriptor of each name
  descs,     \* every descriptor there has been
  stack      \* the Gets each goroutine is in

vars == <<services, descs, stack>>

NoServices == [n \in {} |-> 0]

\* given is history: the instances that Gets of the descriptor have returned.
New(r) ==
  LET made == IF KindOf[r] = "instance" THEN 1 ELSE 0
  IN  [recipe |-> r, owner |-> NoOne, made |-> made, instance |-> made, given |-> {}]

Init ==
  /\ services = NoServices
  /\ descs = <<>>
  /\ stack = [g \in Goroutines |-> <<>>]

-----------------------------------------------------------------------------
(* Registration, under the container's lock. *)

\* Register, RegisterFactory and RegisterInstance: the latest one wins.
Register(r) ==
  /\ Len(descs) < MaxDescriptors
  /\ descs' = Append(descs, New(r))
  /\ services' = [n \in DOMAIN services \cup {NameOf[r]} |->
                    IF n = NameOf[r] THEN Len(descs) + 1 ELSE services[n]]
  /\ UNCHANGED stack

Clear ==
  /\ services' = NoServices
  /\ UNCHANGED <<descs, stack>>

-----------------------------------------------------------------------------
(* Get. *)

Frame(n) == [name |-> n, at |-> "lookup", desc |-> 0, arg |-> 1]
Top(g)   == Head(stack[g])
In(g, step)   == stack[g] # <<>> /\ Top(g).at = step
Retop(g, f)   == stack' = [stack EXCEPT ![g] = <<f>> \o Tail(@)]
Recipe(g) == descs[Top(g).desc].recipe

\* The innermost Get returns: on success its caller goes on to the next
\* parameter, on an error it fails too.
Return(g, ok) ==
  LET below == Tail(stack[g])
      f     == Head(below)
  IN  stack' = [stack EXCEPT ![g] =
        IF below = <<>> THEN <<>>
        ELSE <<IF ok THEN [name |-> f.name, at |-> f.at, desc |-> f.desc, arg |-> f.arg + 1]
                     ELSE [name |-> f.name, at |-> "fail", desc |-> f.desc, arg |-> f.arg]>>
             \o Tail(below)]

Get(g, n) ==
  /\ stack[g] = <<>>
  /\ stack' = [stack EXCEPT ![g] = <<Frame(n)>>]
  /\ UNCHANGED <<services, descs>>

LookupUnchecked(g) ==
  LET n == Top(g).name
  IN  /\ In(g, "lookup")
      /\ Retop(g, [name |-> n, at |-> "lock", arg |-> 1,
                   desc |-> IF n \in DOMAIN services THEN services[n] ELSE 0])
      /\ UNCHANGED <<services, descs>>

Lookup(g) ==
  /\ In(g, "lookup")
  /\ IF Top(g).name \in DOMAIN services
     THEN Retop(g, [name |-> Top(g).name, at |-> "lock",
                    desc |-> services[Top(g).name], arg |-> 1])
     ELSE Return(g, FALSE)
  /\ UNCHANGED <<services, descs>>

\* The lock is not held: take it, or return the singleton and leave it at that.
Locked(g) ==
  LET d == Top(g).desc
  IN  IF Recipe(g) \in Singletons /\ descs[d].instance # 0
      THEN /\ descs' = [descs EXCEPT ![d].given = descs[d].given \cup {descs[d].instance}]
           /\ Return(g, TRUE)
      ELSE /\ descs' = [descs EXCEPT ![d].owner = g]
           /\ Retop(g, [name |-> Top(g).name, at |-> "create", desc |-> d, arg |-> 1])

LockShared(g) ==
  /\ In(g, "lock")
  /\ Locked(g)
  /\ UNCHANGED services

Lock(g) ==
  /\ In(g, "lock")
  /\ descs[Top(g).desc].owner = NoOne
  /\ Locked(g)
  /\ UNCHANGED services

Needed(g)    == NeedsOf[Recipe(g)][Top(g).arg]
Resolving(g) == In(g, "create") /\ Top(g).arg <= Len(NeedsOf[Recipe(g)])

CandidatesAny(g) == {n \in DOMAIN services : KindOf[descs[services[n]].recipe] = "type"}

\* The services whose implementation type is, or implements, the type needed:
\* one that a factory makes or that was registered as an instance has none.
Candidates(g) ==
  {n \in DOMAIN services :
     LET r == descs[services[n]].recipe IN KindOf[r] = "type" /\ Needed(g) \in TypesOf[r]}

\* resolveParameter: the first candidate in the map's arbitrary order.
Resolve(g) ==
  /\ Resolving(g)
  /\ \/ \E n \in Candidates(g) : stack' = [stack EXCEPT ![g] = <<Frame(n)>> \o @]
     \/ /\ Candidates(g) = {}
        /\ Retop(g, [name |-> Top(g).name, at |-> "fail", desc |-> Top(g).desc, arg |-> Top(g).arg])
  /\ UNCHANGED <<services, descs>>

\* All parameters are there: make the instance, keep it if it is a singleton,
\* and unlock.  Only a factory can fail.
Build(g) ==
  LET d == Top(g).desc
      n == descs[d].made + 1
  IN  /\ In(g, "create") /\ ~ Resolving(g)
      /\ \/ /\ descs' = [descs EXCEPT ![d] =
                 IF Recipe(g) \in Singletons
                 THEN [recipe |-> descs[d].recipe, owner |-> NoOne, made |-> n,
                       instance |-> n, given |-> descs[d].given \cup {n}]
                 ELSE [descs[d] EXCEPT !.owner = NoOne]]
            /\ Return(g, TRUE)
         \/ /\ KindOf[Recipe(g)] = "factory"
            /\ Retop(g, [name |-> Top(g).name, at |-> "fail", desc |-> d, arg |-> Top(g).arg])
            /\ UNCHANGED descs
      /\ UNCHANGED services

\* An error returns through the deferred unlock.
FailKeepingLock(g) ==
  /\ In(g, "fail")
  /\ Return(g, FALSE)
  /\ UNCHANGED <<services, descs>>

Fail(g) ==
  /\ In(g, "fail")
  /\ descs' = [descs EXCEPT ![Top(g).desc].owner = NoOne]
  /\ Return(g, FALSE)
  /\ UNCHANGED services

(***************************************************************************)
(* resolveParameter ranges over the map without the lock.  Go's runtime    *)
(* stops a program whose range it sees a registration write into.          *)
(***************************************************************************)
Fault(g) ==
  /\ Resolving(g) /\ Len(descs) < MaxDescriptors
  /\ services' = NoServices
  /\ descs' = <<>>
  /\ stack' = [h \in Goroutines |-> <<>>]

-----------------------------------------------------------------------------
Step(g) == Lookup(g) \/ Lock(g) \/ Resolve(g) \/ Build(g) \/ Fail(g)

Next ==
  \/ \E r \in Recipes : Register(r)
  \/ Clear
  \/ \E g \in Goroutines, n \in Names : Get(g, n)
  \/ \E g \in Goroutines : Step(g) \/ Fault(g)

Spec == Init /\ [][Next]_vars

\* A goroutine runs again and again, and Go's mutexes starve nobody.
FairSpec == Spec /\ \A g \in Goroutines : SF_vars(Step(g))

-----------------------------------------------------------------------------
(* Properties *)

Descriptor == [recipe : Recipes, owner : Goroutines \cup {NoOne}, made : Nat,
               instance : Nat, given : SUBSET Nat]
Ids    == 1..Len(descs)
Frames == [name : Names, at : {"lookup", "lock", "create", "fail"}, desc : Nat, arg : Nat \ {0}]

\* A Get that is past the lookup has the descriptor that was then the name's.
FrameOK(f) ==
  f.at # "lookup" => f.desc \in Ids /\ NameOf[descs[f.desc].recipe] = f.name

TypeOK ==
  /\ descs \in Seq(Descriptor)
  /\ DOMAIN services \subseteq Names
  /\ \A n \in DOMAIN services : services[n] \in Ids /\ NameOf[descs[services[n]].recipe] = n
  /\ stack \in [Goroutines -> Seq(Frames)]
  /\ \A g \in Goroutines : \A i \in 1..Len(stack[g]) : FrameOK(stack[g][i])

\* A singleton is one: whoever gets it, directly or as a dependency, at the same
\* time or later, gets the same instance until it is registered anew
\* (container.go:98-115).
OneInstance ==
  \A d \in Ids : descs[d].recipe \in Singletons =>
    \A i, j \in descs[d].given : i = j

\* No service depends on itself: what can be injected into it ranks below it.
Acyclic ==
  \A r, s \in Recipes : \A i \in 1..Len(NeedsOf[r]) :
    KindOf[s] = "type" /\ NeedsOf[r][i] \in TypesOf[s] => RankOf[NameOf[s]] < RankOf[NameOf[r]]

Blocked(g) == In(g, "lock") /\ descs[Top(g).desc].owner # NoOne

\* As long as no service depends on itself, the goroutines that hold the locks
\* of what they are creating never all wait for one another
\* (container.go:98-99, 158-166, 219-228).
NoDeadlock ==
  Acyclic => \/ \A g \in Goroutines : stack[g] = <<>>
             \/ \E g \in Goroutines : stack[g] # <<>> /\ ~ Blocked(g)

\* Every Get returns, with an instance or an error, unless the process dies.
GetReturns == \A g \in Goroutines : stack[g] # <<>> ~> stack[g] = <<>>

\* What "resolves a parameter type from the container" says (container.go:241):
\* a parameter can be resolved when a service of its type is registered.
ResolvesRegistered ==
  \A g \in Goroutines :
    /\ Resolving(g)
    /\ \E n \in DOMAIN services : Needed(g) \in TypesOf[descs[services[n]].recipe]
    => Candidates(g) # {}
=============================================================================
