---------------------------- MODULE DatabaseProofs ----------------------------
(* Transaction for every number of callers, every set of them that nest, and  *)
(* every size of the pool.                                                    *)
EXTENDS Database, FiniteSetTheorems, TLAPS

\* What a caller's place in Transaction says of fn, of the server and of what
\* the caller was told.
Phase(c) ==
  /\ step[c] = "idle" /\ answer[c] = Unknown => verdict[c] = Unknown /\ c \notin applied
  /\ step[c] # "idle" => answer[c] = Unknown
  /\ step[c] \in {"begin", "fn", "nested"} => verdict[c] = Unknown
  /\ step[c] \in {"refused", "rollback"} => verdict[c] = "error"
  /\ step[c] = "commit" => verdict[c] = "ok"
  /\ step[c] = "unwind" => verdict[c] = "panic"
  /\ step[c] \notin {"idle", "commit"} => c \notin applied
  /\ session[c] = "committed" => step[c] = "commit"
  /\ step[c] = "commit" => (c \in applied <=> session[c] = "committed")
  /\ step[c] = "nested" => c \in Nesters

DatabaseInv == TypeOK /\ \A c \in Clients : Phase(c)

LEMMA InitInv == Init => DatabaseInv
  BY DEF Init, DatabaseInv, TypeOK, Steps, Phase

-----------------------------------------------------------------------------
\* Begin and the ways to a connection (database.go:121-126).
LEMMA BeginKeeps ==
  ASSUME DatabaseInv, NEW c \in Clients, Begin(c) \/ Connect(c) \/ BeginFails(c) \/ Refused(c)
  PROVE  DatabaseInv'
  <1> USE DatabaseAssumption DEF DatabaseInv, TypeOK, Steps, Goto, Close, Finish
  <1>1. CASE Begin(c)
    <2>1. TypeOK'
      BY <1>1 DEF Begin
    <2>2. \A d \in Clients : Phase(d)'
      BY <1>1 DEF Begin, Phase
    <2> QED BY <2>1, <2>2
  <1>2. CASE Connect(c)
    <2>1. TypeOK'
      BY <1>2 DEF Connect
    <2>2. \A d \in Clients : Phase(d)'
      BY <1>2 DEF Connect, Phase
    <2> QED BY <2>1, <2>2
  <1>3. CASE BeginFails(c)
    <2>1. TypeOK'
      BY <1>3 DEF BeginFails
    <2>2. \A d \in Clients : Phase(d)'
      BY <1>3 DEF BeginFails, Phase
    <2> QED BY <2>1, <2>2
  <1>4. CASE Refused(c)
    <2>1. TypeOK'
      BY <1>4 DEF Refused
    <2>2. \A d \in Clients : Phase(d)'
      BY <1>4 DEF Refused, Phase
    <2> QED BY <2>1, <2>2
  <1> QED BY <1>1, <1>2, <1>3, <1>4

\* What fn does, and how it ends (database.go:139-145).
LEMMA FnKeeps ==
  ASSUME DatabaseInv, NEW c \in Clients,
         Nest(c) \/ NestedConnect(c) \/ NestedDone(c) \/ FnEnds(c)
  PROVE  DatabaseInv'
  <1> USE DatabaseAssumption DEF DatabaseInv, TypeOK, Steps, Goto
  <1>1. CASE Nest(c)
    <2>1. TypeOK'
      BY <1>1 DEF Nest
    <2>2. \A d \in Clients : Phase(d)'
      BY <1>1 DEF Nest, Phase
    <2> QED BY <2>1, <2>2
  <1>2. CASE NestedConnect(c)
    <2>1. TypeOK'
      BY <1>2 DEF NestedConnect, Phase
    <2>2. \A d \in Clients : Phase(d)'
      BY <1>2 DEF NestedConnect, Phase
    <2> QED BY <2>1, <2>2
  <1>3. CASE NestedDone(c)
    <2>1. TypeOK'
      BY <1>3 DEF NestedDone
    <2>2. \A d \in Clients : Phase(d)'
      BY <1>3 DEF NestedDone, Phase
    <2> QED BY <2>1, <2>2
  <1>4. CASE FnEnds(c)
    <2>1. TypeOK'
      BY <1>4 DEF FnEnds
    <2>2. \A d \in Clients : Phase(d)'
      BY <1>4 DEF FnEnds, Phase
    <2> QED BY <2>1, <2>2
  <1> QED BY <1>1, <1>2, <1>3, <1>4

\* Commit and rollback, and sessions that are lost (database.go:128-146).
LEMMA EndKeeps ==
  ASSUME DatabaseInv, NEW c \in Clients,
         Commit(c) \/ Committed(c) \/ Rollback(c) \/ Lose(c) \/ Cancel(c)
  PROVE  DatabaseInv'
  <1> USE DatabaseAssumption DEF DatabaseInv, TypeOK, Steps, Goto, Close, Finish
  <1>1. CASE Commit(c)
    <2>1. TypeOK'
      BY <1>1 DEF Commit
    <2>2. \A d \in Clients : Phase(d)'
      BY <1>1 DEF Commit, Phase
    <2> QED BY <2>1, <2>2
  <1>2. CASE Committed(c)
    <2>1. TypeOK'
      BY <1>2 DEF Committed
    <2>2. \A d \in Clients : Phase(d)'
      BY <1>2 DEF Committed, Phase
    <2> QED BY <2>1, <2>2
  <1>3. CASE Rollback(c)
    <2>1. TypeOK'
      BY <1>3 DEF Rollback
    <2>2. \A d \in Clients : Phase(d)'
      BY <1>3 DEF Rollback, Phase
    <2> QED BY <2>1, <2>2
  <1>4. CASE Lose(c)
    <2>1. TypeOK'
      BY <1>4 DEF Lose
    <2>2. \A d \in Clients : Phase(d)'
      BY <1>4 DEF Lose, Phase
    <2> QED BY <2>1, <2>2
  <1>5. CASE Cancel(c)
    <2>1. TypeOK'
      BY <1>5 DEF Cancel
    <2>2. \A d \in Clients : Phase(d)'
      BY <1>5 DEF Cancel, Phase
    <2> QED BY <2>1, <2>2
  <1> QED BY <1>1, <1>2, <1>3, <1>4, <1>5

LEMMA NextKeeps == DatabaseInv /\ [Next]_vars => DatabaseInv'
  <1> SUFFICES ASSUME DatabaseInv, [Next]_vars PROVE DatabaseInv'
    OBVIOUS
  <1>1. CASE Next
    BY <1>1, BeginKeeps, FnKeeps, EndKeeps DEF Next, Step
  <1>2. CASE UNCHANGED vars
    BY <1>2 DEF vars, DatabaseInv, TypeOK, Phase
  <1> QED BY <1>1, <1>2

-----------------------------------------------------------------------------
\* Connections are held, and sessions open, only inside a call: whatever fn and
\* the server do, Transaction gives its connection back.
THEOREM TypeCorrect == Spec => []TypeOK
  <1>1. DatabaseInv => TypeOK
    BY DEF DatabaseInv
  <1> QED BY InitInv, NextKeeps, <1>1, PTL DEF Spec

\* When those that wait for the pool are all there is, the connections are held
\* by the callers that nest, of whom there are too few to exhaust it.
LEMMA FewNest == DatabaseInv => PoolProgress
  <1> SUFFICES ASSUME DatabaseInv, MaxConns = 0 \/ Cardinality(Nesters) < MaxConns,
                      \A c \in Clients : step[c] = "idle" \/ Waiting(c)
               PROVE  Free
    BY DEF PoolProgress
  <1>1. extra = {} /\ conns \subseteq Nesters
    BY DatabaseAssumption DEF DatabaseInv, TypeOK, Phase, Waiting
  <1>2. IsFiniteSet(Nesters)
    BY DatabaseAssumption, FS_Subset
  <1>3. IsFiniteSet(conns) /\ Cardinality(conns) <= Cardinality(Nesters)
    BY <1>1, <1>2, FS_Subset
  <1>4. Cardinality(conns) \in Nat /\ Cardinality(Nesters) \in Nat
    BY <1>2, <1>3, FS_CardinalityType
  <1>5. Cardinality(extra) = 0
    BY <1>1, FS_EmptySet
  <1>6. MaxConns \in Nat
    BY DatabaseAssumption
  <1>7. MaxConns = 0 \/ Cardinality(conns) + Cardinality(extra) < MaxConns
    BY <1>3, <1>4, <1>5, <1>6
  <1> QED BY <1>7 DEF Free

\* The pool always has a connection to give or somebody at work to give one
\* back, if fewer callers nest than it has connections (database.go:41, 92-103).
THEOREM Progress == Spec => []PoolProgress
  BY InitInv, NextKeeps, FewNest, PTL DEF Spec

-----------------------------------------------------------------------------
(* Transaction keeps the promise. *)

LEMMA InitPromised == Init => Promise!Init
  BY DEF Init, Promise!Init

LEMMA BeginPromised ==
  ASSUME DatabaseInv, NEW c \in Clients, Begin(c) PROVE [Promise!Next]_Promise!vars
  <1>1. CASE answer[c] # Unknown
    BY <1>1 DEF Begin, Promise!Next, Promise!Again
  <1>2. CASE answer[c] = Unknown
    <2>1. verdict[c] = Unknown /\ c \notin applied
      BY <1>2 DEF DatabaseInv, Phase, Begin
    <2> QED BY <1>2, <2>1 DEF Begin, DatabaseInv, TypeOK, Promise!vars
  <1> QED BY <1>1, <1>2

LEMMA EndPromised ==
  ASSUME DatabaseInv, NEW c \in Clients, BeginFails(c) \/ FnEnds(c)
  PROVE  Promise!Next
  <1>1. \E v \in {"ok", "error", "panic"} : verdict' = [verdict EXCEPT ![c] = v]
    BY DEF BeginFails, FnEnds
  <1>2. verdict[c] = Unknown /\ answer[c] = Unknown /\ UNCHANGED <<applied, answer>>
    BY DEF DatabaseInv, Phase, BeginFails, FnEnds
  <1> QED BY <1>1, <1>2 DEF Promise!Next, Promise!End

LEMMA CommitPromised ==
  ASSUME DatabaseInv, NEW c \in Clients, Commit(c) PROVE Promise!Next
  <1>1. verdict[c] = "ok" /\ c \notin applied /\ answer[c] = Unknown
    BY DEF DatabaseInv, Phase, Commit
  <1> QED BY <1>1 DEF Commit, Promise!Next, Promise!Apply

LEMMA ToldPromised ==
  ASSUME DatabaseInv, NEW c \in Clients, Refused(c) \/ Committed(c) \/ Rollback(c)
  PROVE  Promise!Next
  <1> USE DatabaseAssumption DEF DatabaseInv, Phase, Finish
  <1>1. PICK a \in {"nil", "error", "panic"} :
          /\ answer' = [answer EXCEPT ![c] = a]
          /\ a = "nil" => c \in applied
          /\ (a = "panic") <=> (verdict[c] = "panic")
    <2>1. CASE Refused(c)
      BY <2>1 DEF Refused
    <2>2. CASE Committed(c)
      BY <2>2 DEF Committed
    <2>3. CASE Rollback(c)
      BY <2>3 DEF Rollback
    <2> QED BY <2>1, <2>2, <2>3
  <1>2. verdict[c] # Unknown /\ answer[c] = Unknown /\ UNCHANGED <<verdict, applied>>
    BY DEF Refused, Committed, Rollback
  <1> QED BY <1>1, <1>2 DEF Promise!Next, Promise!Told

LEMMA NextPromised == DatabaseInv /\ [Next]_vars => [Promise!Next]_Promise!vars
  <1> SUFFICES ASSUME DatabaseInv, [Next]_vars PROVE [Promise!Next]_Promise!vars
    OBVIOUS
  <1>1. ASSUME NEW c \in Clients,
               Connect(c) \/ Nest(c) \/ NestedConnect(c) \/ NestedDone(c) \/ Lose(c) \/ Cancel(c)
        PROVE  UNCHANGED Promise!vars
    BY <1>1 DEF Connect, Nest, NestedConnect, NestedDone, Lose, Cancel, Promise!vars
  <1>2. CASE Next
    BY <1>1, <1>2, BeginPromised, EndPromised, CommitPromised, ToldPromised DEF Next, Step
  <1>3. CASE UNCHANGED vars
    BY <1>3 DEF vars, Promise!vars
  <1> QED BY <1>2, <1>3

\* Transaction is atomic, and what it answers is true: nil only after the
\* server's commit, and nothing is kept of an fn that failed or panicked,
\* whatever sessions, answers and connections are lost (database.go:121-147).
THEOREM Atomicity == Spec => Atomic
  BY InitInv, NextKeeps, InitPromised, NextPromised, PTL DEF Spec, Atomic, Promise!Spec
=============================================================================
