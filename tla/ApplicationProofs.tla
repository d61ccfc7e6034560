--------------------------- MODULE ApplicationProofs ---------------------------
(* The life of the process, for every set of requests.                        *)
EXTENDS Application, FiniteSetTheorems, TLAPS

\* Setting up one more of the components leaves at most seven, and seven only
\* when all are there (app.go:50-94).
LEMMA OneMore ==
  ASSUME NEW S \in SUBSET All, Cardinality(S) < Len(Components),
         NEW T, T = S \cup {Components[Cardinality(S) + 1]}
  PROVE  /\ T \subseteq All /\ Cardinality(T) \in Nat
         /\ Cardinality(T) <= Len(Components)
         /\ Cardinality(T) = Len(Components) => T = All
  <1> DEFINE name == [i \in 1..Len(Components) |-> Components[i]]
  <1>1. Len(Components) = 7
    BY DEF Components
  <1>2. IsFiniteSet(1..7) /\ Cardinality(1..7) = 7
    <2>1. 1 \in Int /\ 7 \in Int
      OBVIOUS
    <2>2. IsFiniteSet(1..7) /\ Cardinality(1..7) = IF 1 > 7 THEN 0 ELSE 7 - 1 + 1
      BY <2>1, FS_Interval
    <2> QED BY <2>2
  <1>3. IsFiniteSet(All) /\ Cardinality(All) <= 7
    <2>1. name \in Surjection(1..7, All)
      BY <1>1 DEF Surjection, All
    <2> QED BY <2>1, <1>2, FS_Surjection
  <1>4. IsFiniteSet(S) /\ Cardinality(S) \in Nat
    BY <1>3, FS_Subset, FS_CardinalityType
  <1>5. T \subseteq All
    BY <1>1, <1>4 DEF All
  <1>6. IsFiniteSet(T) /\ Cardinality(T) \in Nat /\ Cardinality(All) \in Nat
    BY <1>3, <1>5, FS_Subset, FS_CardinalityType
  <1>7. Cardinality(T) <= Cardinality(All)
    BY <1>3, <1>5, FS_Subset
  <1>8. Cardinality(T) = Cardinality(All) => T = All
    BY <1>3, <1>5, FS_Subset
  <1> QED BY <1>1, <1>3, <1>5, <1>6, <1>7, <1>8

-----------------------------------------------------------------------------
\* What is set up, running and listening at each point of main.
Assembled ==
  /\ main \in {"init", "startExtensions", "startServer"} =>
       server = "none" /\ handling = {} /\ ctxLive
  /\ main \in {"startExtensions", "startServer", "notify", "wait", "drain"} =>
       up = All /\ ctxLive
  /\ main \in {"startServer", "notify", "wait", "drain"} => running

Draining ==
  /\ main \in {"drain", "stopExtensions", "closeDB", "closeCache", "cancel"} => draining
  /\ main \in {"stopExtensions", "closeDB", "closeCache", "cancel"} => handling = {}
  /\ Ended => handling = {} /\ server = "none"

AppInv == TypeOK /\ Assembled /\ Draining

LEMMA InitAppInv == Init => AppInv
  <1> SUFFICES ASSUME Init PROVE AppInv
    OBVIOUS
  <1>1. up = {} => Cardinality(up) < Len(Components)
    <2>1. Cardinality({}) = 0 /\ Len(Components) = 7
      BY FS_EmptySet DEF Components
    <2> QED BY <2>1
  <1>2. TypeOK
    BY <1>1, Zenon DEF Init, TypeOK
  <1>3. Assembled /\ Draining
    BY DEF Init, Assembled, Draining, Ended
  <1> QED BY <1>2, <1>3 DEF AppInv

LEMMA SetUpKeeps == ASSUME AppInv, SetUp PROVE AppInv'
  <1> USE DEF AppInv
  <1>1. /\ up' \subseteq All /\ Cardinality(up') \in Nat
        /\ Cardinality(up') <= Len(Components)
        /\ Cardinality(up') = Len(Components) => up' = All
    BY OneMore DEF TypeOK, SetUp
  <1>2. Cardinality(up') # Len(Components) => Cardinality(up') < Len(Components)
    BY <1>1 DEF Components
  <1>3. TypeOK'
    BY <1>1, <1>2 DEF TypeOK, SetUp
  <1>4. Assembled'
    BY <1>1 DEF TypeOK, SetUp, Assembled
  <1>5. Draining'
    BY DEF TypeOK, SetUp, Draining, Ended
  <1> QED BY <1>3, <1>4, <1>5

LEMMA NextKeeps == AppInv /\ [Next]_vars => AppInv'
  <1> SUFFICES ASSUME AppInv, [Next]_vars PROVE AppInv'
    OBVIOUS
  <1> USE DEF AppInv, TypeOK, Assembled, Draining, Ended
  <1>1. CASE SetUp
    BY <1>1, SetUpKeeps
  <1>2. CASE SetUpFails \/ Signal
    BY <1>2 DEF SetUpFails, Signal, Exit
  <1>3. CASE StartExtensions
    BY <1>3 DEF StartExtensions
  <1>4. CASE StartServer \/ Notify
    BY <1>4 DEF StartServer, Notify
  <1>5. CASE Listen
    BY <1>5 DEF Listen
  <1>6. ASSUME NEW r \in Requests, Accept(r) PROVE AppInv'
    BY <1>6 DEF Accept
  <1>7. ASSUME NEW r \in Requests, Handled(r) PROVE AppInv'
    BY <1>7 DEF Handled
  <1>8. CASE Shutdown
    BY <1>8 DEF Shutdown
  <1>9. CASE Drained \/ StopExtensions
    BY <1>9 DEF Drained, StopExtensions
  <1>10. CASE CloseDB \/ CloseCache \/ Cancel
    BY <1>10 DEF CloseDB, CloseCache, Cancel, Exit
  <1>11. CASE UNCHANGED vars
    BY <1>11 DEF vars
  <1> QED
    BY <1>1, <1>2, <1>3, <1>4, <1>5, <1>6, <1>7, <1>8, <1>9, <1>10, <1>11
       DEF Next, MainStep

-----------------------------------------------------------------------------
\* The process is always at a known point of main, and what is set up are
\* components of the application, all of them once it is past initialisation.
THEOREM TypeCorrect == Spec => []TypeOK
  <1>1. AppInv => TypeOK
    BY DEF AppInv
  <1> QED BY InitAppInv, NextKeeps, <1>1, PTL DEF Spec

\* Requests are handled only while every component is up: Stop closes nothing
\* before Shutdown has seen the last of them end, and a listener that comes
\* late serves none (app.go:114-141, server.go:149-165).
THEOREM Served == Spec => []ServedByLive
  <1>1. AppInv => ServedByLive
    BY DEF AppInv, TypeOK, Assembled, Draining, Ended, ServedByLive
  <1> QED BY InitAppInv, NextKeeps, <1>1, PTL DEF Spec
=============================================================================
