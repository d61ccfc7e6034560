------------------------ MODULE ExtensionManagerProofs ------------------------
(* The extension manager for all extensions, hook points, APIs and            *)
(* goroutines, and handlers of a point without bound.                         *)
EXTENDS ExtensionManager, FiniteSetTheorems, SequenceTheorems, TLAPS

\* The first len slots of the array of a slice exist and hold handlers.
Backed(p, s) ==
  /\ s.cap \in DOMAIN slots[p] /\ s.len <= s.cap
  /\ \A i \in 1..s.len : slots[p][s.cap][i] \in Exts

\* What the call of a goroutine relies on: a writer has the lock, and once past
\* its first step has it alone; what it unregisters does not run, unless its Stop
\* has failed; what a run reads is backed.
ClientInv(c) ==
  /\ call[c].op \in {"Register", "Unregister"} =>
       /\ mutex.owner = c
       /\ call[c].at = "hooks" => mutex.readers = {}
       /\ call[c].op = "Register" \/ call[c].at = "hooks" => call[c].ext \in Exts
  /\ At(c, "Unregister", "hooks") => call[c].ext \notin running \/ call[c].ext \in unstopped
  /\ call[c].op = "Execute" =>
       /\ call[c].point \in Points
       /\ call[c].at = "snapshot" => call[c].pos = 1
       /\ call[c].at \in {"run", "lookup"} => Backed(call[c].point, call[c].slice)

\* While Start and Stop go through the extensions, they read.
AppInv == call[App].at = "each" => App \in mutex.readers /\ call[App].left \subseteq extensions

Live   == DOMAIN slots = Points /\ \A p \in Points : Backed(p, hooks[p])
Served ==
  \A a \in DOMAIN apis : apis[a] \in extensions \cup replaced /\ a \in APIsOf[apis[a]]

ExtensionInv ==
  /\ TypeOK /\ RunningAccounted
  /\ Live /\ Served /\ AppInv
  /\ \A c \in Clients : ClientInv(c)

\* The parts of TypeOK.
MutexOK  == mutex \in Mutexes(Goroutines)
ExtsOK   ==
  /\ extensions \subseteq Exts /\ \A d, e \in extensions : NameOf[d] = NameOf[e] => d = e
  /\ running \subseteq Exts /\ unstopped \subseteq Exts /\ replaced \subseteq Exts
  /\ cancelled \in BOOLEAN
ArraysOK ==
  /\ hooks \in [Points -> Slice]
  /\ \A p \in Points :
       /\ hooks[p].len <= hooks[p].cap /\ hooks[p].cap \in DOMAIN slots[p]
       /\ \A n \in DOMAIN slots[p] :
            n \in 0..hooks[p].cap /\ slots[p][n] \in [1..n -> Exts \cup {Nobody}]
ApisOK   == DOMAIN apis \subseteq APIs /\ \A a \in DOMAIN apis : apis[a] \in Exts
CallsOK  ==
  /\ call \in [Goroutines -> Call]
  /\ \A c \in Clients : call[c].op = "Execute" => call[c].pos <= call[c].slice.len + 1

LEMMA TypeParts == TypeOK <=> MutexOK /\ ExtsOK /\ ArraysOK /\ ApisOK /\ CallsOK
  BY DEF TypeOK, MutexOK, ExtsOK, ArraysOK, ApisOK, CallsOK

LEMMA TypePartsNext == TypeOK' <=> (MutexOK /\ ExtsOK /\ ArraysOK /\ ApisOK /\ CallsOK)'
  BY DEF TypeOK, MutexOK, ExtsOK, ArraysOK, ApisOK, CallsOK

-----------------------------------------------------------------------------
(* Calls and locks. *)

Ats == {"done", "initialize", "hooks", "stop", "snapshot", "run", "lookup", "lock", "each"}

\* An idle goroutine's call is typed.
LEMMA IdleType == Idle \in Call
  BY DEF Idle, Call, Slice, Nil

\* A call that moves on to its next step keeps all else.
LEMMA GotoCall ==
  ASSUME CallsOK, NEW c \in Clients, NEW step \in Ats, Goto(c, step)
  PROVE  /\ CallsOK' /\ call'[c].op = call[c].op /\ call'[c].at = step
         /\ call'[c].ext = call[c].ext /\ call'[c].point = call[c].point
         /\ call'[c].todo = call[c].todo /\ call'[c].slice = call[c].slice
         /\ call'[c].pos = call[c].pos
         /\ \A d \in Goroutines \ {c} : call'[d] = call[d]
  <1> DEFINE r == [call[c] EXCEPT !.at = step]
  <1>1. c \in Goroutines /\ call[c] \in Call /\ call \in [Goroutines -> Call]
    BY DEF CallsOK, Goroutines
  <1>2. /\ r \in Call /\ r.op = call[c].op /\ r.at = step /\ r.ext = call[c].ext
        /\ r.point = call[c].point /\ r.todo = call[c].todo /\ r.slice = call[c].slice
        /\ r.pos = call[c].pos
    BY <1>1 DEF Call, Ats
  <1>3. call' = [call EXCEPT ![c] = r]
    BY DEF Goto
  <1> HIDE DEF r
  <1>4. call'[c] = r /\ call' \in [Goroutines -> Call]
        /\ \A d \in Goroutines \ {c} : call'[d] = call[d]
    BY <1>1, <1>2, <1>3
  <1>5. \A d \in Clients : call'[d].op = "Execute" => call'[d].pos <= call'[d].slice.len + 1
    BY <1>1, <1>2, <1>4 DEF CallsOK, Goroutines
  <1> QED BY <1>2, <1>4, <1>5 DEF CallsOK

\* A call that is replaced, begun or ended.
LEMMA NewCall ==
  ASSUME CallsOK, NEW c \in Goroutines, NEW r \in Call, call' = [call EXCEPT ![c] = r],
         c \in Clients /\ r.op = "Execute" => r.pos <= r.slice.len + 1
  PROVE  /\ CallsOK' /\ call'[c] = r
         /\ \A d \in Goroutines \ {c} : call'[d] = call[d]
  BY DEF CallsOK, Goroutines

\* Readers never push a writer out, and queue when there is one.
LEMMA ReadLock ==
  ASSUME MutexOK, NEW c \in Goroutines, mutex' = RLock(mutex, c)
  PROVE  /\ MutexOK' /\ mutex'.owner = mutex.owner
         /\ mutex.readers \subseteq mutex'.readers
         /\ mutex.owner # NoOne => mutex'.readers = mutex.readers
  BY DEF MutexOK, Mutexes, RLock

LEMMA ReadUnlock ==
  ASSUME MutexOK, NEW c \in Goroutines, mutex' = RUnlock(mutex, c)
  PROVE  /\ MutexOK' /\ mutex'.owner = mutex.owner
         /\ mutex'.readers = mutex.readers \ {c}
  BY DEF MutexOK, Mutexes, RUnlock

LEMMA WriteLock ==
  ASSUME MutexOK, NEW c \in Goroutines, mutex' = Announce(mutex, c)
  PROVE  MutexOK' /\ mutex'.owner = c /\ mutex'.readers = mutex.readers
  BY DEF MutexOK, Mutexes, Announce

LEMMA WriteUnlock ==
  ASSUME MutexOK, mutex' = Unlock(mutex)
  PROVE  MutexOK' /\ mutex'.owner = NoOne
  BY DEF MutexOK, Mutexes, Unlock

\* A call on which nobody else has set foot goes on as it was: its lock is kept,
\* what it stops stays stopped, and what it reads stays backed.
LEMMA Undisturbed ==
  ASSUME ExtensionInv, NEW d \in Clients, call'[d] = call[d],
         mutex.owner = d => mutex'.owner = d,
         mutex.owner = d /\ mutex.readers = {} =>
           mutex'.readers = {} /\ running' \subseteq running /\ unstopped \subseteq unstopped',
         \A p \in Points, s \in Slice : Backed(p, s) => Backed(p, s)'
  PROVE  ClientInv(d)'
  <1>1. ClientInv(d) /\ call[d] \in Call
    BY DEF ExtensionInv, TypeOK, Goroutines
  <1>2. call[d].op = "Execute" /\ call[d].at \in {"run", "lookup"} =>
          Backed(call[d].point, call[d].slice)'
    <2> SUFFICES ASSUME call[d].op = "Execute", call[d].at \in {"run", "lookup"}
                 PROVE  Backed(call[d].point, call[d].slice)'
      OBVIOUS
    <2>1. call[d].point \in Points /\ call[d].slice \in Slice /\ Backed(call[d].point, call[d].slice)
      BY <1>1 DEF ClientInv, Call
    <2>2. PICK p \in Points, s \in Slice : p = call[d].point /\ s = call[d].slice
      BY <2>1
    <2>3. Backed(p, s)'
      BY <2>1, <2>2
    <2> QED BY <2>2, <2>3 DEF Backed
  <1> QED BY <1>1, <1>2 DEF ClientInv, At
-----------------------------------------------------------------------------
(* The steps that leave the arrays alone. *)

\* Arrays that nobody writes keep their shape and their handlers.
LEMMA ArraysKept ==
  ASSUME ExtensionInv, UNCHANGED <<hooks, slots>>
  PROVE  ArraysOK' /\ Live' /\ \A p \in Points, s \in Slice : Backed(p, s) => Backed(p, s)'
  <1>1. ArraysOK /\ Live
    BY TypeParts DEF ExtensionInv
  <1> QED BY <1>1 DEF ArraysOK, Live, Backed

\* Start and Stop go on undisturbed while no extension is taken away.
LEMMA AppUndisturbed ==
  ASSUME ExtensionInv, call'[App] = call[App],
         App \in mutex.readers => App \in mutex'.readers, extensions \subseteq extensions'
  PROVE  AppInv'
  BY DEF ExtensionInv, AppInv

\* A write begins with the lock free (extensions.go:106-109, 141-144).
LEMMA WriteKeeps ==
  ASSUME ExtensionInv, NEW c \in Clients,
         (\E e \in Exts : Register(c, e)) \/ (\E n \in Names : Unregister(c, n))
  PROVE  ExtensionInv'
  <1>1. \E r \in Call : /\ Write(c, r) /\ r.at # "hooks"
                         /\ \/ r.op = "Register" /\ r.ext \in Exts
                            \/ r.op = "Unregister"
    <2>1. ASSUME NEW e \in Exts, Register(c, e)
          PROVE  \E r \in Call : Write(c, r) /\ r.at # "hooks" /\ r.op = "Register" /\ r.ext \in Exts
      <3> DEFINE r == Doing("Register", "initialize", e)
      <3>1. r \in Call /\ r.op = "Register" /\ r.at = "initialize" /\ r.ext = e
        BY ExtensionAssumption, IdleType DEF Doing, Call, Idle
      <3>2. Write(c, r)
        BY <2>1 DEF Register
      <3> HIDE DEF r
      <3> QED BY <3>1, <3>2
    <2>2. ASSUME NEW n \in Names, Unregister(c, n)
          PROVE  \E r \in Call : Write(c, r) /\ r.at # "hooks" /\ r.op = "Unregister"
      <3> DEFINE r == [Idle EXCEPT !.op = "Unregister", !.at = "stop", !.name = n]
      <3>1. r \in Call /\ r.op = "Unregister" /\ r.at = "stop"
        BY IdleType DEF Call, Idle
      <3>2. Write(c, r)
        BY <2>2 DEF Unregister
      <3> HIDE DEF r
      <3> QED BY <3>1, <3>2
    <2> QED BY <2>1, <2>2
  <1>2. UNCHANGED <<extensions, hooks, slots, apis, running, unstopped, replaced, cancelled>>
    BY DEF Register, Unregister
  <1>3. PICK r \in Call : /\ Write(c, r) /\ r.at # "hooks"
                          /\ \/ r.op = "Register" /\ r.ext \in Exts
                             \/ r.op = "Unregister"
    BY <1>1
  <1>4. mutex.owner = NoOne /\ mutex' = Announce(mutex, c) /\ call' = [call EXCEPT ![c] = r]
    BY <1>3 DEF Write
  <1>5. c \in Goroutines /\ c # App /\ c # NoOne
    BY ExtensionAssumption DEF Goroutines
  <1>6. MutexOK /\ ExtsOK /\ ApisOK /\ CallsOK
    BY TypeParts DEF ExtensionInv
  <1>7. MutexOK' /\ mutex'.owner = c /\ mutex'.readers = mutex.readers
    BY <1>4, <1>5, <1>6, WriteLock
  <1>8. CallsOK' /\ call'[c] = r /\ \A d \in Goroutines \ {c} : call'[d] = call[d]
    BY <1>3, <1>4, <1>5, <1>6, NewCall
  <1>9. ArraysOK' /\ Live' /\ \A p \in Points, s \in Slice : Backed(p, s) => Backed(p, s)'
    BY <1>2, ArraysKept
  <1>10. AppInv'
    BY <1>2, <1>5, <1>7, <1>8, AppUndisturbed DEF Goroutines
  <1>11. \A d \in Clients \ {c} : ClientInv(d)'
    <2> SUFFICES ASSUME NEW d \in Clients \ {c} PROVE ClientInv(d)'
      OBVIOUS
    <2>1. call'[d] = call[d] /\ d # NoOne
      BY <1>8, ExtensionAssumption DEF Goroutines
    <2> QED BY <2>1, <1>4, <1>9, Undisturbed
  <1>12. ClientInv(c)'
    BY <1>3, <1>7, <1>8 DEF ClientInv, At
  <1>13. TypeOK'
    BY <1>2, <1>6, <1>7, <1>8, <1>9, TypePartsNext DEF ExtsOK, ApisOK
  <1>14. RunningAccounted' /\ Served'
    BY <1>2 DEF ExtensionInv, RunningAccounted, Served
  <1> QED BY <1>9, <1>10, <1>11, <1>12, <1>13, <1>14 DEF ExtensionInv

\* Initialize, and the decisions of a write that has only begun
\* (extensions.go:113-123, 146-154).
LEMMA BeginWriteKeeps ==
  ASSUME ExtensionInv, NEW c \in Clients, Initialize(c) \/ StopIt(c)
  PROVE  ExtensionInv'
  <1>1. /\ UNCHANGED <<extensions, hooks, slots, apis, replaced, cancelled>>
        /\ call[c].op \in {"Register", "Unregister"} /\ Writes(mutex, c)
    BY DEF Initialize, StopIt, At
  <1>2. c \in Goroutines /\ c # App /\ c # NoOne
    BY ExtensionAssumption DEF Goroutines
  <1>3. MutexOK /\ ExtsOK /\ ApisOK /\ CallsOK
    BY TypeParts DEF ExtensionInv
  <1>4. ClientInv(c) /\ mutex.owner = c /\ mutex.readers = {}
    BY <1>1 DEF ExtensionInv, ClientInv, Writes
  <1>5. ArraysOK' /\ Live' /\ \A p \in Points, s \in Slice : Backed(p, s) => Backed(p, s)'
    BY <1>1, ArraysKept
  <1>6. ExtsOK' /\ ApisOK' /\ RunningAccounted' /\ Served'
    <2>1. \/ UNCHANGED <<running, unstopped>>
          \/ \E e \in extensions : StopExtension(e)
      BY DEF Initialize, StopIt
    <2>2. ExtsOK' /\ RunningAccounted'
      BY <2>1, <1>1, <1>3 DEF ExtensionInv, ExtsOK, RunningAccounted, StopExtension
    <2> QED BY <2>2, <1>1, <1>3 DEF ExtensionInv, ApisOK, Served
  <1>7. /\ CallsOK' /\ MutexOK' /\ ClientInv(c)'
        /\ \A d \in Goroutines \ {c} : call'[d] = call[d]
    <2>1. CASE Return(c) /\ mutex' = Unlock(mutex)
      <3>1. CallsOK' /\ call'[c] = Idle /\ \A d \in Goroutines \ {c} : call'[d] = call[d]
        BY <2>1, <1>2, <1>3, IdleType, NewCall DEF Return, Idle
      <3>2. MutexOK'
        BY <2>1, <1>3, WriteUnlock
      <3> QED BY <3>1, <3>2 DEF ClientInv, At, Idle
    <2>2. CASE Initialize(c) /\ Goto(c, "hooks") /\ UNCHANGED mutex
      <3>1. /\ CallsOK' /\ call'[c].op = call[c].op /\ call'[c].at = "hooks"
            /\ call'[c].ext = call[c].ext /\ call[c].op = "Register"
            /\ \A d \in Goroutines \ {c} : call'[d] = call[d]
        BY <2>2, <1>3, GotoCall DEF Ats, Initialize, At
      <3>2. ClientInv(c)'
        BY <2>2, <3>1, <1>4 DEF ClientInv, At
      <3> QED BY <2>2, <3>1, <3>2, <1>3 DEF MutexOK
    <2>3. ASSUME NEW e \in extensions, StopExtension(e), UNCHANGED mutex,
                 call' = [call EXCEPT ![c] = Doing("Unregister", "hooks", e)]
          PROVE  /\ CallsOK' /\ MutexOK' /\ ClientInv(c)'
                 /\ \A d \in Goroutines \ {c} : call'[d] = call[d]
      <3> DEFINE r == Doing("Unregister", "hooks", e)
      <3>1. e \in Exts
        BY <1>3 DEF ExtsOK
      <3>2. r \in Call /\ r.op = "Unregister" /\ r.at = "hooks" /\ r.ext = e
        BY <3>1, ExtensionAssumption, IdleType DEF Doing, Call, Idle
      <3>3. call' = [call EXCEPT ![c] = r]
        BY <2>3
      <3> HIDE DEF r
      <3>4. CallsOK' /\ call'[c] = r /\ \A d \in Goroutines \ {c} : call'[d] = call[d]
        BY <3>2, <3>3, <1>2, <1>3, NewCall
      <3>5. e \notin running' \/ e \in unstopped'
        BY <2>3 DEF StopExtension
      <3>6. mutex'.owner = c /\ mutex'.readers = {}
        BY <2>3, <1>4
      <3>7. ClientInv(c)'
        BY <3>1, <3>2, <3>4, <3>5, <3>6 DEF ClientInv, At
      <3>8. MutexOK'
        BY <2>3, <1>3 DEF MutexOK
      <3> QED BY <3>4, <3>7, <3>8
    <2>4. CASE Initialize(c)
      BY <2>4, <2>1, <2>2 DEF Initialize
    <2>5. CASE StopIt(c)
      BY <2>5, <2>1, <2>3 DEF StopIt
    <2> QED BY <2>4, <2>5
  <1>8. \A d \in Clients \ {c} : ClientInv(d)'
    <2> SUFFICES ASSUME NEW d \in Clients \ {c} PROVE ClientInv(d)'
      OBVIOUS
    <2>1. call'[d] = call[d] /\ mutex.owner # d
      BY <1>4, <1>7 DEF Goroutines
    <2> QED BY <2>1, <1>5, Undisturbed
  <1>9. AppInv'
    <2>1. call'[App] = call[App] /\ App \notin mutex.readers
      BY <1>2, <1>4, <1>7 DEF Goroutines
    <2> QED BY <2>1, <1>1, AppUndisturbed
  <1>10. TypeOK'
    BY <1>5, <1>6, <1>7, TypePartsNext
  <1> QED BY <1>5, <1>6, <1>7, <1>8, <1>9, <1>10 DEF ExtensionInv

\* A run begins, takes its snapshot, calls its handlers and those the manager,
\* and ends (extensions.go:180-244).
LEMMA RunKeeps ==
  ASSUME ExtensionInv, NEW c \in Clients,
         \/ \E p \in Points : ExecuteHook(c, p)
         \/ Snapshot(c) \/ RunHandler(c) \/ Executed(c) \/ Lookup(c)
  PROVE  ExtensionInv'
  <1>1. UNCHANGED <<extensions, hooks, slots, apis, running, unstopped, replaced, cancelled>>
    BY DEF ExecuteHook, Snapshot, RunHandler, Executed, Lookup
  <1>2. c \in Goroutines /\ c # App /\ c # NoOne
    BY ExtensionAssumption DEF Goroutines
  <1>3. MutexOK /\ ExtsOK /\ ApisOK /\ CallsOK /\ ArraysOK /\ Live /\ ClientInv(c)
    BY TypeParts DEF ExtensionInv
  <1>4. call[c] \in Call /\ call \in [Goroutines -> Call]
    BY <1>2, <1>3 DEF CallsOK
  <1>5. ArraysOK' /\ Live' /\ \A p \in Points, s \in Slice : Backed(p, s) => Backed(p, s)'
    BY <1>1, ArraysKept
  <1>6. ExtsOK' /\ ApisOK' /\ RunningAccounted' /\ Served'
    BY <1>1, <1>3 DEF ExtensionInv, ExtsOK, ApisOK, RunningAccounted, Served
  <1> DEFINE Moves(r) ==
        /\ call' = [call EXCEPT ![c] = r]
        /\ r.op \in {"idle", "Execute"}
        /\ r.op = "Execute" =>
             /\ r.point \in Points /\ r.pos <= r.slice.len + 1
             /\ r.at = "snapshot" => r.pos = 1
             /\ r.at \in {"run", "lookup"} => Backed(r.point, r.slice)
  <1>7. \E r \in Call : Moves(r)
    <2>1. CASE \E p \in Points : ExecuteHook(c, p)
      <3>1. PICK p \in Points : ExecuteHook(c, p)
        BY <2>1
      <3> DEFINE r == [Idle EXCEPT !.op = "Execute", !.at = "snapshot", !.point = p]
      <3>2. r \in Call /\ r.op = "Execute" /\ r.at = "snapshot" /\ r.point = p
            /\ r.pos = 1 /\ r.slice = Nil
        BY IdleType DEF Idle, Call
      <3>3. call' = [call EXCEPT ![c] = r]
        BY <3>1 DEF ExecuteHook, Read
      <3> HIDE DEF r
      <3>4. r.pos <= r.slice.len + 1
        BY <3>2 DEF Nil
      <3> QED BY <3>2, <3>3, <3>4
    <2>2. CASE Snapshot(c)
      <3> DEFINE s == hooks[call[c].point]
                 r == [call[c] EXCEPT !.at = "run", !.slice = s]
      <3>1. call[c].op = "Execute" /\ call[c].point \in Points /\ call[c].pos = 1
        BY <2>2, <1>3 DEF Snapshot, At, ClientInv
      <3>2. s \in Slice /\ Backed(call[c].point, s)
        BY <3>1, <1>3 DEF ArraysOK, Live
      <3>3. r \in Call /\ r.op = "Execute" /\ r.at = "run" /\ r.point = call[c].point
            /\ r.pos = 1 /\ r.slice = s
        BY <3>1, <3>2, <1>4 DEF Call
      <3>4. call' = [call EXCEPT ![c] = r]
        BY <2>2, <1>4 DEF Snapshot, Call
      <3>5. 1 <= s.len + 1
        BY <3>2 DEF Slice
      <3> HIDE DEF r, s
      <3> QED BY <3>1, <3>2, <3>3, <3>4, <3>5
    <2>3. CASE RunHandler(c)
      <3>1. PICK step \in {"run", "lookup"} : Advance(c, step)
        BY <2>3 DEF RunHandler
      <3> DEFINE n == call[c].pos + 1
                 r == [call[c] EXCEPT !.at = step, !.pos = n]
      <3>2. call[c].op = "Execute" /\ call[c].at = "run" /\ call[c].pos <= call[c].slice.len
        BY <2>3 DEF RunHandler, At
      <3>3. call' = [call EXCEPT ![c] = r]
        BY <3>1 DEF Advance
      <3>4. n \in Nat \ {0} /\ n <= call[c].slice.len + 1
        BY <3>2, <1>4 DEF Call, Slice
      <3> HIDE DEF n
      <3>5. r \in Call /\ r.op = "Execute" /\ r.at = step /\ r.point = call[c].point
            /\ r.pos = n /\ r.slice = call[c].slice
        BY <3>2, <3>4, <1>4 DEF Call
      <3> HIDE DEF r
      <3> QED BY <3>2, <3>3, <3>4, <3>5, <1>3 DEF ClientInv
    <2>4. CASE Executed(c)
      <3>1. call' = [call EXCEPT ![c] = Idle] /\ Idle.op = "idle"
        BY <2>4 DEF Executed, Return, Idle
      <3> QED BY <3>1, IdleType
    <2>5. CASE Lookup(c)
      <3> DEFINE r == [call[c] EXCEPT !.at = "run"]
      <3>1. call[c].op = "Execute" /\ call[c].at = "lookup"
        BY <2>5 DEF Lookup, At
      <3>2. r \in Call /\ r.op = "Execute" /\ r.at = "run" /\ r.point = call[c].point
            /\ r.pos = call[c].pos /\ r.slice = call[c].slice
        BY <3>1, <1>4 DEF Call
      <3>3. call' = [call EXCEPT ![c] = r]
        BY <2>5 DEF Lookup, Goto
      <3>4. call[c].pos <= call[c].slice.len + 1
        BY <3>1, <1>3 DEF CallsOK
      <3> HIDE DEF r
      <3> QED BY <3>1, <3>2, <3>3, <3>4, <1>3 DEF ClientInv
    <2> QED BY <2>1, <2>2, <2>3, <2>4, <2>5
  <1>8. PICK r \in Call : Moves(r)
    BY <1>7
  <1>9. CallsOK' /\ call'[c] = r /\ \A d \in Goroutines \ {c} : call'[d] = call[d]
    BY <1>2, <1>3, <1>8, NewCall
  <1>10. /\ MutexOK' /\ mutex'.owner = mutex.owner
         /\ mutex.readers \ {c} \subseteq mutex'.readers
         /\ mutex.owner # NoOne => mutex'.readers \subseteq mutex.readers
    <2>1. \/ mutex' = RLock(mutex, c) \/ mutex' = RUnlock(mutex, c) \/ mutex' = mutex
      BY DEF ExecuteHook, Read, Snapshot, RunHandler, Executed, Lookup
    <2>2. CASE mutex' = RLock(mutex, c)
      BY <2>2, <1>2, <1>3, ReadLock
    <2>3. CASE mutex' = RUnlock(mutex, c)
      BY <2>3, <1>2, <1>3, ReadUnlock
    <2>4. CASE mutex' = mutex
      BY <2>4, <1>3 DEF MutexOK
    <2> QED BY <2>1, <2>2, <2>3, <2>4
  <1>11. ClientInv(c)'
    <2>1. r.op = "Execute" /\ r.at \in {"run", "lookup"} => Backed(r.point, r.slice)'
      BY <1>5, <1>8 DEF Call
    <2> QED BY <2>1, <1>8, <1>9 DEF ClientInv, At, Backed
  <1>12. \A d \in Clients \ {c} : ClientInv(d)'
    <2> SUFFICES ASSUME NEW d \in Clients \ {c} PROVE ClientInv(d)'
      OBVIOUS
    <2>1. call'[d] = call[d] /\ d # NoOne
      BY <1>9, ExtensionAssumption DEF Goroutines
    <2> QED BY <2>1, <1>1, <1>5, <1>10, Undisturbed
  <1>13. AppInv'
    <2>1. call'[App] = call[App]
      BY <1>2, <1>9 DEF Goroutines
    <2> QED BY <2>1, <1>1, <1>2, <1>10, AppUndisturbed
  <1>14. TypeOK'
    BY <1>5, <1>6, <1>9, <1>10, TypePartsNext
  <1> QED BY <1>5, <1>6, <1>11, <1>12, <1>13, <1>14 DEF ExtensionInv

\* Start and Stop of the manager (extensions.go:73-104).
LEMMA AppKeeps ==
  ASSUME ExtensionInv, StartAll \/ StopAll \/ AppStep
  PROVE  ExtensionInv'
  <1>1. UNCHANGED <<extensions, hooks, slots, apis, replaced>>
    BY DEF StartAll, StopAll, AppStep, Begin, End, StartOne, StopOne
  <1>2. App \in Goroutines /\ App \notin Clients
    BY ExtensionAssumption DEF Goroutines
  <1>3. MutexOK /\ ExtsOK /\ ApisOK /\ CallsOK /\ AppInv /\ RunningAccounted
    BY TypeParts DEF ExtensionInv
  <1>4. call[App] \in Call /\ call \in [Goroutines -> Call]
    BY <1>2, <1>3 DEF CallsOK
  <1>5. ArraysOK' /\ Live' /\ \A p \in Points, s \in Slice : Backed(p, s) => Backed(p, s)'
    BY <1>1, ArraysKept
  <1> DEFINE Moves(r) ==
        /\ call' = [call EXCEPT ![App] = r]
        /\ r.at = "each" => App \in mutex'.readers /\ r.left \subseteq extensions
        /\ \/ UNCHANGED <<running, unstopped>>
           \/ App \in mutex.readers /\ \E e \in extensions : running' \subseteq running \cup {e}
                                                          /\ unstopped' \subseteq unstopped \cup {e}
                                                          /\ unstopped \subseteq unstopped' \cup {e}
        /\ \/ mutex' = mutex
           \/ mutex' = RLock(mutex, App)
           \/ mutex' = RUnlock(mutex, App)
        /\ cancelled' \in BOOLEAN
  <1>6. \E r \in Call : Moves(r)
    <2>1. CASE StartAll \/ StopAll
      <3>1. PICK op \in {"Start", "Stop"} : Read(App, [Idle EXCEPT !.op = op, !.at = "lock"])
        BY <2>1 DEF StartAll, StopAll
      <3> DEFINE r == [Idle EXCEPT !.op = op, !.at = "lock"]
      <3>2. r \in Call /\ r.at = "lock"
        BY IdleType DEF Idle, Call
      <3>3. call' = [call EXCEPT ![App] = r] /\ mutex' = RLock(mutex, App)
        BY <3>1 DEF Read
      <3>4. UNCHANGED <<running, unstopped>> /\ cancelled' \in BOOLEAN
        BY <2>1, <1>3 DEF StartAll, StopAll, ExtsOK
      <3> HIDE DEF r
      <3> QED BY <3>2, <3>3, <3>4
    <2>2. CASE Begin
      <3> DEFINE r == [call[App] EXCEPT !.at = "each", !.left = extensions]
      <3>1. r \in Call /\ r.at = "each" /\ r.left = extensions
        BY <1>3, <1>4 DEF Call, ExtsOK
      <3>2. call' = [call EXCEPT ![App] = r]
        BY <2>2, <1>4 DEF Begin, Call
      <3>3. App \in mutex'.readers /\ mutex' = mutex /\ UNCHANGED <<running, unstopped>>
            /\ cancelled' \in BOOLEAN
        BY <2>2, <1>3 DEF Begin, Reads, ExtsOK
      <3> HIDE DEF r
      <3> QED BY <3>1, <3>2, <3>3
    <2>3. CASE End
      <3>1. call' = [call EXCEPT ![App] = Idle] /\ mutex' = RUnlock(mutex, App)
            /\ UNCHANGED <<running, unstopped>> /\ cancelled' \in BOOLEAN
        BY <2>3 DEF End, Return
      <3>2. Idle.at = "done"
        BY DEF Idle
      <3> QED BY <3>1, <3>2, IdleType
    <2>4. ASSUME NEW e \in Exts, StartOne(e) \/ StopOne(e) PROVE \E r \in Call : Moves(r)
      <3> DEFINE rest == call[App].left \ {e}
                 r == [call[App] EXCEPT !.left = rest]
      <3>1. call[App].at = "each" /\ e \in call[App].left /\ mutex' = mutex /\ cancelled' \in BOOLEAN
        BY <2>4, <1>3 DEF StartOne, StopOne, At, ExtsOK
      <3>2. App \in mutex.readers /\ call[App].left \subseteq extensions
        BY <3>1, <1>3 DEF AppInv
      <3>3. call' = [call EXCEPT ![App] = r]
        BY <2>4 DEF StartOne, StopOne
      <3>4. /\ e \in extensions /\ running' \subseteq running \cup {e}
            /\ unstopped' \subseteq unstopped \cup {e} /\ unstopped \subseteq unstopped' \cup {e}
        BY <2>4, <3>1, <3>2 DEF StartOne, StopOne, StopExtension
      <3>5. rest \subseteq extensions /\ rest \subseteq Exts
        BY <3>2, <1>3 DEF ExtsOK
      <3> HIDE DEF rest
      <3>6. r \in Call /\ r.at = "each" /\ r.left = rest
        BY <3>1, <3>5, <1>4 DEF Call
      <3> HIDE DEF r
      <3> QED BY <3>1, <3>2, <3>3, <3>4, <3>5, <3>6
    <2> QED BY <2>1, <2>2, <2>3, <2>4 DEF AppStep
  <1>7. PICK r \in Call : Moves(r)
    BY <1>6
  <1>8. CallsOK' /\ call'[App] = r /\ \A d \in Goroutines \ {App} : call'[d] = call[d]
    BY <1>2, <1>3, <1>7, NewCall
  <1>9. /\ MutexOK' /\ mutex'.owner = mutex.owner
        /\ mutex.owner # NoOne => mutex'.readers \subseteq mutex.readers
    <2>1. CASE mutex' = RLock(mutex, App)
      BY <2>1, <1>2, <1>3, ReadLock
    <2>2. CASE mutex' = RUnlock(mutex, App)
      BY <2>2, <1>2, <1>3, ReadUnlock
    <2>3. CASE mutex' = mutex
      BY <2>3, <1>3 DEF MutexOK
    <2> QED BY <1>7, <2>1, <2>2, <2>3
  <1>10. ExtsOK' /\ RunningAccounted'
    BY <1>1, <1>3, <1>7 DEF ExtsOK, RunningAccounted
  <1>11. ApisOK' /\ Served'
    BY <1>1, <1>3 DEF ExtensionInv, ApisOK, Served
  <1>12. AppInv'
    BY <1>1, <1>7, <1>8 DEF AppInv
  <1>13. \A d \in Clients : ClientInv(d)'
    <2> SUFFICES ASSUME NEW d \in Clients PROVE ClientInv(d)'
      OBVIOUS
    <2>1. call'[d] = call[d] /\ d # NoOne
      BY <1>2, <1>8, ExtensionAssumption DEF Goroutines
    <2>2. mutex.owner = d /\ mutex.readers = {} =>
            mutex'.readers = {} /\ running' \subseteq running /\ unstopped \subseteq unstopped'
      BY <2>1, <1>7, <1>9
    <2> QED BY <2>1, <2>2, <1>5, <1>9, Undisturbed
  <1>14. TypeOK'
    BY <1>5, <1>8, <1>9, <1>10, <1>11, TypePartsNext
  <1> QED BY <1>5, <1>10, <1>11, <1>12, <1>13, <1>14 DEF ExtensionInv

-----------------------------------------------------------------------------
(* The steps that write the arrays, and the ends of writes. *)

\* A writer past its first step has the lock alone: nobody else writes, and
\* neither Start nor Stop is under way.
LEMMA Alone ==
  ASSUME ExtensionInv, NEW c \in Clients,
         call[c].op \in {"Register", "Unregister"}, call[c].at = "hooks"
  PROVE  /\ mutex.owner = c /\ mutex.readers = {} /\ call[c].ext \in Exts
         /\ call[App].at # "each"
         /\ \A d \in Clients : mutex.owner = d => d = c
  BY DEF ExtensionInv, ClientInv, AppInv

\* The writes end (extensions.go:130-139, 169-178).
LEMMA EndWriteKeeps ==
  ASSUME ExtensionInv, NEW c \in Clients, Registered(c) \/ Unregistered(c)
  PROVE  ExtensionInv'
  <1> DEFINE e == call[c].ext
  <1>1. /\ UNCHANGED <<hooks, slots, running, unstopped, cancelled>>
        /\ call[c].op \in {"Register", "Unregister"} /\ call[c].at = "hooks"
        /\ call' = [call EXCEPT ![c] = Idle] /\ mutex' = Unlock(mutex)
    BY DEF Registered, Unregistered, At, Return
  <1>2. c \in Goroutines /\ c # App /\ c # NoOne
    BY ExtensionAssumption DEF Goroutines
  <1>3. MutexOK /\ ExtsOK /\ ApisOK /\ CallsOK /\ Served /\ RunningAccounted /\ ClientInv(c)
    BY TypeParts DEF ExtensionInv
  <1>4. /\ mutex.owner = c /\ mutex.readers = {} /\ e \in Exts /\ call[App].at # "each"
        /\ \A d \in Clients : mutex.owner = d => d = c
    BY <1>1, Alone
  <1>5. ArraysOK' /\ Live' /\ \A p \in Points, s \in Slice : Backed(p, s) => Backed(p, s)'
    BY <1>1, ArraysKept
  <1>6. MutexOK'
    BY <1>1, <1>3, WriteUnlock
  <1>7. CallsOK' /\ call'[c] = Idle /\ \A d \in Goroutines \ {c} : call'[d] = call[d]
    BY <1>1, <1>2, <1>3, IdleType, NewCall DEF Idle
  <1>8. APIsOf[e] \subseteq APIs
    BY <1>4, ExtensionAssumption
  <1> HIDE DEF e
  <1>9. ExtsOK' /\ RunningAccounted' /\ ApisOK' /\ Served'
    <2>1. CASE Registered(c)
      <3>1. /\ apis' = [a \in DOMAIN apis \cup APIsOf[e] |-> IF a \in APIsOf[e] THEN e ELSE apis[a]]
            /\ extensions' = (extensions \ Namesakes(e)) \cup {e}
            /\ replaced' = (replaced \cup Namesakes(e)) \ {e}
        BY <2>1 DEF Registered, e
      <3>2. ExtsOK' /\ RunningAccounted'
        BY <3>1, <1>1, <1>3, <1>4 DEF ExtsOK, RunningAccounted, Namesakes
      <3>3. ApisOK' /\ Served'
        BY <3>1, <1>3, <1>4, <1>8 DEF ApisOK, Served
      <3> QED BY <3>2, <3>3
    <2>2. CASE Unregistered(c)
      <3>1. /\ apis' = [a \in DOMAIN apis \ APIsOf[e] |-> apis[a]]
            /\ extensions' = extensions \ {e} /\ replaced' = replaced
        BY <2>2 DEF Unregistered, e
      <3>2. e \notin running \/ e \in unstopped
        BY <2>2, <1>3 DEF Unregistered, ClientInv, e
      <3>3. ExtsOK' /\ RunningAccounted'
        BY <3>1, <3>2, <1>1, <1>3 DEF ExtsOK, RunningAccounted
      <3>4. ApisOK' /\ Served'
        BY <3>1, <1>3 DEF ApisOK, Served
      <3> QED BY <3>3, <3>4
    <2> QED BY <2>1, <2>2
  <1>10. AppInv'
    BY <1>2, <1>4, <1>7 DEF AppInv, Goroutines
  <1>11. \A d \in Clients : ClientInv(d)'
    <2> SUFFICES ASSUME NEW d \in Clients PROVE ClientInv(d)'
      OBVIOUS
    <2>1. CASE d = c
      BY <2>1, <1>7 DEF ClientInv, At, Idle
    <2>2. CASE d # c
      <3>1. call'[d] = call[d] /\ mutex.owner # d
        BY <2>2, <1>4, <1>7 DEF Goroutines
      <3> QED BY <3>1, <1>5, Undisturbed
    <2> QED BY <2>1, <2>2
  <1>12. TypeOK'
    BY <1>5, <1>6, <1>7, <1>9, TypePartsNext
  <1> QED BY <1>5, <1>9, <1>10, <1>11, <1>12 DEF ExtensionInv

\* A writer at work disturbs nobody, if what is backed stays so.
LEMMA WriterKeeps ==
  ASSUME ExtensionInv, NEW c \in Clients,
         call[c].op \in {"Register", "Unregister"}, call[c].at = "hooks",
         NEW r \in Call, call' = [call EXCEPT ![c] = r],
         r.op = call[c].op, r.at = "hooks", r.ext = call[c].ext,
         UNCHANGED <<mutex, extensions, apis, running, unstopped, replaced, cancelled>>,
         ArraysOK', Live', \A p \in Points, s \in Slice : Backed(p, s) => Backed(p, s)'
  PROVE  ExtensionInv'
  <1>1. c \in Goroutines /\ c # App
    BY ExtensionAssumption DEF Goroutines
  <1>2. MutexOK /\ ExtsOK /\ ApisOK /\ CallsOK /\ Served /\ RunningAccounted /\ ClientInv(c)
    BY TypeParts DEF ExtensionInv
  <1>3. CallsOK' /\ call'[c] = r /\ \A d \in Goroutines \ {c} : call'[d] = call[d]
    BY <1>1, <1>2, NewCall
  <1>4. MutexOK' /\ ExtsOK' /\ ApisOK' /\ Served' /\ RunningAccounted'
    BY <1>2 DEF MutexOK, ExtsOK, ApisOK, Served, RunningAccounted
  <1>5. AppInv'
    BY <1>1, <1>3, AppUndisturbed DEF Goroutines
  <1>6. \A d \in Clients : ClientInv(d)'
    <2> SUFFICES ASSUME NEW d \in Clients PROVE ClientInv(d)'
      OBVIOUS
    <2>1. CASE d = c
      BY <2>1, <1>2, <1>3 DEF ClientInv, At
    <2>2. CASE d # c
      <3>1. call'[d] = call[d]
        BY <2>2, <1>3 DEF Goroutines
      <3> QED BY <3>1, Undisturbed
    <2> QED BY <2>1, <2>2
  <1>7. TypeOK'
    BY <1>3, <1>4, TypePartsNext
  <1> QED BY <1>4, <1>5, <1>6, <1>7 DEF ExtensionInv

\* A handler written over a slot of an array leaves every slice backed.
LEMMA Overwrite ==
  ASSUME ArraysOK, Live, NEW p \in Points, NEW n \in DOMAIN slots[p],
         NEW i, NEW e \in Exts, slots' = [slots EXCEPT ![p][n][i] = e]
  PROVE  /\ DOMAIN slots' = Points
         /\ \A q \in Points :
              /\ DOMAIN slots'[q] = DOMAIN slots[q]
              /\ \A m \in DOMAIN slots[q] : slots'[q][m] \in [1..m -> Exts \cup {Nobody}]
         /\ i \in 1..n => slots'[p][n][i] = e
         /\ \A q \in Points, s \in Slice : Backed(q, s) => Backed(q, s)'
  <1> DEFINE row == [slots[p][n] EXCEPT ![i] = e]
             table == [slots[p] EXCEPT ![n] = row]
  <1>1. DOMAIN slots = Points /\ n \in Nat /\ slots[p][n] \in [1..n -> Exts \cup {Nobody}]
    BY DEF ArraysOK, Live, Slice
  <1>2. row \in [1..n -> Exts \cup {Nobody}]
        /\ \A j \in 1..n : row[j] = IF j = i THEN e ELSE slots[p][n][j]
    BY <1>1
  <1>3. slots' = [slots EXCEPT ![p] = table]
    OBVIOUS
  <1> HIDE DEF row
  <1>4. DOMAIN table = DOMAIN slots[p]
        /\ \A m \in DOMAIN slots[p] : table[m] = IF m = n THEN row ELSE slots[p][m]
    OBVIOUS
  <1> HIDE DEF table
  <1>5. DOMAIN slots' = Points /\ \A q \in Points : slots'[q] = IF q = p THEN table ELSE slots[q]
    BY <1>1, <1>3
  <1>6. \A q \in Points : \A m \in DOMAIN slots[q] : slots[q][m] \in [1..m -> Exts \cup {Nobody}]
    BY DEF ArraysOK
  <1>7. \A q \in Points :
          /\ DOMAIN slots'[q] = DOMAIN slots[q]
          /\ \A m \in DOMAIN slots[q] : slots'[q][m] \in [1..m -> Exts \cup {Nobody}]
    BY <1>2, <1>4, <1>5, <1>6
  <1>8. ASSUME NEW q \in Points, NEW s \in Slice, Backed(q, s) PROVE Backed(q, s)'
    <2>1. s.cap \in DOMAIN slots[q] /\ s.len <= s.cap /\ s.cap \in Nat /\ s.len \in Nat
      BY <1>8 DEF Backed, Slice
    <2>2. \A j \in 1..s.len : slots[q][s.cap][j] \in Exts
      BY <1>8 DEF Backed
    <2>3. \A j \in 1..s.len : slots'[q][s.cap][j] \in Exts
      <3>1. CASE q = p /\ s.cap = n
        <4>1. slots'[q][s.cap] = row
          BY <3>1, <2>1, <1>4, <1>5
        <4>2. \A j \in 1..s.len : j \in 1..n
          BY <3>1, <2>1, <1>1
        <4> QED BY <4>1, <4>2, <3>1, <2>2, <1>2
      <3>2. CASE ~ (q = p /\ s.cap = n)
        <4>1. slots'[q][s.cap] = slots[q][s.cap]
          BY <3>2, <2>1, <1>4, <1>5
        <4> QED BY <4>1, <2>2
      <3> QED BY <3>1, <3>2
    <2> QED BY <2>1, <2>3, <1>7 DEF Backed
  <1>9. i \in 1..n => slots'[p][n][i] = e
    BY <1>2, <1>4, <1>5
  <1> QED BY <1>5, <1>7, <1>8, <1>9

\* append keeps the arrays well formed and what is backed backed, whether it
\* writes into spare capacity or copies (extensions.go:127).
LEMMA Append1Keeps ==
  ASSUME ArraysOK, Live, NEW p \in Points, NEW e \in Exts, Append1(p, e)
  PROVE  ArraysOK' /\ Live' /\ \A q \in Points, s \in Slice : Backed(q, s) => Backed(q, s)'
  <1> DEFINE cap == hooks[p].cap
             len == hooks[p].len
             n   == IF cap = 0 THEN 1 ELSE 2 * cap
  <1>1. /\ cap \in Nat /\ len \in Nat /\ len <= cap /\ cap \in DOMAIN slots[p]
        /\ hooks \in [Points -> Slice] /\ DOMAIN slots = Points
        /\ \A q \in Points : Backed(q, hooks[q])
    BY DEF ArraysOK, Live, Slice
  <1>2. \A q \in Points :
          /\ hooks[q].len <= hooks[q].cap /\ hooks[q].cap \in DOMAIN slots[q]
          /\ \A m \in DOMAIN slots[q] :
               m \in 0..hooks[q].cap /\ slots[q][m] \in [1..m -> Exts \cup {Nobody}]
    BY DEF ArraysOK
  <1>3. \A i \in 1..len : slots[p][cap][i] \in Exts
    BY <1>1 DEF Backed
  <1>4. CASE len < cap
    <2>1. /\ slots' = [slots EXCEPT ![p][cap][len + 1] = e]
          /\ hooks' = [hooks EXCEPT ![p] = [cap |-> cap, len |-> len + 1]]
      BY <1>4 DEF Append1
    <2>2. /\ DOMAIN slots' = Points
          /\ \A q \in Points :
               /\ DOMAIN slots'[q] = DOMAIN slots[q]
               /\ \A m \in DOMAIN slots[q] : slots'[q][m] \in [1..m -> Exts \cup {Nobody}]
          /\ len + 1 \in 1..cap => slots'[p][cap][len + 1] = e
          /\ \A q \in Points, s \in Slice : Backed(q, s) => Backed(q, s)'
      BY <2>1, <1>1, Overwrite
    <2> DEFINE t == [cap |-> cap, len |-> len + 1]
    <2>3. t \in Slice /\ t.cap = cap /\ t.len = len + 1 /\ t.len <= t.cap
      BY <1>1, <1>4 DEF Slice
    <2>4. hooks' = [hooks EXCEPT ![p] = t]
      BY <2>1
    <2> HIDE DEF t
    <2>5. hooks' \in [Points -> Slice] /\ \A q \in Points : hooks'[q] = IF q = p THEN t ELSE hooks[q]
      BY <2>3, <2>4, <1>1
    <2>6. ArraysOK'
      BY <2>2, <2>3, <2>5, <1>2 DEF ArraysOK
    <2>7. \A q \in Points \ {p} : Backed(q, hooks[q])'
      <3> SUFFICES ASSUME NEW q \in Points \ {p} PROVE Backed(q, hooks[q])'
        OBVIOUS
      <3>1. PICK s \in Slice : s = hooks[q]
        BY <1>1
      <3>2. Backed(q, s)' /\ hooks'[q] = s
        BY <3>1, <2>2, <2>5, <1>1
      <3> QED BY <3>2 DEF Backed
    <2>8. Backed(p, hooks[p])'
      <3>1. PICK s \in Slice : s = hooks[p]
        BY <1>1
      <3>2. Backed(p, s)' /\ s.cap = cap /\ s.len = len
        BY <3>1, <2>2, <1>1
      <3>3. \A i \in 1..len : slots'[p][cap][i] \in Exts
        BY <3>2 DEF Backed
      <3>4. len + 1 \in 1..cap
        BY <1>1, <1>4
      <3>5. \A i \in 1..(len + 1) : i \in 1..len \/ i = len + 1
        BY <1>1
      <3>6. \A i \in 1..(len + 1) : slots'[p][cap][i] \in Exts
        BY <3>3, <3>4, <3>5, <2>2
      <3> QED BY <3>6, <2>2, <2>3, <2>5, <1>1 DEF Backed
    <2> QED BY <2>2, <2>6, <2>7, <2>8 DEF Live
  <1>5. CASE ~ (len < cap)
    <2>1. len = cap /\ n \in Nat /\ cap < n /\ len + 1 <= n /\ 1 <= n
      BY <1>1, <1>5
    <2> DEFINE row == [i \in 1..n |-> IF i <= len THEN slots[p][cap][i]
                                      ELSE IF i = len + 1 THEN e ELSE Nobody]
               table == [m \in DOMAIN slots[p] \cup {n} |->
                           IF m \in DOMAIN slots[p] THEN slots[p][m] ELSE row]
               t == [cap |-> n, len |-> len + 1]
    <2>2. slots' = [slots EXCEPT ![p] = table] /\ hooks' = [hooks EXCEPT ![p] = t]
      BY <1>5 DEF Append1
    <2>3. t \in Slice /\ t.cap = n /\ t.len = len + 1
      BY <2>1, <1>1 DEF Slice
    <2>4. row \in [1..n -> Exts \cup {Nobody}] /\ \A i \in 1..(len + 1) : row[i] \in Exts
      <3>1. \A i \in 1..n : i <= len => i \in 1..len
        BY <1>1, <2>1
      <3>2. \A i \in 1..(len + 1) : i \in 1..n /\ (i <= len \/ i = len + 1)
        BY <1>1, <2>1
      <3> QED BY <3>1, <3>2, <1>3
    <2>5. n \notin DOMAIN slots[p]
      <3>1. \A m \in DOMAIN slots[p] : m \in 0..cap
        BY <1>2
      <3> QED BY <3>1, <2>1, <1>1
    <2> HIDE DEF row, t, n
    <2>6. /\ DOMAIN table = DOMAIN slots[p] \cup {n} /\ table[n] = row
          /\ \A m \in DOMAIN slots[p] : table[m] = slots[p][m]
      BY <2>5
    <2> HIDE DEF table
    <2>7. /\ DOMAIN slots' = Points
          /\ \A q \in Points : slots'[q] = IF q = p THEN table ELSE slots[q]
          /\ hooks' \in [Points -> Slice]
          /\ \A q \in Points : hooks'[q] = IF q = p THEN t ELSE hooks[q]
      BY <2>2, <2>3, <1>1
    <2>8. ASSUME NEW q \in Points, NEW s \in Slice, Backed(q, s) PROVE Backed(q, s)'
      BY <2>8, <2>6, <2>7 DEF Backed
    <2>9. ArraysOK'
      <3>1. ASSUME NEW q \in Points, q # p
            PROVE  /\ hooks'[q].len <= hooks'[q].cap /\ hooks'[q].cap \in DOMAIN slots'[q]
                   /\ \A m \in DOMAIN slots'[q] :
                        m \in 0..hooks'[q].cap /\ slots'[q][m] \in [1..m -> Exts \cup {Nobody}]
        BY <3>1, <2>7, <1>2
      <3>2. hooks'[p].len <= hooks'[p].cap /\ hooks'[p].cap \in DOMAIN slots'[p]
        BY <2>1, <2>3, <2>6, <2>7
      <3>3. \A m \in DOMAIN slots[p] :
              m \in 0..n /\ slots'[p][m] \in [1..m -> Exts \cup {Nobody}]
        <4>1. \A m \in DOMAIN slots[p] :
                m \in 0..cap /\ slots[p][m] \in [1..m -> Exts \cup {Nobody}]
          BY <1>2
        <4>2. \A m \in 0..cap : m \in 0..n
          BY <1>1, <2>1
        <4> QED BY <4>1, <4>2, <2>6, <2>7
      <3>4. n \in 0..n /\ slots'[p][n] \in [1..n -> Exts \cup {Nobody}]
        BY <2>1, <2>4, <2>6, <2>7
      <3>5. \A m \in DOMAIN slots'[p] :
              m \in 0..hooks'[p].cap /\ slots'[p][m] \in [1..m -> Exts \cup {Nobody}]
        BY <3>3, <3>4, <2>3, <2>6, <2>7
      <3> QED BY <3>1, <3>2, <3>5, <2>7 DEF ArraysOK
    <2>10. \A q \in Points : Backed(q, hooks[q])'
      <3>1. ASSUME NEW q \in Points, q # p PROVE Backed(q, hooks[q])'
        BY <3>1, <2>7, <1>1 DEF Backed
      <3>2. Backed(p, hooks[p])'
        BY <2>1, <2>3, <2>4, <2>6, <2>7 DEF Backed
      <3> QED BY <3>1, <3>2
    <2> QED BY <2>7, <2>8, <2>9, <2>10 DEF Live
  <1> QED BY <1>4, <1>5

\* A handler is hooked to its point (extensions.go:125-128).
LEMMA RegisterHookKeeps ==
  ASSUME ExtensionInv, NEW c \in Clients, RegisterHook(c)
  PROVE  ExtensionInv'
  <1> DEFINE rest == Tail(call[c].todo)
             r == [call[c] EXCEPT !.todo = rest]
  <1>1. /\ call[c].op = "Register" /\ call[c].at = "hooks" /\ call[c].todo # <<>>
        /\ Append1(Head(call[c].todo), call[c].ext)
        /\ call' = [call EXCEPT ![c] = r]
        /\ UNCHANGED <<mutex, extensions, apis, running, unstopped, replaced, cancelled>>
    BY DEF RegisterHook, At
  <1>2. call[c] \in Call /\ ArraysOK /\ Live /\ call[c].ext \in Exts
    BY <1>1, TypeParts, Alone DEF ExtensionInv, CallsOK, Goroutines
  <1>3. Head(call[c].todo) \in Points /\ rest \in Seq(Points)
    <2>1. call[c].todo \in Seq(Points)
      BY <1>2 DEF Call
    <2> QED BY <2>1, <1>1, HeadTailProperties
  <1> HIDE DEF rest
  <1>4. r \in Call /\ r.op = call[c].op /\ r.at = "hooks" /\ r.ext = call[c].ext
    BY <1>1, <1>2, <1>3 DEF Call
  <1>5. ArraysOK' /\ Live' /\ \A p \in Points, s \in Slice : Backed(p, s) => Backed(p, s)'
    BY <1>1, <1>2, <1>3, Append1Keeps
  <1> HIDE DEF r
  <1> QED BY <1>1, <1>4, <1>5, WriterKeeps

\* A handler moves up in the array under the runs that read it
\* (extensions.go:162).
LEMMA ShiftKeeps ==
  ASSUME ExtensionInv, NEW c \in Clients, Shift(c)
  PROVE  ExtensionInv'
  <1> DEFINE p == Head(call[c].todo)
             s == hooks[p]
             i == call[c].pos
             e == slots[p][s.cap][i + 1]
             r == [call[c] EXCEPT !.pos = i + 1]
  <1>1. /\ call[c].op = "Unregister" /\ call[c].at = "hooks" /\ call[c].todo # <<>>
        /\ i < s.len
        /\ slots' = [slots EXCEPT ![p][s.cap][i] = e]
        /\ call' = [call EXCEPT ![c] = r]
        /\ UNCHANGED <<mutex, extensions, hooks, apis, running, unstopped, replaced, cancelled>>
    BY DEF Shift, At
  <1>2. call[c] \in Call /\ ArraysOK /\ Live
    BY TypeParts DEF ExtensionInv, CallsOK, Goroutines
  <1>3. p \in Points
    <2>1. call[c].todo \in Seq(Points)
      BY <1>2 DEF Call
    <2> QED BY <2>1, <1>1, HeadTailProperties
  <1>4. i \in Nat \ {0} /\ i + 1 \in Nat \ {0} /\ s \in Slice /\ s.len \in Nat
        /\ s.cap \in DOMAIN slots[p] /\ Backed(p, s) /\ \A q \in Points : hooks[q] \in Slice
    BY <1>2, <1>3 DEF Call, ArraysOK, Live, Slice
  <1>5. e \in Exts
    <2> HIDE DEF p, s, i, r
    <2>1. i + 1 \in 1..s.len
      BY <1>1, <1>4
    <2> QED BY <2>1, <1>4 DEF Backed
  <1>6. r \in Call /\ r.op = call[c].op /\ r.at = "hooks" /\ r.ext = call[c].ext
    <2> DEFINE n == i + 1
    <2>1. n \in Nat \ {0} /\ r = [call[c] EXCEPT !.pos = n]
      BY <1>4
    <2> HIDE DEF n, r, i
    <2> QED BY <2>1, <1>1, <1>2 DEF Call
  <1> HIDE DEF p, s, e, r, i
  <1>7. /\ DOMAIN slots' = Points
        /\ \A q \in Points :
             /\ DOMAIN slots'[q] = DOMAIN slots[q]
             /\ \A m \in DOMAIN slots[q] : slots'[q][m] \in [1..m -> Exts \cup {Nobody}]
        /\ \A q \in Points, t \in Slice : Backed(q, t) => Backed(q, t)'
    BY <1>1, <1>2, <1>3, <1>4, <1>5, Overwrite
  <1>8. ArraysOK'
    BY <1>1, <1>2, <1>7 DEF ArraysOK
  <1>9. Live'
    <2>1. ASSUME NEW q \in Points PROVE Backed(q, hooks[q])'
      <3>1. PICK t \in Slice : t = hooks[q]
        BY <1>4
      <3>2. Backed(q, t)' /\ hooks'[q] = t
        BY <3>1, <1>1, <1>2, <1>7 DEF Live
      <3> QED BY <3>2 DEF Backed
    <2> QED BY <2>1, <1>7 DEF Live
  <1> QED BY <1>1, <1>6, <1>7, <1>8, <1>9, WriterKeeps

\* The slice of a point ends one handler earlier (extensions.go:157-167).
LEMMA ShortenKeeps ==
  ASSUME ExtensionInv, NEW c \in Clients, Shorten(c)
  PROVE  ExtensionInv'
  <1> DEFINE p == Head(call[c].todo)
             n == IF hooks[p].len = 0 THEN 0 ELSE hooks[p].len - 1
             t == [hooks[p] EXCEPT !.len = n]
             rest == Tail(call[c].todo)
             r == [call[c] EXCEPT !.todo = rest, !.pos = 1]
  <1>1. /\ call[c].op = "Unregister" /\ call[c].at = "hooks" /\ call[c].todo # <<>>
        /\ hooks' = [hooks EXCEPT ![p] = t]
        /\ UNCHANGED <<mutex, extensions, slots, apis, running, unstopped, replaced, cancelled>>
    BY DEF Shorten, At
  <1>2. call[c] \in Call /\ call \in [Goroutines -> Call] /\ c \in Goroutines
        /\ ArraysOK /\ Live
    BY TypeParts DEF ExtensionInv, CallsOK, Goroutines
  <1>3. p \in Points /\ rest \in Seq(Points)
    <2>1. call[c].todo \in Seq(Points)
      BY <1>2 DEF Call
    <2> QED BY <2>1, <1>1, HeadTailProperties
  <1>4. hooks[p] \in Slice /\ hooks \in [Points -> Slice] /\ n \in Nat /\ n <= hooks[p].len
    BY <1>2, <1>3 DEF ArraysOK, Slice
  <1>5. call' = [call EXCEPT ![c] = r]
    BY <1>2 DEF Shorten, Call
  <1>6. r \in Call /\ r.op = call[c].op /\ r.at = "hooks" /\ r.ext = call[c].ext
    <2> DEFINE q == [call[c] EXCEPT !.todo = rest]
    <2>1. r = [q EXCEPT !.pos = 1]
      BY <1>2 DEF Call
    <2> HIDE DEF r, rest
    <2>2. q \in Call /\ q.op = call[c].op /\ q.at = "hooks" /\ q.ext = call[c].ext
      BY <1>1, <1>2, <1>3 DEF Call
    <2>3. 1 \in Nat \ {0}
      OBVIOUS
    <2> HIDE DEF q
    <2> QED BY <2>1, <2>2, <2>3 DEF Call
  <1> HIDE DEF p, n, r, rest
  <1>7. t \in Slice /\ t.cap = hooks[p].cap /\ t.len = n
    BY <1>4 DEF Slice
  <1> HIDE DEF t
  <1>8. hooks' \in [Points -> Slice] /\ \A q \in Points : hooks'[q] = IF q = p THEN t ELSE hooks[q]
    BY <1>1, <1>3, <1>4, <1>7
  <1>9. \A q \in Points :
          /\ hooks[q].len <= hooks[q].cap /\ hooks[q].cap \in DOMAIN slots[q]
          /\ hooks[q].cap \in Nat /\ hooks[q].len \in Nat
          /\ \A m \in DOMAIN slots[q] :
               m \in 0..hooks[q].cap /\ slots[q][m] \in [1..m -> Exts \cup {Nobody}]
    BY <1>2 DEF ArraysOK, Slice
  <1>10. ArraysOK'
    <2>1. n <= t.cap
      BY <1>3, <1>4, <1>7, <1>9
    <2>2. \A q \in Points : hooks'[q].cap = hooks[q].cap /\ hooks'[q].len <= hooks'[q].cap
      BY <2>1, <1>7, <1>8, <1>9
    <2> QED BY <2>2, <1>1, <1>8, <1>9 DEF ArraysOK
  <1>11. \A q \in Points, u \in Slice : Backed(q, u) => Backed(q, u)'
    BY <1>1 DEF Backed
  <1>12. Live'
    <2>1. ASSUME NEW q \in Points PROVE Backed(q, hooks[q])'
      <3>1. Backed(q, hooks[q]) /\ hooks'[q].cap = hooks[q].cap
            /\ hooks'[q].len <= hooks[q].len /\ hooks'[q].len \in Nat
        <4>1. Backed(q, hooks[q])
          BY <1>2 DEF Live
        <4>2. hooks'[q].cap = hooks[q].cap /\ hooks'[q].len <= hooks[q].len /\ hooks'[q].len \in Nat
          BY <1>4, <1>7, <1>8, <1>9
        <4> QED BY <4>1, <4>2
      <3>2. \A j \in 1..hooks'[q].len : j \in 1..hooks[q].len
        BY <3>1, <1>9
      <3>3. hooks'[q].len <= hooks[q].cap
        BY <3>1, <1>9
      <3> QED BY <3>1, <3>2, <3>3, <1>1 DEF Backed
    <2> QED BY <2>1, <1>1, <1>2 DEF Live
  <1> QED BY <1>1, <1>5, <1>6, <1>10, <1>11, <1>12, WriterKeeps

-----------------------------------------------------------------------------
LEMMA InitExtensionInv == Init => ExtensionInv
  <1> SUFFICES ASSUME Init PROVE ExtensionInv
    OBVIOUS
  <1>1. MutexOK /\ ExtsOK /\ ApisOK /\ Served /\ RunningAccounted
    BY DEF Init, MutexOK, Mutexes, Unlocked, ExtsOK, ApisOK, Served, RunningAccounted
  <1>2. CallsOK /\ \A c \in Goroutines : call[c] = Idle
    BY IdleType DEF Init, CallsOK, Goroutines, Idle
  <1>3. Nil \in Slice /\ Nil.cap = 0 /\ Nil.len = 0
    BY DEF Nil, Slice
  <1>4. hooks = [p \in Points |-> Nil] /\ slots = [p \in Points |-> [n \in {0} |-> <<>>]]
    BY DEF Init
  <1>5. <<>> \in [1..0 -> Exts \cup {Nobody}]
    OBVIOUS
  <1>6. ArraysOK /\ Live
    BY <1>3, <1>4, <1>5 DEF ArraysOK, Live, Backed
  <1>7. AppInv /\ \A c \in Clients : ClientInv(c)
    BY <1>2 DEF AppInv, ClientInv, At, Idle, Goroutines
  <1> QED BY <1>1, <1>2, <1>6, <1>7, TypeParts DEF ExtensionInv

LEMMA NextKeeps == ExtensionInv /\ [Next]_vars => ExtensionInv'
  <1> SUFFICES ASSUME ExtensionInv, [Next]_vars PROVE ExtensionInv'
    OBVIOUS
  <1>1. ASSUME NEW c \in Clients, Step(c) PROVE ExtensionInv'
    BY <1>1, BeginWriteKeeps, RegisterHookKeeps, EndWriteKeeps, ShiftKeeps, ShortenKeeps, RunKeeps
       DEF Step
  <1>2. CASE Next
    BY <1>1, <1>2, WriteKeeps, RunKeeps, AppKeeps DEF Next
  <1>3. CASE UNCHANGED vars
    BY <1>3 DEF vars, ExtensionInv, TypeOK, RunningAccounted, Live, Backed, Served, AppInv,
                ClientInv, At
  <1> QED BY <1>2, <1>3

-----------------------------------------------------------------------------
\* The slices and their arrays stay well formed, and no run leaves its snapshot.
THEOREM TypeCorrect == Spec => []TypeOK
  <1>1. ExtensionInv => TypeOK
    BY DEF ExtensionInv
  <1> QED BY InitExtensionInv, NextKeeps, <1>1, PTL DEF Spec

\* ExecuteHook, which reads its handlers without the lock, never calls a nil
\* one, whatever is registered and unregistered meanwhile (extensions.go:162,
\* 213-214).
THEOREM Filled == Spec => []NeverNil
  <1>1. ExtensionInv => NeverNil
    <2> SUFFICES ASSUME ExtensionInv, NEW c \in Clients, At(c, "Execute", "run"),
                        call[c].pos <= call[c].slice.len
                 PROVE  Next1(c) \in Exts
      BY DEF NeverNil
    <2>1. Backed(call[c].point, call[c].slice)
      BY DEF ExtensionInv, ClientInv, At
    <2>2. call[c].pos \in 1..call[c].slice.len
      BY DEF ExtensionInv, TypeOK, Call, Slice, Goroutines
    <2> QED BY <2>1, <2>2 DEF Backed, Next1
  <1> QED BY InitExtensionInv, NextKeeps, <1>1, PTL DEF Spec

\* Unregistering leaves no API behind that it served, also when names are taken
\* over in between; what stays served without being registered are APIs of
\* extensions that others of their names have replaced (extensions.go:131-135,
\* 170-174).
THEOREM ServedAreAccounted == Spec => []ServedAccounted
  <1>1. ExtensionInv => ServedAccounted
    BY DEF ExtensionInv, Served, ServedAccounted
  <1> QED BY InitExtensionInv, NextKeeps, <1>1, PTL DEF Spec

\* Start and UnregisterExtension exclude each other: what has been taken out is
\* not started, and runs on only if its Stop has failed or another of its name
\* has replaced it (extensions.go:75-84, 95-97, 135, 143-176).
THEOREM RunningAreAccounted == Spec => []RunningAccounted
  <1>1. ExtensionInv => RunningAccounted
    BY DEF ExtensionInv
  <1> QED BY InitExtensionInv, NextKeeps, <1>1, PTL DEF Spec

-----------------------------------------------------------------------------
(* Registering and unregistering are even: a point has at least as many        *)
(* handlers as are declared for it.                                            *)

Writers == {"Register", "Unregister"}

\* How many of its points the call of a goroutine has done.
Done(c) == Len(HooksOf[call[c].ext]) - Len(call[c].todo)

\* What a writer has left to do is the rest of what its extension hooks.
Doable(c) ==
  /\ Done(c) \in Nat
  /\ \A j \in 1..Len(call[c].todo) : call[c].todo[j] = HooksOf[call[c].ext][Done(c) + j]
  /\ call[c].at # "hooks" => Done(c) = 0

\* At most n elements.
Fits(S, n) == IsFiniteSet(S) /\ Cardinality(S) <= n

\* The goroutines that know which extension they register or unregister.
Counting(c) == call[c].op = "Register" \/ At(c, "Unregister", "hooks")

\* While it registers, an extension counts up to the point it has come to, and
\* while it unregisters from there on.
Even ==
  /\ \A c \in Clients : Counting(c) => Doable(c)
  /\ \A c \in Clients : At(c, "Register", "hooks") =>
       \A p \in Points :
         Fits(AllDeclared(extensions, p) \cup Declared(call[c].ext, Done(c), p), hooks[p].len)
  /\ \A c \in Clients : At(c, "Unregister", "hooks") =>
       /\ call[c].ext \in extensions
       /\ \A p \in Points :
            Fits(AllDeclared(extensions, p) \ Declared(call[c].ext, Done(c), p), hooks[p].len)
  /\ (\A c \in Clients : ~ At(c, "Register", "hooks") /\ ~ At(c, "Unregister", "hooks")) =>
       \A p \in Points : Fits(AllDeclared(extensions, p), hooks[p].len)

\* What is declared with the next hook.
LEMMA DeclaredNext ==
  ASSUME NEW e, NEW k \in Nat, NEW p
  PROVE  Declared(e, k + 1, p) = IF HooksOf[e][k + 1] = p
                                 THEN Declared(e, k, p) \cup {<<e, k + 1>>}
                                 ELSE Declared(e, k, p)
  <1>1. 1..(k + 1) = (1..k) \cup {k + 1}
    OBVIOUS
  <1> DEFINE before == {i \in 1..k : HooksOf[e][i] = p}
             after  == {i \in 1..(k + 1) : HooksOf[e][i] = p}
  <1>2. after = IF HooksOf[e][k + 1] = p THEN before \cup {k + 1} ELSE before
    BY <1>1
  <1>3. Declared(e, k, p) = {e} \X before /\ Declared(e, k + 1, p) = {e} \X after
    BY DEF Declared
  <1> HIDE DEF before, after
  <1>4. {e} \X (before \cup {k + 1}) = ({e} \X before) \cup {<<e, k + 1>>}
    OBVIOUS
  <1> QED BY <1>2, <1>3, <1>4

LEMMA DeclaredNone ==
  ASSUME NEW e, NEW p
  PROVE  Declared(e, 0, p) = {}
  <1>1. {i \in 1..0 : HooksOf[e][i] = p} = {}
    OBVIOUS
  <1>2. {e} \X {} = {}
    OBVIOUS
  <1> QED BY <1>1, <1>2 DEF Declared

\* An extension comes with all its hooks and goes with them.
LEMMA AllDeclaredWith ==
  ASSUME NEW E, NEW e, NEW p
  PROVE  /\ AllDeclared(E \cup {e}, p) = AllDeclared(E, p) \cup Declared(e, Len(HooksOf[e]), p)
         /\ AllDeclared(E \ {e}, p) = AllDeclared(E, p) \ Declared(e, Len(HooksOf[e]), p)
  <1>1. \A F, x : x \in AllDeclared(F, p) <=> \E d \in F : x \in Declared(d, Len(HooksOf[d]), p)
    BY DEF AllDeclared
  <1>2. \A d, k, x : x \in Declared(d, k, p) => x[1] = d
    BY DEF Declared
  <1>3. \A x : x \in AllDeclared(E \cup {e}, p)
               <=> x \in AllDeclared(E, p) \cup Declared(e, Len(HooksOf[e]), p)
    BY <1>1
  <1>4. \A x : x \in AllDeclared(E \ {e}, p)
               <=> x \in AllDeclared(E, p) \ Declared(e, Len(HooksOf[e]), p)
    BY <1>1, <1>2
  <1> QED BY <1>3, <1>4

LEMMA AllDeclaredHas ==
  ASSUME NEW E, NEW e \in E, NEW p, NEW k \in 1..Len(HooksOf[e]), HooksOf[e][k] = p
  PROVE  <<e, k>> \in AllDeclared(E, p)
  BY DEF AllDeclared, Declared

\* A step that leaves the handlers, the registered extensions and the writers'
\* part of every call alone, or ends or begins a call elsewhere.
LEMMA EvenFrame ==
  ASSUME Even, UNCHANGED <<extensions, hooks>>,
         \A d \in Clients : \/ /\ call'[d].op = call[d].op /\ call'[d].at = call[d].at
                               /\ call'[d].ext = call[d].ext /\ call'[d].todo = call[d].todo
                            \/ /\ ~ At(d, "Register", "hooks") /\ ~ At(d, "Unregister", "hooks")
                               /\ ~ At(d, "Register", "hooks")' /\ ~ At(d, "Unregister", "hooks")'
                               /\ Counting(d)' => Doable(d)'
  PROVE  Even'
  <1>1. ASSUME NEW d \in Clients, Counting(d)' PROVE Doable(d)'
    <2>1. CASE /\ call'[d].op = call[d].op /\ call'[d].at = call[d].at
               /\ call'[d].ext = call[d].ext /\ call'[d].todo = call[d].todo
      <3>1. Doable(d)
        BY <1>1, <2>1 DEF Even, Counting, At
      <3> QED BY <2>1, <3>1 DEF Doable, Done
    <2> QED BY <1>1, <2>1
  <1>2. \A d \in Clients : At(d, "Register", "hooks")' =>
          \A p \in Points :
            Fits(AllDeclared(extensions, p) \cup Declared(call'[d].ext, Done(d)', p), hooks[p].len)
    BY DEF Even, At, Done
  <1>3. \A d \in Clients : At(d, "Unregister", "hooks")' =>
          /\ call'[d].ext \in extensions
          /\ \A p \in Points :
               Fits(AllDeclared(extensions, p) \ Declared(call'[d].ext, Done(d)', p), hooks[p].len)
    BY DEF Even, At, Done
  <1>4. (\A d \in Clients : ~ At(d, "Register", "hooks")' /\ ~ At(d, "Unregister", "hooks")')
        => \A d \in Clients : ~ At(d, "Register", "hooks") /\ ~ At(d, "Unregister", "hooks")
    BY DEF At
  <1> QED BY <1>1, <1>2, <1>3, <1>4 DEF Even, AllDeclared, Declared

\* There is one writer at a time: the others' part of Even holds of itself.
LEMMA EvenWriter ==
  ASSUME ExtensionInv, NEW c \in Clients, call[c].op \in Writers,
         \A d \in Clients \ {c} : call'[d] = call[d],
         call'[c].op \in Writers => call'[c].at = "hooks" /\ Doable(c)',
         call'[c].op = "Unregister" => call'[c].ext \in extensions',
         \A p \in Points :
           Fits(IF call'[c].op = "Register"
                THEN AllDeclared(extensions', p) \cup Declared(call'[c].ext, Done(c)', p)
                ELSE IF call'[c].op = "Unregister"
                THEN AllDeclared(extensions', p) \ Declared(call'[c].ext, Done(c)', p)
                ELSE AllDeclared(extensions', p), hooks'[p].len)
  PROVE  Even'
  <1>1. \A d \in Clients \ {c} : call'[d].op \notin Writers
    <2>1. mutex.owner = c
      BY DEF ExtensionInv, ClientInv, Writers
    <2> QED BY <2>1 DEF ExtensionInv, ClientInv, Writers
  <1>2. \A d \in Clients : Counting(d)' => Doable(d)'
    BY <1>1 DEF Counting, At, Writers
  <1>3. \A d \in Clients : At(d, "Register", "hooks")' => d = c /\ call'[c].op = "Register"
    BY <1>1 DEF At, Writers
  <1>4. \A d \in Clients : At(d, "Unregister", "hooks")' => d = c /\ call'[c].op = "Unregister"
    BY <1>1 DEF At, Writers
  <1>5. \A d \in Clients : At(d, "Register", "hooks")' =>
          \A p \in Points :
            Fits(AllDeclared(extensions', p) \cup Declared(call'[d].ext, Done(d)', p), hooks'[p].len)
    BY <1>3
  <1>6. \A d \in Clients : At(d, "Unregister", "hooks")' =>
          /\ call'[d].ext \in extensions'
          /\ \A p \in Points :
               Fits(AllDeclared(extensions', p) \ Declared(call'[d].ext, Done(d)', p), hooks'[p].len)
    BY <1>4
  <1>7. (\A d \in Clients : ~ At(d, "Register", "hooks")' /\ ~ At(d, "Unregister", "hooks")') =>
          \A p \in Points : Fits(AllDeclared(extensions', p), hooks'[p].len)
    <2>1. ASSUME ~ At(c, "Register", "hooks")', ~ At(c, "Unregister", "hooks")'
          PROVE  \A p \in Points : Fits(AllDeclared(extensions', p), hooks'[p].len)
      BY <2>1 DEF At, Writers
    <2> QED BY <2>1
  <1> QED BY <1>2, <1>5, <1>6, <1>7 DEF Even, AllDeclared, Declared, Fits

\* A write begins with all its hooks to do (extensions.go:91, 143).
LEMMA WriteEven ==
  ASSUME ExtensionInv, Even, NEW c \in Clients,
         (\E e \in Exts : Register(c, e)) \/ (\E n \in Names : Unregister(c, n))
  PROVE  Even'
  <1>1. call \in [Goroutines -> Call] /\ c \in Goroutines
    BY TypeParts DEF ExtensionInv, CallsOK, Goroutines
  <1>2. CASE \E e \in Exts : Register(c, e)
    <2>1. PICK e \in Exts : Register(c, e)
      BY <1>2
    <2> DEFINE r == Doing("Register", "initialize", e)
    <2>2. call[c] = Idle /\ call' = [call EXCEPT ![c] = r] /\ UNCHANGED <<extensions, hooks>>
      BY <2>1 DEF Register, Write
    <2>3. r.op = "Register" /\ r.at = "initialize" /\ r.ext = e /\ r.todo = HooksOf[e]
      BY DEF Doing, Idle
    <2> HIDE DEF r
    <2>4. call'[c] = r /\ \A d \in Clients \ {c} : call'[d] = call[d]
      BY <1>1, <2>2 DEF Goroutines
    <2>5. ~ At(c, "Register", "hooks") /\ ~ At(c, "Unregister", "hooks")
          /\ ~ At(c, "Register", "hooks")' /\ ~ At(c, "Unregister", "hooks")'
      BY <2>2, <2>3, <2>4 DEF At, Idle
    <2>6. Doable(c)'
      <3>1. Len(HooksOf[e]) \in Nat
        BY ExtensionAssumption
      <3>2. Done(c)' = 0
        BY <2>3, <2>4, <3>1 DEF Done
      <3> QED BY <2>3, <2>4, <3>1, <3>2 DEF Doable
    <2> QED BY <2>2, <2>4, <2>5, <2>6, EvenFrame
  <1>3. CASE \E n \in Names : Unregister(c, n)
    <2>1. PICK n \in Names : Unregister(c, n)
      BY <1>3
    <2> DEFINE r == [Idle EXCEPT !.op = "Unregister", !.at = "stop", !.name = n]
    <2>2. call[c] = Idle /\ call' = [call EXCEPT ![c] = r] /\ UNCHANGED <<extensions, hooks>>
      BY <2>1 DEF Unregister, Write
    <2>3. r.op = "Unregister" /\ r.at = "stop"
      BY DEF Idle
    <2> HIDE DEF r
    <2>4. call'[c] = r /\ \A d \in Clients \ {c} : call'[d] = call[d]
      BY <1>1, <2>2 DEF Goroutines
    <2>5. ~ At(c, "Register", "hooks") /\ ~ At(c, "Unregister", "hooks")
          /\ ~ At(c, "Register", "hooks")' /\ ~ At(c, "Unregister", "hooks")' /\ ~ Counting(c)'
      BY <2>2, <2>3, <2>4 DEF At, Idle, Counting
    <2> QED BY <2>2, <2>4, <2>5, EvenFrame
  <1> QED BY <1>2, <1>3

\* Before the first hook, nothing is counted otherwise (extensions.go:95-124,
\* 147-156).
LEMMA BeginEven ==
  ASSUME ExtensionInv, Even, NEW c \in Clients, Initialize(c) \/ StopIt(c)
  PROVE  Even'
  <1>1. /\ UNCHANGED <<extensions, hooks>> /\ call[c].op \in Writers /\ call[c].at # "hooks"
    BY DEF Initialize, StopIt, At, Writers
  <1>2. CallsOK /\ call \in [Goroutines -> Call] /\ c \in Goroutines
    BY TypeParts DEF ExtensionInv, CallsOK, Goroutines
  <1>3. \A p \in Points : Fits(AllDeclared(extensions, p), hooks[p].len)
    <2>1. mutex.owner = c
      BY <1>1 DEF ExtensionInv, ClientInv, Writers
    <2>2. \A d \in Clients : ~ At(d, "Register", "hooks") /\ ~ At(d, "Unregister", "hooks")
      BY <2>1, <1>1 DEF ExtensionInv, ClientInv, At
    <2> QED BY <2>2 DEF Even
  <1>4. ASSUME /\ call'[c].op \in Writers /\ call'[c].at = "hooks"
               /\ Doable(c)' /\ Done(c)' = 0
               /\ call'[c].op = "Unregister" => call'[c].ext \in extensions
               /\ \A d \in Clients \ {c} : call'[d] = call[d]
        PROVE  Even'
    <2>1. \A p \in Points : Declared(call'[c].ext, Done(c)', p) = {}
      BY <1>4, DeclaredNone
    <2>2. \A S : S \cup {} = S /\ S \ {} = S
      OBVIOUS
    <2>3. \A p \in Points :
            Fits(IF call'[c].op = "Register"
                 THEN AllDeclared(extensions', p) \cup Declared(call'[c].ext, Done(c)', p)
                 ELSE IF call'[c].op = "Unregister"
                 THEN AllDeclared(extensions', p) \ Declared(call'[c].ext, Done(c)', p)
                 ELSE AllDeclared(extensions', p), hooks'[p].len)
      BY <1>1, <1>3, <2>1, <2>2
    <2> QED BY <1>1, <1>4, <2>3, EvenWriter
  <1>5. CASE Initialize(c) /\ Goto(c, "hooks")
    <2>1. "hooks" \in Ats /\ call[c].op = "Register" /\ call[c].at # "hooks"
      BY <1>5 DEF Ats, Initialize, At
    <2>2. /\ call'[c].op = call[c].op /\ call'[c].at = "hooks"
          /\ call'[c].ext = call[c].ext /\ call'[c].todo = call[c].todo
          /\ \A d \in Goroutines \ {c} : call'[d] = call[d]
      BY <1>2, <1>5, <2>1, GotoCall
    <2>3. Doable(c) /\ Done(c) = 0
      BY <2>1 DEF Even, Doable, Counting
    <2>4. Done(c)' = 0 /\ Doable(c)'
      BY <2>2, <2>3 DEF Doable, Done
    <2>5. \A d \in Clients \ {c} : call'[d] = call[d]
      BY <2>2 DEF Goroutines
    <2> QED BY <1>4, <2>1, <2>2, <2>4, <2>5 DEF Writers
  <1>6. CASE Return(c)
    <2>1. call'[c] = Idle /\ \A d \in Clients \ {c} : call'[d] = call[d]
      BY <1>2, <1>6 DEF Return, Goroutines
    <2> QED BY <1>1, <1>3, <2>1, EvenWriter DEF Idle, Writers
  <1>7. ASSUME NEW e \in extensions, call' = [call EXCEPT ![c] = Doing("Unregister", "hooks", e)]
        PROVE  Even'
    <2> DEFINE r == Doing("Unregister", "hooks", e)
    <2>1. r.op = "Unregister" /\ r.at = "hooks" /\ r.ext = e /\ r.todo = HooksOf[e]
      BY DEF Doing, Idle
    <2>2. call' = [call EXCEPT ![c] = r]
      BY <1>7
    <2> HIDE DEF r
    <2>3. call'[c] = r /\ \A d \in Clients \ {c} : call'[d] = call[d]
      BY <1>2, <2>2 DEF Goroutines
    <2>4. e \in Exts
      BY TypeParts DEF ExtensionInv, ExtsOK
    <2>5. Len(HooksOf[e]) \in Nat
      BY <2>4, ExtensionAssumption
    <2>6. Done(c)' = 0
      BY <2>1, <2>3, <2>5 DEF Done
    <2>7. Doable(c)'
      BY <2>1, <2>3, <2>5, <2>6 DEF Doable
    <2> QED BY <1>4, <2>1, <2>3, <2>6, <2>7 DEF Writers
  <1>8. CASE Initialize(c)
    BY <1>8, <1>5, <1>6 DEF Initialize
  <1>9. CASE StopIt(c)
    BY <1>9, <1>6, <1>7 DEF StopIt
  <1> QED BY <1>8, <1>9

\* The next point that is left to do is the next one that the extension hooks.
LEMMA DoneNext ==
  ASSUME NEW c \in Clients, call[c].ext \in Exts, call[c].todo \in Seq(Points), call[c].todo # <<>>,
         Doable(c), call'[c].ext = call[c].ext, call'[c].todo = Tail(call[c].todo),
         call'[c].at = "hooks"
  PROVE  /\ Done(c)' = Done(c) + 1 /\ Doable(c)'
         /\ Done(c) \in Nat /\ Done(c) + 1 \in 1..Len(HooksOf[call[c].ext])
         /\ Head(call[c].todo) = HooksOf[call[c].ext][Done(c) + 1]
  <1> DEFINE s == call[c].todo
             h == HooksOf[call[c].ext]
             t == Tail(s)
  <1>1. h \in Seq(Points) /\ Len(h) \in Nat
    BY ExtensionAssumption
  <1>2. /\ Head(s) = s[1] /\ Len(s) \in Nat /\ 1 <= Len(s) /\ Len(t) = Len(s) - 1
        /\ \A j \in 1..Len(t) : t[j] = s[j + 1]
    BY HeadTailProperties, EmptySeq, LenProperties
  <1>3. Done(c) = Len(h) - Len(s) /\ Done(c)' = Len(h) - Len(t)
    BY DEF Done
  <1> HIDE DEF s, h, t
  <1>4. Done(c) \in Nat /\ \A j \in 1..Len(s) : s[j] = h[Done(c) + j]
    BY DEF Doable, s, h
  <1>5. Done(c)' = Done(c) + 1 /\ Done(c) + 1 \in 1..Len(h)
    BY <1>1, <1>2, <1>3, <1>4
  <1>6. Head(s) = h[Done(c) + 1]
    BY <1>2, <1>4
  <1>7. ASSUME NEW j \in 1..Len(t) PROVE t[j] = h[Done(c)' + j]
    <2>1. j + 1 \in 1..Len(s) /\ t[j] = s[j + 1]
      BY <1>2
    <2>2. s[j + 1] = h[Done(c) + (j + 1)]
      BY <2>1, <1>4
    <2>3. Done(c) + (j + 1) = Done(c)' + j
      BY <1>4, <1>5
    <2> QED BY <2>1, <2>2, <2>3
  <1>8. Doable(c)'
    <2>1. Done(c)' \in Nat
      BY <1>4, <1>5
    <2> QED BY <2>1, <1>7 DEF Doable, h, t, s
  <1> QED BY <1>4, <1>5, <1>6, <1>8 DEF h, s

\* A handler more, and one more that is declared (extensions.go:126-128).
LEMMA RegisterHookEven ==
  ASSUME ExtensionInv, Even, NEW c \in Clients, RegisterHook(c)
  PROVE  Even'
  <1> DEFINE e == call[c].ext
             k == Done(c)
             q == Head(call[c].todo)
             r == [call[c] EXCEPT !.todo = Tail(@)]
  <1>1. /\ call[c].op = "Register" /\ call[c].at = "hooks" /\ call[c].todo # <<>>
        /\ call' = [call EXCEPT ![c] = r] /\ Append1(q, e) /\ UNCHANGED extensions
    BY DEF RegisterHook, At
  <1>2. call \in [Goroutines -> Call] /\ c \in Goroutines /\ call[c] \in Call /\ ArraysOK /\ Live
    BY TypeParts DEF ExtensionInv, CallsOK, Goroutines
  <1>3. call[c].todo \in Seq(Points) /\ e \in Exts
    BY <1>1, <1>2, Alone DEF Call
  <1>4. r.op = "Register" /\ r.at = "hooks" /\ r.ext = e /\ r.todo = Tail(call[c].todo)
    BY <1>1, <1>2 DEF Call
  <1> HIDE DEF r
  <1>5. call'[c] = r /\ \A d \in Clients \ {c} : call'[d] = call[d]
    BY <1>1, <1>2 DEF Goroutines
  <1>6. Doable(c) /\ \A p \in Points : Fits(AllDeclared(extensions, p) \cup Declared(e, k, p), hooks[p].len)
    BY <1>1 DEF Even, At, Counting
  <1>7. Done(c)' = k + 1 /\ Doable(c)' /\ k \in Nat /\ q = HooksOf[e][k + 1]
    BY <1>1, <1>3, <1>4, <1>5, <1>6, DoneNext
  <1>8. q \in Points
    BY <1>1, <1>3, HeadTailProperties
  <1>9. hooks'[q].len = hooks[q].len + 1 /\ \A p \in Points \ {q} : hooks'[p] = hooks[p]
    <2>1. hooks \in [Points -> Slice]
      BY <1>2 DEF ArraysOK
    <2>2. PICK n : hooks' = [hooks EXCEPT ![q] = [cap |-> n, len |-> hooks[q].len + 1]]
      BY <1>1 DEF Append1
    <2> QED BY <2>1, <2>2, <1>8
  <1>10. hooks[q].len \in Nat
    BY <1>2, <1>8 DEF ArraysOK, Slice
  <1> HIDE DEF e, k, q
  <1>11. ASSUME NEW p \in Points
         PROVE  Fits(AllDeclared(extensions, p) \cup Declared(e, k + 1, p), hooks'[p].len)
    <2>1. CASE p = q
      <3> DEFINE S == AllDeclared(extensions, p) \cup Declared(e, k, p)
      <3>1. AllDeclared(extensions, p) \cup Declared(e, k + 1, p) = S \cup {<<e, k + 1>>}
        BY <2>1, <1>7, DeclaredNext
      <3>2. IsFiniteSet(S) /\ Cardinality(S) <= hooks[p].len
        BY <1>6 DEF Fits
      <3> HIDE DEF S
      <3>3. Cardinality(S) \in Nat /\ IsFiniteSet(S \cup {<<e, k + 1>>})
            /\ Cardinality(S \cup {<<e, k + 1>>}) <= Cardinality(S) + 1
        <4>1. Cardinality(S) \in Nat
          BY <3>2, FS_CardinalityType
        <4>2. IsFiniteSet(S \cup {<<e, k + 1>>})
              /\ Cardinality(S \cup {<<e, k + 1>>})
                 = IF <<e, k + 1>> \in S THEN Cardinality(S) ELSE Cardinality(S) + 1
          BY <3>2, FS_AddElement
        <4> QED BY <4>1, <4>2
      <3>4. Cardinality(S \cup {<<e, k + 1>>}) \in Nat
        BY <3>3, FS_CardinalityType
      <3>5. Cardinality(S \cup {<<e, k + 1>>}) <= hooks'[p].len
        BY <2>1, <3>2, <3>3, <3>4, <1>9, <1>10
      <3> QED BY <3>1, <3>3, <3>5 DEF Fits
    <2>2. CASE p # q
      <3>1. Declared(e, k + 1, p) = Declared(e, k, p)
        BY <2>2, <1>7, DeclaredNext
      <3> QED BY <2>2, <3>1, <1>6, <1>9
    <2> QED BY <2>1, <2>2
  <1> QED BY <1>1, <1>4, <1>5, <1>7, <1>11, EvenWriter DEF Writers, e

\* A handler less, and one less that is declared; the point had one to spare, as
\* it was declared (extensions.go:157-167).
LEMMA ShortenEven ==
  ASSUME ExtensionInv, Even, NEW c \in Clients, Shorten(c)
  PROVE  Even'
  <1> DEFINE e == call[c].ext
             k == Done(c)
             q == Head(call[c].todo)
             r == [call[c] EXCEPT !.todo = Tail(@), !.pos = 1]
  <1>1. /\ call[c].op = "Unregister" /\ call[c].at = "hooks" /\ call[c].todo # <<>>
        /\ hooks' = [hooks EXCEPT ![q].len = IF @ = 0 THEN 0 ELSE @ - 1] /\ UNCHANGED extensions
    BY DEF Shorten, At
  <1>2. call \in [Goroutines -> Call] /\ c \in Goroutines /\ call[c] \in Call /\ ArraysOK
    BY TypeParts DEF ExtensionInv, CallsOK, Goroutines
  <1>3. call[c].todo \in Seq(Points) /\ e \in Exts
    BY <1>1, <1>2, Alone DEF Call
  <1>4. r.op = "Unregister" /\ r.at = "hooks" /\ r.ext = e /\ r.todo = Tail(call[c].todo)
    BY <1>1, <1>2 DEF Call
  <1>5. call'[c] = r /\ \A d \in Clients \ {c} : call'[d] = call[d]
    <2>1. call' = [call EXCEPT ![c] = r]
      BY <1>2 DEF Shorten, Call
    <2> HIDE DEF r
    <2> QED BY <2>1, <1>2 DEF Goroutines
  <1> HIDE DEF r
  <1>6. /\ Doable(c) /\ e \in extensions
        /\ \A p \in Points : Fits(AllDeclared(extensions, p) \ Declared(e, k, p), hooks[p].len)
    BY <1>1 DEF Even, At, Counting
  <1>7. /\ Done(c)' = k + 1 /\ Doable(c)' /\ k \in Nat /\ k + 1 \in 1..Len(HooksOf[e])
        /\ q = HooksOf[e][k + 1]
    BY <1>1, <1>3, <1>4, <1>5, <1>6, DoneNext
  <1>8. q \in Points
    BY <1>1, <1>3, HeadTailProperties
  <1>9. /\ hooks'[q].len = IF hooks[q].len = 0 THEN 0 ELSE hooks[q].len - 1
        /\ \A p \in Points \ {q} : hooks'[p] = hooks[p]
    <2>1. hooks \in [Points -> Slice]
      BY <1>2 DEF ArraysOK
    <2> QED BY <2>1, <1>1, <1>8 DEF Slice
  <1>10. hooks[q].len \in Nat
    BY <1>2, <1>8 DEF ArraysOK, Slice
  <1> HIDE DEF e, k, q
  <1>11. ASSUME NEW p \in Points
         PROVE  Fits(AllDeclared(extensions, p) \ Declared(e, k + 1, p), hooks'[p].len)
    <2>1. CASE p = q
      <3> DEFINE S == AllDeclared(extensions, p) \ Declared(e, k, p)
                 x == <<e, k + 1>>
      <3>1. AllDeclared(extensions, p) \ Declared(e, k + 1, p) = S \ {x}
        BY <2>1, <1>7, DeclaredNext
      <3>2. x \in S
        <4>1. x \in AllDeclared(extensions, p)
          BY <2>1, <1>6, <1>7, AllDeclaredHas
        <4>2. x \notin Declared(e, k, p)
          BY <1>7 DEF Declared
        <4> QED BY <4>1, <4>2
      <3>3. IsFiniteSet(S) /\ Cardinality(S) <= hooks[p].len
        BY <1>6 DEF Fits
      <3> HIDE DEF S, x
      <3>4. Cardinality(S) \in Nat /\ IsFiniteSet(S \ {x}) /\ Cardinality(S \ {x}) = Cardinality(S) - 1
        BY <3>2, <3>3, FS_RemoveElement, FS_CardinalityType
      <3>5. Cardinality(S \ {x}) \in Nat
        BY <3>4, FS_CardinalityType
      <3>6. Cardinality(S \ {x}) <= hooks'[p].len
        BY <2>1, <3>3, <3>4, <3>5, <1>9, <1>10
      <3> QED BY <3>1, <3>4, <3>6 DEF Fits
    <2>2. CASE p # q
      <3>1. Declared(e, k + 1, p) = Declared(e, k, p)
        BY <2>2, <1>7, DeclaredNext
      <3> QED BY <2>2, <3>1, <1>6, <1>9
    <2> QED BY <2>1, <2>2
  <1> QED BY <1>1, <1>4, <1>5, <1>6, <1>7, <1>11, EvenWriter DEF Writers, e

\* All is counted once the extension is entered or taken out
\* (extensions.go:130-139, 169-178).
LEMMA EndEven ==
  ASSUME ExtensionInv, Even, NEW c \in Clients, Registered(c) \/ Unregistered(c)
  PROVE  Even'
  <1> DEFINE e == call[c].ext
  <1>1. /\ UNCHANGED hooks /\ call[c].op \in Writers /\ call[c].at = "hooks" /\ call[c].todo = <<>>
        /\ call' = [call EXCEPT ![c] = Idle]
    BY DEF Registered, Unregistered, At, Return, Writers
  <1>2. call \in [Goroutines -> Call] /\ c \in Goroutines
    BY TypeParts DEF ExtensionInv, CallsOK, Goroutines
  <1>3. call'[c] = Idle /\ \A d \in Clients \ {c} : call'[d] = call[d]
    BY <1>1, <1>2 DEF Goroutines
  <1>4. Done(c) = Len(HooksOf[e])
    <2>1. e \in Exts
      BY <1>1, Alone DEF Writers
    <2>2. HooksOf[e] \in Seq(Points)
      BY <2>1, ExtensionAssumption
    <2>3. Len(HooksOf[e]) \in Nat /\ Len(call[c].todo) = 0
      BY <1>1, <2>2
    <2> QED BY <2>3 DEF Done
  <1>5. call'[c].op \notin Writers /\ call'[c].op # "Register" /\ call'[c].op # "Unregister"
    BY <1>3 DEF Idle, Writers
  <1>6. CASE Registered(c)
    <2>1. extensions' \subseteq extensions \cup {e} /\ At(c, "Register", "hooks")
      BY <1>6 DEF Registered
    <2>2. \A p \in Points :
            Fits(AllDeclared(extensions, p) \cup Declared(e, Len(HooksOf[e]), p), hooks[p].len)
      BY <2>1, <1>4 DEF Even
    <2> HIDE DEF e
    <2>3. ASSUME NEW p \in Points PROVE Fits(AllDeclared(extensions', p), hooks'[p].len)
      <3> DEFINE S == AllDeclared(extensions', p)
                 T == AllDeclared(extensions, p) \cup Declared(e, Len(HooksOf[e]), p)
      <3>1. T = AllDeclared(extensions \cup {e}, p)
        BY AllDeclaredWith
      <3>2. S \in SUBSET T
        BY <3>1, <2>1 DEF AllDeclared
      <3>3. IsFiniteSet(T) /\ Cardinality(T) <= hooks[p].len
        BY <2>2 DEF Fits
      <3>4. hooks[p].len \in Nat
        BY TypeParts DEF ExtensionInv, ArraysOK, Slice
      <3> HIDE DEF S, T
      <3>5. IsFiniteSet(S) /\ Cardinality(S) <= Cardinality(T)
        BY <3>2, <3>3, FS_Subset
      <3>6. Cardinality(S) \in Nat /\ Cardinality(T) \in Nat
        BY <3>3, <3>5, FS_CardinalityType
      <3>7. Cardinality(S) <= hooks'[p].len
        BY <3>3, <3>4, <3>5, <3>6, <1>1
      <3> QED BY <3>5, <3>7 DEF Fits, S
    <2> QED BY <2>3, <1>1, <1>3, <1>5, EvenWriter
  <1>7. CASE Unregistered(c)
    <2>1. extensions' = extensions \ {e} /\ At(c, "Unregister", "hooks")
      BY <1>7 DEF Unregistered
    <2>2. \A p \in Points :
            Fits(AllDeclared(extensions, p) \ Declared(e, Len(HooksOf[e]), p), hooks[p].len)
      BY <2>1, <1>4 DEF Even
    <2> HIDE DEF e
    <2>3. \A p \in Points : AllDeclared(extensions', p)
                            = AllDeclared(extensions, p) \ Declared(e, Len(HooksOf[e]), p)
      BY <2>1, AllDeclaredWith
    <2>4. \A p \in Points : Fits(AllDeclared(extensions', p), hooks'[p].len)
      BY <2>2, <2>3, <1>1
    <2> QED BY <2>4, <1>1, <1>3, <1>5, EvenWriter
  <1> QED BY <1>6, <1>7

\* Nothing else touches what a writer counts: shifting, runs, lookups, and the
\* application's goroutine (extensions.go:70-106, 161-163, 182-236).
LEMMA ElsewhereEven ==
  ASSUME ExtensionInv, Even,
         \/ \E c \in Clients, p \in Points : ExecuteHook(c, p)
         \/ \E c \in Clients : Shift(c) \/ Snapshot(c) \/ RunHandler(c) \/ Executed(c) \/ Lookup(c)
         \/ StartAll \/ StopAll \/ AppStep
  PROVE  Even'
  <1>1. call \in [Goroutines -> Call] /\ CallsOK
    BY TypeParts DEF ExtensionInv, CallsOK
  <1>2. CASE \E c \in Clients : Shift(c)
    <2>1. PICK c \in Clients : Shift(c)
      BY <1>2
    <2>2. /\ UNCHANGED <<extensions, hooks>>
          /\ call' = [call EXCEPT ![c].pos = call[c].pos + 1]
      BY <2>1 DEF Shift
    <2>3. \A d \in Clients : /\ call'[d].op = call[d].op /\ call'[d].at = call[d].at
                             /\ call'[d].ext = call[d].ext /\ call'[d].todo = call[d].todo
      BY <1>1, <2>2 DEF Call, Goroutines
    <2> QED BY <2>2, <2>3, EvenFrame
  <1>3. CASE \/ \E c \in Clients, p \in Points : ExecuteHook(c, p)
             \/ \E c \in Clients : Snapshot(c) \/ RunHandler(c) \/ Executed(c) \/ Lookup(c)
    <2>1. PICK c \in Clients : \/ \E p \in Points : ExecuteHook(c, p)
                               \/ Snapshot(c) \/ RunHandler(c) \/ Executed(c) \/ Lookup(c)
      BY <1>3
    <2>2. UNCHANGED <<extensions, hooks>> /\ call[c].op \in {"idle", "Execute"}
      <3>1. CASE \E p \in Points : ExecuteHook(c, p)
        <4>1. UNCHANGED <<extensions, hooks>> /\ call[c] = Idle
          BY <3>1 DEF ExecuteHook, Read
        <4>2. Idle.op = "idle"
          BY DEF Idle
        <4> QED BY <4>1, <4>2
      <3>2. CASE Snapshot(c) \/ RunHandler(c) \/ Executed(c) \/ Lookup(c)
        BY <3>2 DEF Snapshot, RunHandler, Executed, Lookup, At
      <3> QED BY <2>1, <3>1, <3>2
    <2>3. \E r : call' = [call EXCEPT ![c] = r] /\ r.op \in {"idle", "Execute"}
      <3>1. CASE \E p \in Points : ExecuteHook(c, p)
        <4>1. PICK p \in Points : ExecuteHook(c, p)
          BY <3>1
        <4> DEFINE r == [Idle EXCEPT !.op = "Execute", !.at = "snapshot", !.point = p]
        <4>2. call' = [call EXCEPT ![c] = r]
          BY <4>1 DEF ExecuteHook, Read
        <4>3. r.op = "Execute"
          BY DEF Idle
        <4> QED BY <4>2, <4>3
      <3>2. CASE Snapshot(c)
        <4> DEFINE r == [call[c] EXCEPT !.at = "run", !.slice = hooks[call[c].point]]
        <4>1. call' = [call EXCEPT ![c] = r]
          BY <3>2, <1>1 DEF Snapshot, Call, Goroutines
        <4>2. r.op = call[c].op
          BY <1>1 DEF Call, Goroutines
        <4> QED BY <4>1, <4>2, <2>2
      <3>3. CASE RunHandler(c)
        <4>1. PICK step : Advance(c, step)
          BY <3>3 DEF RunHandler
        <4> DEFINE r == [call[c] EXCEPT !.at = step, !.pos = call[c].pos + 1]
        <4>2. call' = [call EXCEPT ![c] = r]
          BY <4>1 DEF Advance
        <4>3. r.op = call[c].op
          BY <1>1 DEF Call, Goroutines
        <4> QED BY <4>2, <4>3, <2>2
      <3>4. CASE Executed(c)
        <4>1. call' = [call EXCEPT ![c] = Idle]
          BY <3>4 DEF Executed, Return
        <4>2. Idle.op = "idle"
          BY DEF Idle
        <4> QED BY <4>1, <4>2
      <3>5. CASE Lookup(c)
        <4> DEFINE r == [call[c] EXCEPT !.at = "run"]
        <4>1. call' = [call EXCEPT ![c] = r]
          BY <3>5 DEF Lookup, Goto
        <4>2. r.op = call[c].op
          BY <1>1 DEF Call, Goroutines
        <4> QED BY <4>1, <4>2, <2>2
      <3> QED BY <2>1, <3>1, <3>2, <3>3, <3>4, <3>5
    <2>4. call'[c].op \in {"idle", "Execute"} /\ \A d \in Clients \ {c} : call'[d] = call[d]
      BY <1>1, <2>3 DEF Goroutines
    <2>5. /\ ~ At(c, "Register", "hooks") /\ ~ At(c, "Unregister", "hooks")
          /\ ~ At(c, "Register", "hooks")' /\ ~ At(c, "Unregister", "hooks")'
          /\ ~ Counting(c)'
      BY <2>2, <2>4 DEF At, Counting
    <2> QED BY <2>2, <2>4, <2>5, EvenFrame
  <1>4. CASE StartAll \/ StopAll \/ AppStep
    <2>1. UNCHANGED <<extensions, hooks>> /\ \E r : call' = [call EXCEPT ![App] = r]
      <3>1. CASE StartAll \/ StopAll
        BY <3>1 DEF StartAll, StopAll, Read
      <3>2. CASE AppStep
        BY <3>2 DEF AppStep, Begin, End, StartOne, StopOne, Return
      <3> QED BY <1>4, <3>1, <3>2
    <2>2. \A d \in Clients : call'[d] = call[d]
      BY <2>1, <1>1, ExtensionAssumption DEF Goroutines
    <2> QED BY <2>1, <2>2, EvenFrame
  <1> QED BY <1>2, <1>3, <1>4

LEMMA InitEven == Init => Even
  <1> SUFFICES ASSUME Init PROVE Even
    OBVIOUS
  <1>1. \A c \in Clients : call[c] = Idle
    BY DEF Init, Goroutines
  <1>2. \A c \in Clients : call[c].op \notin Writers
    BY <1>1 DEF Idle, Writers
  <1>3. \A p \in Points : AllDeclared(extensions, p) = {} /\ hooks[p].len = 0
    BY DEF Init, AllDeclared, Nil
  <1>4. \A p \in Points : Fits(AllDeclared(extensions, p), hooks[p].len)
    BY <1>3, FS_EmptySet DEF Fits
  <1> QED BY <1>2, <1>4 DEF Even, At, Writers, Counting

LEMMA NextEven == ExtensionInv /\ Even /\ [Next]_vars => Even'
  <1> SUFFICES ASSUME ExtensionInv, Even, [Next]_vars PROVE Even'
    OBVIOUS
  <1>1. ASSUME NEW c \in Clients, Step(c) PROVE Even'
    BY <1>1, BeginEven, RegisterHookEven, ShortenEven, EndEven, ElsewhereEven DEF Step
  <1>2. CASE Next
    BY <1>1, <1>2, WriteEven, ElsewhereEven DEF Next
  <1>3. CASE UNCHANGED vars
    BY <1>3, EvenFrame DEF vars
  <1> QED BY <1>2, <1>3

\* Registering and unregistering in any order, by any goroutines, leaves a point
\* with at least the handlers that the registered extensions declare for it
\* (extensions.go:126-128, 157-167).
THEOREM NothingMissing == Spec => []NoneMissing
  <1>1. ExtensionInv /\ Even => NoneMissing
    <2> SUFFICES ASSUME ExtensionInv, Even, mutex.owner = NoOne, NEW p \in Points
                 PROVE  Cardinality(AllDeclared(extensions, p)) <= hooks[p].len
      BY DEF NoneMissing
    <2>1. \A c \in Clients : call[c].op \notin Writers
      BY ExtensionAssumption DEF ExtensionInv, ClientInv, Writers
    <2> QED BY <2>1 DEF Even, At, Writers, Fits
  <1> QED BY InitExtensionInv, NextKeeps, InitEven, NextEven, <1>1, PTL DEF Spec
=============================================================================
