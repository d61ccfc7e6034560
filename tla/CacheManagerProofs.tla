-------------------------- MODULE CacheManagerProofs --------------------------
(* What holds of the tiered cache for every set of keys, values and           *)
(* goroutines, every capacity, every TTL and every clock bound.               *)
EXTENDS CacheManager, FiniteSetTheorems, WellFoundedInduction, TLAPS

-----------------------------------------------------------------------------
(* Maps. *)

\* Writing a key and losing others keeps a map typed (cache.go:184, 266).
LEMMA PutType ==
  ASSUME NEW S, NEW m, MapOf(S, m), NEW gone, NEW k \in Keys, NEW e \in S
  PROVE  MapOf(S, Put(Drop(m, gone), k, e))
  BY DEF MapOf, Put, Drop

\* Dropping keys keeps a map typed (cache.go:158, 191, 206, 273).
LEMMA DropType ==
  ASSUME NEW S, NEW m, MapOf(S, m), NEW gone
  PROVE  MapOf(S, Drop(m, gone))
  BY DEF MapOf, Drop

\* A map just made is typed (cache.go:198, 280).
LEMMA EmptyType == \A S : MapOf(S, Empty)
  BY DEF MapOf, Empty

\* LocalCache.Set keeps the local map typed.
LEMMA LocalSetType ==
  ASSUME MapOf(Item, local), NEW k \in Keys, NEW item \in Item, LocalSet(k, item)
  PROVE  MapOf(Item, local')
  BY PutType DEF LocalSet

\* MemoryCache.Set keeps the memory map typed.
LEMMA MemorySetType ==
  ASSUME MapOf(Entry(Nat), memory), now \in Nat,
         NEW k \in Keys, NEW item \in Item, NEW ttl \in Nat, MemorySet(k, item, ttl)
  PROVE  MapOf(Entry(Nat), memory')
  <1>1. [item |-> item, expiration |-> now + ttl] \in Entry(Nat)
    BY DEF Entry
  <1>2. PICK gone : memory' = Put(Drop(Drop(memory, Expired), gone), k,
                                  [item |-> item, expiration |-> now + ttl])
    BY DEF MemorySet
  <1>3. MapOf(Entry(Nat), Drop(memory, Expired))
    BY DropType
  <1> QED BY <1>1, <1>2, <1>3, PutType

\* A Redis SET keeps the database typed.
LEMMA RedisSetType ==
  ASSUME MapOf(Entry(Nat \cup {Never}), redis), now \in Nat,
         NEW k \in Keys, NEW item \in Item, NEW ttl \in Nat, RedisSet(k, item, ttl)
  PROVE  MapOf(Entry(Nat \cup {Never}), redis')
  <1> DEFINE e == [item       |-> [item EXCEPT !.text = TRUE],
                   expiration |-> IF ttl = 0 THEN Never ELSE now + ttl]
  <1>0. [item EXCEPT !.text = TRUE] \in Item
    BY DEF Item
  <1>1. e \in Entry(Nat \cup {Never})
    BY <1>0 DEF Entry
  <1>2. redis' = Put(redis, k, e)
    BY DEF RedisSet
  <1> QED BY <1>1, <1>2 DEF MapOf, Put

-----------------------------------------------------------------------------
(* Types. *)

\* One call that is well formed.
CallOK(r) ==
  /\ r \in Call
  /\ r.op \in {"Get", "Set", "Delete"} => r.key \in Keys
  /\ r.op = "Set" \/ r.at \in {"fillMemory", "fillLocal"} => r.item \in Item

\* The types, and what a lone call is: a write in flight.
LEMMA CallsOK == TypeOK => \A c \in Clients : CallOK(call[c])
  BY DEF TypeOK, CallOK

\* Replacing one call by a well formed one keeps the calls well formed.
LEMMA CallStep ==
  ASSUME TypeOK, NEW c \in Clients, NEW r, CallOK(r), call' = [call EXCEPT ![c] = r]
  PROVE  /\ call' \in [Clients -> Call]
         /\ \A d \in Clients : CallOK(call[d])'
  BY CallsOK DEF TypeOK, CallOK

\* Returning is such a step.
LEMMA ReturnStep ==
  ASSUME TypeOK, NEW c \in Clients, Return(c)
  PROVE  /\ call' \in [Clients -> Call]
         /\ \A d \in Clients : CallOK(call[d])'
  <1>1. CallOK(Idle)
    BY DEF CallOK, Idle, Call
  <1> QED BY <1>1, CallStep DEF Return

\* So is going on to a tier where a call needs no item it does not have.
LEMMA GotoStep ==
  ASSUME TypeOK, NEW c \in Clients, NEW step \in {"memory", "redis", "fillMemory", "fillLocal"},
         step \in {"fillMemory", "fillLocal"} => call[c].item \in Item, Goto(c, step)
  PROVE  /\ call' \in [Clients -> Call]
         /\ \A d \in Clients : CallOK(call[d])'
  <1>1. CallOK([call[c] EXCEPT !.at = step])
    BY CallsOK DEF CallOK, Call
  <1>2. call' = [call EXCEPT ![c] = [call[c] EXCEPT !.at = step]]
    BY DEF Goto, TypeOK
  <1> QED BY <1>1, <1>2, CallStep

\* The end of a write keeps calls and history typed.
LEMMA FinishType ==
  ASSUME TypeOK, NEW c \in Clients, call[c].op \in {"Set", "Delete", "Clear"},
         NEW ok \in BOOLEAN, Finish(c, ok)
  PROVE  /\ call' \in [Clients -> Call] /\ \A d \in Clients : CallOK(call[d])'
         /\ lone' \subseteq Clients
         /\ MapOf(Values \cup {None}, settled')
  <1>1. Outcome(c) \in Values \cup {None}
    BY CallsOK DEF Outcome, CallOK, Item
  <1>2. Footprint(c) \subseteq Keys
    BY CallsOK DEF Footprint, CallOK
  <1>3. MapOf(Values \cup {None}, settled')
    BY <1>1, <1>2 DEF Finish, MapOf, TypeOK
  <1> QED BY <1>3, ReturnStep DEF Finish, TypeOK

\* So does the memory step of a write, whether Redis follows or not.
LEMMA AfterMemoryType ==
  ASSUME TypeOK, NEW c \in Clients, call[c].op \in {"Set", "Delete", "Clear"}, AfterMemory(c)
  PROVE  /\ call' \in [Clients -> Call] /\ \A d \in Clients : CallOK(call[d])'
         /\ lone' \subseteq Clients
         /\ MapOf(Values \cup {None}, settled')
  BY FinishType, GotoStep DEF AfterMemory, TypeOK

\* And its start.
LEMMA StartType ==
  ASSUME TypeOK, NEW c \in Clients, NEW S, NEW r, CallOK(r), Start(c, S, r)
  PROVE  /\ call' \in [Clients -> Call] /\ \A d \in Clients : CallOK(call[d])'
         /\ lone' \subseteq Clients
         /\ MapOf(Values \cup {None}, settled')
  BY CallStep, DropType DEF Start, Disturb, TypeOK

\* A call that enters the tiers without an item is well formed.
LEMMA EnterOK ==
  /\ \A k \in Keys, op \in {"Get", "Delete"} : CallOK(Enter(op, k, None, 0))
  /\ CallOK(Enter("Clear", None, None, 0))
  BY DEF Enter, CallOK, Call

\* TypeOK from its parts, in the state a step leads to.
LEMMA TypeParts ==
  ASSUME MapOf(Item, local'), MapOf(Entry(Nat), memory'),
         MapOf(Entry(Nat \cup {Never}), redis'), MapOf(Values \cup {None}, settled'),
         now' \in Nat, lone' \subseteq Clients, call' \in [Clients -> Call],
         \A c \in Clients : CallOK(call[c])'
  PROVE  TypeOK'
  BY DEF TypeOK, CallOK

-----------------------------------------------------------------------------
(* The type invariant is inductive: one lemma per family of actions. *)

\* The empty cache is typed.
LEMMA InitType == Init => TypeOK
  <1> SUFFICES ASSUME Init PROVE TypeOK
    OBVIOUS
  <1>1. CallOK(Idle)
    BY DEF CallOK, Idle, Call
  <1>2. \A c \in Clients : CallOK(call[c])
    BY <1>1 DEF Init
  <1>3. call \in [Clients -> Call]
    BY <1>1 DEF Init, CallOK
  <1>4. MapOf(Values \cup {None}, settled)
    BY DEF Init, MapOf
  <1> QED BY <1>2, <1>3, <1>4, EmptyType DEF Init, TypeOK, CallOK

\* Manager.Get (cache.go:48-72).
LEMMA GetType ==
  ASSUME TypeOK, NEW c \in Clients,
         \/ \E k \in Keys : GetLocal(c, k)
         \/ GetMemory(c) \/ GetRedis(c) \/ FillMemory(c) \/ FillLocal(c)
  PROVE  TypeOK'
  <1> USE DEF TypeOK
  <1>0. CallOK(call[c])
    BY CallsOK
  <1>1. ASSUME NEW item \in Item, NEW step \in {"fillMemory", "fillLocal"},
               At(c, "Get", "memory") \/ At(c, "Get", "redis"), Load(c, item, step)
        PROVE  call' \in [Clients -> Call] /\ \A d \in Clients : CallOK(call[d])'
    <2>1. CallOK([op |-> "Get", at |-> step, key |-> call[c].key,
                  item |-> item, ttl |-> ConfigTTL])
      BY <1>0, <1>1, CacheAssumption DEF CallOK, Call, At
    <2> QED BY <1>1, <2>1, CallStep DEF Load
  <1>2. CASE \E k \in Keys : GetLocal(c, k)
    <2>1. call' \in [Clients -> Call] /\ \A d \in Clients : CallOK(call[d])'
      BY <1>2, EnterOK, CallStep DEF GetLocal
    <2> QED BY <1>2, <2>1, TypeParts DEF GetLocal, Disturb
  <1>3. CASE GetMemory(c)
    <2> DEFINE k == call[c].key
    <2>1. CASE k \in DOMAIN memory \ Expired
      <3>1. memory[k].item \in Item
        BY <2>1 DEF MapOf, Entry
      <3> QED BY <1>1, <1>3, <2>1, <3>1, TypeParts DEF GetMemory
    <2>2. CASE k \notin DOMAIN memory \ Expired
      <3>1. MapOf(Entry(Nat), memory')
        BY <1>3, <2>2, DropType DEF GetMemory
      <3>2. call' \in [Clients -> Call] /\ \A d \in Clients : CallOK(call[d])'
        BY <1>3, <2>2, GotoStep, ReturnStep DEF GetMemory
      <3> QED BY <1>3, <2>2, <3>1, <3>2, TypeParts DEF GetMemory
    <2> QED BY <2>1, <2>2
  <1>4. CASE GetRedis(c)
    <2>1. call' \in [Clients -> Call] /\ \A d \in Clients : CallOK(call[d])'
      <3>1. CASE RedisHas(call[c].key) /\ Load(c, redis[call[c].key].item, "fillMemory")
        <4>1. redis[call[c].key].item \in Item
          BY <3>1 DEF RedisHas, MapOf, Entry
        <4> QED BY <1>1, <1>4, <3>1, <4>1 DEF GetRedis
      <3> QED BY <1>4, <3>1, ReturnStep DEF GetRedis
    <2> QED BY <1>4, <2>1, TypeParts DEF GetRedis
  <1>5. CASE FillMemory(c)
    <2>1. call[c].key \in Keys /\ call[c].item \in Item /\ call[c].ttl \in Nat
      BY <1>0, <1>5 DEF FillMemory, CallOK, Call, At
    <2>2. MapOf(Entry(Nat), memory')
      BY <1>5, <2>1, MemorySetType DEF FillMemory
    <2>3. call' \in [Clients -> Call] /\ \A d \in Clients : CallOK(call[d])'
      BY <1>5, <2>1, GotoStep DEF FillMemory
    <2> QED BY <1>5, <2>2, <2>3, TypeParts DEF FillMemory
  <1>6. CASE FillLocal(c)
    <2>1. call[c].key \in Keys /\ call[c].item \in Item
      BY <1>0, <1>6 DEF FillLocal, CallOK, At
    <2>2. MapOf(Item, local')
      BY <1>6, <2>1, LocalSetType DEF FillLocal
    <2>3. call' \in [Clients -> Call] /\ \A d \in Clients : CallOK(call[d])'
      BY <1>6, ReturnStep DEF FillLocal
    <2> QED BY <1>6, <2>2, <2>3, TypeParts DEF FillLocal
  <1> QED BY <1>2, <1>3, <1>4, <1>5, <1>6

\* Manager.Set (cache.go:75-85).
LEMMA SetType ==
  ASSUME TypeOK, NEW c \in Clients,
         \/ \E k \in Keys, v \in Values, ttl \in TTLs : SetLocal(c, k, v, ttl)
         \/ SetMemory(c) \/ SetRedis(c)
  PROVE  TypeOK'
  <1> USE DEF TypeOK
  <1>0. CallOK(call[c])
    BY CallsOK
  <1>1. ASSUME NEW k \in Keys, NEW v \in Values, NEW ttl \in TTLs, SetLocal(c, k, v, ttl)
        PROVE  TypeOK'
    <2> DEFINE item == [value |-> v, text |-> FALSE]
               r    == Enter("Set", k, item, ttl)
    <2>1. item \in Item
      BY DEF Item
    <2>3. CallOK(r)
      BY <2>1, CacheAssumption DEF CallOK, Call, Enter
    <2>4. MapOf(Item, local')
      BY <1>1, <2>1, LocalSetType DEF SetLocal
    <2>5. Start(c, {k}, r)
      BY <1>1 DEF SetLocal
    <2>6. UNCHANGED <<memory, redis, now>>
      BY <1>1 DEF SetLocal
    <2> HIDE DEF item, r
    <2>7. /\ call' \in [Clients -> Call] /\ \A d \in Clients : CallOK(call[d])'
          /\ lone' \subseteq Clients
          /\ MapOf(Values \cup {None}, settled')
      BY <2>3, <2>5, StartType
    <2> QED BY <2>4, <2>6, <2>7, TypeParts
  <1>2. ASSUME At(c, "Set", "memory") \/ At(c, "Set", "redis")
        PROVE  call[c].key \in Keys /\ call[c].item \in Item /\ call[c].ttl \in Nat
    BY <1>0, <1>2 DEF CallOK, Call, At
  <1>3. CASE SetMemory(c)
    <2>1. MapOf(Entry(Nat), memory')
      BY <1>2, <1>3, MemorySetType DEF SetMemory
    <2> QED BY <1>3, <2>1, AfterMemoryType, TypeParts DEF SetMemory, At
  <1>4. CASE SetRedis(c)
    <2>1. MapOf(Entry(Nat \cup {Never}), redis')
      BY <1>2, <1>4, RedisSetType DEF SetRedis
    <2> QED BY <1>4, <2>1, FinishType, TypeParts DEF SetRedis, At
  <1> QED BY <1>1, <1>3, <1>4

\* Manager.Delete and Manager.Clear (cache.go:88-109).
LEMMA WipeType ==
  ASSUME TypeOK, NEW c \in Clients,
         \/ \E k \in Keys : DeleteLocal(c, k)
         \/ ClearLocal(c) \/ WipeMemory(c) \/ WipeRedis(c)
  PROVE  TypeOK'
  <1> USE DEF TypeOK
  <1>1. CASE \E k \in Keys : DeleteLocal(c, k)
    BY <1>1, EnterOK, StartType, DropType, TypeParts DEF DeleteLocal
  <1>2. CASE ClearLocal(c)
    BY <1>2, EnterOK, StartType, EmptyType, TypeParts DEF ClearLocal
  <1>3. CASE WipeMemory(c)
    BY <1>3, AfterMemoryType, DropType, TypeParts DEF WipeMemory
  <1>4. CASE WipeRedis(c)
    <2>1. MapOf(Entry(Nat \cup {Never}), redis')
      BY <1>4, DropType DEF WipeRedis
    <2> QED BY <1>4, <2>1, FinishType, TypeParts DEF WipeRedis
  <1> QED BY <1>1, <1>2, <1>3, <1>4

\* A process that comes back, faulted or not, starts typed.
LEMMA RestartType == TypeOK /\ Restart => TypeOK'
  <1> SUFFICES ASSUME TypeOK, Restart PROVE TypeOK'
    OBVIOUS
  <1>1. CallOK(Idle)
    BY DEF CallOK, Idle, Call
  <1>2. call' \in [Clients -> Call] /\ \A d \in Clients : CallOK(call[d])'
    BY <1>1 DEF Restart, CallOK
  <1> QED BY <1>2, EmptyType, TypeParts DEF Restart, TypeOK

\* Every tier maps keys to items and a call carries an item exactly while it has
\* one to store, in every reachable state.
THEOREM TypeCorrect == Spec => []TypeOK
  <1>1. TypeOK /\ [Next]_vars => TypeOK'
    <2> SUFFICES ASSUME TypeOK, [Next]_vars PROVE TypeOK'
      OBVIOUS
    <2>1. CASE Tick
      BY <2>1 DEF Tick, TypeOK
    <2>2. CASE UNCHANGED vars
      BY <2>2 DEF vars, TypeOK, CallOK
    <2> QED BY <2>1, <2>2, GetType, SetType, WipeType, RestartType DEF Next, MapFault
  <1> QED BY <1>1, InitType, PTL DEF Spec

-----------------------------------------------------------------------------
(* Coherence. *)

\* What is in the local map after a Set of k: the item, or what was there.
LEMMA LocalSetKeeps ==
  ASSUME NEW k, NEW item, LocalSet(k, item)
  PROVE  \A j \in DOMAIN local' :
            IF j = k THEN local'[j] = item ELSE j \in DOMAIN local /\ local'[j] = local[j]
  BY DEF LocalSet, Put, Drop

\* The same of the memory map, whose cleanup and eviction only remove.
LEMMA MemorySetKeeps ==
  ASSUME NEW k, NEW item, NEW ttl, MemorySet(k, item, ttl)
  PROVE  \A j \in DOMAIN memory' :
            IF j = k THEN memory'[j].item = item ELSE j \in DOMAIN memory /\ memory'[j] = memory[j]
  BY DEF MemorySet, Put, Drop

\* And of Redis, which keeps the text of the same value.
LEMMA RedisSetKeeps ==
  ASSUME NEW k, NEW item \in Item, NEW ttl, RedisSet(k, item, ttl)
  PROVE  \A j \in DOMAIN redis' :
            IF j = k THEN redis'[j].item.value = item.value
                     ELSE j \in DOMAIN redis /\ redis'[j] = redis[j]
  BY DEF RedisSet, Put, Item

\* A step of a Get in flight on the key k: the tiers gain at most the item it
\* promotes, and it promotes only what a tier holds for k.
LEMMA GetKeeps ==
  ASSUME CoherenceInv, NEW c \in Clients, call[c].op = "Get", NEW k, k = call[c].key,
         UNCHANGED <<redis, settled, lone>>,
         \A d \in Clients \ {c} : call'[d] = call[d],
         call'[c].op = "idle" \/ (call'[c].op = "Get" /\ call'[c].key = k),
         \A j \in DOMAIN local' :
            \/ j \in DOMAIN local /\ local'[j] = local[j]
            \/ j = k /\ Promoting(c) /\ local'[j] = call[c].item,
         \A j \in DOMAIN memory' :
            \/ j \in DOMAIN memory /\ memory'[j] = memory[j]
            \/ j = k /\ Promoting(c) /\ memory'[j].item = call[c].item,
         Promoting(c)' =>
            \/ Promoting(c) /\ call'[c].item = call[c].item
            \/ k \in DOMAIN memory /\ call'[c].item = memory[k].item
            \/ k \in DOMAIN redis /\ call'[c].item = redis[k].item,
         ~UseRedis => call'[c].at # "redis"
  PROVE  Coherent' /\ WritesUnsettle' /\ LoneWrites' /\ NoRedis'
  <1> USE DEF CoherenceInv
  <1>1. c \notin lone /\ Footprint(c) = {k} /\ Footprint(c)' \subseteq {k}
    BY DEF LoneWrites, Writing, Footprint
  <1>2. \A d \in Clients \ {c} : /\ Footprint(d)' = Footprint(d) /\ Writing(d)' = Writing(d)
                               /\ Promoting(d)' = Promoting(d) /\ Outcome(d)' = Outcome(d)
    BY DEF Footprint, Writing, Promoting, At, Outcome
  <1>3. ~Writing(c)'
    BY DEF Writing
  <1>4. Coherent'
    <2> SUFFICES ASSUME NEW j \in DOMAIN settled
                 PROVE  /\ LocalAgrees(j, settled[j])' /\ MemoryAgrees(j, settled[j])'
                        /\ RedisAgrees(j, settled[j])'
                        /\ \A d \in Clients :
                             Promoting(d)' /\ call'[d].key = j => call'[d].item.value = settled[j]
      BY DEF Coherent, LocalAgrees, MemoryAgrees, RedisAgrees
    <2>1. /\ LocalAgrees(j, settled[j]) /\ MemoryAgrees(j, settled[j]) /\ RedisAgrees(j, settled[j])
          /\ \A d \in Clients : Promoting(d) /\ call[d].key = j => call[d].item.value = settled[j]
      BY DEF Coherent
    <2> QED BY <1>2, <2>1 DEF LocalAgrees, MemoryAgrees, RedisAgrees, Promoting, At
  <1>5. WritesUnsettle'
    BY <1>2, <1>3 DEF WritesUnsettle
  <1>6. LoneWrites'
    <2> SUFFICES ASSUME NEW d \in lone
                 PROVE  /\ Writing(d)'
                        /\ \A e \in Clients \ {d} : Footprint(e)' \cap Footprint(d)' = {}
                        /\ \A j \in Footprint(d)' :
                             /\ LocalAgrees(j, Outcome(d))'
                             /\ call'[d].at = "redis" => MemoryAgrees(j, Outcome(d))'
      BY DEF LoneWrites
    <2>1. d \in Clients \ {c}
      BY <1>1 DEF TypeOK
    <2>2. k \notin Footprint(d)
      BY <1>1, <2>1 DEF LoneWrites
    <2> QED BY <1>1, <1>2, <2>1, <2>2 DEF LoneWrites, LocalAgrees, MemoryAgrees
  <1>7. NoRedis'
    BY DEF NoRedis
  <1> QED BY <1>4, <1>5, <1>6, <1>7

\* What other goroutines' calls are to a step of c that leaves them alone.
LEMMA OthersKeep ==
  ASSUME NEW c \in Clients, NEW d \in Clients \ {c}, call'[d] = call[d]
  PROVE  /\ Footprint(d)' = Footprint(d) /\ Writing(d)' = Writing(d)
         /\ Promoting(d)' = Promoting(d) /\ Outcome(d)' = Outcome(d)
  BY DEF Footprint, Writing, Promoting, At, Outcome

\* A write starts on the keys S, which from then on are unsettled.
LEMMA StartKeeps ==
  ASSUME CoherenceInv, NEW c \in Clients, call[c] = Idle, NEW S, NEW r, Start(c, S, r),
         Writing(c)', Footprint(c)' = S, call'[c].at = "memory",
         UNCHANGED <<memory, redis>>,
         \A j \in DOMAIN local' :
            IF j \in S THEN local'[j].value = Outcome(c)'
                       ELSE j \in DOMAIN local /\ local'[j] = local[j]
  PROVE  Coherent' /\ WritesUnsettle' /\ LoneWrites' /\ NoRedis'
  <1> USE DEF CoherenceInv
  <1>1. \A d \in Clients \ {c} :
          /\ call'[d] = call[d]
          /\ Footprint(d)' = Footprint(d) /\ Writing(d)' = Writing(d)
          /\ Promoting(d)' = Promoting(d) /\ Outcome(d)' = Outcome(d)
    BY OthersKeep DEF Start, TypeOK
  <1>2. DOMAIN settled' = DOMAIN settled \ S /\ \A j \in DOMAIN settled' : settled'[j] = settled[j]
    BY DEF Start, Drop
  <1>3. ~Promoting(c)'
    BY DEF Promoting, At
  <1>4. Coherent'
    BY <1>1, <1>2, <1>3 DEF Coherent, LocalAgrees, MemoryAgrees, RedisAgrees
  <1>5. WritesUnsettle'
    BY <1>1, <1>2 DEF WritesUnsettle
  <1>6. LoneWrites'
    <2> SUFFICES ASSUME NEW d \in lone'
                 PROVE  /\ Writing(d)'
                        /\ \A e \in Clients \ {d} : Footprint(e)' \cap Footprint(d)' = {}
                        /\ \A j \in Footprint(d)' :
                             /\ LocalAgrees(j, Outcome(d))'
                             /\ call'[d].at = "redis" => MemoryAgrees(j, Outcome(d))'
      BY DEF LoneWrites
    <2>1. c \notin lone
      BY DEF LoneWrites, Writing, Idle
    <2>2. CASE d = c
      <3>1. \A e \in Clients \ {c} : Footprint(e) \cap S = {}
        BY <2>1, <2>2 DEF Start, Disturb
      <3> QED BY <1>1, <2>2, <3>1 DEF LocalAgrees
    <2>3. CASE d # c
      <3>1. d \in lone /\ d \in Clients \ {c} /\ Footprint(d) \cap S = {}
        BY <2>3 DEF Start, Disturb, TypeOK
      <3>2. Footprint(d)' = Footprint(d) /\ Outcome(d)' = Outcome(d) /\ call'[d] = call[d]
        BY <1>1, <3>1
      <3>3. \A e \in Clients \ {d} : Footprint(e)' \cap Footprint(d)' = {}
        BY <1>1, <3>1, <3>2 DEF LoneWrites
      <3>4. \A j \in Footprint(d)' : j \notin S
        BY <3>1, <3>2
      <3> QED BY <1>1, <3>1, <3>2, <3>3, <3>4 DEF LoneWrites, LocalAgrees, MemoryAgrees
    <2> QED BY <2>2, <2>3
  <1>7. NoRedis'
    BY <1>1 DEF NoRedis
  <1> QED BY <1>4, <1>5, <1>6, <1>7

\* A write in flight changes a tier: nothing but its own keys.
Touches(c, m, n) == \A j \in DOMAIN n \ Footprint(c) : j \in DOMAIN m /\ n[j] = m[j]

\* A write goes on from the memory tier, where it left its outcome, to Redis.
LEMMA MiddleKeeps ==
  ASSUME CoherenceInv, NEW c \in Clients, Writing(c), UseRedis, Goto(c, "redis"),
         UNCHANGED <<local, redis, settled, lone>>, Touches(c, memory, memory'),
         \A j \in DOMAIN memory' \cap Footprint(c) : memory'[j].item.value = Outcome(c)
  PROVE  Coherent' /\ WritesUnsettle' /\ LoneWrites' /\ NoRedis'
  <1> USE DEF CoherenceInv
  <1>1. \A d \in Clients \ {c} :
          /\ call'[d] = call[d]
          /\ Footprint(d)' = Footprint(d) /\ Writing(d)' = Writing(d)
          /\ Promoting(d)' = Promoting(d) /\ Outcome(d)' = Outcome(d)
    BY OthersKeep DEF Goto, TypeOK
  <1>2. /\ call'[c].op = call[c].op /\ call'[c].key = call[c].key /\ call'[c].item = call[c].item
    BY DEF Goto, TypeOK, Call
  <1>3. Footprint(c)' = Footprint(c) /\ Writing(c)' /\ ~Promoting(c)' /\ Outcome(c)' = Outcome(c)
    BY <1>2 DEF Footprint, Writing, Promoting, At, Outcome
  <1>4. Footprint(c) \cap DOMAIN settled = {}
    BY DEF WritesUnsettle
  <1>5. Coherent'
    BY <1>1, <1>3, <1>4 DEF Coherent, LocalAgrees, MemoryAgrees, RedisAgrees, Touches
  <1>6. WritesUnsettle'
    BY <1>1, <1>3 DEF WritesUnsettle
  <1>7. LoneWrites'
    <2> SUFFICES ASSUME NEW d \in lone
                 PROVE  /\ Writing(d)'
                        /\ \A e \in Clients \ {d} : Footprint(e)' \cap Footprint(d)' = {}
                        /\ \A j \in Footprint(d)' :
                             /\ LocalAgrees(j, Outcome(d))'
                             /\ call'[d].at = "redis" => MemoryAgrees(j, Outcome(d))'
      BY DEF LoneWrites
    <2>1. d \in Clients
      BY DEF TypeOK
    <2>2. CASE d = c
      BY <1>1, <1>3, <2>2 DEF LoneWrites, LocalAgrees, MemoryAgrees
    <2>3. CASE d # c
      <3>1. Footprint(d) \cap Footprint(c) = {}
        BY <2>3 DEF LoneWrites
      <3>2. /\ \A e \in Clients \ {d} : Footprint(e)' \cap Footprint(d)' = {}
            /\ Writing(d)'
        BY <1>1, <1>3, <2>1, <2>3, <3>1 DEF LoneWrites
      <3> QED BY <1>1, <2>1, <2>3, <3>1, <3>2 DEF LoneWrites, LocalAgrees, MemoryAgrees, Touches
    <2> QED BY <2>2, <2>3
  <1>8. NoRedis'
    BY DEF NoRedis
  <1> QED BY <1>5, <1>6, <1>7, <1>8

\* A write ends: if it was lone and succeeded, every tier holds its outcome.
LEMMA FinishKeeps ==
  ASSUME CoherenceInv, NEW c \in Clients, Writing(c), NEW ok \in BOOLEAN, Finish(c, ok),
         local' = local, Touches(c, memory, memory'), Touches(c, redis, redis'),
         ok /\ c \in lone =>
            /\ \A j \in DOMAIN memory' \cap Footprint(c) : memory'[j].item.value = Outcome(c)
            /\ \A j \in DOMAIN redis' \cap Footprint(c) : redis'[j].item.value = Outcome(c),
         ~UseRedis => redis' = Empty
  PROVE  Coherent' /\ WritesUnsettle' /\ LoneWrites' /\ NoRedis'
  <1> USE DEF CoherenceInv
  <1>1. \A d \in Clients \ {c} :
          /\ call'[d] = call[d]
          /\ Footprint(d)' = Footprint(d) /\ Writing(d)' = Writing(d)
          /\ Promoting(d)' = Promoting(d) /\ Outcome(d)' = Outcome(d)
    BY OthersKeep DEF Finish, Return, TypeOK
  <1>2. call'[c] = Idle
    BY DEF Finish, Return, TypeOK
  <1>3. Footprint(c)' = {} /\ ~Writing(c)' /\ ~Promoting(c)' /\ call'[c].at # "redis"
    BY <1>2 DEF Footprint, Writing, Promoting, At, Idle
  <1>4. Footprint(c) \cap DOMAIN settled = {}
    BY DEF WritesUnsettle
  <1>5. Coherent' /\ WritesUnsettle'
    <2>1. CASE ok /\ c \in lone
      <3>1. /\ DOMAIN settled' = DOMAIN settled \cup Footprint(c)
            /\ \A j \in DOMAIN settled' :
                 settled'[j] = IF j \in Footprint(c) THEN Outcome(c) ELSE settled[j]
        BY <2>1 DEF Finish
      <3>2. /\ \A d \in Clients \ {c} : Footprint(d) \cap Footprint(c) = {}
            /\ \A j \in Footprint(c) : LocalAgrees(j, Outcome(c))
        BY <2>1 DEF LoneWrites
      <3>3. \A d \in Clients \ {c} : Promoting(d) => call[d].key \in Footprint(d)
        BY DEF Promoting, At, Footprint
      <3>4. Coherent'
        <4> SUFFICES ASSUME NEW j \in DOMAIN settled'
                     PROVE  /\ LocalAgrees(j, settled[j])' /\ MemoryAgrees(j, settled[j])'
                            /\ RedisAgrees(j, settled[j])'
                            /\ \A d \in Clients :
                                 Promoting(d)' /\ call'[d].key = j => call'[d].item.value = settled'[j]
          BY DEF Coherent, LocalAgrees, MemoryAgrees, RedisAgrees
        <4>1. CASE j \in Footprint(c)
          <5>1. /\ LocalAgrees(j, settled[j])' /\ MemoryAgrees(j, settled[j])'
                /\ RedisAgrees(j, settled[j])'
            BY <2>1, <3>1, <3>2, <4>1 DEF LocalAgrees, MemoryAgrees, RedisAgrees
          <5>2. \A d \in Clients : Promoting(d)' => call'[d].key # j
            BY <1>1, <1>3, <3>2, <3>3, <4>1
          <5> QED BY <5>1, <5>2
        <4>2. CASE j \notin Footprint(c)
          BY <1>1, <1>3, <3>1, <4>2 DEF Coherent, LocalAgrees, MemoryAgrees, RedisAgrees, Touches
        <4> QED BY <4>1, <4>2
      <3>5. WritesUnsettle'
        BY <1>1, <1>3, <3>1, <3>2 DEF WritesUnsettle
      <3> QED BY <3>4, <3>5
    <2>2. CASE ~(ok /\ c \in lone)
      <3>1. settled' = settled
        BY <2>2 DEF Finish
      <3>2. Coherent'
        BY <1>1, <1>3, <1>4, <3>1 DEF Coherent, LocalAgrees, MemoryAgrees, RedisAgrees, Touches
      <3>3. WritesUnsettle'
        BY <1>1, <1>3, <3>1 DEF WritesUnsettle
      <3> QED BY <3>2, <3>3
    <2> QED BY <2>1, <2>2
  <1>6. LoneWrites'
    <2> SUFFICES ASSUME NEW d \in lone'
                 PROVE  /\ Writing(d)'
                        /\ \A e \in Clients \ {d} : Footprint(e)' \cap Footprint(d)' = {}
                        /\ \A j \in Footprint(d)' :
                             /\ LocalAgrees(j, Outcome(d))'
                             /\ call'[d].at = "redis" => MemoryAgrees(j, Outcome(d))'
      BY DEF LoneWrites
    <2>1. d \in lone /\ d # c /\ d \in Clients
      BY DEF Finish, TypeOK
    <2>2. Footprint(d) \cap Footprint(c) = {}
      BY <2>1 DEF LoneWrites
    <2>3. /\ \A e \in Clients \ {d} : Footprint(e)' \cap Footprint(d)' = {}
          /\ Writing(d)'
      BY <1>1, <1>3, <2>1 DEF LoneWrites
    <2> QED BY <1>1, <2>1, <2>2, <2>3 DEF LoneWrites, LocalAgrees, MemoryAgrees, Touches
  <1>7. NoRedis'
    BY <1>1, <1>3 DEF NoRedis
  <1> QED BY <1>5, <1>6, <1>7

\* The part of CoherenceInv beyond the types.
Rest == Coherent /\ WritesUnsettle /\ LoneWrites /\ NoRedis

\* Manager.Get keeps the tiers coherent (cache.go:48-72).
LEMMA GetCoherent ==
  ASSUME CoherenceInv, NEW c \in Clients,
         \/ \E k \in Keys : GetLocal(c, k)
         \/ GetMemory(c) \/ GetRedis(c) \/ FillMemory(c) \/ FillLocal(c)
  PROVE  Rest'
  <1> USE DEF CoherenceInv
  <1> DEFINE k == call[c].key
  <1>1. \A r : call' = [call EXCEPT ![c] = r] =>
          call'[c] = r /\ \A d \in Clients \ {c} : call'[d] = call[d]
    BY DEF TypeOK
  <1>2. CASE \E j \in Keys : GetLocal(c, j)
    <2>1. PICK j \in Keys : GetLocal(c, j)
      BY <1>2
    <2>2. call'[c] = Enter("Get", j, None, 0) /\ \A d \in Clients \ {c} : call'[d] = call[d]
      BY <1>1, <2>1 DEF GetLocal
    <2>3. /\ Footprint(c)' = {j} /\ ~Writing(c)' /\ ~Promoting(c)' /\ call'[c].at # "redis"
          /\ ~Writing(c)
      BY <2>1, <2>2 DEF Enter, Footprint, Writing, Promoting, At, GetLocal, Idle
    <2>4. \A d \in Clients \ {c} :
            /\ Footprint(d)' = Footprint(d) /\ Writing(d)' = Writing(d)
            /\ Promoting(d)' = Promoting(d) /\ Outcome(d)' = Outcome(d)
      BY <2>2, OthersKeep
    <2>5. UNCHANGED <<local, memory, redis, settled>> /\ lone' = Disturb({j})
      BY <2>1 DEF GetLocal
    <2>6. Coherent'
      BY <2>2, <2>3, <2>4, <2>5 DEF Coherent, LocalAgrees, MemoryAgrees, RedisAgrees
    <2>7. WritesUnsettle'
      BY <2>3, <2>4, <2>5 DEF WritesUnsettle
    <2>8. \A d \in lone' : d \in lone /\ d \in Clients \ {c} /\ j \notin Footprint(d)
      BY <2>3, <2>5 DEF Disturb, LoneWrites, TypeOK
    <2>9. LoneWrites'
      <3> SUFFICES ASSUME NEW d \in lone'
                   PROVE  /\ Writing(d)'
                          /\ \A e \in Clients \ {d} : Footprint(e)' \cap Footprint(d)' = {}
                          /\ \A i \in Footprint(d)' :
                               /\ LocalAgrees(i, Outcome(d))'
                               /\ call'[d].at = "redis" => MemoryAgrees(i, Outcome(d))'
        BY DEF LoneWrites
      <3>1. d \in lone /\ d \in Clients \ {c} /\ j \notin Footprint(d)
        BY <2>8
      <3>2. \A e \in Clients \ {d} : Footprint(e)' \cap Footprint(d)' = {}
        BY <2>3, <2>4, <3>1 DEF LoneWrites
      <3>3. /\ Footprint(d)' = Footprint(d) /\ Writing(d)' = Writing(d)
            /\ Outcome(d)' = Outcome(d) /\ call'[d] = call[d]
        BY <2>2, <2>4, <3>1
      <3> QED BY <2>5, <3>1, <3>2, <3>3 DEF LoneWrites, LocalAgrees, MemoryAgrees
    <2>10. NoRedis'
      BY <2>2, <2>3, <2>5 DEF NoRedis
    <2> QED BY <2>6, <2>7, <2>9, <2>10 DEF Rest
  <1>3. CASE GetMemory(c)
    <2>1. CASE k \in DOMAIN memory \ Expired
      <3>1. /\ call'[c].op = "Get" /\ call'[c].key = k /\ call'[c].at = "fillLocal"
            /\ call'[c].item = memory[k].item /\ \A d \in Clients \ {c} : call'[d] = call[d]
        BY <1>1, <1>3, <2>1 DEF GetMemory, Load
      <3>2. call[c].op = "Get" /\ UNCHANGED <<local, memory, redis, settled, lone>>
        BY <1>3, <2>1 DEF GetMemory, At
      <3> QED BY <2>1, <3>1, <3>2, GetKeeps DEF Rest
    <2>2. CASE k \notin DOMAIN memory \ Expired
      <3>1. call'[c].at \notin {"fillMemory", "fillLocal"} /\ (~UseRedis => call'[c].at # "redis")
        BY <1>3, <2>2 DEF GetMemory, Goto, Return, TypeOK, Call, Idle
      <3>2. call'[c].op = "idle" \/ (call'[c].op = "Get" /\ call'[c].key = k)
        BY <1>3, <2>2 DEF GetMemory, Goto, Return, TypeOK, Call, Idle, At
      <3>3. \A d \in Clients \ {c} : call'[d] = call[d]
        BY <1>3, <2>2 DEF GetMemory, Goto, Return, TypeOK
      <3>4. ~Promoting(c)'
        BY <3>1 DEF Promoting, At
      <3>5. \A j \in DOMAIN memory' : j \in DOMAIN memory /\ memory'[j] = memory[j]
        BY <1>3, <2>2 DEF GetMemory, Drop
      <3>6. call[c].op = "Get" /\ UNCHANGED <<local, redis, settled, lone>>
        BY <1>3 DEF GetMemory, At
      <3> QED BY <3>1, <3>2, <3>3, <3>4, <3>5, <3>6, GetKeeps DEF Rest
    <2> QED BY <2>1, <2>2
  <1>4. CASE GetRedis(c)
    <2>1. CASE RedisHas(k) /\ Load(c, redis[k].item, "fillMemory")
      BY <1>1, <1>4, <2>1, GetKeeps DEF GetRedis, RedisHas, Load, At, Promoting, Rest
    <2>2. CASE Return(c)
      BY <1>1, <1>4, <2>2, GetKeeps DEF GetRedis, Return, Idle, At, Promoting, Rest
    <2> QED BY <1>4, <2>1, <2>2 DEF GetRedis
  <1>5. CASE FillMemory(c)
    <2>1. /\ call'[c].op = "Get" /\ call'[c].key = k /\ call'[c].item = call[c].item
          /\ call'[c].at = "fillLocal" /\ \A d \in Clients \ {c} : call'[d] = call[d]
      BY <1>5 DEF FillMemory, Goto, At, TypeOK, Call
    <2>2. /\ call[c].op = "Get" /\ Promoting(c) /\ UNCHANGED <<local, redis, settled, lone>>
          /\ MemorySet(k, call[c].item, call[c].ttl)
      BY <1>5 DEF FillMemory, At, Promoting
    <2> QED BY <2>1, <2>2, MemorySetKeeps, GetKeeps DEF Rest
  <1>6. CASE FillLocal(c)
    <2>1. call'[c] = Idle /\ \A d \in Clients \ {c} : call'[d] = call[d]
      BY <1>1, <1>6 DEF FillLocal, Return
    <2>2. /\ call[c].op = "Get" /\ Promoting(c) /\ UNCHANGED <<memory, redis, settled, lone>>
          /\ LocalSet(k, call[c].item)
      BY <1>6 DEF FillLocal, At, Promoting
    <2>3. ~Promoting(c)' /\ call'[c].at # "redis" /\ call'[c].op = "idle"
      BY <2>1 DEF Idle, Promoting, At
    <2> QED BY <2>1, <2>2, <2>3, LocalSetKeeps, GetKeeps DEF Rest
  <1> QED BY <1>2, <1>3, <1>4, <1>5, <1>6

\* Manager.Set keeps the tiers coherent (cache.go:75-85).
LEMMA SetCoherent ==
  ASSUME CoherenceInv, NEW c \in Clients,
         \/ \E k \in Keys, v \in Values, ttl \in TTLs : SetLocal(c, k, v, ttl)
         \/ SetMemory(c) \/ SetRedis(c)
  PROVE  Rest'
  <1> USE DEF CoherenceInv
  <1>1. ASSUME NEW k \in Keys, NEW v \in Values, NEW ttl \in TTLs, SetLocal(c, k, v, ttl)
        PROVE  Rest'
    <2> DEFINE item == [value |-> v, text |-> FALSE]
               r    == Enter("Set", k, item, ttl)
    <2>1. call[c] = Idle /\ LocalSet(k, item) /\ Start(c, {k}, r) /\ UNCHANGED <<memory, redis>>
      BY <1>1 DEF SetLocal
    <2>2. call'[c] = r
      BY <2>1 DEF Start, TypeOK
    <2>3. /\ Writing(c)' /\ Footprint(c)' = {k} /\ Outcome(c)' = item.value
          /\ call'[c].at = "memory"
      BY <2>2 DEF Writing, Footprint, Outcome, Enter
    <2> HIDE DEF item, r
    <2> QED BY <2>1, <2>3, LocalSetKeeps, StartKeeps DEF Rest
  <1>2. ASSUME At(c, "Set", "memory") \/ At(c, "Set", "redis")
        PROVE  /\ Writing(c) /\ Footprint(c) = {call[c].key} /\ Outcome(c) = call[c].item.value
               /\ call[c].item \in Item
    BY <1>2, CallsOK DEF At, Writing, Footprint, Outcome, CallOK
  <1>3. CASE SetMemory(c)
    <2>1. /\ Touches(c, memory, memory') /\ UNCHANGED <<local, redis>>
          /\ \A j \in DOMAIN memory' \cap Footprint(c) : memory'[j].item.value = Outcome(c)
      BY <1>2, <1>3, MemorySetKeeps DEF SetMemory, Touches
    <2>2. CASE UseRedis
      BY <1>2, <1>3, <2>1, <2>2, MiddleKeeps DEF SetMemory, AfterMemory, Rest
    <2>3. CASE ~UseRedis
      <3>1. redis' = Empty /\ Touches(c, redis, redis')
            /\ \A j \in DOMAIN redis' \cap Footprint(c) : redis'[j].item.value = Outcome(c)
        BY <2>1, <2>3 DEF NoRedis, Touches, Empty
      <3>2. Finish(c, TRUE)
        BY <1>3, <2>3 DEF SetMemory, AfterMemory
      <3> QED BY <1>2, <1>3, <2>1, <3>1, <3>2, FinishKeeps DEF SetMemory, Rest
    <2> QED BY <2>2, <2>3
  <1>4. CASE SetRedis(c)
    <2>1. PICK applied \in BOOLEAN, ok \in BOOLEAN :
            /\ ok => applied
            /\ IF applied THEN RedisSet(call[c].key, call[c].item, call[c].ttl) ELSE UNCHANGED redis
            /\ Finish(c, ok)
      BY <1>4 DEF SetRedis
    <2>2. Touches(c, redis, redis')
      BY <1>2, <1>4, <2>1, RedisSetKeeps DEF SetRedis, Touches
    <2>3. Touches(c, memory, memory') /\ local' = local /\ memory' = memory
      BY <1>4 DEF SetRedis, Touches
    <2>4. ok => \A j \in DOMAIN redis' \cap Footprint(c) : redis'[j].item.value = Outcome(c)
      BY <1>2, <1>4, <2>1, RedisSetKeeps DEF SetRedis
    <2>5. c \in lone => \A j \in DOMAIN memory \cap Footprint(c) : memory[j].item.value = Outcome(c)
      BY <1>4 DEF LoneWrites, MemoryAgrees, SetRedis, At
    <2>6. UseRedis
      BY <1>4 DEF NoRedis, SetRedis, At
    <2> QED BY <1>2, <1>4, <2>1, <2>2, <2>3, <2>4, <2>5, <2>6, FinishKeeps DEF SetRedis, Rest
  <1> QED BY <1>1, <1>3, <1>4

\* Manager.Delete and Manager.Clear keep the tiers coherent (cache.go:88-109).
LEMMA WipeCoherent ==
  ASSUME CoherenceInv, NEW c \in Clients,
         \/ \E k \in Keys : DeleteLocal(c, k)
         \/ ClearLocal(c) \/ WipeMemory(c) \/ WipeRedis(c)
  PROVE  Rest'
  <1> USE DEF CoherenceInv
  <1>1. ASSUME NEW k \in Keys, DeleteLocal(c, k)
        PROVE  Rest'
    <2>1. /\ call[c] = Idle /\ Start(c, {k}, Enter("Delete", k, None, 0))
          /\ UNCHANGED <<memory, redis>> /\ local' = Drop(local, {k})
      BY <1>1 DEF DeleteLocal
    <2>2. call'[c] = Enter("Delete", k, None, 0)
      BY <2>1 DEF Start, TypeOK
    <2>3. Writing(c)' /\ Footprint(c)' = {k} /\ call'[c].at = "memory"
      BY <2>2 DEF Writing, Footprint, Enter
    <2> QED BY <2>1, <2>3, StartKeeps DEF Drop, Rest
  <1>2. CASE ClearLocal(c)
    <2>1. /\ call[c] = Idle /\ Start(c, Keys, Enter("Clear", None, None, 0))
          /\ UNCHANGED <<memory, redis>> /\ local' = Empty
      BY <1>2 DEF ClearLocal
    <2>2. call'[c] = Enter("Clear", None, None, 0)
      BY <2>1 DEF Start, TypeOK
    <2>3. Writing(c)' /\ Footprint(c)' = Keys /\ call'[c].at = "memory"
      BY <2>2 DEF Writing, Footprint, Enter
    <2> QED BY <2>1, <2>3, StartKeeps DEF Empty, Rest
  <1>3. CASE WipeMemory(c)
    <2>1. /\ Writing(c) /\ Touches(c, memory, memory') /\ UNCHANGED <<local, redis>>
          /\ DOMAIN memory' \cap Footprint(c) = {} /\ AfterMemory(c)
      BY <1>3 DEF WipeMemory, Writing, Touches, Drop
    <2>2. CASE UseRedis
      BY <2>1, <2>2, MiddleKeeps DEF AfterMemory, Rest
    <2>3. CASE ~UseRedis
      <3>1. redis' = Empty /\ Touches(c, redis, redis') /\ DOMAIN redis' = {}
        BY <2>1, <2>3 DEF NoRedis, Touches, Empty
      <3>2. Finish(c, TRUE)
        BY <2>1, <2>3 DEF AfterMemory
      <3> QED BY <2>1, <3>1, <3>2, FinishKeeps DEF Rest
    <2> QED BY <2>2, <2>3
  <1>4. CASE WipeRedis(c)
    <2>1. PICK applied \in BOOLEAN, ok \in BOOLEAN :
            /\ ok => applied
            /\ redis' = IF applied THEN Drop(redis, Footprint(c)) ELSE redis
            /\ Finish(c, ok)
      BY <1>4 DEF WipeRedis
    <2>2. /\ Writing(c) /\ call[c].at = "redis" /\ UseRedis
          /\ Touches(c, memory, memory') /\ local' = local /\ memory' = memory
      BY <1>4 DEF WipeRedis, Writing, Touches, NoRedis
    <2>3. Touches(c, redis, redis') /\ (ok => DOMAIN redis' \cap Footprint(c) = {})
      BY <2>1 DEF Touches, Drop
    <2>4. c \in lone => \A j \in DOMAIN memory \cap Footprint(c) : memory[j].item.value = Outcome(c)
      BY <2>2 DEF LoneWrites, MemoryAgrees
    <2> QED BY <2>1, <2>2, <2>3, <2>4, FinishKeeps DEF Rest
  <1> QED BY <1>1, <1>2, <1>3, <1>4

\* The process starts with coherent tiers: they are all empty.
LEMMA InitCoherent == Init => CoherenceInv
  <1> SUFFICES ASSUME Init PROVE CoherenceInv
    OBVIOUS
  <1>1. \A c \in Clients : ~Promoting(c) /\ ~Writing(c) /\ call[c].at # "redis"
    BY DEF Init, Idle, Promoting, Writing, At
  <1>2. DOMAIN local = {} /\ DOMAIN memory = {} /\ DOMAIN redis = {} /\ lone = {} /\ redis = Empty
    BY DEF Init, Empty
  <1> QED BY <1>1, <1>2, InitType
          DEF CoherenceInv, Coherent, LocalAgrees, MemoryAgrees, RedisAgrees,
              WritesUnsettle, LoneWrites, NoRedis

\* And starts again so, with what Redis kept.
LEMMA RestartCoherent == CoherenceInv /\ Restart => Rest'
  <1> SUFFICES ASSUME CoherenceInv, Restart PROVE Rest'
    OBVIOUS
  <1>1. \A c \in Clients : ~Promoting(c)' /\ ~Writing(c)' /\ call'[c].at # "redis"
    BY DEF Restart, Idle, Promoting, Writing, At
  <1>2. DOMAIN local' = {} /\ DOMAIN memory' = {} /\ lone' = {}
    BY DEF Restart, Empty
  <1>3. redis' = redis /\ settled' = settled
    BY DEF Restart
  <1> QED BY <1>1, <1>2, <1>3
          DEF CoherenceInv, Coherent, LocalAgrees, MemoryAgrees, RedisAgrees,
              WritesUnsettle, LoneWrites, NoRedis, Rest

\* For every number of goroutines, keys and values, every capacity and TTL, with
\* or without Redis: tiers disagree about a key only after a write of it was
\* overlapped by another call on the key or failed in Redis.
THEOREM Coherence == Spec => []Coherent
  <1>1. CoherenceInv /\ [Next]_vars => CoherenceInv'
    <2> SUFFICES ASSUME CoherenceInv, [Next]_vars PROVE CoherenceInv'
      OBVIOUS
    <2> USE DEF CoherenceInv
    <2>1. CASE Tick
      <3>1. UNCHANGED <<local, memory, redis, call, settled, lone>> /\ now' \in Nat
        BY <2>1 DEF Tick, TypeOK
      <3> QED BY <3>1 DEF TypeOK, Coherent, LocalAgrees, MemoryAgrees, RedisAgrees, Promoting, At,
                 WritesUnsettle, Writing, Footprint, LoneWrites, Outcome, NoRedis
    <2>2. CASE UNCHANGED vars
      BY <2>2 DEF vars, TypeOK, Coherent, LocalAgrees, MemoryAgrees, RedisAgrees, Promoting, At,
                  WritesUnsettle, Writing, Footprint, LoneWrites, Outcome, NoRedis
    <2> QED BY <2>1, <2>2, GetType, SetType, WipeType, RestartType,
               GetCoherent, SetCoherent, WipeCoherent, RestartCoherent DEF Next, MapFault, Rest
  <1>2. CoherenceInv => Coherent
    BY DEF CoherenceInv
  <1> QED BY <1>1, <1>2, InitCoherent, PTL DEF Spec

-----------------------------------------------------------------------------
(* Capacity. *)

\* A nonempty set of natural numbers has a least element: evictOldest's scan.
LEMMA LeastNatural ==
  ASSUME NEW S \in SUBSET Nat, S # {}
  PROVE  \E n \in S : \A m \in S : n <= m
  <1>1. PICK n \in S : \A m \in S : ~ (<<m, n>> \in OpToRel(<, Nat))
    BY NatLessThanWellFounded, WFMin, Zenon
  <1>2. \A m \in S : ~ (m < n)
    BY <1>1 DEF OpToRel
  <1> QED BY <1>2

\* One write into a map that first loses an entry if it was full stays in bounds.
LEMMA WriteBound ==
  ASSUME NEW D, IsFiniteSet(D), NEW max \in Int, Cardinality(D) <= AtLeastOne(max),
         NEW gone, NEW k,
         IF Cardinality(D) >= max /\ D # {} THEN \E x \in D : gone = {x} ELSE gone = {}
  PROVE  Cardinality((D \ gone) \cup {k}) <= AtLeastOne(max)
  <1>0. Cardinality(D) \in Nat
    BY FS_CardinalityType
  <1>1. CASE Cardinality(D) >= max /\ D # {}
    <2>1. PICK x \in D : gone = {x}
      BY <1>1
    <2>2. IsFiniteSet(D \ {x}) /\ Cardinality(D \ {x}) = Cardinality(D) - 1
      BY FS_RemoveElement
    <2>3. \/ Cardinality((D \ {x}) \cup {k}) = Cardinality(D \ {x})
          \/ Cardinality((D \ {x}) \cup {k}) = Cardinality(D \ {x}) + 1
      BY <2>2, FS_AddElement
    <2>4. Cardinality((D \ {x}) \cup {k}) <= Cardinality(D)
      BY <1>0, <2>2, <2>3
    <2>5. Cardinality((D \ {x}) \cup {k}) \in Nat
      BY <2>2, FS_AddElement, FS_CardinalityType
    <2> QED BY <1>0, <2>1, <2>4, <2>5 DEF AtLeastOne
  <1>2. CASE D = {}
    <2>1. (D \ gone) \cup {k} = {k}
      BY <1>2
    <2> QED BY <2>1, FS_Singleton DEF AtLeastOne
  <1>3. CASE ~(Cardinality(D) >= max) /\ D # {}
    <2>1. (D \ gone) \cup {k} = D \cup {k}
      BY <1>3
    <2>2. \/ Cardinality(D \cup {k}) = Cardinality(D)
          \/ Cardinality(D \cup {k}) = Cardinality(D) + 1
      BY FS_AddElement
    <2>3. Cardinality(D) + 1 <= max
      BY <1>0, <1>3
    <2>4. Cardinality(D \cup {k}) <= AtLeastOne(max)
      BY <1>0, <2>2, <2>3 DEF AtLeastOne
    <2> QED BY <2>1, <2>4
  <1> QED BY <1>1, <1>2, <1>3

\* The keys of a map are finitely many.
LEMMA FiniteMap ==
  ASSUME NEW S, NEW m, MapOf(S, m)
  PROVE  IsFiniteSet(DOMAIN m)
  BY CacheAssumption, FS_Subset DEF MapOf

\* Dropping keys does not make a map larger.
LEMMA DropBound ==
  ASSUME NEW S, NEW m, MapOf(S, m), NEW gone, NEW n \in Int, Cardinality(DOMAIN m) <= n
  PROVE  Cardinality(DOMAIN Drop(m, gone)) <= n
  <1>1. IsFiniteSet(DOMAIN m) /\ DOMAIN Drop(m, gone) \in SUBSET DOMAIN m
    BY FiniteMap DEF Drop
  <1>2. /\ Cardinality(DOMAIN Drop(m, gone)) <= Cardinality(DOMAIN m)
        /\ Cardinality(DOMAIN m) \in Nat /\ Cardinality(DOMAIN Drop(m, gone)) \in Nat
    BY <1>1, FS_Subset, FS_CardinalityType
  <1> QED BY <1>2

\* LocalCache.Set respects the local capacity (cache.go:258-266).
LEMMA LocalSetBound ==
  ASSUME TypeOK, SizeBound, NEW k, NEW item, LocalSet(k, item)
  PROVE  Cardinality(DOMAIN local') <= AtLeastOne(LocalMax)
  <1>1. PICK gone \in IF Full(local, LocalMax) THEN OneOf(DOMAIN local) ELSE {{}} :
          local' = Put(Drop(local, gone), k, item)
    BY DEF LocalSet
  <1>2. DOMAIN local' = (DOMAIN local \ gone) \cup {k}
    BY <1>1 DEF Put, Drop
  <1>3. IF Cardinality(DOMAIN local) >= LocalMax /\ DOMAIN local # {}
        THEN \E x \in DOMAIN local : gone = {x} ELSE gone = {}
    BY <1>1 DEF Full, OneOf
  <1>4. LocalMax \in Int
    BY CacheAssumption DEF LocalMax
  <1>5. IsFiniteSet(DOMAIN local) /\ Cardinality(DOMAIN local) <= AtLeastOne(LocalMax)
    BY FiniteMap DEF TypeOK, SizeBound
  <1> HIDE DEF LocalMax
  <1> QED BY <1>2, <1>3, <1>4, <1>5, WriteBound

\* MemoryCache.Set respects the memory capacity: the scan of evictOldest finds an
\* entry to evict, as no key is "" (cache.go:170-184, 212-226).
LEMMA MemorySetBound ==
  ASSUME TypeOK, SizeBound, EmptyKey \notin Keys, NEW k, NEW item, NEW ttl, MemorySet(k, item, ttl)
  PROVE  Cardinality(DOMAIN memory') <= AtLeastOne(MaxEntries)
  <1> DEFINE fresh == Drop(memory, Expired)
  <1>1. PICK gone \in IF Full(fresh, MaxEntries) THEN Evictions(fresh) ELSE {{}} :
          memory' = Put(Drop(fresh, gone), k, [item |-> item, expiration |-> now + ttl])
    BY DEF MemorySet
  <1>2. DOMAIN memory' = (DOMAIN fresh \ gone) \cup {k}
    BY <1>1 DEF Put, Drop
  <1>3. MapOf(Entry(Nat), fresh)
    BY DropType DEF TypeOK
  <1> HIDE DEF fresh
  <1>4. MaxEntries \in Int /\ AtLeastOne(MaxEntries) \in Int
    BY CacheAssumption DEF AtLeastOne
  <1>5. IsFiniteSet(DOMAIN fresh) /\ Cardinality(DOMAIN fresh) <= AtLeastOne(MaxEntries)
    BY <1>3, <1>4, FiniteMap, DropBound DEF TypeOK, SizeBound, fresh
  <1>6. EmptyKey \notin DOMAIN fresh
    BY <1>3 DEF MapOf
  <1>7. DOMAIN fresh # {} => \E x \in DOMAIN fresh :
          \A j \in DOMAIN fresh : fresh[x].expiration <= fresh[j].expiration
    <2> SUFFICES ASSUME DOMAIN fresh # {}
                 PROVE  \E x \in DOMAIN fresh :
                          \A j \in DOMAIN fresh : fresh[x].expiration <= fresh[j].expiration
      OBVIOUS
    <2> DEFINE E == {fresh[j].expiration : j \in DOMAIN fresh}
    <2>1. E \in SUBSET Nat /\ E # {}
      BY <1>3 DEF MapOf, Entry
    <2>2. PICK n \in E : \A m \in E : n <= m
      BY <2>1, LeastNatural
    <2> QED BY <2>2
  <1>8. IF Cardinality(DOMAIN fresh) >= MaxEntries /\ DOMAIN fresh # {}
        THEN \E x \in DOMAIN fresh : gone = {x} ELSE gone = {}
    <2>1. CASE Full(fresh, MaxEntries)
      <3>1. gone \in OneOf({x \in DOMAIN fresh :
                             \A j \in DOMAIN fresh : fresh[x].expiration <= fresh[j].expiration})
        <4>1. DOMAIN fresh \ {EmptyKey} = DOMAIN fresh
          BY <1>6
        <4> QED BY <1>1, <1>6, <2>1, <4>1 DEF Evictions, fresh
      <3> QED BY <1>7, <2>1, <3>1 DEF OneOf, Full
    <2>2. CASE ~Full(fresh, MaxEntries)
      BY <1>1, <2>2 DEF Full, fresh
    <2> QED BY <2>1, <2>2
  <1> QED BY <1>2, <1>4, <1>5, <1>8, WriteBound

\* For every MaxEntries, below ten and below one included, neither map outgrows
\* its capacity, as long as nobody caches under the key "".
THEOREM Capacity == Spec => []SizeBound
  <1>1. Init => SizeBound
    <2>1. Cardinality(DOMAIN Empty) = 0
      BY FS_EmptySet DEF Empty
    <2>2. LocalMax \in Int /\ MaxEntries \in Int
      BY CacheAssumption DEF LocalMax
    <2>3. 0 <= AtLeastOne(LocalMax) /\ 0 <= AtLeastOne(MaxEntries)
      BY <2>2 DEF AtLeastOne
    <2> QED BY <2>1, <2>3 DEF Init, SizeBound
  <1>2. TypeOK /\ SizeBound /\ [Next]_vars => SizeBound'
    <2> SUFFICES ASSUME TypeOK, SizeBound, [Next]_vars PROVE SizeBound'
      OBVIOUS
    <2>1. LocalMax \in Int /\ AtLeastOne(LocalMax) \in Int /\ AtLeastOne(MaxEntries) \in Int
      BY CacheAssumption DEF LocalMax, AtLeastOne
    <2>2. ASSUME NEW gone, local' = Drop(local, gone)
          PROVE  Cardinality(DOMAIN local') <= AtLeastOne(LocalMax)
      BY <2>1, <2>2, DropBound DEF TypeOK, SizeBound
    <2>3. ASSUME NEW gone, memory' = Drop(memory, gone), EmptyKey \notin Keys
          PROVE  Cardinality(DOMAIN memory') <= AtLeastOne(MaxEntries)
      BY <2>1, <2>3, DropBound DEF TypeOK, SizeBound
    <2>4. ASSUME local' = Empty
          PROVE  Cardinality(DOMAIN local') <= AtLeastOne(LocalMax)
      BY <2>1, <2>4, FS_EmptySet DEF Empty, AtLeastOne
    <2>5. ASSUME memory' = Empty
          PROVE  Cardinality(DOMAIN memory') <= AtLeastOne(MaxEntries)
      BY <2>1, <2>5, FS_EmptySet DEF Empty, AtLeastOne
    <2>6. CASE \E c \in Clients, k \in Keys : GetLocal(c, k) \/ DeleteLocal(c, k)
      BY <2>2, <2>6 DEF GetLocal, DeleteLocal, SizeBound
    <2>7. CASE \E c \in Clients, k \in Keys, v \in Values, ttl \in TTLs : SetLocal(c, k, v, ttl)
      BY <2>7, LocalSetBound DEF SetLocal, SizeBound
    <2>8. CASE \E c \in Clients : GetMemory(c)
      BY <2>3, <2>8 DEF GetMemory, SizeBound
    <2>9. CASE \E c \in Clients : FillMemory(c) \/ SetMemory(c)
      BY <2>9, MemorySetBound DEF FillMemory, SetMemory, SizeBound
    <2>10. CASE \E c \in Clients : FillLocal(c)
      BY <2>10, LocalSetBound DEF FillLocal, SizeBound
    <2>11. CASE \E c \in Clients : GetRedis(c) \/ SetRedis(c) \/ WipeRedis(c)
      BY <2>11 DEF GetRedis, SetRedis, WipeRedis, SizeBound
    <2>12. CASE \E c \in Clients : ClearLocal(c)
      BY <2>4, <2>12 DEF ClearLocal, SizeBound
    <2>13. CASE \E c \in Clients : WipeMemory(c)
      BY <2>3, <2>13 DEF WipeMemory, SizeBound
    <2>14. CASE Restart
      BY <2>4, <2>5, <2>14 DEF Restart, SizeBound
    <2>15. CASE Tick \/ UNCHANGED vars
      BY <2>15 DEF Tick, vars, SizeBound
    <2> QED BY <2>6, <2>7, <2>8, <2>9, <2>10, <2>11, <2>12, <2>13, <2>14, <2>15
            DEF Next, MapFault
  <1> QED BY <1>1, <1>2, TypeCorrect, PTL DEF Spec
=============================================================================
