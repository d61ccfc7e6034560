----------------------------- MODULE CacheManager -----------------------------
(***************************************************************************)
(* The tiered cache of internal/cache/cache.go: a local map without        *)
(* expiry, an in-memory map with expiry and, when the configured driver is *)
(* "redis", a Redis server.  Every tier call is atomic (each map has its   *)
(* own mutex), a Manager call is not: it visits the tiers one after the    *)
(* other and other goroutines run in between.  A call is one record of     *)
(* `call', moved on by one action per tier visited.                        *)
(*                                                                         *)
(* A map of Go is a function whose DOMAIN is the set of keys present.      *)
(* Redis keeps only the textual form of what is stored, so an item carries *)
(* its form.  The two last variables are history: they exist to say when   *)
(* the tiers must agree and no action of the code reads them.              *)
(***************************************************************************)
EXTENDS Integers, FiniteSets

CONSTANTS
  Keys,        \* the cache keys in use
  EmptyKey,    \* the key "", which evictOldest also uses for "no key yet"
  Values,      \* what callers store
  Clients,     \* the goroutines that call the manager
  MaxEntries,  \* CacheConfig.MaxEntries
  ConfigTTL,   \* CacheConfig.TTL
  TTLs,        \* the ttl arguments of Set
  UseRedis,    \* CacheConfig.Driver = "redis"
  MaxTime,     \* bound on the clock
  None         \* no key, no item, no value

ASSUME CacheAssumption ==
  /\ IsFiniteSet(Keys) /\ None \notin Keys \cup Values
  /\ MaxEntries \in Int /\ MaxTime \in Nat
  /\ ConfigTTL \in Nat /\ TTLs \subseteq Nat
  /\ UseRedis \in BOOLEAN

VARIABLES
  local,    \* LocalCache.data
  memory,   \* MemoryCache.data
  redis,    \* the Redis database
  now,      \* the clock
  call,     \* the call each goroutine is in
  settled,  \* history: what a key holds, for the keys whose last write ran alone
  lone      \* history: the writes in flight that have had the key for themselves

vars == <<local, memory, redis, now, call, settled, lone>>

Item  == [value : Values, text : BOOLEAN]
Never == -1                      \* the expiration of a Redis key without one
Idle  == [op |-> "idle", at |-> "done", key |-> None, item |-> None, ttl |-> 0]
Empty == [k \in {} |-> None]

Init ==
  /\ local = Empty /\ memory = Empty /\ redis = Empty
  /\ now = 0
  /\ call = [c \in Clients |-> Idle]
  /\ settled = [k \in Keys |-> None]
  /\ lone = {}

-----------------------------------------------------------------------------
(* The tiers. *)

Put(m, k, e) == [j \in DOMAIN m \cup {k} |-> IF j = k THEN e ELSE m[j]]
Drop(m, S)   == [k \in DOMAIN m \ S |-> m[k]]

FullBeyond(m, max) == Cardinality(DOMAIN m) > max
Full(m, max) == Cardinality(DOMAIN m) >= max

\* One of S goes, or nothing when there is none.
OneOf(S) == IF S = {} THEN {{}} ELSE {{k} : k \in S}

LocalMax == MaxEntries \div 10

\* Map iteration order is arbitrary: the first key it meets may be any key.
LocalSet(k, item) ==
  \E gone \in IF Full(local, LocalMax) THEN OneOf(DOMAIN local) ELSE {{}} :
    local' = Put(Drop(local, gone), k, item)

Expired == {k \in DOMAIN memory : now > memory[k].expiration}

(***************************************************************************)
(* evictOldest keeps the oldest key met so far in oldestKey and takes ""   *)
(* for "none yet".  An entry under the key "" that is older than all       *)
(* others is therefore forgotten by the next iteration: the victim is then *)
(* whichever key remains to be met, or nobody when it is met last.         *)
(***************************************************************************)
Evictions(m) ==
  LET named  == DOMAIN m \ {EmptyKey}
      oldest == {k \in named : \A j \in named : m[k].expiration <= m[j].expiration}
      masked == /\ EmptyKey \in DOMAIN m
                /\ \A k \in named : m[EmptyKey].expiration < m[k].expiration
  IN  IF masked THEN {{}} \cup OneOf(named) ELSE OneOf(oldest)

MemorySet(k, item, ttl) ==
  LET fresh == Drop(memory, Expired)
  IN  \E gone \in IF Full(fresh, MaxEntries) THEN Evictions(fresh) ELSE {{}} :
        memory' = Put(Drop(fresh, gone), k, [item |-> item, expiration |-> now + ttl])

\* Redis stores text and takes a ttl of 0 for "no expiration".
RedisSet(k, item, ttl) ==
  redis' = Put(redis, k, [item       |-> [item EXCEPT !.text = TRUE],
                          expiration |-> IF ttl = 0 THEN Never ELSE now + ttl])

RedisHas(k) ==
  /\ k \in DOMAIN redis
  /\ redis[k].expiration = Never \/ now < redis[k].expiration

-----------------------------------------------------------------------------
(* Calls: what they touch, and the history they leave. *)

Footprint(c) == CASE call[c].op = "idle"  -> {}
                  [] call[c].op = "Clear" -> Keys
                  [] OTHER                -> {call[c].key}

At(c, op, step) == call[c].op = op /\ call[c].at = step
Enter(op, k, item, ttl) == [op |-> op, at |-> "memory", key |-> k, item |-> item, ttl |-> ttl]
Goto(c, step)   == call' = [call EXCEPT ![c].at = step]
Return(c)       == call' = [call EXCEPT ![c] = Idle]

\* A call on the keys S that stays in flight ends the solitude of writes on them.
Disturb(S) == {d \in lone : Footprint(d) \cap S = {}}

\* A write starts: its keys have no settled content until it ends.
Start(c, S, r) ==
  /\ call' = [call EXCEPT ![c] = r]
  /\ settled' = Drop(settled, S)
  /\ lone' = Disturb(S) \cup {d \in {c} : \A e \in Clients \ {c} : Footprint(e) \cap S = {}}

\* What a write leaves under its keys.
Outcome(c) == IF call[c].op = "Set" THEN call[c].item.value ELSE None

\* A write ends: one that ran alone and reached every tier settles its keys.
Finish(c, ok) ==
  /\ Return(c)
  /\ lone' = lone \ {c}
  /\ settled' = IF ok /\ c \in lone
                THEN [k \in DOMAIN settled \cup Footprint(c) |->
                        IF k \in Footprint(c) THEN Outcome(c) ELSE settled[k]]
                ELSE settled

\* After the memory tier a write goes on to Redis, or is done.
AfterMemory(c) ==
  IF UseRedis THEN Goto(c, "redis") /\ UNCHANGED <<settled, lone>> ELSE Finish(c, TRUE)

-----------------------------------------------------------------------------
(* Manager.Get *)

\* A hit in the local map returns at once and changes nothing.
GetLocal(c, k) ==
  /\ call[c] = Idle
  /\ k \notin DOMAIN local
  /\ call' = [call EXCEPT ![c] = Enter("Get", k, None, 0)]
  /\ lone' = Disturb({k})
  /\ UNCHANGED <<local, memory, redis, now, settled>>

\* Found: carry the item on, to be stored under the configured TTL.
Load(c, item, step) ==
  call' = [call EXCEPT ![c] = [op |-> "Get", at |-> step, key |-> call[c].key,
                               item |-> item, ttl |-> ConfigTTL]]

GetMemory(c) ==
  LET k == call[c].key
  IN  /\ At(c, "Get", "memory")
      /\ IF k \in DOMAIN memory \ Expired
         THEN Load(c, memory[k].item, "fillLocal") /\ UNCHANGED memory
         ELSE /\ memory' = Drop(memory, {k} \cap Expired)
              /\ IF UseRedis THEN Goto(c, "redis") ELSE Return(c)
      /\ UNCHANGED <<local, redis, now, settled, lone>>

\* Any error, redis.Nil or the network's, counts as a miss.
GetRedisIgnoringError(c) ==
  /\ At(c, "Get", "redis")
  /\ \/ RedisHas(call[c].key) /\ Load(c, redis[call[c].key].item, "fillMemory")
     \/ Load(c, None, "fillMemory")
  /\ UNCHANGED <<local, memory, redis, now, settled, lone>>

GetRedis(c) ==
  /\ At(c, "Get", "redis")
  /\ \/ RedisHas(call[c].key) /\ Load(c, redis[call[c].key].item, "fillMemory")
     \/ Return(c)
  /\ UNCHANGED <<local, memory, redis, now, settled, lone>>

FillMemory(c) ==
  /\ At(c, "Get", "fillMemory")
  /\ MemorySet(call[c].key, call[c].item, call[c].ttl)
  /\ Goto(c, "fillLocal")
  /\ UNCHANGED <<local, redis, now, settled, lone>>

FillLocal(c) ==
  /\ At(c, "Get", "fillLocal")
  /\ LocalSet(call[c].key, call[c].item)
  /\ Return(c)
  /\ UNCHANGED <<memory, redis, now, settled, lone>>

-----------------------------------------------------------------------------
(* Manager.Set *)

SetLocal(c, k, v, ttl) ==
  LET item == [value |-> v, text |-> FALSE]
  IN  /\ call[c] = Idle
      /\ LocalSet(k, item)
      /\ Start(c, {k}, Enter("Set", k, item, ttl))
      /\ UNCHANGED <<memory, redis, now>>

SetMemory(c) ==
  /\ At(c, "Set", "memory")
  /\ MemorySet(call[c].key, call[c].item, call[c].ttl)
  /\ AfterMemory(c)
  /\ UNCHANGED <<local, redis, now>>

\* An error comes before the write (no connection, a value Redis cannot
\* encode) or after it (the answer is lost).
SetRedis(c) ==
  /\ At(c, "Set", "redis")
  /\ \E applied, ok \in BOOLEAN :
       /\ ok => applied
       /\ IF applied THEN RedisSet(call[c].key, call[c].item, call[c].ttl)
                     ELSE UNCHANGED redis
       /\ Finish(c, ok)
  /\ UNCHANGED <<local, memory, now>>

-----------------------------------------------------------------------------
(* Manager.Delete and Manager.Clear *)

DeleteLocal(c, k) ==
  /\ call[c] = Idle
  /\ local' = Drop(local, {k})
  /\ Start(c, {k}, Enter("Delete", k, None, 0))
  /\ UNCHANGED <<memory, redis, now>>

ClearLocal(c) ==
  /\ call[c] = Idle
  /\ local' = Empty
  /\ Start(c, Keys, Enter("Clear", None, None, 0))
  /\ UNCHANGED <<memory, redis, now>>

\* Delete and Clear take away the whole footprint of the call.
WipeRedisOnly(c) ==
  /\ call[c].op \in {"Delete", "Clear"} /\ call[c].at = "memory"
  /\ AfterMemory(c)
  /\ UNCHANGED <<local, memory, redis, now>>

WipeMemory(c) ==
  /\ call[c].op \in {"Delete", "Clear"} /\ call[c].at = "memory"
  /\ memory' = Drop(memory, Footprint(c))
  /\ AfterMemory(c)
  /\ UNCHANGED <<local, redis, now>>

WipeRedis(c) ==
  /\ call[c].op \in {"Delete", "Clear"} /\ call[c].at = "redis"
  /\ \E applied, ok \in BOOLEAN :
       /\ ok => applied
       /\ redis' = IF applied THEN Drop(redis, Footprint(c)) ELSE redis
       /\ Finish(c, ok)
  /\ UNCHANGED <<local, memory, now>>

-----------------------------------------------------------------------------
(* The process and the clock. *)

\* The process dies and comes back: only Redis keeps its content.
Restart ==
  /\ local' = Empty /\ memory' = Empty
  /\ call' = [c \in Clients |-> Idle]
  /\ lone' = {}
  /\ UNCHANGED <<redis, now, settled>>

(***************************************************************************)
(* MemoryCache.Get deletes an expired entry while it holds only the read   *)
(* lock, which another reader can hold too.                                *)
(***************************************************************************)
Racing(c, d) ==
  /\ c # d
  /\ At(c, "Get", "memory") /\ At(d, "Get", "memory")
  /\ call[c].key \in Expired

\* Go's runtime stops a program it sees reading and writing a map at once.
MapFault(c, d) == Racing(c, d) /\ Restart

Tick ==
  /\ now < MaxTime
  /\ now' = now + 1
  /\ UNCHANGED <<local, memory, redis, call, settled, lone>>

Next ==
  \/ \E c \in Clients, k \in Keys : GetLocal(c, k) \/ DeleteLocal(c, k)
  \/ \E c \in Clients, k \in Keys, v \in Values, ttl \in TTLs : SetLocal(c, k, v, ttl)
  \/ \E c \in Clients :
       \/ GetMemory(c) \/ GetRedis(c) \/ FillMemory(c) \/ FillLocal(c)
       \/ SetMemory(c) \/ SetRedis(c)
       \/ ClearLocal(c) \/ WipeMemory(c) \/ WipeRedis(c)
  \/ \E c, d \in Clients : MapFault(c, d)
  \/ Restart
  \/ Tick

Spec == Init /\ [][Next]_vars

-----------------------------------------------------------------------------
(* Properties *)

Entry(E) == [item : Item, expiration : E]
Call  == [op : {"idle", "Get", "Set", "Delete", "Clear"},
          at : {"done", "memory", "redis", "fillMemory", "fillLocal"},
          key : Keys \cup {None}, item : Item \cup {None}, ttl : Nat]

MapOf(S, m) == DOMAIN m \subseteq Keys /\ \A k \in DOMAIN m : m[k] \in S

\* Every tier maps keys to items, and a call carries an item exactly while it
\* has one to store (a promotion never stores the nil of a failed lookup).
TypeOK ==
  /\ MapOf(Item, local)
  /\ MapOf(Entry(Nat), memory) /\ MapOf(Entry(Nat \cup {Never}), redis)
  /\ MapOf(Values \cup {None}, settled)
  /\ now \in Nat /\ lone \subseteq Clients
  /\ call \in [Clients -> Call]
  /\ \A c \in Clients :
       /\ call[c].op \in {"Get", "Set", "Delete"} => call[c].key \in Keys
       /\ call[c].op = "Set" \/ call[c].at \in {"fillMemory", "fillLocal"}
            => call[c].item \in Item

AtLeastOne(n) == IF n < 1 THEN 1 ELSE n

\* Neither map outgrows its configured capacity (cache.go:173-176, 258-264); a
\* capacity below one, as any MaxEntries below ten gives the local map, still
\* holds one entry.  The key "" defeats evictOldest, so it is left out here.
SizeBound ==
  /\ Cardinality(DOMAIN local) <= AtLeastOne(LocalMax)
  /\ EmptyKey \notin Keys => Cardinality(DOMAIN memory) <= AtLeastOne(MaxEntries)

\* A tier agrees with v about a key when it holds v for it, or nothing.
LocalAgrees(k, v)  == k \in DOMAIN local  => local[k].value = v
MemoryAgrees(k, v) == k \in DOMAIN memory => memory[k].item.value = v
RedisAgrees(k, v)  == k \in DOMAIN redis  => redis[k].item.value = v

Promoting(c) == At(c, "Get", "fillMemory") \/ At(c, "Get", "fillLocal")
Writing(c)   == call[c].op \in {"Set", "Delete", "Clear"}

\* Tiers disagree only through an overlap or a failure: once a Set, Delete or
\* Clear has run without another call on its keys and without a Redis error, no
\* tier and no promotion in flight (cache.go:48-109) holds anything for them but
\* what it wrote, until the next write starts - whatever readers, evictions,
\* expiries and restarts do meanwhile.
Coherent ==
  \A k \in DOMAIN settled :
    /\ LocalAgrees(k, settled[k]) /\ MemoryAgrees(k, settled[k]) /\ RedisAgrees(k, settled[k])
    /\ \A c \in Clients :
         Promoting(c) /\ call[c].key = k => call[c].item.value = settled[k]

\* What makes Coherent inductive: a write in flight leaves its keys unsettled, a
\* lone one shares them with nobody and has left its outcome in the tiers behind
\* it, and without the Redis driver (cache.go:61, 80) nothing reaches Redis.
WritesUnsettle ==
  \A c \in Clients : Writing(c) => Footprint(c) \cap DOMAIN settled = {}

LoneWrites ==
  \A c \in lone :
    /\ Writing(c)
    /\ \A d \in Clients \ {c} : Footprint(d) \cap Footprint(c) = {}
    /\ \A k \in Footprint(c) :
         /\ LocalAgrees(k, Outcome(c))
         /\ call[c].at = "redis" => MemoryAgrees(k, Outcome(c))

NoRedis == ~UseRedis => redis = Empty /\ \A c \in Clients : call[c].at # "redis"

CoherenceInv == TypeOK /\ Coherent /\ WritesUnsettle /\ LoneWrites /\ NoRedis

\* No goroutine deletes from the memory map while another one reads it
\* (cache.go:149-159): what the map's mutex is there for.
RaceFree == \A c, d \in Clients : ~Racing(c, d)
=============================================================================
