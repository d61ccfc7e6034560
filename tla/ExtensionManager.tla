--------------------------- MODULE ExtensionManager ---------------------------
(***************************************************************************)
(* The extension manager of internal/extensions/extensions.go: registered  *)
(* extensions, the handlers they hook to points, and the APIs they serve,  *)
(* behind one RWMutex.                                                     *)
(*                                                                         *)
(* ExecuteHook takes a snapshot of a point's slice under the lock and runs *)
(* its handlers without it.  A slice of Go is a length and a backing array *)
(* that other slices share, so the arrays are modelled: Unregister shifts  *)
(* a handler out of the array in place and Register appends into it, slot  *)
(* by slot, while the runs in progress read from it.                       *)
(*                                                                         *)
(* A handler stands in its slot as the extension it belongs to; its        *)
(* Priority is left out, as nothing reads it.  The registry is a map by    *)
(* name: an extension that is registered under a name that is taken        *)
(* replaces the one that had it, which nobody stops and whose handlers and *)
(* APIs stay.                                                              *)
(***************************************************************************)
EXTENDS RWMutex, Integers, Sequences, FiniteSets

CONSTANTS
  Exts,        \* the extensions
  Names,       \* the names they go by
  NameOf,      \* Extension.Name: several extensions may have one name
  Points,      \* hook names
  APIs,        \* API names
  Clients,     \* the goroutines that call the manager
  App,         \* the goroutine that starts and stops it
  HooksOf,     \* RegisterHooks: the points each extension hooks, in order
  APIsOf,      \* RegisterAPIs: the API names each extension serves
  Disabled,    \* ExtensionsConfig.Disabled, a set of names
  MaxHandlers, \* bound on the handlers of a point
  Nobody       \* an empty slot, no extension, no name

ASSUME ExtensionAssumption ==
  /\ HooksOf \in [Exts -> Seq(Points)] /\ APIsOf \in [Exts -> SUBSET APIs]
  /\ NameOf \in [Exts -> Names]
  /\ Nobody \notin Exts /\ App \notin Clients /\ NoOne \notin Clients \cup {App}
  /\ MaxHandlers \in Nat

VARIABLES
  mutex,       \* Manager.mutex
  extensions,  \* Manager.extensions: its values, no two of one name
  hooks,       \* Manager.hooks: the slice of each point, as capacity and length
  slots,       \* the backing arrays of each point, by capacity
  apis,        \* Manager.apis
  running,     \* the extensions that have been started and not stopped since
  unstopped,   \* history: those whose last Stop returned an error
  replaced,    \* history: those whose entry went to another of their name
  cancelled,   \* Manager.ctx is cancelled
  call         \* the call each goroutine is in

vars == <<mutex, extensions, hooks, slots, apis, running, unstopped, replaced, cancelled, call>>

Goroutines == Clients \cup {App}
Nil  == [cap |-> 0, len |-> 0]   \* a nil slice
Idle == [op |-> "idle", at |-> "done", name |-> Nobody, ext |-> Nobody, point |-> Nobody,
         todo |-> <<>>, left |-> {}, slice |-> Nil, pos |-> 1]

Init ==
  /\ mutex = Unlocked
  /\ extensions = {}
  /\ hooks = [p \in Points |-> Nil]
  /\ slots = [p \in Points |-> [n \in {0} |-> <<>>]]
  /\ apis = [a \in {} |-> Nobody]
  /\ running = {} /\ unstopped = {} /\ replaced = {}
  /\ cancelled = FALSE
  /\ call = [c \in Goroutines |-> Idle]

-----------------------------------------------------------------------------
(* Calls. *)

At(c, op, step) == call[c].op = op /\ call[c].at = step
Goto(c, step)   == call' = [call EXCEPT ![c].at = step]
Return(c)       == call' = [call EXCEPT ![c] = Idle]

\* A call begins by locking, as a reader or as a writer.
Read(c, r) ==
  /\ call[c] = Idle
  /\ call' = [call EXCEPT ![c] = r]
  /\ mutex' = RLock(mutex, c)

Write(c, r) ==
  /\ call[c] = Idle
  /\ mutex.owner = NoOne
  /\ call' = [call EXCEPT ![c] = r]
  /\ mutex' = Announce(mutex, c)

\* The points of e that are left to do.
Doing(op, step, e) == [Idle EXCEPT !.op = op, !.at = step, !.ext = e, !.todo = HooksOf[e]]

-----------------------------------------------------------------------------
(* RegisterExtension *)

Room(e) ==
  \A p \in Points : hooks[p].len + Len(SelectSeq(HooksOf[e], LAMBDA q : q = p)) <= MaxHandlers

Register(c, e) ==
  /\ Room(e)
  /\ Write(c, Doing("Register", "initialize", e))
  /\ UNCHANGED <<extensions, hooks, slots, apis, running, unstopped, replaced, cancelled>>

\* A disabled extension, and one whose Initialize fails, leaves nothing behind.
InitializeKeepingLock(c) ==
  /\ At(c, "Register", "initialize") /\ Writes(mutex, c)
  /\ \/ NameOf[call[c].ext] \notin Disabled /\ Goto(c, "hooks") /\ UNCHANGED mutex
     \/ Return(c) /\ UNCHANGED mutex
  /\ UNCHANGED <<extensions, hooks, slots, apis, running, unstopped, replaced, cancelled>>

Initialize(c) ==
  /\ At(c, "Register", "initialize") /\ Writes(mutex, c)
  /\ \/ NameOf[call[c].ext] \notin Disabled /\ Goto(c, "hooks") /\ UNCHANGED mutex
     \/ Return(c) /\ mutex' = Unlock(mutex)
  /\ UNCHANGED <<extensions, hooks, slots, apis, running, unstopped, replaced, cancelled>>

\* append: in the spare capacity of the array, or else in a copy twice as large.
Append1(p, e) ==
  LET s == hooks[p]
      n == IF s.cap = 0 THEN 1 ELSE 2 * s.cap
  IN  IF s.len < s.cap
      THEN /\ slots' = [slots EXCEPT ![p][s.cap][s.len + 1] = e]
           /\ hooks' = [hooks EXCEPT ![p] = [cap |-> s.cap, len |-> s.len + 1]]
      ELSE /\ slots' = [slots EXCEPT ![p] = [m \in DOMAIN slots[p] \cup {n} |->
                          IF m \in DOMAIN slots[p] THEN slots[p][m]
                          ELSE [i \in 1..n |-> IF i <= s.len THEN slots[p][s.cap][i]
                                               ELSE IF i = s.len + 1 THEN e ELSE Nobody]]]
           /\ hooks' = [hooks EXCEPT ![p] = [cap |-> n, len |-> s.len + 1]]

RegisterHook(c) ==
  /\ At(c, "Register", "hooks") /\ call[c].todo # <<>>
  /\ Append1(Head(call[c].todo), call[c].ext)
  /\ call' = [call EXCEPT ![c].todo = Tail(@)]
  /\ UNCHANGED <<mutex, extensions, apis, running, unstopped, replaced, cancelled>>

\* The extensions that stand in the way of e under its name.
Namesakes(e) == {d \in extensions : NameOf[d] = NameOf[e]}

\* A name that is taken, of an API or of the extension, goes to the newcomer.
Registered(c) ==
  LET e == call[c].ext
  IN  /\ At(c, "Register", "hooks") /\ call[c].todo = <<>>
      /\ apis' = [a \in DOMAIN apis \cup APIsOf[e] |-> IF a \in APIsOf[e] THEN e ELSE apis[a]]
      /\ extensions' = (extensions \ Namesakes(e)) \cup {e}
      /\ replaced' = (replaced \cup Namesakes(e)) \ {e}
      /\ Return(c) /\ mutex' = Unlock(mutex)
      /\ UNCHANGED <<hooks, slots, running, unstopped, cancelled>>

-----------------------------------------------------------------------------
(* UnregisterExtension *)

Unregister(c, n) ==
  /\ Write(c, [Idle EXCEPT !.op = "Unregister", !.at = "stop", !.name = n])
  /\ UNCHANGED <<extensions, hooks, slots, apis, running, unstopped, replaced, cancelled>>

\* Stop of an extension, whether or not it runs.  Its error is only logged: the
\* extension may still be running then.
StopExtension(e) ==
  \/ running' = running \ {e} /\ unstopped' = unstopped \ {e}
  \/ running' \in {running, running \ {e}} /\ unstopped' = unstopped \cup {e}

StopIt(c) ==
  /\ At(c, "Unregister", "stop") /\ Writes(mutex, c)
  /\ \/ \E e \in extensions :
          /\ NameOf[e] = call[c].name
          /\ StopExtension(e)
          /\ call' = [call EXCEPT ![c] = Doing("Unregister", "hooks", e)]
          /\ UNCHANGED mutex
     \/ /\ \A e \in extensions : NameOf[e] # call[c].name
        /\ Return(c) /\ mutex' = Unlock(mutex)
        /\ UNCHANGED <<running, unstopped>>
  /\ UNCHANGED <<extensions, hooks, slots, apis, replaced, cancelled>>

\* The first handler of the point goes - they all bear the point's name, so it
\* may be another extension's - and those behind it move up, one slot at a time.
Shift(c) ==
  LET p == Head(call[c].todo)
      s == hooks[p]
      i == call[c].pos
  IN  /\ At(c, "Unregister", "hooks") /\ call[c].todo # <<>>
      /\ i < s.len
      /\ slots' = [slots EXCEPT ![p][s.cap][i] = slots[p][s.cap][i + 1]]
      /\ call' = [call EXCEPT ![c].pos = i + 1]
      /\ UNCHANGED <<mutex, extensions, hooks, apis, running, unstopped, replaced, cancelled>>

\* The slice gets shorter; the slot behind its new end keeps its handler.
ShortenClearing(c) ==
  LET p == Head(call[c].todo)
      s == hooks[p]
  IN  /\ At(c, "Unregister", "hooks") /\ call[c].todo # <<>>
      /\ ~ (call[c].pos < s.len)
      /\ hooks' = [hooks EXCEPT ![p].len = IF @ = 0 THEN 0 ELSE @ - 1]
      /\ slots' = IF s.len = 0 THEN slots ELSE [slots EXCEPT ![p][s.cap][s.len] = Nobody]
      /\ call' = [call EXCEPT ![c].todo = Tail(@), ![c].pos = 1]
      /\ UNCHANGED <<mutex, extensions, apis, running, unstopped, replaced, cancelled>>

ShortenDropping(c) ==
  LET p == Head(call[c].todo)
  IN  /\ At(c, "Unregister", "hooks") /\ call[c].todo # <<>>
      /\ ~ (call[c].pos < hooks[p].len)
      /\ hooks' = [hooks EXCEPT ![p].len = 0]
      /\ call' = [call EXCEPT ![c].todo = Tail(@), ![c].pos = 1]
      /\ UNCHANGED <<mutex, extensions, slots, apis, running, unstopped, replaced, cancelled>>

Shorten(c) ==
  LET p == Head(call[c].todo)
      s == hooks[p]
  IN  /\ At(c, "Unregister", "hooks") /\ call[c].todo # <<>>
      /\ ~ (call[c].pos < s.len)
      /\ hooks' = [hooks EXCEPT ![p].len = IF @ = 0 THEN 0 ELSE @ - 1]
      /\ call' = [call EXCEPT ![c].todo = Tail(@), ![c].pos = 1]
      /\ UNCHANGED <<mutex, extensions, slots, apis, running, unstopped, replaced, cancelled>>

\* An API goes by its name, whoever serves it now.
UnregisteredServing(c) ==
  /\ At(c, "Unregister", "hooks") /\ call[c].todo = <<>>
  /\ extensions' = extensions \ {call[c].ext}
  /\ Return(c) /\ mutex' = Unlock(mutex)
  /\ UNCHANGED <<hooks, slots, apis, running, unstopped, replaced, cancelled>>

Unregistered(c) ==
  LET e == call[c].ext
  IN  /\ At(c, "Unregister", "hooks") /\ call[c].todo = <<>>
      /\ apis' = [a \in DOMAIN apis \ APIsOf[e] |-> apis[a]]
      /\ extensions' = extensions \ {e}
      /\ Return(c) /\ mutex' = Unlock(mutex)
      /\ UNCHANGED <<hooks, slots, running, unstopped, replaced, cancelled>>

-----------------------------------------------------------------------------
(* ExecuteHook and the lookups *)

ExecuteHook(c, p) ==
  /\ Read(c, [Idle EXCEPT !.op = "Execute", !.at = "snapshot", !.point = p])
  /\ UNCHANGED <<extensions, hooks, slots, apis, running, unstopped, replaced, cancelled>>

Snapshot(c) ==
  /\ At(c, "Execute", "snapshot") /\ Reads(mutex, c)
  /\ call' = [call EXCEPT ![c].at = "run", ![c].slice = hooks[call[c].point]]
  /\ mutex' = RUnlock(mutex, c)
  /\ UNCHANGED <<extensions, hooks, slots, apis, running, unstopped, replaced, cancelled>>

\* The handler that a run reads next.
Next1(c) == slots[call[c].point][call[c].slice.cap][call[c].pos]

Advance(c, step) ==
  call' = [call EXCEPT ![c] = [call[c] EXCEPT !.at = step, !.pos = call[c].pos + 1]]

RunHandlerBeyond(c) ==
  /\ At(c, "Execute", "run")
  /\ call[c].pos <= call[c].slice.len + 1
  /\ Advance(c, "run")
  /\ UNCHANGED <<mutex, extensions, hooks, slots, apis, running, unstopped, replaced, cancelled>>

\* A handler runs without the lock and may call the manager back.
RunHandler(c) ==
  /\ At(c, "Execute", "run")
  /\ call[c].pos <= call[c].slice.len
  /\ \/ Advance(c, "run") /\ UNCHANGED mutex
     \/ Advance(c, "lookup") /\ mutex' = RLock(mutex, c)
  /\ UNCHANGED <<extensions, hooks, slots, apis, running, unstopped, replaced, cancelled>>

Executed(c) ==
  /\ At(c, "Execute", "run")
  /\ call[c].pos > call[c].slice.len
  /\ Return(c)
  /\ UNCHANGED <<mutex, extensions, hooks, slots, apis, running, unstopped, replaced, cancelled>>

\* GetExtension, ListExtensions, GetAPIService and ListAPIServices.
Lookup(c) ==
  /\ At(c, "Execute", "lookup") /\ Reads(mutex, c)
  /\ mutex' = RUnlock(mutex, c)
  /\ Goto(c, "run")
  /\ UNCHANGED <<extensions, hooks, slots, apis, running, unstopped, replaced, cancelled>>

-----------------------------------------------------------------------------
(* Start and Stop visit the extensions in any order under the read lock. *)

StartAll ==
  /\ ~ cancelled
  /\ Read(App, [Idle EXCEPT !.op = "Start", !.at = "lock"])
  /\ UNCHANGED <<extensions, hooks, slots, apis, running, unstopped, replaced, cancelled>>

StopAll ==
  /\ ~ cancelled
  /\ Read(App, [Idle EXCEPT !.op = "Stop", !.at = "lock"])
  /\ UNCHANGED <<extensions, hooks, slots, apis, running, unstopped, replaced, cancelled>>

BeginUnlocking ==
  /\ call[App].at = "lock" /\ Reads(mutex, App)
  /\ call' = [call EXCEPT ![App].at = "each", ![App].left = extensions]
  /\ mutex' = RUnlock(mutex, App)
  /\ UNCHANGED <<extensions, hooks, slots, apis, running, unstopped, replaced, cancelled>>

Begin ==
  /\ call[App].at = "lock" /\ Reads(mutex, App)
  /\ call' = [call EXCEPT ![App].at = "each", ![App].left = extensions]
  /\ UNCHANGED <<mutex, extensions, hooks, slots, apis, running, unstopped, replaced, cancelled>>

\* An extension that fails to start or to stop is passed over.
StartOne(e) ==
  /\ At(App, "Start", "each") /\ e \in call[App].left
  /\ \/ running' = running \cup {e}
     \/ UNCHANGED running
  /\ call' = [call EXCEPT ![App].left = @ \ {e}]
  /\ UNCHANGED <<mutex, extensions, hooks, slots, apis, unstopped, replaced, cancelled>>

StopOne(e) ==
  /\ At(App, "Stop", "each") /\ e \in call[App].left
  /\ StopExtension(e)
  /\ call' = [call EXCEPT ![App].left = @ \ {e}]
  /\ UNCHANGED <<mutex, extensions, hooks, slots, apis, replaced, cancelled>>

End ==
  /\ call[App].at = "each" /\ call[App].left = {}
  /\ cancelled' = (call[App].op = "Stop")
  /\ mutex' = RUnlock(mutex, App)
  /\ Return(App)
  /\ UNCHANGED <<extensions, hooks, slots, apis, running, unstopped, replaced>>

-----------------------------------------------------------------------------
Step(c) ==
  \/ Initialize(c) \/ RegisterHook(c) \/ Registered(c)
  \/ StopIt(c) \/ Shift(c) \/ Shorten(c) \/ Unregistered(c)
  \/ Snapshot(c) \/ RunHandler(c) \/ Executed(c) \/ Lookup(c)

AppStep == Begin \/ End \/ \E e \in Exts : StartOne(e) \/ StopOne(e)

Next ==
  \/ \E c \in Clients, e \in Exts : Register(c, e)
  \/ \E c \in Clients, n \in Names : Unregister(c, n)
  \/ \E c \in Clients, p \in Points : ExecuteHook(c, p)
  \/ StartAll \/ StopAll
  \/ \E c \in Clients : Step(c)
  \/ AppStep

Spec == Init /\ [][Next]_vars

\* The scheduler runs every goroutine, and no callback of an extension hangs.
FairSpec == Spec /\ WF_vars(AppStep) /\ \A c \in Clients : WF_vars(Step(c))

-----------------------------------------------------------------------------
(* Properties *)

Slice == [cap : Nat, len : Nat]
Call ==
  [op : {"idle", "Register", "Unregister", "Execute", "Start", "Stop"},
   at : {"done", "initialize", "hooks", "stop", "snapshot", "run", "lookup", "lock", "each"},
   name : Names \cup {Nobody}, ext : Exts \cup {Nobody}, point : Points \cup {Nobody}, todo : Seq(Points),
   left : SUBSET Exts, slice : Slice, pos : Nat \ {0}]

\* No two extensions of the registry have one name, a slice is no longer than its
\* array, a point's array is its largest, and a run does not leave its snapshot.
TypeOK ==
  /\ mutex \in Mutexes(Goroutines)
  /\ extensions \subseteq Exts /\ \A d, e \in extensions : NameOf[d] = NameOf[e] => d = e
  /\ running \subseteq Exts /\ unstopped \subseteq Exts /\ replaced \subseteq Exts
  /\ cancelled \in BOOLEAN
  /\ hooks \in [Points -> Slice]
  /\ \A p \in Points :
       /\ hooks[p].len <= hooks[p].cap /\ hooks[p].cap \in DOMAIN slots[p]
       /\ \A n \in DOMAIN slots[p] :
            n \in 0..hooks[p].cap /\ slots[p][n] \in [1..n -> Exts \cup {Nobody}]
  /\ DOMAIN apis \subseteq APIs /\ \A a \in DOMAIN apis : apis[a] \in Exts
  /\ call \in [Goroutines -> Call]
  /\ \A c \in Clients : call[c].op = "Execute" => call[c].pos <= call[c].slice.len + 1

\* A run never meets an empty slot, whose nil handler would panic, although
\* UnregisterExtension shortens the very array it reads (extensions.go:162,
\* 213): the slot behind the new end is left as it was.
NeverNil ==
  \A c \in Clients :
    At(c, "Execute", "run") /\ call[c].pos <= call[c].slice.len => Next1(c) \in Exts

\* An API that is served belongs to an extension that is registered, or to one
\* that another of its name has replaced, whose APIs nobody takes away
\* (extensions.go:131-135, 170-174): unregistering by name, and APIs that go from
\* one extension to another, leave no others behind.
ServedAccounted ==
  mutex.owner = NoOne => \A a \in DOMAIN apis : apis[a] \in extensions \cup replaced

\* An extension runs only while it is registered, unless another of its name has
\* replaced it or its Stop has failed: none is started behind the back of its
\* unregistration (extensions.go:75-84, 95-97, 135, 146-154, 176).
RunningAccounted == running \subseteq extensions \cup replaced \cup unstopped

\* What e declares for a point among the first k of its hooks.
Declared(e, k, p) == {e} \X {i \in 1..k : HooksOf[e][i] = p}
AllDeclared(E, p) == UNION {Declared(e, Len(HooksOf[e]), p) : e \in E}

\* Unregistering takes away as many handlers as registering has brought, so a
\* point never has fewer than the registered extensions declare for it
\* (extensions.go:126-128, 157-167) - even where they are somebody else's.
NoneMissing ==
  mutex.owner = NoOne =>
    \A p \in Points : Cardinality(AllDeclared(extensions, p)) <= hooks[p].len

\* Every call of the manager that has begun returns, whatever the handlers of a
\* run ask of it meanwhile: nobody waits for a lock for ever (extensions.go:75,
\* 91, 108, 143, 182-236).
CallsReturn == \A c \in Goroutines : call[c] # Idle ~> call[c] = Idle

\* What "Remove hooks" says of UnregisterExtension (extensions.go:141, 156): the
\* handlers that a point has are those of registered extensions.
HandlersRegistered ==
  mutex.owner = NoOne =>
    \A p \in Points : \A i \in 1..hooks[p].len : slots[p][hooks[p].cap][i] \in extensions
=============================================================================
