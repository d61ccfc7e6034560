------------------------------- MODULE RWMutex -------------------------------
(***************************************************************************)
(* Go's sync.RWMutex as the program relies on it: any number of readers or *)
(* one writer.  A writer first announces itself, which no two do at once;  *)
(* the readers that come after it queue behind it, and all of them enter   *)
(* when it unlocks.  A mutex is a record, each call an operator on it.     *)
(***************************************************************************)
CONSTANT NoOne

Unlocked == [owner |-> NoOne, readers |-> {}, queued |-> {}]

RLock(m, c) ==
  IF m.owner = NoOne THEN [m EXCEPT !.readers = @ \cup {c}]
                     ELSE [m EXCEPT !.queued  = @ \cup {c}]

RUnlock(m, c) == [m EXCEPT !.readers = @ \ {c}]

Announce(m, c) == [m EXCEPT !.owner = c]

Unlock(m) == [owner |-> NoOne, readers |-> m.queued, queued |-> {}]

\* The announced writer is in once the readers before it have left.
Writes(m, c) == m.owner = c /\ m.readers = {}
Reads(m, c)  == c \in m.readers

Mutexes(C) == [owner : C \cup {NoOne}, readers : SUBSET C, queued : SUBSET C]
=============================================================================
