------------------------------- MODULE Database -------------------------------
(***************************************************************************)
(* Database.Transaction of internal/database/database.go over the pool of  *)
(* connections that New configures.                                        *)
(*                                                                         *)
(* The pool (database/sql) and the server's sessions are external: the pool *)
(* hands out at most MaxConns connections and makes callers wait for one;  *)
(* a session that is lost is rolled back by the server; cancelling the     *)
(* context of a transaction rolls it back behind fn's back and frees its   *)
(* connection.  What fn sends through the transaction's handle needs no    *)
(* step of its own: the server keeps it until it commits.  The fn of a     *)
(* Nester also calls Database.Exec or Query, which takes a second          *)
(* connection while the first is held.                                     *)
(***************************************************************************)
EXTENDS Integers, FiniteSets

CONSTANTS
  Clients,    \* the goroutines that call Transaction
  Nesters,    \* those whose fn uses the Database besides its transaction
  MaxConns,   \* DatabaseConfig.MaxConns; 0 for no limit
  Unknown     \* fn has not returned, or the call is not over

ASSUME DatabaseAssumption ==
  /\ IsFiniteSet(Clients) /\ Nesters \subseteq Clients
  /\ MaxConns \in Nat
  /\ Unknown \notin {"nil", "ok", "error", "panic"}

VARIABLES
  step,     \* where each caller is in Transaction
  conns,    \* who holds a connection for its transaction
  extra,    \* who holds a second one for a nested query
  session,  \* the transaction of each caller, as the server sees it
  applied,  \* the callers whose transaction the server has committed
  verdict,  \* how each fn ended
  answer    \* what each caller was told

vars == <<step, conns, extra, session, applied, verdict, answer>>

Init ==
  /\ step = [c \in Clients |-> "idle"]
  /\ conns = {} /\ extra = {}
  /\ session = [c \in Clients |-> "none"]
  /\ applied = {}
  /\ verdict = [c \in Clients |-> Unknown]
  /\ answer = [c \in Clients |-> Unknown]

-----------------------------------------------------------------------------
(* The pool and the server. *)

Free == MaxConns = 0 \/ Cardinality(conns) + Cardinality(extra) < MaxConns

Goto(c, s)  == step' = [step EXCEPT ![c] = s]
Close(c, s) == session' = [session EXCEPT ![c] = s]

\* The call ends: its connection goes back to the pool, unless that is done.
Finish(c, a) ==
  /\ Goto(c, "idle")
  /\ answer' = [answer EXCEPT ![c] = a]
  /\ conns' = conns \ {c}

\* The connection breaks, or the server ends the session.
Lose(c) ==
  /\ session[c] = "open"
  /\ Close(c, "lost")
  /\ UNCHANGED <<step, conns, extra, applied, verdict, answer>>

\* The context is cancelled while fn runs.
Cancel(c) ==
  /\ step[c] \in {"fn", "nested", "commit", "rollback", "unwind"}
  /\ session[c] \in {"open", "lost"}
  /\ Close(c, "lost")
  /\ conns' = conns \ {c}
  /\ UNCHANGED <<step, extra, applied, verdict, answer>>

-----------------------------------------------------------------------------
(* Transaction *)

Begin(c) ==
  /\ step[c] = "idle"
  /\ Goto(c, "begin")
  /\ applied' = applied \ {c}
  /\ verdict' = [verdict EXCEPT ![c] = Unknown]
  /\ answer' = [answer EXCEPT ![c] = Unknown]
  /\ UNCHANGED <<conns, extra, session>>

Connect(c) ==
  /\ step[c] = "begin" /\ Free
  /\ conns' = conns \cup {c}
  /\ Close(c, "open")
  /\ Goto(c, "fn")
  /\ UNCHANGED <<extra, applied, verdict, answer>>

\* No connection to the server, or the context ends while waiting for one.
BeginFails(c) ==
  /\ step[c] = "begin"
  /\ verdict' = [verdict EXCEPT ![c] = "error"]
  /\ Goto(c, "refused")
  /\ UNCHANGED <<conns, extra, session, applied, answer>>

Refused(c) ==
  /\ step[c] = "refused"
  /\ Finish(c, "error")
  /\ UNCHANGED <<extra, session, applied, verdict>>

Nest(c) ==
  /\ step[c] = "fn" /\ c \in Nesters
  /\ Goto(c, "nested")
  /\ UNCHANGED <<conns, extra, session, applied, verdict, answer>>

\* A nested query waits for its connection, and gives it back when it is over;
\* it may also fail to get one.
NestedConnect(c) ==
  /\ step[c] = "nested" /\ c \notin extra /\ Free
  /\ extra' = extra \cup {c}
  /\ UNCHANGED <<step, conns, session, applied, verdict, answer>>

NestedDone(c) ==
  /\ step[c] = "nested" /\ c \in extra
  /\ extra' = extra \ {c}
  /\ Goto(c, "fn")
  /\ UNCHANGED <<conns, session, applied, verdict, answer>>

\* fn returns nil - whatever became of its session - or an error, or panics.
FnEndsCommitting(c) ==
  /\ step[c] = "fn"
  /\ \E v \in {"ok", "error", "panic"} :
       /\ verdict' = [verdict EXCEPT ![c] = v]
       /\ Goto(c, IF v = "panic" THEN "unwind" ELSE "commit")
  /\ UNCHANGED <<conns, extra, session, applied, answer>>

FnEnds(c) ==
  /\ step[c] = "fn"
  /\ \E v \in {"ok", "error", "panic"} :
       /\ verdict' = [verdict EXCEPT ![c] = v]
       /\ Goto(c, CASE v = "ok" -> "commit" [] v = "error" -> "rollback" [] v = "panic" -> "unwind")
  /\ UNCHANGED <<conns, extra, session, applied, answer>>

\* The server commits, if the session is still there.
Commit(c) ==
  /\ step[c] = "commit" /\ session[c] = "open"
  /\ Close(c, "committed")
  /\ applied' = applied \cup {c}
  /\ UNCHANGED <<step, conns, extra, verdict, answer>>

\* tx.Commit returns nil after a commit whose answer arrives; an error else.
Committed(c) ==
  /\ step[c] = "commit" /\ session[c] # "open"
  /\ \E a \in {"nil", "error"} :
       /\ a = "nil" => session[c] = "committed"
       /\ Finish(c, a)
  /\ Close(c, "none")
  /\ UNCHANGED <<extra, applied, verdict>>

\* tx.Rollback, after an error of fn or a panic: whether the server hears of it
\* or loses the session, nothing stays.
RollbackLeaking(c) ==
  /\ step[c] \in {"rollback", "unwind"}
  /\ Goto(c, "idle")
  /\ answer' = [answer EXCEPT ![c] = IF step[c] = "unwind" THEN "panic" ELSE "error"]
  /\ Close(c, "none")
  /\ UNCHANGED <<conns, extra, applied, verdict>>

Rollback(c) ==
  /\ step[c] \in {"rollback", "unwind"}
  /\ Finish(c, IF step[c] = "unwind" THEN "panic" ELSE "error")
  /\ Close(c, "none")
  /\ UNCHANGED <<extra, applied, verdict>>

Step(c) ==
  \/ Connect(c) \/ Refused(c)
  \/ NestedConnect(c) \/ NestedDone(c) \/ FnEnds(c)
  \/ Commit(c) \/ Committed(c) \/ Rollback(c)

Next ==
  \E c \in Clients :
    \/ Step(c)
    \/ Begin(c) \/ BeginFails(c) \/ Nest(c)
    \/ Lose(c) \/ Cancel(c)

Spec == Init /\ [][Next]_vars

\* Every fn returns in the end, and the pool serves those that wait in turn.
FairSpec ==
  /\ Spec
  /\ \A c \in Clients : SF_vars(Step(c)) /\ SF_vars(FnEnds(c))

-----------------------------------------------------------------------------
(* Properties *)

Steps == {"idle", "begin", "refused", "fn", "nested", "commit", "rollback", "unwind"}

\* A connection is held only inside a call, and a session ends with it.
TypeOK ==
  /\ step \in [Clients -> Steps]
  /\ conns \subseteq {c \in Clients : step[c] \notin {"idle", "begin", "refused"}}
  /\ extra \subseteq {c \in Nesters : step[c] = "nested"}
  /\ session \in [Clients -> {"none", "open", "lost", "committed"}]
  /\ \A c \in Clients : session[c] = "none" <=> step[c] \in {"idle", "begin", "refused"}
  /\ applied \subseteq Clients
  /\ verdict \in [Clients -> {Unknown, "ok", "error", "panic"}]
  /\ answer \in [Clients -> {Unknown, "nil", "error", "panic"}]

\* Transaction is atomic and its answer tells the truth, whatever is lost or
\* cancelled on the way (database.go:122-147).
Promise == INSTANCE AtomicTransaction WITH
  Clients <- Clients, Unknown <- Unknown,
  verdict <- verdict, applied <- applied, answer <- answer
Atomic  == Promise!Spec

\* The pool is not exhausted by those who wait for it, as long as fewer callers
\* use the Database inside a transaction than there are connections
\* (database.go:41, 92-103, 122-147).
Waiting(c) == step[c] = "begin" \/ (step[c] = "nested" /\ c \notin extra)

PoolProgress ==
  /\ MaxConns = 0 \/ Cardinality(Nesters) < MaxConns
  /\ \E c \in Clients : Waiting(c)
  => Free \/ \E c \in Clients : step[c] # "idle" /\ ~ Waiting(c)

\* Every call of Transaction returns or panics: none keeps its connection, so
\* none waits for one for ever.
TransactionEnds == \A c \in Clients : step[c] # "idle" ~> step[c] = "idle"
=============================================================================
