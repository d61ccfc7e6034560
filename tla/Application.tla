------------------------------ MODULE Application ------------------------------
(***************************************************************************)
(* The life of the process: cmd/server/main.go, internal/core/app.go and   *)
(* the server's Start and Stop in internal/api/server.go.  The main        *)
(* goroutine sets the components up in order, starts them, waits for a     *)
(* signal and takes them down; the HTTP server listens in a goroutine of   *)
(* its own and runs a handler per request.                                 *)
(*                                                                         *)
(* net/http is external: a listener that comes after Shutdown refuses to   *)
(* serve, and Shutdown waits for the requests in progress - for ever, the  *)
(* context that Run passes it being cancelled only later.                  *)
(***************************************************************************)
EXTENDS Integers, FiniteSets, Sequences

CONSTANTS Requests   \* the requests that clients may send

Components == <<"config", "logger", "db", "cache", "security", "extensions", "api">>

VARIABLES
  main,       \* where the main goroutine is
  up,         \* the components that are set up and not closed
  running,    \* the extension manager has been started and not stopped
  server,     \* the goroutine of ListenAndServe
  draining,   \* Shutdown has been called
  handling,   \* the requests in progress
  signalled,  \* a signal waits in Run's channel
  ctxLive     \* App.ctx is not cancelled

vars == <<main, up, running, server, draining, handling, signalled, ctxLive>>

Init ==
  /\ main = "init"
  /\ up = {}
  /\ running = FALSE
  /\ server = "none" /\ draining = FALSE /\ handling = {}
  /\ signalled = FALSE
  /\ ctxLive = TRUE

Ended == main \in {"exited", "failed", "killed"}

\* The process ends, and its goroutines with it.
Exit(how) == main' = how /\ handling' = {} /\ server' = "none"

-----------------------------------------------------------------------------
(* NewApp and Start *)

SetUpBeyond ==
  /\ main = "init"
  /\ up' = up \cup {Components[Cardinality(up) + 1]}
  /\ main' = IF Cardinality(up') > Len(Components) THEN "startExtensions" ELSE "init"
  /\ UNCHANGED <<running, server, draining, handling, signalled, ctxLive>>

SetUp ==
  /\ main = "init"
  /\ up' = up \cup {Components[Cardinality(up) + 1]}
  /\ main' = IF Cardinality(up') = Len(Components) THEN "startExtensions" ELSE "init"
  /\ UNCHANGED <<running, server, draining, handling, signalled, ctxLive>>

\* Any component may refuse; main reports it and exits.
SetUpFails ==
  /\ main = "init"
  /\ Exit("failed")
  /\ UNCHANGED <<up, running, draining, signalled, ctxLive>>

StartExtensions ==
  /\ main = "startExtensions"
  /\ running' = TRUE
  /\ main' = "startServer"
  /\ UNCHANGED <<up, server, draining, handling, signalled, ctxLive>>

\* Server.Start leaves the listening to a goroutine and reports success.
StartServer ==
  /\ main = "startServer"
  /\ server' = "spawned"
  /\ main' = "notify"
  /\ UNCHANGED <<up, running, draining, handling, signalled, ctxLive>>

Notify ==
  /\ main = "notify"
  /\ main' = "wait"
  /\ UNCHANGED <<up, running, server, draining, handling, signalled, ctxLive>>

-----------------------------------------------------------------------------
(* The server's goroutines *)

Listen ==
  /\ server = "spawned"
  /\ \/ server' = IF draining THEN "closed" ELSE "listening"
     \/ server' = "failed"               \* the address is taken: only logged
  /\ UNCHANGED <<main, up, running, draining, handling, signalled, ctxLive>>

Accept(r) ==
  /\ server = "listening" /\ ~ draining
  /\ r \notin handling
  /\ handling' = handling \cup {r}
  /\ UNCHANGED <<main, up, running, server, draining, signalled, ctxLive>>

Handled(r) ==
  /\ r \in handling
  /\ handling' = handling \ {r}
  /\ UNCHANGED <<main, up, running, server, draining, signalled, ctxLive>>

-----------------------------------------------------------------------------
(* Signals, and Stop *)

\* Before Notify a signal kills the process; Run's channel holds one, and the
\* ones that come while it is full are lost.
Signal ==
  /\ ~ Ended
  /\ IF main \in {"init", "startExtensions", "startServer", "notify"}
     THEN Exit("killed") /\ UNCHANGED signalled
     ELSE signalled' = TRUE /\ UNCHANGED <<main, handling, server>>
  /\ UNCHANGED <<up, running, draining, ctxLive>>

Shutdown ==
  /\ main = "wait" /\ signalled
  /\ signalled' = FALSE
  /\ draining' = TRUE
  /\ server' = IF server = "listening" THEN "closed" ELSE server
  /\ main' = "drain"
  /\ UNCHANGED <<up, running, handling, ctxLive>>

DrainedAndClosed ==
  /\ main = "drain"
  /\ handling = {} /\ server = "closed"
  /\ main' = "stopExtensions"
  /\ UNCHANGED <<up, running, server, draining, handling, signalled, ctxLive>>

DrainedAtOnce ==
  /\ main = "drain"
  /\ main' = "stopExtensions"
  /\ UNCHANGED <<up, running, server, draining, handling, signalled, ctxLive>>

Drained ==
  /\ main = "drain"
  /\ handling = {}
  /\ main' = "stopExtensions"
  /\ UNCHANGED <<up, running, server, draining, handling, signalled, ctxLive>>

StopExtensions ==
  /\ main = "stopExtensions"
  /\ running' = FALSE
  /\ main' = "closeDB"
  /\ UNCHANGED <<up, server, draining, handling, signalled, ctxLive>>

\* Errors of the following steps are logged, and the next step is taken.
CloseDB ==
  /\ main = "closeDB"
  /\ up' = up \ {"db"}
  /\ main' = "closeCache"
  /\ UNCHANGED <<running, server, draining, handling, signalled, ctxLive>>

CloseCache ==
  /\ main = "closeCache"
  /\ up' = up \ {"cache"}
  /\ main' = "cancel"
  /\ UNCHANGED <<running, server, draining, handling, signalled, ctxLive>>

Cancel ==
  /\ main = "cancel"
  /\ ctxLive' = FALSE
  /\ Exit("exited")
  /\ UNCHANGED <<up, running, draining, signalled>>

-----------------------------------------------------------------------------
MainStep ==
  \/ SetUp \/ StartExtensions \/ StartServer \/ Notify
  \/ Shutdown \/ Drained \/ StopExtensions \/ CloseDB \/ CloseCache \/ Cancel

Next ==
  \/ MainStep \/ SetUpFails \/ Listen \/ Signal
  \/ \E r \in Requests : Accept(r) \/ Handled(r)

Spec == Init /\ [][Next]_vars

\* The process is scheduled, and every handler returns.
FairSpec == Spec /\ WF_vars(MainStep) /\ WF_vars(Listen) /\ \A r \in Requests : WF_vars(Handled(r))

-----------------------------------------------------------------------------
(* Properties *)

All == {Components[i] : i \in 1..Len(Components)}

\* While components are being set up, one is left to do.
TypeOK ==
  /\ main \in {"init", "startExtensions", "startServer", "notify", "wait", "drain",
               "stopExtensions", "closeDB", "closeCache", "cancel",
               "exited", "failed", "killed"}
  /\ up \subseteq All /\ (main = "init" => Cardinality(up) < Len(Components))
  /\ server \in {"none", "spawned", "listening", "failed", "closed"}
  /\ handling \subseteq Requests
  /\ {running, draining, signalled, ctxLive} \subseteq BOOLEAN

\* A request in progress has everything its handler may use: all components are
\* set up, the extensions run, and nothing of it is closed under its feet, even
\* when the signal comes before the server's goroutine gets to listen
\* (app.go:97-141, server.go:149-165).
ServedByLive == handling # {} => up = All /\ running /\ ctxLive

\* The signal that Run waits for ends the process, however many requests are in
\* progress, as long as each of them ends.
SignalEnds == signalled /\ main = "wait" ~> Ended

\* What "Application started successfully" and the error path of Start say
\* (app.go:105-110): the application that runs serves requests, or is about to.
StartedServes == main = "wait" => server # "failed"
=============================================================================
