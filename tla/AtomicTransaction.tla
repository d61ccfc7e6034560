--------------------------- MODULE AtomicTransaction ---------------------------
(***************************************************************************)
(* What Database.Transaction promises: the statements that fn sends through *)
(* its handle take effect all at once or not at all, and only if fn        *)
(* returned nil; the caller that is told nil can rely on them, the one that *)
(* sees an error of fn or a panic on their absence.  An error alone leaves *)
(* a caller whose fn succeeded in doubt.                                   *)
(***************************************************************************)
CONSTANTS
  Clients,  \* the goroutines that call Transaction
  Unknown   \* fn has not returned, or the call is not over

VARIABLES
  verdict,  \* how each fn ended: "ok", "error" or "panic"
  applied,  \* whose statements have taken effect
  answer    \* what each caller was told: "nil", "error" or "panic"

vars == <<verdict, applied, answer>>

Init ==
  /\ verdict = [c \in Clients |-> Unknown]
  /\ applied = {}
  /\ answer = [c \in Clients |-> Unknown]

\* fn ends, or the call does without ever running it: an error then.
End(c, v) ==
  /\ verdict[c] = Unknown /\ answer[c] = Unknown
  /\ verdict' = [verdict EXCEPT ![c] = v]
  /\ UNCHANGED <<applied, answer>>

Apply(c) ==
  /\ verdict[c] = "ok" /\ c \notin applied /\ answer[c] = Unknown
  /\ applied' = applied \cup {c}
  /\ UNCHANGED <<verdict, answer>>

Told(c, a) ==
  /\ verdict[c] # Unknown /\ answer[c] = Unknown
  /\ a = "nil"    => c \in applied
  /\ (a = "panic") <=> (verdict[c] = "panic")
  /\ answer' = [answer EXCEPT ![c] = a]
  /\ UNCHANGED <<verdict, applied>>

\* The caller goes on to another transaction.
Again(c) ==
  /\ answer[c] # Unknown
  /\ verdict' = [verdict EXCEPT ![c] = Unknown]
  /\ applied' = applied \ {c}
  /\ answer' = [answer EXCEPT ![c] = Unknown]

Next ==
  \E c \in Clients :
    \/ \E v \in {"ok", "error", "panic"} : End(c, v)
    \/ Apply(c)
    \/ \E a \in {"nil", "error", "panic"} : Told(c, a)
    \/ Again(c)

Spec == Init /\ [][Next]_vars
=============================================================================
