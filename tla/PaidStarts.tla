----------------------------- MODULE PaidStarts -----------------------------
(***************************************************************************)
(* What the paid-start guard promises its users, without journals, locks,  *)
(* processes or crashes: a ledger of the starts that are running, of the   *)
(* starts that may have been billed and are accounted to nobody, and of    *)
(* the runs that were stopped before they began.                           *)
(***************************************************************************)
CONSTANTS Run, Key, Kind, KindOf

VARIABLES
  running,  \* starts (key, run) that hold a lease
  owed,     \* starts that may be billed and are accounted to nobody
  stopped   \* runs that must never start again

vars == <<running, owed, stopped>>

Init == running = {} /\ owed = {} /\ stopped = {}

\* A run starts alone, never after its Stop, and never with a kind that has
\* an unaccounted start.
Admit(r, K) ==
  /\ running = {}
  /\ r \notin stopped
  /\ \A s \in owed, k \in K : KindOf[s[1]] # KindOf[k]
  /\ running' = K \X {r}
  /\ UNCHANGED <<owed, stopped>>

Send(s)    == s \in running /\ owed' = owed \cup {s} /\ UNCHANGED <<running, stopped>>
Account(s) == s \in running /\ owed' = owed \ {s} /\ UNCHANGED <<running, stopped>>

\* A run ends; what it owes stays owed.
End == running' = {} /\ UNCHANGED <<owed, stopped>>

\* A person vouches for one node while nothing runs.
Unlock(k) ==
  /\ running = {}
  /\ owed' = {s \in owed : s[1] # k}
  /\ UNCHANGED <<running, stopped>>

Stop(r) == stopped' = stopped \cup {r} /\ UNCHANGED <<running, owed>>

Next ==
  \/ \E r \in Run, K \in SUBSET Key : Admit(r, K)
  \/ \E s \in Key \X Run : Send(s) \/ Account(s)
  \/ End
  \/ \E k \in Key : Unlock(k)
  \/ \E r \in Run : Stop(r)

Spec == Init /\ [][Next]_vars
=============================================================================
