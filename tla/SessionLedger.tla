---- MODULE SessionLedger ----
(* What the refresh-token table promises, without saying how a request       *)
(* reaches it: a row only ever ages (unborn, fresh, spent, dead), keeps the  *)
(* holder it was created for, and a row obtained by exchange names the row   *)
(* it was exchanged for, which is no longer fresh and has the same holder.   *)
CONSTANTS User, Token, None

VARIABLES life, holder, origin

vars == <<life, holder, origin>>

Init ==
    /\ life = [t \in Token |-> "unborn"]
    /\ holder = [t \in Token |-> None]
    /\ origin = [t \in Token |-> None]

Born(t, u, s) ==
    /\ life[t] = "unborn"
    /\ life' = [life EXCEPT ![t] = "fresh"]
    /\ holder' = [holder EXCEPT ![t] = u]
    /\ origin' = [origin EXCEPT ![t] = s]

\* A sign-in opens a family of rows.
Open(t, u) == Born(t, u, None)

\* An exchange adds a row to the family of s, which has left "fresh".
Descend(t, s) ==
    /\ life[s] \in {"spent", "dead"}
    /\ Born(t, holder[s], s)

Spend(t) ==
    /\ life[t] = "fresh"
    /\ life' = [life EXCEPT ![t] = "spent"]
    /\ UNCHANGED <<holder, origin>>

\* Any rows of ONE holder may be closed together.
Close(u) ==
    /\ life' \in [Token -> {"unborn", "fresh", "spent", "dead"}]
    /\ \A t \in Token :
          life'[t] # life[t] => (holder[t] = u /\ life'[t] = "dead")
    /\ UNCHANGED <<holder, origin>>

Next ==
    \/ \E t \in Token, u \in User : Open(t, u)
    \/ \E t, s \in Token : Descend(t, s)
    \/ \E t \in Token : Spend(t)
    \/ \E u \in User : Close(u)

Spec == Init /\ [][Next]_vars
====
