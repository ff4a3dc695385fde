---- MODULE Admissions ----
(* What sponsorship promises, without saying how a registration reaches it:  *)
(* an invitation opens once and never again after it closed; a single-use    *)
(* one closes with the account it admits, so that it admits one in all, also *)
(* when that account is gone; an account comes in through one at most.       *)
CONSTANTS Email, Inv, None

VARIABLES
    life,  \* "unborn", "open", "closed" or "gone", for each invitation
    once,  \* the single-use ones
    pass   \* the invitation each account came in through

vars == <<life, once, pass>>

Init ==
    /\ life = [i \in Inv |-> "unborn"]
    /\ once = {}
    /\ pass = [e \in Email |-> None]

Move(S, stage) == life' = [i \in Inv |-> IF i \in S THEN stage ELSE life[i]]

Open(i) ==
    /\ life[i] = "unborn"
    /\ Move({i}, "open")
    /\ once' \in {once, once \cup {i}}
    /\ UNCHANGED pass

AdmitOnce(e, i) ==
    /\ i \in once /\ life[i] = "open" /\ pass[e] = None
    /\ Move({i}, "closed")
    /\ pass' = [pass EXCEPT ![e] = i]
    /\ UNCHANGED once

\* A reusable invitation admits also those who came while it was open.
AdmitMany(e, i) ==
    /\ i \notin once /\ life[i] \in {"open", "closed"} /\ pass[e] = None
    /\ pass' = [pass EXCEPT ![e] = i]
    /\ UNCHANGED <<life, once>>

Close(S) ==
    /\ \A i \in S : life[i] = "open"
    /\ Move(S, "closed")
    /\ UNCHANGED <<once, pass>>

\* An account goes; what let it in stays closed.
Leave(e) ==
    /\ pass' = [pass EXCEPT ![e] = None]
    /\ UNCHANGED <<life, once>>

\* Invitations go, and are no longer named by whom they admitted.
Drop(S) ==
    /\ \A i \in S : life[i] # "unborn"
    /\ Move(S, "gone")
    /\ pass' = [e \in Email |-> IF pass[e] \in S THEN None ELSE pass[e]]
    /\ UNCHANGED once

Next ==
    \/ \E i \in Inv : Open(i)
    \/ \E e \in Email, i \in Inv : AdmitOnce(e, i) \/ AdmitMany(e, i)
    \/ \E S \in SUBSET Inv : Close(S) \/ Drop(S)
    \/ \E e \in Email : Leave(e)

Spec == Init /\ [][Next]_vars
====
