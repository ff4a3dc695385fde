---- MODULE MCRefreshTokens ----
EXTENDS RefreshTokens, TLC

CONSTANT Spare   \* the second account

Interchangeable == Permutations(Req) \cup Permutations(Token)

\* Either all goes on in one account, with two requests and three rows, or there
\* are two accounts, with one request at a time and two rows in all. Rows expire
\* in the second case only.
OneAccount ==
    /\ Spare \notin sanctioned \cup verified \cup linked
    /\ RowsOf(Spare) = {} /\ InFlight(Spare) = {}
Few == /\ Cardinality(Rows) <= 2
       /\ Cardinality({r \in Req : pc[r] # "idle"}) <= 1

Small == ~Few => OneAccount /\ expired = {}

MCNext == Next /\ Small'
MCSpec == Init /\ [][MCNext]_vars
====
