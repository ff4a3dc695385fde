---- MODULE MCAssociationGovernance ----
EXTENDS AssociationGovernance, TLC

CONSTANT Third   \* a user who only takes part as long as no requests overlap

Interchangeable == Permutations(User \ {Third}) \cup Permutations(Req)

Away(u) == status[u] = "none" /\ u \in accounts /\ \A r \in Req : req[r].by # u /\ req[r].of # u
Alone == ~crossed /\ \A q, r \in Req : pc[q] = "idle" \/ pc[r] = "idle" \/ q = r

\* Three users one request at a time, two users two requests at a time. Requests
\* overlap where no seat of the board is taken (what is checked of the seats is
\* checked where they do not overlap), and the way to join then stays as it is.
MCNext ==
    /\ Next
    /\ Alone' \/ Away(Third)'
    /\ crossed' => \A u \in User : seat'[u] = "none"
    /\ crossed => requires' = requires
MCSpec == Init /\ [][MCNext]_vars
====
