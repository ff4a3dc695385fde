---- MODULE MCInvitations ----
EXTENDS Invitations, TLC

CONSTANTS SpareInviter, SpareEmail

Interchangeable == Permutations(Inv) \cup Permutations(Req)

\* Either one inviter and two addresses with two requests in flight, or two
\* inviters, of whom the second is never sanctioned nor deleted, for one address
\* with one request at a time.
OneInviter ==
    \A i \in Inv : inviter[i] # SpareInviter
OneAddress ==
    /\ SpareEmail \notin registered
    /\ \A i \in Inv : target[i] # SpareEmail
    /\ \A q, r \in Req : /\ req[r].email # SpareEmail
                         /\ pc[q] = "idle" \/ pc[r] = "idle" \/ q = r
Small ==
    /\ SpareInviter \in members /\ standing[SpareInviter] = "active"
    /\ SpareInviter \notin flagged \cup bulk
    /\ \/ OneInviter /\ \A r \in Req : req[r].by # SpareInviter
       \/ OneAddress

\* One row of an administrator and one reusable row suffice to meet them next to
\* another row; of an inviter under three flags, the right to bulk is not followed.
AtMostOne(S) == \A i, j \in S : i = j
Mixed ==
    /\ AtMostOne({i \in Inv : inviter[i] = Root})
    /\ AtMostOne({i \in Inv : kind[i] = "reusable"})
    /\ flagged \cap bulk = {}

MCNext == Next /\ Small' /\ Mixed'
MCSpec == Init /\ [][MCNext]_vars
====
