---- MODULE PriceVotes ----
(* The trust score of one reported price, and the votes it sums. A vote is   *)
(* one READ COMMITTED transaction: it reads the earlier vote of the member,  *)
(* then writes the row and adds the difference to the score.                 *)
EXTENDS Integers, FiniteSets

CONSTANTS Voter,  \* members other than the one who submitted the price
          Req,    \* requests in flight at the same time
          MaxTrust  \* bound: the score, either way

\* What is assumed of the constants.
VoterAssumption == IsFiniteSet(Voter) /\ MaxTrust \in Nat

Value == {-1, 1}

VARIABLES
    value,    \* community_price_votes; 0 without a row
    trust,    \* community_prices.trust_score
    lost,     \* history: sum of the votes that went with an account
    crossed,  \* history: voters who had two requests in flight at once
    gone,     \* accounts deleted
    voting    \* of each request: the voter, the value asked and the one read

vars == <<value, trust, lost, crossed, gone, voting>>

Idle == {}
Ballot(u, v, s) == {[voter |-> u, asked |-> v, seen |-> s]}

TypeOK ==
    /\ value \in [Voter -> Value \cup {0}]
    /\ trust \in -MaxTrust..MaxTrust /\ lost \in Int
    /\ crossed \subseteq Voter /\ gone \subseteq Voter
    /\ voting \in [Req -> {Idle} \cup {Ballot(u, v, s) : u \in Voter, v \in Value,
                                                       s \in Value \cup {0}}]

Init ==
    /\ value = [u \in Voter |-> 0]
    /\ trust = 0 /\ lost = 0
    /\ crossed = {} /\ gone = {}
    /\ voting = [r \in Req |-> Idle]

InFlight(u) == \E r \in Req : \E b \in voting[r] : b.voter = u

VoteRead(r, u, v) ==
    /\ voting[r] = Idle /\ u \notin gone
    /\ voting' = [voting EXCEPT ![r] = Ballot(u, v, value[u])]
    /\ crossed' = crossed \cup {w \in {u} : InFlight(w)}
    /\ UNCHANGED <<value, trust, lost, gone>>

\* The row and the score change together.
Store(r, b, new, delta) ==
    /\ value' = [value EXCEPT ![b.voter] = new]
    /\ trust' = trust + delta /\ trust' \in -MaxTrust..MaxTrust
    /\ voting' = [voting EXCEPT ![r] = Idle]
    /\ UNCHANGED <<lost, crossed, gone>>

\* The key refuses a second row.
Cast(r) == \E b \in voting[r] :
    /\ b.seen = 0 /\ value[b.voter] = 0 /\ b.voter \notin gone
    /\ Store(r, b, b.asked, b.asked)

\* The same vote again takes it back; a row that is gone cannot be deleted.
Retract(r) == \E b \in voting[r] :
    /\ b.seen = b.asked /\ value[b.voter] # 0
    /\ Store(r, b, 0, -b.asked)

\* (Bug: the new value is added whole.)
SwitchBug(r) == \E b \in voting[r] :
    /\ b.seen = -b.asked /\ value[b.voter] # 0
    /\ Store(r, b, b.asked, b.asked)
Switch(r) == \E b \in voting[r] :
    /\ b.seen = -b.asked /\ value[b.voter] # 0
    /\ Store(r, b, b.asked, b.asked - b.seen)

Abort(r) ==
    /\ voting[r] # Idle
    /\ voting' = [voting EXCEPT ![r] = Idle]
    /\ UNCHANGED <<value, trust, lost, crossed, gone>>

\* The account of a voter is deleted, and its row goes without the score.
DeleteAccount(u) ==
    /\ u \notin gone /\ gone' = gone \cup {u}
    /\ value' = [value EXCEPT ![u] = 0]
    /\ lost' = lost + value[u]
    /\ UNCHANGED <<trust, crossed, voting>>

Next ==
    \/ \E u \in Voter : DeleteAccount(u)
    \/ \E r \in Req :
        \/ \E u \in Voter, v \in Value : VoteRead(r, u, v)
        \/ Cast(r) \/ Retract(r) \/ Switch(r) \/ Abort(r)

Spec == Init /\ [][Next]_vars

Votes(v) == {u \in Voter : value[u] = v}

\* The score is the votes for less the votes against, those of deleted accounts
\* included, as long as no member has voted twice at the same time.
TrustExact ==
    crossed = {} => trust = Cardinality(Votes(1)) - Cardinality(Votes(-1)) + lost
====
