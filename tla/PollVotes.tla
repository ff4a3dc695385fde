---- MODULE PollVotes ----
(* The votes of one poll and the counts kept beside them. A vote is one READ *)
(* COMMITTED transaction: it replaces the rows of the member, counts all the *)
(* rows it can see, stores the counts of the options, which locks them, then *)
(* counts the voters.                                                        *)
EXTENDS Naturals, FiniteSets

CONSTANTS Voter, Option, Multi,  \* Multi: poll.multi_choice
          Req,                   \* requests in flight at the same time
          None

\* What is assumed of the constants.
MultiAssumption == Multi \in BOOLEAN /\ IsFiniteSet(Voter) /\ IsFiniteSet(Option)
NoneFresh == None \notin Voter \cup Req

VARIABLES
    rows,         \* poll_votes that are committed: pairs of a voter and an option
    optionCount,  \* poll_options.vote_count
    voterCount,   \* polls.vote_count
    lock,         \* the request whose transaction holds the rows of the options
    alone,        \* requests that met no other change since they began
    stale,        \* history: the last change to the votes met another one
    gone,         \* accounts deleted
    pc, req       \* next step of each transaction, and what it has done so far

vars == <<rows, optionCount, voterCount, lock, alone, stale, gone, pc, req>>

Choice == {S \in SUBSET Option : Multi \/ Cardinality(S) <= 1}
NoCount == [o \in Option |-> 0]
Ask(u, S, del, c) == [user |-> u, choice |-> S, dropped |-> del, count |-> c]
Blank == Ask(None, {}, {}, NoCount)

TypeOK ==
    /\ rows \subseteq Voter \X Option
    /\ optionCount \in [Option -> Nat] /\ voterCount \in Nat
    /\ lock \in Req \cup {None}
    /\ alone \subseteq Req /\ stale \in BOOLEAN
    /\ gone \subseteq Voter
    /\ pc \in [Req -> {"idle", "replace", "count", "store", "voters"}]
    /\ req \in [Req -> [user : Voter \cup {None}, choice : SUBSET Option,
                        dropped : SUBSET (Voter \X Option), count : [Option -> Nat]]]

Init ==
    /\ rows = {}
    /\ optionCount = NoCount /\ voterCount = 0
    /\ lock = None
    /\ alone = {} /\ stale = FALSE
    /\ gone = {}
    /\ pc = [r \in Req |-> "idle"]
    /\ req = [r \in Req |-> Blank]

-----------------------------------------------------------------------------
Goto(r, step, rec) ==
    /\ pc' = [pc EXCEPT ![r] = step]
    /\ req' = [req EXCEPT ![r] = rec]

Busy == {r \in Req : pc[r] # "idle"}

\* What a transaction sees: the committed rows, and its own changes.
Seen(r) == (rows \ req[r].dropped) \cup ({req[r].user} \X req[r].choice)
Count(S, o) == Cardinality({v \in S : v[2] = o})
Voters(S) == {v[1] : v \in S}

\* vote, or retractVote when nothing is chosen. The deletion finds the rows of the
\* member that are committed...
Begin(r, u, S) ==
    /\ pc[r] = "idle" /\ u \notin gone
    /\ S = {} => \E o \in Option : <<u, o>> \in rows
    /\ Goto(r, "replace", Ask(u, S, rows \cap ({u} \X Option), NoCount))
    /\ alone' = IF Busy = {} THEN alone \cup {r} ELSE {}
    /\ UNCHANGED <<rows, optionCount, voterCount, lock, stale, gone>>

\* ... and waits for those that another transaction has deleted or inserted; the
\* key refuses a row twice.
Replace(r) ==
    LET new == {req[r].user} \X req[r].choice IN
    /\ pc[r] = "replace"
    /\ \A q \in Busy \ {r} : pc[q] # "replace" /\ req[q].user = req[r].user =>
            req[q].dropped \cap req[r].dropped = {} /\ req[q].choice \cap req[r].choice = {}
    /\ new \cap (rows \ req[r].dropped) = {}
    /\ Goto(r, "count", req[r])
    /\ UNCHANGED <<rows, optionCount, voterCount, lock, alone, stale, gone>>

\* recount groups the votes by option...
Group(r) ==
    /\ pc[r] = "count"
    /\ Goto(r, "store", [req[r] EXCEPT !.count = [o \in Option |-> Count(Seen(r), o)]])
    /\ UNCHANGED <<rows, optionCount, voterCount, lock, alone, stale, gone>>

\* ... and updates the options, once no other transaction holds them...
Store(r) ==
    /\ pc[r] = "store" /\ lock = None
    /\ lock' = r
    /\ pc' = [pc EXCEPT ![r] = "voters"]
    /\ UNCHANGED <<rows, optionCount, voterCount, alone, stale, gone, req>>

\* ... then counts the voters, as the votes are now, and commits.
\* (Bug: the voters are counted as rows.)
CommitBug(r) ==
    /\ pc[r] = "voters" /\ req[r].user \notin gone
    /\ rows' = Seen(r)
    /\ optionCount' = req[r].count
    /\ voterCount' = Cardinality(Seen(r))
    /\ lock' = None
    /\ stale' = (r \notin alone)
    /\ alone' = alone \ {r}
    /\ Goto(r, "idle", Blank)
    /\ UNCHANGED gone
Commit(r) ==
    /\ pc[r] = "voters" /\ req[r].user \notin gone
    /\ rows' = Seen(r)
    /\ optionCount' = req[r].count
    /\ voterCount' = Cardinality(Voters(Seen(r)))
    /\ lock' = None
    /\ stale' = (r \notin alone)
    /\ alone' = alone \ {r}
    /\ Goto(r, "idle", Blank)
    /\ UNCHANGED gone

\* A statement fails, and the transaction with it.
Abort(r) ==
    /\ r \in Busy
    /\ lock' = IF lock = r THEN None ELSE lock
    /\ alone' = alone \ {r}
    /\ Goto(r, "idle", Blank)
    /\ UNCHANGED <<rows, optionCount, voterCount, stale, gone>>

\* The account of a member is deleted, and its votes go without a recount.
DeleteAccount(u) ==
    /\ u \notin gone /\ gone' = gone \cup {u}
    /\ rows' = rows \ ({u} \X Option)
    /\ alone' = {}
    /\ stale' = (stale \/ u \in Voters(rows))
    /\ UNCHANGED <<optionCount, voterCount, lock, pc, req>>

Next ==
    \/ \E u \in Voter : DeleteAccount(u)
    \/ \E r \in Req :
        \/ \E u \in Voter, S \in Choice : Begin(r, u, S)
        \/ Replace(r) \/ Group(r) \/ Store(r) \/ Commit(r) \/ Abort(r)

Spec == Init /\ [][Next]_vars

\* The counts of a poll are those of its votes, whoever votes again or retracts:
\* a vote that meets another may leave them wrong, and the next one repairs them.
PollExact ==
    stale \/ /\ \A o \in Option : optionCount[o] = Count(rows, o)
             /\ voterCount = Cardinality(Voters(rows))
====
