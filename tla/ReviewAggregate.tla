---- MODULE ReviewAggregate ----
(* The reviews of one member or page, and the rating shown for it. A review  *)
(* is written or removed, and the rating computed again, by one READ         *)
(* COMMITTED transaction, which locks its row and, at the end, the target.   *)
EXTENDS Naturals, FiniteSets, FiniteSetsExt

CONSTANTS Author,     \* members who may review the target
          MaxRating,  \* bound: ratings go from one to this
          Req,        \* requests in flight at the same time
          None

\* What is assumed of the constants.
RatingAssumption == MaxRating \in Nat \ {0}
NoneFresh == None \notin Author \cup Req

Rating == 1..MaxRating
NoReview == 0

VARIABLES
    review,  \* the rating each author has given, in the rows that are committed
    shown,   \* rating_count and the sum of which rating_avg is the mean
    stale,   \* history: the last change to the reviews met another one
    alone,   \* requests that met no other change since they began
    gone,    \* accounts deleted
    pc, req  \* next step of each transaction, its author, its change, what it summed

vars == <<review, shown, stale, alone, gone, pc, req>>

Total(f) == [count |-> Cardinality({a \in Author : f[a] # NoReview}),
             sum |-> MapThenSumSet(LAMBDA a : f[a], Author)]
Ask(a, n, t) == [author |-> a, rating |-> n, total |-> t]
Totals == {Total(f) : f \in [Author -> Rating \cup {NoReview}]}
NoTotal == Total([a \in Author |-> NoReview])
Blank == Ask(None, NoReview, NoTotal)

TypeOK ==
    /\ review \in [Author -> Rating \cup {NoReview}]
    /\ shown \in Totals
    /\ stale \in BOOLEAN /\ alone \subseteq Req /\ gone \subseteq Author
    /\ pc \in [Req -> {"idle", "write", "recompute", "store"}]
    /\ req \in [Req -> [author : Author \cup {None}, rating : Rating \cup {NoReview},
                        total : Totals]]

Init ==
    /\ review = [a \in Author |-> NoReview]
    /\ shown = NoTotal
    /\ stale = FALSE /\ alone = {} /\ gone = {}
    /\ pc = [r \in Req |-> "idle"]
    /\ req = [r \in Req |-> Blank]

-----------------------------------------------------------------------------
Goto(r, step, rec) ==
    /\ pc' = [pc EXCEPT ![r] = step]
    /\ req' = [req EXCEPT ![r] = rec]

Busy == {r \in Req : pc[r] # "idle"}
Written(r) == pc[r] \in {"recompute", "store"}

\* upsert, or remove of a review that is there (rating NoReview).
Begin(r, a, n) ==
    /\ pc[r] = "idle" /\ a \notin gone
    /\ n = NoReview => review[a] # NoReview
    /\ Goto(r, "write", Ask(a, n, NoTotal))
    /\ alone' = IF Busy = {} THEN alone \cup {r} ELSE {}
    /\ UNCHANGED <<review, shown, stale, gone>>

\* The row of the author waits for the transaction that has changed it; a removal
\* that finds no row any more fails (one written anew meanwhile is taken for it).
Write(r) ==
    /\ pc[r] = "write"
    /\ \A q \in Req : Written(q) => req[q].author # req[r].author
    /\ req[r].rating = NoReview => review[req[r].author] # NoReview
    /\ Goto(r, "recompute", req[r])
    /\ UNCHANGED <<review, shown, stale, alone, gone>>

\* recomputeAggregate sees the committed rows and its own change...
Recompute(r) ==
    /\ pc[r] = "recompute"
    /\ Goto(r, "store", [req[r] EXCEPT
            !.total = Total([review EXCEPT ![req[r].author] = req[r].rating])])
    /\ UNCHANGED <<review, shown, stale, alone, gone>>

\* ... and stores the rating on the target, which commits.
Commit(r) ==
    /\ pc[r] = "store" /\ req[r].author \notin gone
    /\ review' = [review EXCEPT ![req[r].author] = req[r].rating]
    /\ shown' = req[r].total
    /\ stale' = (r \notin alone)
    /\ alone' = alone \ {r}
    /\ Goto(r, "idle", Blank)
    /\ UNCHANGED gone

\* A statement fails, and the transaction with it.
Abort(r) ==
    /\ r \in Busy
    /\ alone' = alone \ {r}
    /\ Goto(r, "idle", Blank)
    /\ UNCHANGED <<review, shown, stale, gone>>

\* The account of an author is deleted, and its review goes without a computation.
DeleteAccount(a) ==
    /\ a \notin gone /\ gone' = gone \cup {a}
    /\ review' = [review EXCEPT ![a] = NoReview]
    /\ alone' = {}
    /\ stale' = (stale \/ review[a] # NoReview)
    /\ UNCHANGED <<shown, pc, req>>

Next ==
    \/ \E a \in Author : DeleteAccount(a)
    \/ \E r \in Req :
        \/ \E a \in Author, n \in Rating \cup {NoReview} : Begin(r, a, n)
        \/ Write(r) \/ Recompute(r) \/ Commit(r) \/ Abort(r)

Spec == Init /\ [][Next]_vars

-----------------------------------------------------------------------------
\* The rating shown is that of the reviews: two that meet, or the deletion of an
\* account, may leave it wrong, and the next review taken alone repairs it.
RatingExact == stale \/ shown = Total(review)
====
