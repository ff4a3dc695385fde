---- MODULE AnimationQueue ----
(* The queue of posts of the animation accounts: the deposits and reviews    *)
(* that fill it, the console that sets the cadences, and the sweep, started  *)
(* every five minutes whether or not the last one has ended, that publishes  *)
(* what is due within the weekly cap of each account and that of them all.   *)
EXTENDS Naturals, FiniteSets, FiniteSetsExt

CONSTANTS Bot,         \* animation accounts
          MaxItem,     \* bound: items, numbered in the order of scheduled_at
          Author,      \* the account of each item
          Held,        \* items parked as drafts at their deposit
          Broken,      \* items that the feed always refuses
          Sweep,       \* sweeps under way at the same time
          Reviewer,
          Batch,       \* items taken by one sweep
          MaxCap,      \* bound: posts in seven days, of all the accounts...
          MaxQuota,    \* ... and of each one
          MaxTrouble,  \* bound: failures of a statement, and restarts
          None

Item == 1..MaxItem

\* What is assumed of the constants.
ItemAssumption == MaxItem \in Nat /\ Author \in [Item -> Bot] /\ Held \subseteq Item
CadenceAssumption == /\ MaxCap \in Nat /\ MaxQuota \in Nat
                     /\ Batch \in Nat \ {0} /\ MaxTrouble \in Nat /\ None \notin Item

Status == {"none", "draft", "approved", "rejected", "published"}

VARIABLES
    status,     \* animation_posts.status; "none" before the deposit
    recent,     \* items whose published_at is within seven days
    awake,      \* accounts whose switch is on
    quota,      \* animation_bots.posts_per_week; 0 is allowed
    cap,        \* the setting animation_posts_per_week_cap; 0 puts all out
    posts,      \* history: how many times each item was posted in the feed
    disturbed,  \* history: items listed twice at once, posted and not marked,
                \*          or reviewed twice
    overlapped, \* history: a sweep counted the week while another published
    lowered,    \* history: a quota or the cap was lowered
    trouble,    \* history: failures and restarts so far
    reviewing,  \* the draft each reviewer has read
    pc,         \* next step of each sweep
    todo,       \* items each sweep has still to look at
    room,       \* posts each sweep still allows to each account...
    overall     \* ... and to all of them

cadence == <<awake, quota, cap>>
rows == <<status, recent, cadence>>
history == <<posts, disturbed, overlapped, lowered>>
sweeps == <<pc, todo, room, overall>>
vars == <<rows, history, trouble, reviewing, sweeps>>

TypeOK ==
    /\ status \in [Item -> Status]
    /\ recent \subseteq Item
    /\ awake \subseteq Bot
    /\ quota \in [Bot -> 0..MaxQuota]
    /\ cap \in 0..MaxCap
    /\ posts \in [Item -> Nat]
    /\ disturbed \subseteq Item
    /\ {overlapped, lowered} \subseteq BOOLEAN
    /\ trouble \in 0..MaxTrouble
    /\ reviewing \in [Reviewer -> Item \cup {None}]
    /\ pc \in [Sweep -> {"idle", "count", "publish", "mark"}]
    /\ todo \in [Sweep -> SUBSET Item]
    /\ room \in [Sweep -> [Bot -> 0..MaxQuota]]
    /\ overall \in [Sweep -> 0..MaxCap]
    /\ \A s \in Sweep : pc[s] = "idle" <=> todo[s] = {}

NoRoom == [b \in Bot |-> 0]

Init ==
    /\ status = [i \in Item |-> "none"]
    /\ recent = {}
    /\ awake = Bot
    /\ quota \in [Bot -> 0..MaxQuota]
    /\ cap \in 0..MaxCap
    /\ posts = [i \in Item |-> 0]
    /\ disturbed = {}
    /\ overlapped = FALSE
    /\ lowered = FALSE
    /\ trouble = 0
    /\ reviewing = [v \in Reviewer |-> None]
    /\ pc = [s \in Sweep |-> "idle"]
    /\ todo = [s \in Sweep |-> {}]
    /\ room = [s \in Sweep |-> NoRoom]
    /\ overall = [s \in Sweep |-> 0]

-----------------------------------------------------------------------------
(* The workshop and the console.                                             *)

\* A deposit, at the time it is for; one that is held stays a draft.
Enqueue(i) ==
    /\ status[i] = "none"
    /\ status' = [status EXCEPT ![i] = IF i \in Held THEN "draft" ELSE "approved"]
    /\ UNCHANGED <<recent, cadence, history, trouble, reviewing, sweeps>>

ReviewRead(v, i) ==
    /\ reviewing[v] = None
    /\ status[i] = "draft"
    /\ reviewing' = [reviewing EXCEPT ![v] = i]
    /\ UNCHANGED <<rows, history, trouble, sweeps>>

\* The verdict is written by id, whatever another reviewer made of the draft.
ReviewWrite(v) ==
    /\ reviewing[v] # None
    /\ LET i == reviewing[v] IN
        /\ \E st \in {"approved", "rejected"} : status' = [status EXCEPT ![i] = st]
        /\ disturbed' = disturbed \cup {j \in {i} : status[j] # "draft"}
    /\ reviewing' = [reviewing EXCEPT ![v] = None]
    /\ UNCHANGED <<recent, cadence, posts, overlapped, lowered, trouble, sweeps>>

\* The console sets the switch and the cadence of an account, at any time.
UpdateBot(b) ==
    /\ awake' \in {awake \cup {b}, awake \ {b}}
    /\ \E n \in 0..MaxQuota :
        /\ quota' = [quota EXCEPT ![b] = n]
        /\ lowered' = (lowered \/ n < quota[b])
    /\ UNCHANGED <<status, recent, cap, posts, disturbed, overlapped, trouble, reviewing, sweeps>>

SetCap(n) ==
    /\ cap' = n
    /\ lowered' = (lowered \/ n < cap)
    /\ UNCHANGED <<status, recent, awake, quota, posts, disturbed, overlapped, trouble, reviewing, sweeps>>

\* Seven days have passed since the item was published.
Age(i) ==
    /\ i \in recent
    /\ recent' = recent \ {i}
    /\ UNCHANGED <<status, cadence, history, trouble, reviewing, sweeps>>

-----------------------------------------------------------------------------
(* publishDue.                                                               *)

Due == {i \in Item : status[i] = "approved" /\ Author[i] \in awake}
Head == {i \in Due : Cardinality({j \in Due : j < i}) < Batch}
Published == {i \in recent : status[i] = "published"}
Sent(b) == {i \in Published : Author[i] = b}

Others(s) == Sweep \ {s}
InHand(s) == UNION {todo[t] : t \in Others(s)}

\* The sweep lists the oldest items that are due...
List(s) ==
    /\ pc[s] = "idle" /\ Due # {}
    /\ todo' = [todo EXCEPT ![s] = Head]
    /\ disturbed' = disturbed \cup (Head \cap InHand(s))
    /\ pc' = [pc EXCEPT ![s] = "count"]
    /\ UNCHANGED <<rows, posts, overlapped, lowered, trouble, reviewing, room, overall>>

\* ... and reads, once, the cadences and what the week has had.
Left(limit, sent) == IF sent < limit THEN limit - sent ELSE 0
Count(s) ==
    /\ pc[s] = "count"
    /\ room' = [room EXCEPT ![s] = [b \in Bot |-> Left(quota[b], Cardinality(Sent(b)))]]
    /\ overall' = [overall EXCEPT ![s] = Left(cap, Cardinality(Published))]
    /\ overlapped' = (overlapped \/ \E t \in Others(s) : pc[t] \in {"publish", "mark"})
    /\ pc' = [pc EXCEPT ![s] = "publish"]
    /\ UNCHANGED <<rows, posts, disturbed, lowered, trouble, reviewing, todo>>

First(s) == Min(todo[s])

\* The caps of the platform and of the account.
Allowed(s, i) == overall[s] > 0 /\ room[s][Author[i]] > 0

\* On to the next item, or to the end of the sweep. (Bug: one item too many.)
AdvanceBug(s, week, all) ==
    /\ todo' = [todo EXCEPT ![s] = @ \ {First(s)}]
    /\ pc' = [pc EXCEPT ![s] = IF todo[s] = {} THEN "idle" ELSE "publish"]
    /\ room' = [room EXCEPT ![s] = week]
    /\ overall' = [overall EXCEPT ![s] = all]
Advance(s, week, all) ==
    LET rest == todo[s] \ {First(s)} IN
    /\ todo' = [todo EXCEPT ![s] = rest]
    /\ pc' = [pc EXCEPT ![s] = IF rest = {} THEN "idle" ELSE "publish"]
    /\ room' = [room EXCEPT ![s] = IF rest = {} THEN NoRoom ELSE week]
    /\ overall' = [overall EXCEPT ![s] = IF rest = {} THEN 0 ELSE all]

Postpone(s) ==
    /\ pc[s] = "publish"
    /\ ~Allowed(s, First(s))
    /\ Advance(s, room[s], overall[s])
    /\ UNCHANGED <<rows, history, trouble, reviewing>>

Create(s) ==
    /\ pc[s] = "publish"
    /\ Allowed(s, First(s)) /\ First(s) \notin Broken
    /\ posts' = [posts EXCEPT ![First(s)] = @ + 1]
    /\ pc' = [pc EXCEPT ![s] = "mark"]
    /\ UNCHANGED <<rows, disturbed, overlapped, lowered, trouble, reviewing, todo, room, overall>>

\* A broken item does not hold those behind it. (Bug: it ends the sweep.)
RefusedBug(s) ==
    /\ pc[s] = "publish"
    /\ Allowed(s, First(s)) /\ First(s) \in Broken
    /\ todo' = [todo EXCEPT ![s] = {}]
    /\ pc' = [pc EXCEPT ![s] = "idle"]
    /\ room' = [room EXCEPT ![s] = NoRoom]
    /\ overall' = [overall EXCEPT ![s] = 0]
    /\ UNCHANGED <<rows, history, trouble, reviewing>>
Refused(s) ==
    /\ pc[s] = "publish"
    /\ Allowed(s, First(s)) /\ First(s) \in Broken
    /\ Advance(s, room[s], overall[s])
    /\ UNCHANGED <<rows, history, trouble, reviewing>>

\* The row is marked and the sweep counts the post. (Bug: it does not count it.)
MarkBug(s) ==
    /\ pc[s] = "mark"
    /\ status' = [status EXCEPT ![First(s)] = "published"]
    /\ recent' = recent \cup {First(s)}
    /\ Advance(s, room[s], overall[s])
    /\ UNCHANGED <<cadence, history, trouble, reviewing>>
Mark(s) ==
    /\ pc[s] = "mark"
    /\ status' = [status EXCEPT ![First(s)] = "published"]
    /\ recent' = recent \cup {First(s)}
    /\ Advance(s, [room[s] EXCEPT ![Author[First(s)]] = @ - 1], overall[s] - 1)
    /\ UNCHANGED <<cadence, history, trouble, reviewing>>

\* A statement fails: the item stays in the queue, though it may be in the feed.
Fail(s) ==
    /\ pc[s] \in {"publish", "mark"}
    /\ trouble < MaxTrouble /\ trouble' = trouble + 1
    /\ disturbed' = disturbed \cup {i \in {First(s)} : pc[s] = "mark"}
    /\ Advance(s, room[s], overall[s])
    /\ UNCHANGED <<rows, posts, overlapped, lowered, reviewing>>

Restart ==
    /\ \E s \in Sweep : pc[s] # "idle"
    /\ trouble < MaxTrouble /\ trouble' = trouble + 1
    /\ disturbed' = disturbed \cup {First(s) : s \in {t \in Sweep : pc[t] = "mark"}}
    /\ pc' = [s \in Sweep |-> "idle"]
    /\ todo' = [s \in Sweep |-> {}]
    /\ room' = [s \in Sweep |-> NoRoom]
    /\ overall' = [s \in Sweep |-> 0]
    /\ reviewing' = [v \in Reviewer |-> None]
    /\ UNCHANGED <<rows, posts, overlapped, lowered>>

-----------------------------------------------------------------------------
Step(s) ==
    \/ List(s) \/ Count(s) \/ Postpone(s)
    \/ Create(s) \/ Refused(s) \/ Mark(s)

Next ==
    \/ \E i \in Item : Enqueue(i) \/ Age(i)
    \/ (\E b \in Bot : UpdateBot(b)) \/ \E n \in 0..MaxCap : SetCap(n)
    \/ \E v \in Reviewer : ReviewWrite(v) \/ \E i \in Item : ReviewRead(v, i)
    \/ \E s \in Sweep : Step(s) \/ Fail(s)
    \/ Restart

\* The timer starts sweeps for ever, some sweep goes on, and the days pass.
Fairness ==
    /\ WF_vars(\E s \in Sweep : Step(s))
    /\ \A i \in Item : WF_vars(Age(i))

Spec == Init /\ [][Next]_vars /\ Fairness

-----------------------------------------------------------------------------
\* An item is posted once, unless two sweeps had it in hand, its mark was lost,
\* or two reviewers had it.
PostedOnce == \A i \in Item : posts[i] > 1 => i \in disturbed

\* The marked posts of any seven days stay within the caps, unless a sweep
\* counted while another was publishing, or a cap was lowered under them.
CadenceHeld ==
    \/ overlapped \/ lowered
    \/ /\ \A b \in Bot : Cardinality(Sent(b)) <= quota[b]
       /\ Cardinality(Published) <= cap

\* What goes out of the queue goes out once and at its pace, but for overlaps,
\* restarts, lost marks and lowered caps.
QueueDiscipline == PostedOnce /\ CadenceHeld

\* What is due and will not go: the broken items, and those of an account that is
\* awake and may post nothing.
Stuck == {i \in Due : i \in Broken \/ quota[Author[i]] = 0}

\* Nothing is lost, all is postponed: once the console leaves the cadences as they
\* are, an approved item leaves the queue in the end, behind broken items, full
\* weeks and accounts put at zero alike, if its own account is awake and not at
\* zero, the cap is not either, and fewer items are stuck than a sweep takes. As
\* many as that, at the head of the queue, do hold all the others for ever.
Steady == <>[][UNCHANGED cadence]_vars
QueueMoves ==
    \A i \in Item \ Broken :
        /\ Steady
        /\ <>[](/\ Author[i] \in awake /\ quota[Author[i]] > 0 /\ cap > 0
               /\ Cardinality(Stuck) < Batch)
        => (status[i] = "approved" ~> status[i] # "approved")
====
