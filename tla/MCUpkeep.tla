---- MODULE MCUpkeep ----
(* The jobs that write to many: each behaviour is one of Campaigns, Nudges   *)
(* or AnimationQueue. In the last, either two sweeps overlap while the       *)
(* console is quiet, or one sweep meets two reviewers and the switches, or   *)
(* one reviewer and cadences that are set anew at any time, 0 included.      *)
EXTENDS Campaigns

CONSTANTS Bot, MaxItem, Held, Broken, Sweep, Reviewer, Batch, MaxCap, MaxQuota, MaxTrouble,
          Member, Few, None

MCAuthor == [i \in 1..MaxItem |-> IF i < MaxItem THEN "b1" ELSE "b2"]

VARIABLES part,
          state, recent, awake, quota, cap, posts, disturbed, overlapped, lowered,
          trouble, reviewing, sweepPc, todo, room, overall,
          kind, wants, stamped, got, crossed, held, sending

Queue == INSTANCE AnimationQueue WITH Author <- MCAuthor, status <- state, pc <- sweepPc
Nudge == INSTANCE Nudges WITH Batch <- Few, todo <- held

mailing == <<status, excluded, subscribed, sentCount, mails, stranded, pc, req>>
queue == <<state, recent, awake, quota, cap, posts, disturbed, overlapped, lowered,
           trouble, reviewing, sweepPc, todo, room, overall>>
nudges == <<kind, wants, stamped, got, crossed, held, sending>>

ASSUME PartsAssumption ==
    /\ Queue!ItemAssumption /\ Queue!CadenceAssumption
    /\ Nudge!BatchAssumption /\ Nudge!NoneFresh

Queued == {"sweeps", "console", "cadences"}

MCInit ==
    /\ part \in {"mailing", "nudges"} \cup Queued
    /\ Init /\ Queue!Init /\ Nudge!Init
    /\ part # "mailing" => subscribed = {}
    /\ part # "nudges" => kind = "digest"
    /\ part # "cadences" => cap = MaxCap /\ \A b \in Bot : quota[b] = MaxQuota

\* Each part leaves some sweep free to go on, which is all that fairness asks.
OneReviewer == Cardinality({v \in Reviewer : reviewing'[v] # None}) < 2
OneSweep == Cardinality({s \in Sweep : sweepPc'[s] # "idle"}) < 2
Small ==
    CASE part = "sweeps" -> OneReviewer /\ UNCHANGED Queue!cadence
      [] part = "console" -> OneSweep /\ UNCHANGED <<quota, cap>>
      [] part = "cadences" -> OneSweep /\ OneReviewer

MCNext ==
    /\ UNCHANGED part
    /\ \/ part = "mailing" /\ Next /\ UNCHANGED <<queue, nudges>>
       \/ /\ part \in Queued
          /\ Queue!Next /\ Small
          /\ UNCHANGED <<mailing, nudges>>
       \/ part = "nudges" /\ Nudge!Next /\ UNCHANGED <<mailing, queue>>

MCSpec == /\ MCInit /\ [][MCNext]_<<part, mailing, queue, nudges>>
          /\ Fairness /\ Queue!Fairness

-----------------------------------------------------------------------------
\* The properties of the parts, stated and explained in their modules.
PartsTyped == TypeOK /\ Queue!TypeOK /\ Nudge!TypeOK
QueueDiscipline == Queue!QueueDiscipline
QueueMoves == Queue!QueueMoves

\* Nobody is written to twice by one campaign, nor by two sweeps of a digest or a
\* reminder that do not hold the same member at once.
SentOnce == SentOnceAndCounted /\ Nudge!NudgedOnce
====
