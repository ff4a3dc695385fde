---- MODULE StoryQuota ----
(* The video stories of one member: at most so many shown at once, which the *)
(* database counts, and so many made in a day, which Redis counts once they  *)
(* are made. Each call of createStory is a step; the quota of bytes, read    *)
(* and written beside that of uploads, is left out.                          *)
EXTENDS Naturals, FiniteSets

CONSTANTS MaxActive,   \* VIDEO_MAX_ACTIVE_PER_USER
          MaxUploads,  \* VIDEO_MAX_UPLOADS_PER_DAY
          MaxDay,      \* bound: days
          Video,       \* stories that may be made
          Req          \* requests in flight at the same time

\* What is assumed of the constants.
CeilingAssumption ==
    /\ MaxActive \in Nat \ {0} /\ MaxUploads \in Nat \ {0} /\ MaxDay \in Nat
    /\ IsFiniteSet(Video) /\ IsFiniteSet(Req)

VARIABLES
    story,    \* "none", "active", "expired", "deleted" (deletedAt) of each video
    madeOn,   \* the day on which a video was created
    day,      \* the UTC day
    uploads,  \* video:uploads of that day
    missed,   \* history: videos that the counter missed
    pc        \* next step of each request

vars == <<story, madeOn, day, uploads, missed, pc>>

TypeOK ==
    /\ story \in [Video -> {"none", "active", "expired", "deleted"}]
    /\ madeOn \in [Video -> 0..MaxDay] /\ day \in 0..MaxDay
    /\ uploads \in Nat /\ missed \in Nat
    /\ pc \in [Req -> {"idle", "uploads", "create", "bump"}]

Init ==
    /\ story = [v \in Video |-> "none"]
    /\ madeOn = [v \in Video |-> 0] /\ day = 0
    /\ uploads = 0 /\ missed = 0
    /\ pc = [r \in Req |-> "idle"]

-----------------------------------------------------------------------------
Active == {v \in Video : story[v] = "active"}
Today == {v \in Video : story[v] # "none" /\ madeOn[v] = day}
Goto(r, step) == pc' = [pc EXCEPT ![r] = step]

\* createStory counts the videos that are shown...
CountActive(r) ==
    /\ pc[r] = "idle" /\ Cardinality(Active) < MaxActive
    /\ Goto(r, "uploads")
    /\ UNCHANGED <<story, madeOn, day, uploads, missed>>

\* ... reads the counter of the day...
ReadUploads(r) ==
    /\ pc[r] = "uploads" /\ uploads < MaxUploads
    /\ Goto(r, "create")
    /\ UNCHANGED <<story, madeOn, day, uploads, missed>>

\* ... looks at the object and creates the story...
Create(r, v) ==
    /\ pc[r] = "create" /\ story[v] = "none"
    /\ story' = [story EXCEPT ![v] = "active"]
    /\ madeOn' = [madeOn EXCEPT ![v] = day]
    /\ Goto(r, "bump")
    /\ UNCHANGED <<day, uploads, missed>>

\* ... and moves the counter of the day it is by then.
Bump(r) ==
    /\ pc[r] = "bump"
    /\ uploads' = uploads + 1
    /\ Goto(r, "idle")
    /\ UNCHANGED <<story, madeOn, day, missed>>

\* Redis fails, which is swallowed, or the API restarts.
Abort(r) ==
    /\ pc[r] # "idle"
    /\ missed' = IF pc[r] = "bump" THEN missed + 1 ELSE missed
    /\ Goto(r, "idle")
    /\ UNCHANGED <<story, madeOn, day, uploads>>

\* The next day has a counter of its own.
NewDay ==
    /\ day < MaxDay /\ day' = day + 1
    /\ uploads' = 0
    /\ UNCHANGED <<story, madeOn, missed, pc>>

\* A story ends after a day, and the job then marks it as deleted...
Expire(v) ==
    /\ story[v] = "active" /\ madeOn[v] < day
    /\ story' = [story EXCEPT ![v] = "expired"]
    /\ UNCHANGED <<madeOn, day, uploads, missed, pc>>

Sweep ==
    /\ \E v \in Video : story[v] = "expired"
    /\ story' = [v \in Video |-> IF story[v] = "expired" THEN "deleted" ELSE story[v]]
    /\ UNCHANGED <<madeOn, day, uploads, missed, pc>>

\* ... or its author does, which gives no upload back.
DeleteStory(v) ==
    /\ story[v] \in {"active", "expired"}
    /\ story' = [story EXCEPT ![v] = "deleted"]
    /\ UNCHANGED <<madeOn, day, uploads, missed, pc>>

Next ==
    \/ NewDay \/ Sweep
    \/ \E v \in Video : Expire(v) \/ DeleteStory(v) \/ \E r \in Req : Create(r, v)
    \/ \E r \in Req : CountActive(r) \/ ReadUploads(r) \/ Bump(r) \/ Abort(r)

Spec == Init /\ [][Next]_vars

-----------------------------------------------------------------------------
\* The ceilings are overrun by no more than the requests in flight: each of them may
\* have found the last room. What is made in a day is also counted but for what a
\* failure hid; nothing accumulates from one request to the next.
CeilingHolds ==
    /\ Cardinality(Active) < MaxActive + Cardinality(Req)
    /\ Cardinality(Today) < MaxUploads + Cardinality(Req) + missed
====
