---- MODULE MCStorage ----
(* What the members keep in the object store: each behaviour is one of       *)
(* IdentityLifecycle (one document, four archive ids, one fault), MediaSpace *)
(* or StoryQuota, and the other parts stay as they began.                    *)
EXTENDS IdentityLifecycle

CONSTANTS Post, Object, Quota, Video, MaxActive, MaxUploads, MaxDay, Req, None

VARIABLES part,
          post, media, stored, used, lost, pc, req,
          story, madeOn, day, uploads, missed, storyPc

Space == INSTANCE MediaSpace
Stories == INSTANCE StoryQuota WITH pc <- storyPc

space == <<post, media, stored, used, lost, pc, req>>
stories == <<story, madeOn, day, uploads, missed, storyPc>>

ASSUME PartsAssumption ==
    Space!SizeAssumption /\ Space!NoneFresh /\ Stories!CeilingAssumption

MCInit ==
    /\ part \in {"documents", "space", "stories"}
    /\ Init /\ Space!Init /\ Stories!Init

MCNext ==
    /\ UNCHANGED part
    /\ \/ part = "documents" /\ Next /\ UNCHANGED <<space, stories>>
       \/ part = "space" /\ Space!Next /\ UNCHANGED <<vars, stories>>
       \/ part = "stories" /\ Stories!Next /\ UNCHANGED <<vars, space>>

MCSpec == MCInit /\ [][MCNext]_<<part, vars, space, stories>> /\ WF_vars(Cron)

-----------------------------------------------------------------------------
\* The ceilings of what is published, stated and explained in their modules: the
\* disk of an association, the video stories of a member.
QuotasHold == Space!RoomComesBack /\ Stories!CeilingHolds
====
