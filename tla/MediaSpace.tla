---- MODULE MediaSpace ----
(* The disk an association may fill with the photos of its publications: the *)
(* objects of its space in the public bucket, the posts that show them, and  *)
(* media_bytes, which a publication claims and a deletion gives back. The    *)
(* store and the database change one after the other, call by call.          *)
EXTENDS Naturals, FiniteSets, Functions

CONSTANTS Post,
          Object,  \* objects of the space, each named by its size in bytes
          Quota,   \* ASSOCIATION_MEDIA_QUOTA_BYTES
          Req,     \* requests in flight at the same time
          None

\* What is assumed of the constants.
SizeAssumption == /\ Object \subseteq Nat \ {0} /\ Quota \in Nat
                  /\ IsFiniteSet(Post) /\ IsFiniteSet(Req)
NoneFresh == None \notin Post \cup Object

VARIABLES
    post,     \* "none", "live", "deleted" (deletedAt), or "gone" with its author
    media,    \* the object a post shows
    stored,   \* objects the bucket holds
    used,     \* associations.media_bytes
    lost,     \* history: bytes whose return a failure, or another request, prevented
    pc, req   \* next step of each request, and what it has read so far

vars == <<post, media, stored, used, lost, pc, req>>

PC == {"idle", "claim", "size", "purge", "hide", "give", "floor"}
Ask(p, o, n, s) == [post |-> p, object |-> o, freed |-> n, short |-> s]
Blank == Ask(None, None, 0, FALSE)

TypeOK ==
    /\ post \in [Post -> {"none", "live", "deleted", "gone"}]
    /\ media \in [Post -> Object \cup {None}]
    /\ \A p \in Post : post[p] = "live" => media[p] # None
    /\ stored \subseteq Object
    /\ used \in 0..Quota /\ lost \in Nat
    /\ pc \in [Req -> PC]
    /\ req \in [Req -> [post : Post \cup {None}, object : Object \cup {None},
                        freed : Object \cup {0}, short : BOOLEAN]]

\* The photos are uploaded before they are published.
Init ==
    /\ post = [p \in Post |-> "none"] /\ media = [p \in Post |-> None]
    /\ stored = Object
    /\ used = 0 /\ lost = 0
    /\ pc = [r \in Req |-> "idle"]
    /\ req = [r \in Req |-> Blank]

-----------------------------------------------------------------------------
Goto(r, step, rec) ==
    /\ pc' = [pc EXCEPT ![r] = step]
    /\ req' = [req EXCEPT ![r] = rec]

Leave(r) == Goto(r, "idle", Blank)

\* create: the object must be in the store...
Bind(r, p, o) ==
    /\ pc[r] = "idle"
    /\ post[p] = "none" /\ \A q \in Req : req[q].post # p
    /\ o \in stored
    /\ Goto(r, "claim", Ask(p, o, 0, FALSE))
    /\ UNCHANGED <<post, media, stored, used, lost>>

\* ... then one transaction claims its bytes, if there is still room for them, and
\* creates the post.
Claim(r) ==
    /\ pc[r] = "claim"
    /\ used + req[r].object <= Quota
    /\ used' = used + req[r].object
    /\ post' = [post EXCEPT ![req[r].post] = "live"]
    /\ media' = [media EXCEPT ![req[r].post] = req[r].object]
    /\ Leave(r)
    /\ UNCHANGED <<stored, lost>>

\* softDelete, by the author of a post that is live.
DeleteRead(r, p) ==
    /\ pc[r] = "idle" /\ post[p] = "live"
    /\ Goto(r, "size", Ask(p, media[p], 0, FALSE))
    /\ UNCHANGED <<post, media, stored, used, lost>>

\* removeContent purges the object of a reported post, and gives nothing back.
TakeDown(r, p) ==
    /\ pc[r] = "idle" /\ post[p] \in {"live", "deleted"}
    /\ Goto(r, "purge", Ask(p, media[p], 0, FALSE))
    /\ UNCHANGED <<post, media, stored, used, lost>>

\* objectSize: zero for an object that is not there, and for any error.
SizeOf(r) ==
    /\ pc[r] = "size"
    /\ \E n \in {0} \cup (stored \cap {req[r].object}) :
            Goto(r, "purge", [req[r] EXCEPT !.freed = n])
    /\ UNCHANGED <<post, media, stored, used, lost>>

\* deleteObject, whose errors are only logged.
Purge(r) ==
    /\ pc[r] = "purge"
    /\ stored' \in {stored, stored \ {req[r].object}}
    /\ Goto(r, "hide", req[r])
    /\ UNCHANGED <<post, media, used, lost>>

\* The post is marked as deleted, unless its row has gone.
Hide(r) ==
    /\ pc[r] = "hide"
    /\ post[req[r].post] \in {"live", "deleted"}
    /\ post' = [post EXCEPT ![req[r].post] = "deleted"]
    /\ lost' = IF post[req[r].post] = "live" THEN lost + req[r].object - req[r].freed ELSE lost
    /\ IF req[r].freed > 0 THEN Goto(r, "give", req[r]) ELSE Leave(r)
    /\ UNCHANGED <<media, stored, used>>

\* The bytes come back by two updates in a row: the first takes them off a counter
\* that holds them...
\* (Bug: a counter of exactly these bytes is not enough for it.)
DecrementBug(r) ==
    /\ pc[r] = "give"
    /\ used' = IF used > req[r].freed THEN used - req[r].freed ELSE used
    /\ Goto(r, "floor", [req[r] EXCEPT !.short = used < req[r].freed])
    /\ UNCHANGED <<post, media, stored, lost>>
Decrement(r) ==
    /\ pc[r] = "give"
    /\ used' = IF used >= req[r].freed THEN used - req[r].freed ELSE used
    /\ Goto(r, "floor", [req[r] EXCEPT !.short = used < req[r].freed])
    /\ UNCHANGED <<post, media, stored, lost>>

\* ... the second sets to zero one that holds fewer, also when the first has just
\* made it so. A claim in between may leave both without effect.
Floor(r) ==
    LET n == req[r].freed IN
    /\ pc[r] = "floor"
    /\ used' = IF used < n THEN 0 ELSE used
    /\ lost' = IF req[r].short /\ used >= n THEN lost + n ELSE lost
    /\ Leave(r)
    /\ UNCHANGED <<post, media, stored>>

\* A call fails, or the API restarts: bytes that were to come back do not.
Abort(r) ==
    /\ pc[r] # "idle"
    /\ lost' = IF pc[r] = "give" \/ req[r].short THEN lost + req[r].freed ELSE lost
    /\ Leave(r)
    /\ UNCHANGED <<post, media, stored, used>>

\* The account of an author is deleted: the post goes with it, its object stays.
DeleteAuthor(p) ==
    /\ post[p] \in {"live", "deleted"}
    /\ post' = [post EXCEPT ![p] = "gone"]
    /\ lost' = IF post[p] = "live" THEN lost + media[p] ELSE lost
    /\ UNCHANGED <<media, stored, used, pc, req>>

Next ==
    \/ \E p \in Post : DeleteAuthor(p)
    \/ \E r \in Req :
        \/ \E p \in Post : DeleteRead(r, p) \/ TakeDown(r, p) \/ \E o \in Object : Bind(r, p, o)
        \/ Claim(r) \/ SizeOf(r) \/ Purge(r) \/ Hide(r) \/ Decrement(r) \/ Floor(r) \/ Abort(r)

Spec == Init /\ [][Next]_vars

-----------------------------------------------------------------------------
Shown == {p \in Post : post[p] = "live"}
BytesShown == SumFunctionOnSet(media, Shown)
Returning == {r \in Req : pc[r] = "give" \/ req[r].short}
BytesReturning == SumFunctionOnSet([r \in Req |-> req[r].freed], Returning)

\* The room of an association is never held for nothing: what its counter holds is
\* shown by its publications, on its way back, or was lost to a failure that the
\* code accepts. Whoever publishes, deletes twice or moderates in between.
RoomComesBack == used <= BytesShown + BytesReturning + lost

\* The counter "measures what sits on the disk right now" (association-storage.ts):
\* it is never below what the publications of the association show.
MeasuresTheDisk == used >= BytesShown
====
