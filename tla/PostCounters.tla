---- MODULE PostCounters ----
(* The two counters of one post: its reactions (likes.service.ts) and its    *)
(* comments, a tree of three levels (comments.service.ts). Each write of a   *)
(* row moves its counter in one transaction, from what was read before it.   *)
EXTENDS Integers, FiniteSets

CONSTANTS User, Emoji,
          Req,         \* requests in flight at the same time
          MaxComment,  \* bound: comments made
          None

\* What is assumed of the constants.
CommentAssumption == MaxComment \in Nat /\ IsFiniteSet(User)
NoneFresh == None \notin User \cup Emoji \cup Nat

Comment == 1..MaxComment

VARIABLES
    members,       \* accounts that exist
    reaction,      \* likes: the emoji of each member
    likeCount,     \* posts.like_count
    made,          \* comments made so far
    rows, live,    \* comments: those in the table, those without deleted_at
    author, parent,
    commentCount,  \* posts.comment_count
    lostLikes,     \* history: reactions that went with an account
    lostComments,  \* history: live comments that went with an account, or that
                   \*          the moderation took down
    crossed,       \* history: something was removed while a deletion was under way
    pc, req        \* next step of each request, and what it remembers

likes == <<reaction, likeCount, lostLikes>>
comments == <<made, rows, live, author, parent, commentCount, lostComments, crossed>>
vars == <<members, likes, comments, pc, req>>

Ask(u, e, s, c, i) == [user |-> u, emoji |-> e, seen |-> s, comment |-> c, ids |-> i]
Blank == Ask(None, None, None, None, {})
PC == {"idle", "like", "reply", "children", "erase"}

TypeOK ==
    /\ members \subseteq User
    /\ reaction \in [User -> Emoji \cup {None}]
    /\ likeCount \in Nat /\ lostLikes \in Nat
    /\ made \in 0..MaxComment
    /\ rows \subseteq 1..made /\ live \subseteq rows
    /\ author \in [Comment -> User \cup {None}]
    /\ parent \in [Comment -> Comment \cup {None}]
    /\ commentCount \in Int /\ lostComments \in Nat
    /\ crossed \in BOOLEAN
    /\ pc \in [Req -> PC]
    /\ req \in [Req -> [user : User \cup {None}, emoji : Emoji \cup {None},
                        seen : Emoji \cup {None}, comment : Comment \cup {None},
                        ids : SUBSET Comment]]

Init ==
    /\ members = User
    /\ reaction = [u \in User |-> None]
    /\ likeCount = 0 /\ lostLikes = 0
    /\ made = 0 /\ rows = {} /\ live = {}
    /\ author = [c \in Comment |-> None]
    /\ parent = [c \in Comment |-> None]
    /\ commentCount = 0 /\ lostComments = 0
    /\ crossed = FALSE
    /\ pc = [r \in Req |-> "idle"]
    /\ req = [r \in Req |-> Blank]

-----------------------------------------------------------------------------
Goto(r, step, rec) ==
    /\ pc' = [pc EXCEPT ![r] = step]
    /\ req' = [req EXCEPT ![r] = rec]

Enter(r, step, rec) == pc[r] = "idle" /\ rec.user \in members /\ Goto(r, step, rec)

Leave(r) == Goto(r, "idle", Blank)

\* A request fails: its transaction writes nothing.
Abort(r) ==
    /\ pc[r] # "idle"
    /\ Leave(r)
    /\ UNCHANGED <<members, likes, comments>>

-----------------------------------------------------------------------------
(* toggleLike.                                                               *)

LikeRead(r, u, e) ==
    /\ Enter(r, "like", Ask(u, e, reaction[u], None, {}))
    /\ UNCHANGED <<members, likes, comments>>

Liking(r) == pc[r] = "like" /\ req[r].user \in members

\* The primary key refuses a second row...
LikeCreate(r) ==
    LET u == req[r].user IN
    /\ Liking(r) /\ req[r].seen = None
    /\ reaction[u] = None
    /\ reaction' = [reaction EXCEPT ![u] = req[r].emoji]
    /\ likeCount' = likeCount + 1
    /\ Leave(r)
    /\ UNCHANGED <<members, lostLikes, comments>>

\* ... and the deletion of a row that is gone undoes the transaction.
\* (Bug: the deletion takes what it finds, as deleteMany would.)
LikeRemoveBug(r) ==
    LET u == req[r].user IN
    /\ Liking(r) /\ req[r].seen = req[r].emoji
    /\ reaction' = [reaction EXCEPT ![u] = None]
    /\ likeCount' = likeCount - 1
    /\ Leave(r)
    /\ UNCHANGED <<members, lostLikes, comments>>
LikeRemove(r) ==
    LET u == req[r].user IN
    /\ Liking(r) /\ req[r].seen = req[r].emoji
    /\ reaction[u] # None
    /\ reaction' = [reaction EXCEPT ![u] = None]
    /\ likeCount' = likeCount - 1
    /\ Leave(r)
    /\ UNCHANGED <<members, lostLikes, comments>>

LikeSwitch(r) ==
    LET u == req[r].user IN
    /\ Liking(r) /\ req[r].seen \notin {None, req[r].emoji}
    /\ reaction[u] # None
    /\ reaction' = [reaction EXCEPT ![u] = req[r].emoji]
    /\ Leave(r)
    /\ UNCHANGED <<members, likeCount, lostLikes, comments>>

-----------------------------------------------------------------------------
(* create and softDelete of a comment.                                       *)

Children(S) == {c \in rows : parent[c] \in S}

\* A comment at the third level takes no reply.
Deep(c) == parent[c] # None /\ parent[parent[c]] # None

\* The parent must be a row of the post; whether it was deleted is not asked.
ReplyRead(r, u, c) ==
    /\ c = None \/ (c \in rows /\ ~Deep(c))
    /\ Enter(r, "reply", Ask(u, None, None, c, {}))
    /\ UNCHANGED <<members, likes, comments>>

ReplyWrite(r) ==
    LET u == req[r].user  c == req[r].comment  n == made + 1 IN
    /\ pc[r] = "reply" /\ made < MaxComment
    /\ u \in members /\ c \in rows \cup {None}
    /\ made' = n
    /\ rows' = rows \cup {n} /\ live' = live \cup {n}
    /\ author' = [author EXCEPT ![n] = u]
    /\ parent' = [parent EXCEPT ![n] = c]
    /\ commentCount' = commentCount + 1
    /\ Leave(r)
    /\ UNCHANGED <<members, likes, lostComments, crossed>>

Deleting == {r \in Req : pc[r] \in {"children", "erase"}}

\* The author's comment, with the replies to it...
DeleteRead(r, u, c) ==
    /\ c \in live /\ author[c] = u
    /\ Enter(r, "children", Ask(u, None, None, c, {c} \cup (live \cap Children({c}))))
    /\ crossed' = (crossed \/ Deleting # {})
    /\ UNCHANGED <<members, likes, made, rows, live, author, parent, commentCount, lostComments>>

\* ... and the replies to these...
DeepRead(r) ==
    LET seconds == req[r].ids \ {req[r].comment} IN
    /\ pc[r] = "children"
    /\ Goto(r, "erase", [req[r] EXCEPT !.ids = @ \cup (live \cap Children(seconds))])
    /\ UNCHANGED <<members, likes, comments>>

\* ... are deleted where they still live, and all of them are subtracted.
\* (Bug: only the comment itself is subtracted.)
EraseBug(r) ==
    /\ pc[r] = "erase"
    /\ live' = live \ req[r].ids
    /\ commentCount' = commentCount - 1
    /\ Leave(r)
    /\ UNCHANGED <<members, likes, made, rows, author, parent, lostComments, crossed>>
Erase(r) ==
    /\ pc[r] = "erase"
    /\ live' = live \ req[r].ids
    /\ commentCount' = commentCount - Cardinality(req[r].ids)
    /\ Leave(r)
    /\ UNCHANGED <<members, likes, made, rows, author, parent, lostComments, crossed>>

-----------------------------------------------------------------------------
(* What other components do to these rows, and not to the counters.          *)

\* removeContent of the moderation.
TakeDown(c) ==
    /\ c \in rows
    /\ live' = live \ {c}
    /\ lostComments' = lostComments + Cardinality(live \cap {c})
    /\ crossed' = (crossed \/ Deleting # {})
    /\ UNCHANGED <<members, likes, made, rows, author, parent, commentCount, pc, req>>

\* deleteAccount: the rows of the member go; replies to them become roots.
DeleteAccount(u) ==
    LET own == {c \in rows : author[c] = u} IN
    /\ u \in members /\ members' = members \ {u}
    /\ reaction' = [reaction EXCEPT ![u] = None]
    /\ lostLikes' = lostLikes + Cardinality({v \in {u} : reaction[v] # None})
    /\ rows' = rows \ own /\ live' = live \ own
    /\ author' = [c \in Comment |-> IF c \in own THEN None ELSE author[c]]
    /\ parent' = [c \in Comment |->
                    IF c \in own \/ parent[c] \in own THEN None ELSE parent[c]]
    /\ lostComments' = lostComments + Cardinality(live \cap own)
    /\ crossed' = (crossed \/ Deleting # {})
    /\ UNCHANGED <<likeCount, made, commentCount, pc, req>>

-----------------------------------------------------------------------------
Next ==
    \/ \E u \in User : DeleteAccount(u)
    \/ \E c \in Comment : TakeDown(c)
    \/ \E r \in Req :
        \/ \E u \in User : \/ \E e \in Emoji : LikeRead(r, u, e)
                           \/ \E c \in Comment : DeleteRead(r, u, c)
                           \/ \E c \in Comment \cup {None} : ReplyRead(r, u, c)
        \/ LikeCreate(r) \/ LikeRemove(r) \/ LikeSwitch(r)
        \/ ReplyWrite(r) \/ DeepRead(r) \/ Erase(r)
        \/ Abort(r)

Spec == Init /\ [][Next]_vars

-----------------------------------------------------------------------------
\* The counters of a post agree with its rows, however taps, replies and
\* deletions interleave: but for rows that go behind their back, and for a
\* deletion that meets another removal.
CountsExact ==
    /\ likeCount = Cardinality({u \in User : reaction[u] # None}) + lostLikes
    /\ crossed \/ commentCount = Cardinality(live) + lostComments

\* The replies to a comment go with it: none is left live below a comment that its
\* author has deleted (comments.service.ts:307).
RepliesFollow == lostComments = 0 => \A c \in live : parent[c] \in live \cup {None}
====
