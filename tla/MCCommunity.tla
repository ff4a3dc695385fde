---- MODULE MCCommunity ----
(* What members say, vote and rate, on two members and two requests: each    *)
(* behaviour is one of Conversations, PostCounters, PriceVotes, PollVotes or *)
(* ReviewAggregate, and the other parts stay as they began. Editions and     *)
(* deletions of messages touch neither badge, bell nor marker, so "previews" *)
(* mixes them with the sends, and "badges" the reads and the markers; likes  *)
(* and comments are apart too.                                               *)
EXTENDS Conversations, TLC

CONSTANTS MaxComment, MaxTrust, Emoji, Option, Multi, MaxRating

VARIABLES part,
          members, reaction, likeCount, made, rows, kept, author, parent, commentCount,
          lostLikes, lostComments, clashed, postPc, postReq,
          value, trust, lost, crossed, left, voting,
          votes, optionCount, voterCount, lock, alone, stale, gone, pollPc, pollReq,
          review, shown, outdated, single, closed, reviewPc, reviewReq

Feed == INSTANCE PostCounters WITH live <- kept, crossed <- clashed, pc <- postPc, req <- postReq
Price == INSTANCE PriceVotes WITH Voter <- User, gone <- left
Poll == INSTANCE PollVotes WITH Voter <- User, rows <- votes, pc <- pollPc, req <- pollReq
Review == INSTANCE ReviewAggregate WITH Author <- User, stale <- outdated, alone <- single,
                                        gone <- closed, pc <- reviewPc, req <- reviewReq

chat == <<sender, sent, text, deleted, aged, preview, unread, bell, active, live, seen,
          belated, raced, behind, drifted, pc, req>>
post == <<members, reaction, likeCount, made, rows, kept, author, parent, commentCount,
          lostLikes, lostComments, clashed, postPc, postReq>>
price == <<value, trust, lost, crossed, left, voting>>
poll == <<votes, optionCount, voterCount, lock, alone, stale, gone, pollPc, pollReq>>
reviews == <<review, shown, outdated, single, closed, reviewPc, reviewReq>>

Symmetric == Permutations(User) \cup Permutations(Req)

ASSUME PartsAssumption ==
    /\ Feed!CommentAssumption /\ Feed!NoneFresh /\ Price!VoterAssumption
    /\ Poll!MultiAssumption /\ Poll!NoneFresh
    /\ Review!RatingAssumption /\ Review!NoneFresh

MCInit ==
    /\ part \in {"previews", "badges", "likes", "comments", "price", "poll", "reviews"}
    /\ Init /\ Feed!Init /\ Price!Init /\ Poll!Init /\ Review!Init

Previews == ~(active' # {} \/ \E r \in Req : pc'[r] = "clear")
Badges == aged' = {} /\ deleted' = {} /\ \A r \in Req : pc'[r] \notin {"erase", "rewrite"}
Likes == \A r \in Req : postPc'[r] \in {"idle", "like"}
\* Once two removals have clashed the count of comments promises nothing more.
Comments == ~clashed /\ \A r \in Req : postPc'[r] # "like"

MCNext ==
    /\ UNCHANGED part
    /\ \/ /\ part \in {"previews", "badges"}
          /\ Next
          /\ IF part = "previews" THEN Previews ELSE Badges
          /\ UNCHANGED <<post, price, poll, reviews>>
       \/ /\ part \in {"likes", "comments"}
          /\ Feed!Next
          /\ IF part = "likes" THEN Likes ELSE Comments
          /\ UNCHANGED <<chat, price, poll, reviews>>
       \/ part = "price" /\ Price!Next /\ UNCHANGED <<chat, post, poll, reviews>>
       \/ part = "poll" /\ Poll!Next /\ UNCHANGED <<chat, post, price, reviews>>
       \/ part = "reviews" /\ Review!Next /\ UNCHANGED <<chat, post, price, poll>>

MCSpec == MCInit /\ [][MCNext]_<<part, chat, post, price, poll, reviews>>

-----------------------------------------------------------------------------
\* The properties of the parts, stated and explained in their modules.
PartsTyped == TypeOK /\ Feed!TypeOK /\ Price!TypeOK /\ Poll!TypeOK /\ Review!TypeOK

\* The counters kept beside the rows they count: reactions and comments of a
\* post, the trust score of a price, the results of a poll, a rating.
CountersExact == Feed!CountsExact /\ Price!TrustExact /\ Poll!PollExact /\ Review!RatingExact
====
