---- MODULE SocialGraph ----
(* Friendships and blocks between members. A block is a row of the database; *)
(* isBlocked answers from a cache entry per pair, filled on a miss and kept  *)
(* for five minutes. Every handler is a chain of awaited calls, so a request *)
(* acts on what it read while other requests commit.                         *)
(* A request that has passed isBlocked goes on to send a friend request or a *)
(* message; a message leaves no trace here.                                  *)
EXTENDS FiniteSets

CONSTANTS User,
          Row,     \* friendship rows that can exist at the same time
          Req,     \* requests in flight at the same time
          None

ASSUME NoneFresh == None \notin User \cup Row \cup {"0", "1"}

Pair == {{p[1], p[2]} : p \in {q \in User \X User : q[1] # q[2]}}
RowStatus == {"absent", "pending", "accepted", "declined"}
Verdict == {"0", "1"}
PC == {"idle", "fill", "set", "passed", "insert", "resend", "answer",
       "invalidate", "ping", "ensure", "upgrade", "befriend"}

VARIABLES
    fstatus, from, to,  \* the friendships table
    blocks,     \* the blocks table: pairs <<blocker, blocked>>
    cache,      \* Redis: block:a:b, or None when there is no entry
    met,        \* the proximity encounter of a pair: none, open or closed
    asked,      \* history: <<u, v>> when u has asked v, or said yes to v
    pc, req     \* next step of each request, and what it remembers

rows == <<fstatus, from, to>>
reqs == <<pc, req>>
vars == <<fstatus, from, to, blocks, cache, met, asked, pc, req>>

Blank == [by |-> None, other |-> None, row |-> None, val |-> None]

Request == [by : User \cup {None}, other : User \cup {None}, row : Row \cup {None},
            val : {"0", "1", "accepted", "declined", None}]

TypeOK ==
    /\ fstatus \in [Row -> RowStatus]
    /\ from \in [Row -> User \cup {None}]
    /\ to \in [Row -> User \cup {None}]
    /\ blocks \subseteq User \X User
    /\ cache \in [Pair -> Verdict \cup {None}]
    /\ met \in [Pair -> {"none", "open", "closed"}]
    /\ asked \subseteq User \X User
    /\ pc \in [Req -> PC]
    /\ req \in [Req -> Request]

Init ==
    /\ fstatus = [f \in Row |-> "absent"]
    /\ from = [f \in Row |-> None]
    /\ to = [f \in Row |-> None]
    /\ blocks = {}
    /\ cache = [p \in Pair |-> None]
    /\ met = [p \in Pair |-> "none"]
    /\ asked = {}
    /\ pc = [r \in Req |-> "idle"]
    /\ req = [r \in Req |-> Blank]

-----------------------------------------------------------------------------
Between(u, v) == {f \in Row : fstatus[f] # "absent" /\ {from[f], to[f]} = {u, v}}

Blocked(p) == \E b \in blocks : {b[1], b[2]} = p

Enter(r, step, rec) ==
    /\ pc[r] = "idle"
    /\ pc' = [pc EXCEPT ![r] = step]
    /\ req' = [req EXCEPT ![r] = rec]

Move(r, step, rec) ==
    /\ pc' = [pc EXCEPT ![r] = step]
    /\ req' = [req EXCEPT ![r] = rec]

\* The request goes on with a row it found and a value it read.
With(r, f, v) == [by |-> req[r].by, other |-> req[r].other, row |-> f, val |-> v]

Leave(r) == Move(r, "idle", Blank)

Mine(r) == {req[r].by, req[r].other}

-----------------------------------------------------------------------------
(* isBlocked.                                                                *)

\* The cache is asked first. An entry "1" refuses the request at once.
Ask(r, u, v) ==
    /\ u # v
    /\ cache[{u, v}] # "1"
    /\ Enter(r, IF cache[{u, v}] = None THEN "fill" ELSE "passed",
             [by |-> u, other |-> v, row |-> None, val |-> None])
    /\ UNCHANGED <<rows, blocks, cache, met, asked>>

\* On a miss the table is read...
FillRead(r) ==
    /\ pc[r] = "fill"
    /\ Move(r, "set", With(r, None, IF Blocked(Mine(r)) THEN "1" ELSE "0"))
    /\ UNCHANGED <<rows, blocks, cache, met, asked>>

\* ... and the answer is cached, whatever the entry or the table has become.
FillWrite(r) ==
    /\ pc[r] = "set"
    /\ cache' = [cache EXCEPT ![Mine(r)] = req[r].val]
    /\ IF req[r].val = "1" THEN Leave(r) ELSE Move(r, "passed", With(r, None, None))
    /\ UNCHANGED <<rows, blocks, met, asked>>

\* The entry lives for CACHE_TTL after it was set. (Bug: only a refusal does.)
CacheExpiresBug(p) ==
    /\ cache[p] = "1"
    /\ cache' = [cache EXCEPT ![p] = None]
    /\ UNCHANGED <<rows, blocks, met, asked, reqs>>
CacheExpires(p) ==
    /\ cache[p] # None
    /\ cache' = [cache EXCEPT ![p] = None]
    /\ UNCHANGED <<rows, blocks, met, asked, reqs>>

-----------------------------------------------------------------------------
(* Friend requests.                                                          *)

\* sendRequest looks for a row of the pair, in either direction.
Lookup(r) ==
    /\ pc[r] = "passed"
    /\ LET S == Between(req[r].by, req[r].other) IN
        \/ S = {} /\ Move(r, "insert", req[r])
        \/ \E f \in S : fstatus[f] = "declined" /\ Move(r, "resend", With(r, f, None))
    /\ UNCHANGED <<rows, blocks, cache, met, asked>>

\* The row of a direction is unique; f may be the row itself.
Free(u, v, f) == \A g \in Row \ {f} : fstatus[g] # "absent" => <<from[g], to[g]>> # <<u, v>>

Put(f, u, v, s) ==
    /\ Free(u, v, f)
    /\ fstatus' = [fstatus EXCEPT ![f] = s]
    /\ from' = [from EXCEPT ![f] = u]
    /\ to' = [to EXCEPT ![f] = v]

Insert(r, f) ==
    /\ pc[r] = "insert"
    /\ fstatus[f] = "absent"
    /\ Put(f, req[r].by, req[r].other, "pending")
    /\ asked' = asked \cup {<<req[r].by, req[r].other>>}
    /\ Leave(r)
    /\ UNCHANGED <<blocks, cache, met>>

\* A declined row is turned towards whoever sends again.
Resend(r) ==
    /\ pc[r] = "resend" /\ req[r].row # None
    /\ Put(req[r].row, req[r].by, req[r].other, "pending")
    /\ asked' = asked \cup {<<req[r].by, req[r].other>>}
    /\ Leave(r)
    /\ UNCHANGED <<blocks, cache, met>>

\* accept and decline read the row and test it... (Bug: it is the requester
\* who may answer.)
AnswerReadBug(r, f, v) ==
    /\ fstatus[f] = "pending"
    /\ Enter(r, "answer", [by |-> from[f], other |-> to[f], row |-> f, val |-> v])
    /\ UNCHANGED <<rows, blocks, cache, met, asked>>
AnswerRead(r, f, v) ==
    /\ fstatus[f] = "pending"
    /\ Enter(r, "answer", [by |-> to[f], other |-> from[f], row |-> f, val |-> v])
    /\ UNCHANGED <<rows, blocks, cache, met, asked>>

\* ... then set its status by id.
AnswerWrite(r) ==
    /\ pc[r] = "answer" /\ req[r].row # None
    /\ fstatus' = [fstatus EXCEPT ![req[r].row] = req[r].val]
    /\ asked' = IF req[r].val = "accepted" THEN asked \cup {<<req[r].by, req[r].other>>} ELSE asked
    /\ Leave(r)
    /\ UNCHANGED <<from, to, blocks, cache, met>>

\* Deleted rows are absent, and a request that holds the id of one holds the
\* id of nothing: its update by id will fail.
Gone(S) ==
    /\ fstatus' = [f \in Row |-> IF f \in S THEN "absent" ELSE fstatus[f]]
    /\ from' = [f \in Row |-> IF f \in S THEN None ELSE from[f]]
    /\ to' = [f \in Row |-> IF f \in S THEN None ELSE to[f]]

Forget(S) == [r \in Req |-> IF req[r].row \in S THEN With(r, None, req[r].val) ELSE req[r]]

RemoveFriend(u, v) ==
    LET S == {f \in Between(u, v) : fstatus[f] = "accepted"} IN
    /\ S # {}
    /\ Gone(S)
    /\ req' = Forget(S)
    /\ UNCHANGED <<blocks, cache, met, asked, pc>>

-----------------------------------------------------------------------------
(* Blocks.                                                                   *)

\* The transaction of block: the rows of the pair go, the block comes.
Block(r, u, v) ==
    LET S == Between(u, v) IN
    /\ u # v
    /\ pc[r] = "idle"
    /\ Gone(S)
    /\ blocks' = blocks \cup {<<u, v>>}
    /\ pc' = [pc EXCEPT ![r] = "invalidate"]
    /\ req' = [Forget(S) EXCEPT ![r] = [by |-> u, other |-> v, row |-> None, val |-> None]]
    /\ UNCHANGED <<cache, met, asked>>

Unblock(r, u, v) ==
    /\ u # v
    /\ Enter(r, "invalidate", [by |-> u, other |-> v, row |-> None, val |-> None])
    /\ blocks' = blocks \ {<<u, v>>}
    /\ UNCHANGED <<rows, cache, met, asked>>

\* invalidateCache, after the commit. (Bug: it writes the verdict its caller
\* expects, as if the other member had not blocked too.)
InvalidateBug(r) ==
    /\ pc[r] = "invalidate"
    /\ cache' = [cache EXCEPT ![Mine(r)] =
                    IF <<req[r].by, req[r].other>> \in blocks THEN "1" ELSE "0"]
    /\ Leave(r)
    /\ UNCHANGED <<rows, blocks, met, asked>>
Invalidate(r) ==
    /\ pc[r] = "invalidate"
    /\ cache' = [cache EXCEPT ![Mine(r)] = None]
    /\ Leave(r)
    /\ UNCHANGED <<rows, blocks, met, asked>>

-----------------------------------------------------------------------------
(* Proximity encounters, as far as they make friends.                        *)

\* A ping reads the blocks before it looks for members around...
PingRead(r, u, v) ==
    /\ u # v
    /\ ~Blocked({u, v})
    /\ met[{u, v}] = "none"
    /\ Enter(r, "ping", [by |-> u, other |-> v, row |-> None, val |-> None])
    /\ UNCHANGED <<rows, blocks, cache, met, asked>>

\* ... and creates the encounter of the pair, once and for all.
PingWrite(r) ==
    /\ pc[r] = "ping"
    /\ met' = [met EXCEPT ![Mine(r)] = IF met[Mine(r)] = "none" THEN "open" ELSE met[Mine(r)]]
    /\ Leave(r)
    /\ UNCHANGED <<rows, blocks, cache, asked>>

\* acceptEncounter: v has asked, u accepts; the version lock lets one through.
\* No block is looked at.
AcceptEncounter(r, u, v) ==
    /\ u # v
    /\ met[{u, v}] = "open"
    /\ met' = [met EXCEPT ![{u, v}] = "closed"]
    /\ asked' = asked \cup {<<u, v>>, <<v, u>>}
    /\ Enter(r, "ensure", [by |-> v, other |-> u, row |-> None, val |-> None])
    /\ UNCHANGED <<rows, blocks, cache>>

\* An encounter is declined or passes its term.
CloseEncounter(p) ==
    /\ met[p] = "open"
    /\ met' = [met EXCEPT ![p] = "closed"]
    /\ UNCHANGED <<rows, blocks, cache, asked, reqs>>

\* ensureFriendship: a row of the pair is found, or none.
EnsureRead(r) ==
    /\ pc[r] = "ensure"
    /\ LET S == Between(req[r].by, req[r].other) IN
        \/ S = {} /\ Move(r, "befriend", req[r])
        \/ \E f \in S : fstatus[f] # "accepted" /\ Move(r, "upgrade", With(r, f, None))
        \/ \E f \in S : fstatus[f] = "accepted" /\ Leave(r)
    /\ UNCHANGED <<rows, blocks, cache, met, asked>>

EnsureUpdate(r) ==
    /\ pc[r] = "upgrade" /\ req[r].row # None
    /\ fstatus' = [fstatus EXCEPT ![req[r].row] = "accepted"]
    /\ Leave(r)
    /\ UNCHANGED <<from, to, blocks, cache, met, asked>>

EnsureCreate(r, f) ==
    /\ pc[r] = "befriend"
    /\ fstatus[f] = "absent"
    /\ Put(f, req[r].by, req[r].other, "accepted")
    /\ Leave(r)
    /\ UNCHANGED <<blocks, cache, met, asked>>

-----------------------------------------------------------------------------
\* The message is sent, the request refused by a later test, a unique index or
\* a missing row, or the server fails.
Abort(r) ==
    /\ pc[r] # "idle"
    /\ Leave(r)
    /\ UNCHANGED <<rows, blocks, cache, met, asked>>

Step(r) ==
    \/ FillRead(r) \/ FillWrite(r) \/ Lookup(r) \/ Resend(r) \/ AnswerWrite(r)
    \/ Invalidate(r) \/ PingWrite(r) \/ EnsureRead(r) \/ EnsureUpdate(r) \/ Abort(r)
    \/ \E f \in Row : Insert(r, f) \/ EnsureCreate(r, f)

Next ==
    \/ \E r \in Req : Step(r)
    \/ \E r \in Req, f \in Row, v \in {"accepted", "declined"} : AnswerRead(r, f, v)
    \/ \E r \in Req, u, v \in User :
        Ask(r, u, v) \/ Block(r, u, v) \/ Unblock(r, u, v) \/ PingRead(r, u, v) \/ AcceptEncounter(r, u, v)
    \/ \E u, v \in User : RemoveFriend(u, v)
    \/ \E p \in Pair : CacheExpires(p) \/ CloseEncounter(p)

Spec == Init /\ [][Next]_vars

\* Redis drops entries at their term and the server ends every request.
Fairness ==
    /\ \A r \in Req : WF_vars(Step(r))
    /\ \A p \in Pair : WF_vars(CacheExpires(p))

-----------------------------------------------------------------------------
(* Properties.                                                               *)

\* Two members are friends only after each has asked the other, or said yes to
\* him, through a request or an encounter; also when a declined row is turned
\* around while an answer to it is in flight.
Consent ==
    \A f \in Row : fstatus[f] = "accepted" =>
        <<from[f], to[f]>> \in asked /\ <<to[f], from[f]>> \in asked

\* A request that can still get past the block of its pair.
PastBlock(r, p) ==
    /\ Mine(r) = p
    /\ \/ pc[r] \in {"passed", "insert", "resend", "ping", "ensure", "upgrade", "befriend"}
       \/ pc[r] = "set" /\ req[r].val = "0"

\* A block has taken hold of a pair: the cache does not deny it, nothing that
\* passed before is in flight, no friendship is left and no encounter is open.
Sealed(p) ==
    /\ Blocked(p)
    /\ cache[p] # "0"
    /\ met[p] # "open"
    /\ \A r \in Req : ~PastBlock(r, p)
    /\ \A f \in Row : fstatus[f] # "absent" => {from[f], to[f]} # p

\* Once a block has taken hold, nothing but lifting it (by both members, if
\* both blocked) lets a request through: no order of unblocking, of filling and
\* of dropping the cache entry opens a gap.
BlockHolds == [][\A p \in Pair : Sealed(p) /\ Blocked(p)' => Sealed(p)']_vars

\* A fill that overlaps a block or an unblock may cache the wrong verdict; the
\* term of the entry ends it, and it does not come back.
VerdictSettles ==
    \A p \in Pair :
        /\ <>[]Blocked(p) => <>[](cache[p] # "0")
        /\ <>[]~Blocked(p) => <>[](cache[p] # "1")
====
