---- MODULE RefreshTokens ----
(* The refresh_tokens table and every request that reads or writes it:       *)
(* sign-ins (password, second factor, OAuth), rotation, logout, password     *)
(* reset, administrative sanctions, forced logout, and the moderation ban.   *)
(* A request is a process; each of its awaited database calls is one step,   *)
(* so other requests run between two of them.                                *)
(* The lock-out counters of login are state of another component.            *)
EXTENDS FiniteSets, Integers

CONSTANTS User,    \* accounts
          Token,   \* refresh-token rows that can ever be created (the bound)
          Req,     \* requests in flight at the same time
          None

ASSUME NoneFresh == None \notin User \cup Token
ASSUME FiniteReq == IsFiniteSet(Req)

Cohort == {"old", "straddle", "new"}
PC == {"idle", "mark", "issue", "reuse", "linkDrop", "linkKeep", "evict"}

VARIABLES
    sanctioned, \* users.status is suspended or banned: every reader refuses both alike
    verified,   \* users with email_verified
    linked,     \* users with an OAuth identity attached
    owner,      \* refresh_tokens.user_id, None while the row does not exist
    used,       \* rows with used_at set
    revoked,    \* rows with revoked_at set
    expired,    \* rows whose expires_at has passed
    pc,         \* next step of each request
    who,        \* the account a request works on
    presented,  \* the row a rotation presented
    parent,     \* history: the row a row was exchanged for
    age,        \* history: a row relative to its owner's last revoke-all
    reqAge      \* history: the same for a request in flight

users == <<sanctioned, verified, linked>>
table == <<owner, used, revoked, expired>>
reqs  == <<pc, who, presented>>
vars  == <<sanctioned, verified, linked, owner, used, revoked, expired,
           pc, who, presented, parent, age, reqAge>>

Rows == {t \in Token : owner[t] # None}
RowsOf(u) == {t \in Token : owner[t] = u}
\* A row rotateRefreshToken accepts (Bug: the revokedAt test is dropped).
LiveBug(t) == owner[t] # None /\ t \notin expired
Live(t) == owner[t] # None /\ t \notin revoked \cup expired
\* An exchange or a sign-in that has begun and may still create a row.
InFlight(u) == {r \in Req : pc[r] # "idle" /\ who[r] = u}

TypeOK ==
    /\ sanctioned \subseteq User
    /\ verified \subseteq User
    /\ linked \subseteq User
    /\ owner \in [Token -> User \cup {None}]
    /\ used \subseteq Token
    /\ revoked \subseteq Token
    /\ expired \subseteq Token
    /\ pc \in [Req -> PC]
    /\ who \in [Req -> User \cup {None}]
    /\ presented \in [Req -> Token \cup {None}]
    /\ parent \in [Token -> Token \cup {None}]
    /\ age \in [Token -> Cohort]
    /\ reqAge \in [Req -> Cohort]

Init ==
    /\ sanctioned = {}
    /\ verified \in SUBSET User
    /\ linked = {}
    /\ owner = [t \in Token |-> None]
    /\ used = {}
    /\ revoked = {}
    /\ expired = {}
    /\ pc = [r \in Req |-> "idle"]
    /\ who = [r \in Req |-> None]
    /\ presented = [r \in Req |-> None]
    /\ parent = [t \in Token |-> None]
    /\ age = [t \in Token |-> "new"]
    /\ reqAge = [r \in Req |-> "new"]

-----------------------------------------------------------------------------
(* The writes.                                                               *)

\* updateMany({ userId, revokedAt: null }): the user's unrevoked rows.
\* (Bug: the filter on userId is dropped.)
UnrevokedOfBug(u) == Rows \ revoked
UnrevokedOf(u) == RowsOf(u) \ revoked

\* A revoke-all of u, with what it means for the history variables: every
\* row of u is now old, every request of u in flight straddles it.
RevokeAll(u) ==
    /\ revoked' = revoked \cup UnrevokedOf(u)
    /\ age' = [t \in Token |-> IF owner[t] = u THEN "old" ELSE age[t]]

Straddling(u) == [r \in Req |-> IF r \in InFlight(u) THEN "straddle" ELSE reqAge[r]]

\* A request leaves the server, answered or failed; ages are what the table's
\* events made of the requests' ages.
Leave(r, ages) ==
    /\ reqAge' = [ages EXCEPT ![r] = "new"]
    /\ pc' = [pc EXCEPT ![r] = "idle"]
    /\ who' = [who EXCEPT ![r] = None]
    /\ presented' = [presented EXCEPT ![r] = None]

\* A request enters with its next step, account, row and cohort.
Enter(r, step, u, t, c) ==
    /\ pc[r] = "idle"
    /\ pc' = [pc EXCEPT ![r] = step]
    /\ who' = [who EXCEPT ![r] = u]
    /\ presented' = [presented EXCEPT ![r] = t]
    /\ reqAge' = [reqAge EXCEPT ![r] = c]

Goto(r, step) ==
    /\ pc' = [pc EXCEPT ![r] = step]
    /\ UNCHANGED <<who, presented>>

-----------------------------------------------------------------------------
(* Sign-in.                                                                  *)

\* login and verifyMfaLogin: the account is read, its status refused unless
\* active, the password or the second factor verified on that snapshot.
PasswordLogin(r, u) ==
    /\ u \notin sanctioned
    /\ Enter(r, "issue", u, None, "new")
    /\ UNCHANGED <<users, table, parent, age>>

\* loginWithOAuth of an account already linked: findFirst by provider id,
\* then issueTokens. No status is read.
OAuthLogin(r, u) ==
    /\ u \in linked
    /\ Enter(r, "issue", u, None, "new")
    /\ UNCHANGED <<users, table, parent, age>>

\* loginWithOAuth of an unlinked account found by email: what the branch does
\* is decided on the emailVerified it reads here.
OAuthByEmail(r, u) ==
    /\ u \notin linked
    /\ Enter(r, IF u \in verified THEN "linkKeep" ELSE "linkDrop", u, None, "new")
    /\ UNCHANGED <<users, table, parent, age>>

\* The update that attaches the identity; the address becomes verified. When
\* it was not, the sessions of whoever registered it are revoked next.
OAuthLink(r) ==
    /\ pc[r] \in {"linkKeep", "linkDrop"}
    /\ linked' = linked \cup {who[r]}
    /\ verified' = verified \cup {who[r]}
    /\ Goto(r, IF pc[r] = "linkDrop" THEN "evict" ELSE "issue")
    /\ UNCHANGED <<sanctioned, table, parent, age, reqAge>>

\* revokeAllUserTokens after the link. The request that evicts is not itself
\* cut off: its own row comes after.
Evict(r) ==
    /\ pc[r] = "evict"
    /\ RevokeAll(who[r])
    /\ reqAge' = [Straddling(who[r]) EXCEPT ![r] = "new"]
    /\ Goto(r, "issue")
    /\ UNCHANGED <<users, owner, used, expired, parent>>

\* issueTokens: the row is created, whoever asked for it.
Issue(r, t) ==
    /\ pc[r] = "issue"
    /\ owner[t] = None
    /\ owner' = [owner EXCEPT ![t] = who[r]]
    /\ parent' = [parent EXCEPT ![t] = presented[r]]
    /\ age' = [age EXCEPT ![t] = reqAge[r]]
    /\ Leave(r, reqAge)
    /\ UNCHANGED <<users, used, revoked, expired>>

-----------------------------------------------------------------------------
(* Rotation: rotateRefreshToken.                                             *)

\* findUnique on the hash, and the early returns: an unknown, revoked or
\* expired row answers null and changes nothing.
\* (Bug: the usedAt test is dropped.)
RotateReadNoReuseBug(r, t) ==
    /\ Live(t)
    /\ Enter(r, "mark", owner[t], t, age[t])
    /\ UNCHANGED <<users, table, parent, age>>
\* (Bug: the row goes to issueTokens without being marked.)
RotateReadNoMarkBug(r, t) ==
    /\ Live(t)
    /\ Enter(r, IF t \in used THEN "reuse" ELSE "issue", owner[t], t, age[t])
    /\ UNCHANGED <<users, table, parent, age>>
RotateRead(r, t) ==
    /\ Live(t)
    /\ Enter(r, IF t \in used THEN "reuse" ELSE "mark", owner[t], t, age[t])
    /\ UNCHANGED <<users, table, parent, age>>

\* update({ id }, { usedAt }): by id only, whatever the row has become.
\* (Bug: the update is keyed by the user's id.)
MarkUsedBug(r) ==
    /\ pc[r] = "mark"
    /\ used' = used \cup {who[r]}
    /\ Goto(r, "issue")
    /\ UNCHANGED <<users, owner, revoked, expired, parent, age, reqAge>>
MarkUsed(r) ==
    /\ pc[r] = "mark"
    /\ used' = used \cup {presented[r]}
    /\ Goto(r, "issue")
    /\ UNCHANGED <<users, owner, revoked, expired, parent, age, reqAge>>

\* A row already used was presented: revoke all rows of the user.
ReuseDetected(r) ==
    /\ pc[r] = "reuse"
    /\ RevokeAll(who[r])
    /\ Leave(r, Straddling(who[r]))
    /\ UNCHANGED <<users, owner, used, expired, parent>>

-----------------------------------------------------------------------------
(* Single-step writers, and what the environment does.                       *)

\* logout: updateMany({ tokenHash, revokedAt: null }).
Logout(t) ==
    /\ t \in Rows
    /\ revoked' = revoked \cup {t}
    /\ UNCHANGED <<users, owner, used, expired, reqs, parent, age, reqAge>>

\* The second half of resetPassword, one transaction; forceLogout.
CutSessions(u) ==
    /\ RevokeAll(u)
    /\ reqAge' = Straddling(u)
    /\ UNCHANGED <<users, owner, used, expired, reqs, parent>>

\* AdminService.setUserStatus(suspended | banned), one transaction.
Sanction(u) ==
    /\ sanctioned' = sanctioned \cup {u}
    /\ RevokeAll(u)
    /\ reqAge' = Straddling(u)
    /\ UNCHANGED <<verified, linked, owner, used, expired, reqs, parent>>

\* ModerationService.setUserStatus: the status only, no row is revoked.
ModerationSanction(u) ==
    /\ sanctioned' = sanctioned \cup {u}
    /\ UNCHANGED <<verified, linked, table, reqs, parent, age, reqAge>>

\* setUserStatus(active), and the sweep that lifts an expired suspension.
Reactivate(u) ==
    /\ u \in sanctioned
    /\ sanctioned' = sanctioned \ {u}
    /\ UNCHANGED <<verified, linked, table, reqs, parent, age, reqAge>>

VerifyEmail(u) ==
    /\ verified' = verified \cup {u}
    /\ UNCHANGED <<sanctioned, linked, table, reqs, parent, age, reqAge>>

Expire(t) ==
    /\ t \in Rows
    /\ expired' = expired \cup {t}
    /\ UNCHANGED <<users, owner, used, revoked, reqs, parent, age, reqAge>>

\* A database error, or the server dying, between two steps of a request.
Abort(r) ==
    /\ pc[r] # "idle"
    /\ Leave(r, reqAge)
    /\ UNCHANGED <<users, table, parent, age>>

Next ==
    \/ \E r \in Req, u \in User :
          PasswordLogin(r, u) \/ OAuthLogin(r, u) \/ OAuthByEmail(r, u)
    \/ \E r \in Req, t \in Token : RotateRead(r, t) \/ Issue(r, t)
    \/ \E r \in Req : OAuthLink(r) \/ Evict(r) \/ MarkUsed(r) \/ ReuseDetected(r) \/ Abort(r)
    \/ \E t \in Token : Logout(t) \/ Expire(t)
    \/ \E u \in User : Sanction(u) \/ ModerationSanction(u) \/ Reactivate(u)
    \/ \E u \in User : CutSessions(u) \/ VerifyEmail(u)

Spec == Init /\ [][Next]_vars

-----------------------------------------------------------------------------
(* Properties.                                                               *)

\* A row obtained by rotation belongs to the owner of the row it was exchanged
\* for, and that row was marked used BEFORE the new one existed: a failure
\* between the two writes of rotateRefreshToken can lose a session, never
\* leave two exchangeable rows of one family.
ExchangedRowIsSpent ==
    \A t \in Token : parent[t] # None =>
        /\ parent[t] \in used
        /\ owner[parent[t]] = owner[t]

\* Revoke-all severs families: a row that existed at its owner's last
\* revoke-all, or descends by exchanges begun after it from one that did, is
\* revoked. What may outlive the cut is only what was in flight at that
\* moment (cohort "straddle") and what signed in later (cohort "new").
CutSeversFamilies ==
    \A t \in Token : age[t] = "old" => t \in revoked

\* One refresh token never yields more sessions than there were requests
\* working at once: after the first exchange is recorded, every later
\* presentation is a reuse.
Children(t) == {c \in Token : parent[c] = t}
Exchanging(t) == {r \in Req : pc[r] \in {"mark", "issue"} /\ presented[r] = t}
ForkBound ==
    \A t \in Token :
        Cardinality(Children(t)) + Cardinality(Exchanging(t)) <= Cardinality(Req)

\* Rows only age, keep their holder, and descend from spent rows of the same
\* holder, and one step closes rows of one holder only, whatever the order of
\* requests: the table implements the abstract ledger.
LifeOf(t) ==
    IF owner[t] = None THEN "unborn"
    ELSE IF t \in revoked \cup expired THEN "dead"
    ELSE IF t \in used THEN "spent"
    ELSE "fresh"

Ledger == INSTANCE SessionLedger
    WITH life <- [t \in Token |-> LifeOf(t)], holder <- owner, origin <- parent

LedgerSpec == Ledger!Spec
====
