---- MODULE RefreshTokensProofs ----
(* Proofs about RefreshTokens for any users, rows and requests.              *)
EXTENDS RefreshTokens, FiniteSetTheorems, TLAPS

\* What a request in flight knows about the row it presented.
RequestInv ==
    \A r \in Req :
        /\ pc[r] = "idle" => presented[r] = None
        /\ pc[r] # "idle" => who[r] \in User
        /\ presented[r] # None => owner[presented[r]] = who[r]
        /\ pc[r] \in {"linkDrop", "linkKeep", "evict"} => presented[r] = None
        /\ pc[r] \in {"mark", "reuse"} => presented[r] # None
        /\ pc[r] = "issue" /\ presented[r] # None => presented[r] \in used

\* No request is old: a row that could still be presented was not.
CohortInv == \A r \in Req : reqAge[r] # "old"

\* Only rows that exist carry timestamps or a parent.
RowInv ==
    \A t \in Token : owner[t] = None =>
        /\ t \notin used \cup revoked \cup expired
        /\ age[t] = "new"
        /\ parent[t] = None

IInv ==
    /\ TypeOK
    /\ RequestInv
    /\ CohortInv
    /\ RowInv
    /\ ExchangedRowIsSpent
    /\ CutSeversFamilies

\* The initial states satisfy the invariant.
LEMMA InitInv == Init => IInv
  BY NoneFresh DEF Init, IInv, TypeOK, RequestInv, CohortInv, RowInv, PC, Cohort,
     ExchangedRowIsSpent, CutSeversFamilies

\* Every action preserves the invariant.
LEMMA NextInv == IInv /\ [Next]_vars => IInv'
<1> SUFFICES ASSUME IInv, [Next]_vars PROVE IInv'
  OBVIOUS
<1> USE NoneFresh DEF IInv, TypeOK, PC, Cohort, RequestInv, CohortInv, RowInv,
      ExchangedRowIsSpent, CutSeversFamilies
<1>1. ASSUME NEW r \in Req, NEW u \in User, PasswordLogin(r, u)
      PROVE  IInv'
  BY <1>1 DEF PasswordLogin, Enter, users, table
<1>2. ASSUME NEW r \in Req, NEW u \in User, OAuthLogin(r, u)
      PROVE  IInv'
  BY <1>2 DEF OAuthLogin, Enter, users, table
<1>3. ASSUME NEW r \in Req, NEW u \in User, OAuthByEmail(r, u)
      PROVE  IInv'
  BY <1>3 DEF OAuthByEmail, Enter, users, table
<1>4. ASSUME NEW r \in Req, NEW t \in Token, RotateRead(r, t)
      PROVE  IInv'
  BY <1>4 DEF RotateRead, Enter, Live, users, table
<1>5. ASSUME NEW r \in Req, NEW t \in Token, Issue(r, t)
      PROVE  IInv'
  BY <1>5 DEF Issue, Leave, users
<1>6. ASSUME NEW r \in Req, OAuthLink(r)
      PROVE  IInv'
  BY <1>6 DEF OAuthLink, Goto, table
<1>7. ASSUME NEW r \in Req, MarkUsed(r)
      PROVE  IInv'
  BY <1>7 DEF MarkUsed, Goto, users
<1>8. ASSUME NEW r \in Req, Evict(r)
      PROVE  IInv'
  BY <1>8 DEF Evict, RevokeAll, UnrevokedOf, RowsOf, Straddling, InFlight, Goto, users
<1>9. ASSUME NEW r \in Req, ReuseDetected(r)
      PROVE  IInv'
  BY <1>9 DEF ReuseDetected, RevokeAll, UnrevokedOf, RowsOf, Straddling, InFlight, Leave, users
<1>10. ASSUME NEW r \in Req, Abort(r)
       PROVE  IInv'
  BY <1>10 DEF Abort, Leave, users, table
<1>11. ASSUME NEW t \in Token, Logout(t) \/ Expire(t)
       PROVE  IInv'
  BY <1>11 DEF Logout, Expire, Rows, users, reqs
<1>12. ASSUME NEW u \in User, CutSessions(u) \/ Sanction(u)
       PROVE  IInv'
  BY <1>12 DEF CutSessions, Sanction, RevokeAll, UnrevokedOf, RowsOf, Straddling, InFlight,
      users, reqs
<1>13. ASSUME NEW u \in User, ModerationSanction(u) \/ Reactivate(u) \/ VerifyEmail(u)
       PROVE  IInv'
  BY <1>13 DEF ModerationSanction, Reactivate, VerifyEmail, users, table, reqs
<1>14. CASE UNCHANGED vars
  BY <1>14 DEF vars
<1> QED
  BY <1>1, <1>2, <1>3, <1>4, <1>5, <1>6, <1>7, <1>8, <1>9, <1>10, <1>11, <1>12, <1>13, <1>14
  DEF Next

\* The invariant holds in every reachable state.
THEOREM Invariance == Spec => []IInv
<1>1. Init => IInv
  BY InitInv
<1>2. IInv /\ [Next]_vars => IInv'
  BY NextInv
<1> QED
  BY <1>1, <1>2, PTL DEF Spec

\* The declared types are those of every reachable state.
THEOREM TypeCorrect == Spec => []TypeOK
<1>1. IInv => TypeOK
  BY DEF IInv
<1> QED
  BY <1>1, Invariance, PTL

\* A row obtained by rotation has a spent parent of the same owner, however
\* the two writes of rotateRefreshToken interleave with other requests.
THEOREM ExchangeIsOrdered == Spec => []ExchangedRowIsSpent
<1>1. IInv => ExchangedRowIsSpent
  BY DEF IInv
<1> QED
  BY <1>1, Invariance, PTL

\* No chain of exchanges begun after a revoke-all leads from a row that
\* existed at that moment to a row that is not revoked.
THEOREM CutIsComplete == Spec => []CutSeversFamilies
<1>1. IInv => CutSeversFamilies
  BY DEF IInv
<1> QED
  BY <1>1, Invariance, PTL

-----------------------------------------------------------------------------
(* One token, at most as many sessions as requests.                          *)

\* The bound of ForkBound for one row, with the finiteness counting needs.
Bounded(t) ==
    /\ IsFiniteSet(Children(t))
    /\ Cardinality(Children(t)) + Cardinality(Exchanging(t)) <= Cardinality(Req)

\* The requests exchanging a row are finitely many, at most all of them.
LEMMA ExchangingFinite ==
  ASSUME NEW t \in Token
  PROVE  /\ IsFiniteSet(Exchanging(t))
         /\ Cardinality(Exchanging(t)) \in Nat
         /\ Cardinality(Exchanging(t)) <= Cardinality(Req)
         /\ Cardinality(Req) \in Nat
<1>1. Exchanging(t) \subseteq Req
  BY DEF Exchanging
<1>2. /\ IsFiniteSet(Exchanging(t))
      /\ Cardinality(Exchanging(t)) <= Cardinality(Req)
  BY <1>1, FiniteReq, FS_Subset
<1> QED
  BY <1>2, FiniteReq, FS_CardinalityType

\* The same after a step, with what a subset of the row's exchanges counts.
LEMMA ExchangingShrinks ==
  ASSUME NEW t \in Token, Exchanging(t)' \subseteq Exchanging(t)
  PROVE  /\ Cardinality(Exchanging(t)') \in Nat
         /\ Cardinality(Exchanging(t)') <= Cardinality(Exchanging(t))
<1>1. IsFiniteSet(Exchanging(t)') /\ Cardinality(Exchanging(t)') <= Cardinality(Exchanging(t))
  BY ExchangingFinite, FS_Subset
<1> QED
  BY <1>1, FS_CardinalityType

\* No row is exchanged for anything before it is marked used.
LEMMA UnusedHasNoChildren ==
  ASSUME IInv, NEW t \in Token, t \notin used
  PROVE  Children(t) = {}
  BY NoneFresh DEF IInv, ExchangedRowIsSpent, Children

\* A step after which a row has no new child and no new exchange.
LEMMA BoundKept ==
  ASSUME NEW t \in Token, Bounded(t),
         Children(t)' = Children(t), Exchanging(t)' \subseteq Exchanging(t)
  PROVE  Bounded(t)'
<1>1. Cardinality(Children(t)) \in Nat
  BY FS_CardinalityType DEF Bounded
<1> QED
  BY <1>1, ExchangingFinite, ExchangingShrinks DEF Bounded

\* The first read of a row: whoever is exchanging it, no child exists yet.
LEMMA BoundAtRead ==
  ASSUME IInv, NEW r \in Req, NEW s \in Token, RotateRead(r, s), NEW t \in Token, Bounded(t)
  PROVE  Bounded(t)'
<1>1. Children(t)' = Children(t)
  BY DEF RotateRead, Children
<1>2. CASE s = t /\ t \notin used
  <2>1. Exchanging(t)' \subseteq Req
    BY DEF Exchanging
  <2>2. Cardinality(Exchanging(t)') <= Cardinality(Req) /\ Cardinality(Exchanging(t)') \in Nat
    BY <2>1, FiniteReq, FS_Subset, FS_CardinalityType
  <2>3. Children(t) = {} /\ Cardinality(Children(t)) = 0
    BY <1>2, UnusedHasNoChildren, FS_EmptySet
  <2> QED
    BY <1>1, <2>2, <2>3 DEF Bounded
<1>3. CASE s # t \/ t \in used
  <2>1. Exchanging(t)' \subseteq Exchanging(t)
    BY <1>3, NoneFresh DEF RotateRead, Enter, Exchanging, IInv, TypeOK
  <2> QED
    BY <1>1, <2>1, BoundKept
<1> QED
  BY <1>2, <1>3

\* The row that issueTokens creates takes the place of the exchange it ends.
LEMMA BoundAtIssue ==
  ASSUME IInv, NEW r \in Req, NEW c \in Token, Issue(r, c), NEW t \in Token, Bounded(t)
  PROVE  Bounded(t)'
<1> USE NoneFresh DEF IInv, TypeOK
<1>1. parent[c] = None
  BY DEF Issue, RowInv
<1>2. CASE presented[r] = t
  <2>1. /\ Children(t)' = Children(t) \cup {c}
        /\ c \notin Children(t)
    BY <1>1, <1>2 DEF Issue, Children
  <2>2. /\ Exchanging(t)' = Exchanging(t) \ {r}
        /\ r \in Exchanging(t)
    BY <1>2 DEF Issue, Leave, Exchanging
  <2>3. /\ IsFiniteSet(Children(t)')
        /\ Cardinality(Children(t)') = Cardinality(Children(t)) + 1
    BY <2>1, FS_AddElement DEF Bounded
  <2>4. Cardinality(Exchanging(t)') = Cardinality(Exchanging(t)) - 1
    BY <2>2, ExchangingFinite, FS_RemoveElement
  <2>5. Cardinality(Children(t)) \in Nat
    BY FS_CardinalityType DEF Bounded
  <2> QED
    BY <2>3, <2>4, <2>5, ExchangingFinite DEF Bounded
<1>3. CASE presented[r] # t
  <2>1. Children(t)' = Children(t)
    BY <1>1, <1>3 DEF Issue, Children
  <2>2. Exchanging(t)' \subseteq Exchanging(t)
    BY DEF Issue, Leave, Exchanging
  <2> QED
    BY <2>1, <2>2, BoundKept
<1> QED
  BY <1>2, <1>3

\* No step takes a row beyond the bound.
LEMMA BoundStep ==
  ASSUME IInv, [Next]_vars, NEW t \in Token, Bounded(t)
  PROVE  Bounded(t)'
<1> USE NoneFresh DEF IInv, TypeOK, PC
<1>1. ASSUME UNCHANGED <<pc, presented, parent>>
      PROVE  Bounded(t)'
  <2>1. Children(t)' = Children(t) /\ Exchanging(t)' = Exchanging(t)
    BY <1>1 DEF Children, Exchanging
  <2> QED
    BY <2>1, BoundKept
<1>2. ASSUME NEW r \in Req, NEW u \in User,
             PasswordLogin(r, u) \/ OAuthLogin(r, u) \/ OAuthByEmail(r, u)
      PROVE  Bounded(t)'
  <2>1. Children(t)' = Children(t)
    BY <1>2 DEF PasswordLogin, OAuthLogin, OAuthByEmail, Children
  <2>2. Exchanging(t)' \subseteq Exchanging(t)
    BY <1>2 DEF PasswordLogin, OAuthLogin, OAuthByEmail, Enter, Exchanging
  <2> QED
    BY <2>1, <2>2, BoundKept
<1>3. ASSUME NEW r \in Req, NEW s \in Token, RotateRead(r, s) \/ Issue(r, s)
      PROVE  Bounded(t)'
  BY <1>3, BoundAtRead, BoundAtIssue
<1>4. ASSUME NEW r \in Req, OAuthLink(r) \/ Evict(r)
      PROVE  Bounded(t)'
  <2>1. Children(t)' = Children(t)
    BY <1>4 DEF OAuthLink, Evict, Children
  <2>2. presented[r] # t
    BY <1>4 DEF OAuthLink, Evict, RequestInv
  <2>3. Exchanging(t)' \subseteq Exchanging(t)
    BY <1>4, <2>2 DEF OAuthLink, Evict, Goto, Exchanging
  <2> QED
    BY <2>1, <2>3, BoundKept
<1>5. ASSUME NEW r \in Req, MarkUsed(r) \/ ReuseDetected(r) \/ Abort(r)
      PROVE  Bounded(t)'
  <2>1. Children(t)' = Children(t)
    BY <1>5 DEF MarkUsed, ReuseDetected, Abort, Children
  <2>2. Exchanging(t)' \subseteq Exchanging(t)
    BY <1>5 DEF MarkUsed, ReuseDetected, Abort, Leave, Goto, Exchanging
  <2> QED
    BY <2>1, <2>2, BoundKept
<1>6. ASSUME NEW s \in Token, Logout(s) \/ Expire(s)
      PROVE  Bounded(t)'
  BY <1>1, <1>6 DEF Logout, Expire, reqs
<1>7. ASSUME NEW u \in User,
             \/ Sanction(u) \/ ModerationSanction(u) \/ Reactivate(u)
             \/ CutSessions(u) \/ VerifyEmail(u)
      PROVE  Bounded(t)'
  BY <1>1, <1>7 DEF Sanction, ModerationSanction, Reactivate, CutSessions, VerifyEmail, reqs
<1>8. CASE UNCHANGED vars
  BY <1>1, <1>8 DEF vars
<1> QED
  BY <1>2, <1>3, <1>4, <1>5, <1>6, <1>7, <1>8 DEF Next

\* However many times one refresh token is presented, and however its
\* exchanges interleave, it yields at most one session per request in flight.
THEOREM ForksAreBounded == Spec => []ForkBound
<1> DEFINE B == \A t \in Token : Bounded(t)
<1>1. Init => B
  <2> SUFFICES ASSUME Init, NEW t \in Token PROVE Bounded(t)
    OBVIOUS
  <2>1. Children(t) = {} /\ Exchanging(t) = {}
    BY NoneFresh DEF Init, Children, Exchanging
  <2> QED
    BY <2>1, FS_EmptySet, FS_CardinalityType, FiniteReq DEF Bounded
<1>2. IInv /\ B /\ [Next]_vars => B'
  BY BoundStep
<1>3. B => ForkBound
  BY DEF Bounded, ForkBound
<1> QED
  BY <1>1, <1>2, <1>3, Invariance, PTL DEF Spec

-----------------------------------------------------------------------------
(* The table implements the ledger.                                          *)

LEMMA LedgerInit == Init => Ledger!Init
  BY DEF Init, Ledger!Init, LifeOf

\* Rows that only get closed, all of one owner, are a Close of the ledger.
LEMMA ClosingIsClose ==
  ASSUME NEW u \in User, TypeOK,
         UNCHANGED <<owner, used, parent>>,
         revoked \subseteq revoked', expired \subseteq expired',
         \A t \in (revoked' \cup expired') \ (revoked \cup expired) : owner[t] = u
  PROVE  Ledger!Close(u)
  BY NoneFresh DEF TypeOK, Ledger!Close, LifeOf

\* A created row opens a family, or descends from a spent row.
LEMMA IssueIsBorn ==
  ASSUME IInv, NEW r \in Req, NEW t \in Token, Issue(r, t)
  PROVE  Ledger!Next
<1> USE NoneFresh DEF IInv, TypeOK, RequestInv, RowInv
<1>1. /\ who[r] \in User
      /\ t \notin used \cup revoked \cup expired
  BY DEF Issue, PC
<1>2. ASSUME NEW s \in User \cup Token \cup {None}, s = presented[r]
      PROVE  Ledger!Born(t, who[r], s)
  BY <1>1, <1>2 DEF Issue, Leave, Ledger!Born, LifeOf
<1>3. CASE presented[r] = None
  BY <1>1, <1>2, <1>3 DEF Ledger!Open, Ledger!Next
<1>4. CASE presented[r] # None
  <2>1. /\ presented[r] \in Token
        /\ owner[presented[r]] = who[r]
        /\ LifeOf(presented[r]) \in {"spent", "dead"}
    BY <1>4, <1>1 DEF Issue, LifeOf
  <2>2. Ledger!Descend(t, presented[r])
    BY <1>2, <2>1 DEF Ledger!Descend
  <2> QED
    BY <2>1, <2>2 DEF Ledger!Next
<1> QED
  BY <1>3, <1>4

\* Marking a row used spends it, unless something closed it meanwhile.
LEMMA MarkIsSpend ==
  ASSUME IInv, NEW r \in Req, MarkUsed(r)
  PROVE  [Ledger!Next]_(Ledger!vars)
<1> DEFINE t == presented[r]
           life == [s \in Token |-> LifeOf(s)]
<1>1. t \in Token /\ owner[t] # None
  BY NoneFresh DEF MarkUsed, IInv, TypeOK, RequestInv
<1>2. used' = used \cup {t} /\ UNCHANGED <<owner, revoked, expired, parent>>
  BY DEF MarkUsed
<1> HIDE DEF t
<1>3. CASE LifeOf(t) = "fresh"
  <2>1. \A s \in Token : LifeOf(s)' = IF s = t THEN "spent" ELSE LifeOf(s)
    BY <1>1, <1>2, <1>3 DEF LifeOf
  <2>2. life' = [life EXCEPT ![t] = "spent"]
    BY <1>1, <2>1, Zenon
  <2>3. life[t] = "fresh"
    BY <1>1, <1>3
  <2>4. Ledger!Spend(t)
    BY <1>2, <2>2, <2>3 DEF Ledger!Spend
  <2> QED
    BY <1>1, <2>4 DEF Ledger!Next
<1>4. CASE LifeOf(t) # "fresh"
  <2>1. \A s \in Token : LifeOf(s)' = LifeOf(s)
    BY <1>1, <1>2, <1>4 DEF LifeOf
  <2> QED
    BY <1>2, <2>1 DEF Ledger!vars
<1> QED
  BY <1>3, <1>4

LEMMA LedgerStep == IInv /\ [Next]_vars => [Ledger!Next]_(Ledger!vars)
<1> SUFFICES ASSUME IInv, [Next]_vars PROVE [Ledger!Next]_(Ledger!vars)
  OBVIOUS
<1>1. ASSUME NEW r \in Req, NEW t \in Token, Issue(r, t)
      PROVE  Ledger!Next
  BY <1>1, IssueIsBorn
<1>2. ASSUME NEW r \in Req, MarkUsed(r)
      PROVE  [Ledger!Next]_(Ledger!vars)
  BY <1>2, MarkIsSpend
<1>3. ASSUME NEW r \in Req, Evict(r) \/ ReuseDetected(r)
      PROVE  Ledger!Next
  <2>1. who[r] \in User
    BY <1>3 DEF Evict, ReuseDetected, IInv, RequestInv
  <2>2. Ledger!Close(who[r])
    BY <1>3, <2>1, ClosingIsClose
    DEF Evict, ReuseDetected, RevokeAll, UnrevokedOf, RowsOf, IInv, users
  <2> QED
    BY <2>1, <2>2 DEF Ledger!Next
<1>4. ASSUME NEW u \in User, CutSessions(u) \/ Sanction(u)
      PROVE  Ledger!Next
  <2>1. Ledger!Close(u)
    BY <1>4, ClosingIsClose
    DEF CutSessions, Sanction, RevokeAll, UnrevokedOf, RowsOf, IInv, users
  <2> QED
    BY <2>1 DEF Ledger!Next
<1>5. ASSUME NEW t \in Token, Logout(t) \/ Expire(t)
      PROVE  Ledger!Next
  <2>1. owner[t] \in User
    BY <1>5 DEF Logout, Expire, Rows, IInv, TypeOK
  <2>2. Ledger!Close(owner[t])
    BY <1>5, <2>1, ClosingIsClose DEF Logout, Expire, IInv, users
  <2> QED
    BY <2>1, <2>2 DEF Ledger!Next
<1>6. ASSUME UNCHANGED <<table, parent>>
      PROVE  UNCHANGED Ledger!vars
  BY <1>6 DEF table, Ledger!vars, LifeOf
<1>7. ASSUME NEW r \in Req, NEW u \in User,
             PasswordLogin(r, u) \/ OAuthLogin(r, u) \/ OAuthByEmail(r, u)
      PROVE  UNCHANGED Ledger!vars
  BY <1>6, <1>7 DEF PasswordLogin, OAuthLogin, OAuthByEmail
<1>8. ASSUME NEW r \in Req, NEW t \in Token, RotateRead(r, t)
      PROVE  UNCHANGED Ledger!vars
  BY <1>6, <1>8 DEF RotateRead
<1>9. ASSUME NEW r \in Req, OAuthLink(r) \/ Abort(r)
      PROVE  UNCHANGED Ledger!vars
  BY <1>6, <1>9 DEF OAuthLink, Abort
<1>10. ASSUME NEW u \in User, ModerationSanction(u) \/ Reactivate(u) \/ VerifyEmail(u)
       PROVE  UNCHANGED Ledger!vars
  BY <1>6, <1>10 DEF ModerationSanction, Reactivate, VerifyEmail
<1>11. CASE UNCHANGED vars
  BY <1>6, <1>11 DEF vars, table
<1> QED
  BY <1>1, <1>2, <1>3, <1>4, <1>5, <1>7, <1>8, <1>9, <1>10, <1>11 DEF Next

\* Whatever interleaving of requests the server runs, the rows of the
\* refresh-token table live the life the ledger specifies.
THEOREM ImplementsLedger == Spec => LedgerSpec
<1>1. Init => Ledger!Init
  BY LedgerInit
<1>2. IInv /\ [Next]_vars => [Ledger!Next]_(Ledger!vars)
  BY LedgerStep
<1> QED
  BY <1>1, <1>2, Invariance, PTL DEF Spec, LedgerSpec, Ledger!Spec
====
