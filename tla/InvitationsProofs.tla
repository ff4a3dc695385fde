---- MODULE InvitationsProofs ----
(* Proofs about Invitations for any members, addresses, rows and requests.   *)
EXTENDS Invitations, TLAPS

\* What a row that is absent, deleted or still pending cannot have.
RowInv ==
    \A i \in Inv :
        /\ istatus[i] \in {"absent", "deleted"} =>
              /\ target[i] = None
              /\ acceptedBy[i] = None
              /\ \A e \in Email : via[e] # i
        /\ istatus[i] = "pending" => acceptedBy[i] = None
        /\ istatus[i] = "deleted" <=> (istatus[i] # "absent" /\ inviter[i] = None)
        /\ istatus[i] = "absent" => inviter[i] = None

\* An account that does not exist came through no invitation.
AccountInv ==
    /\ \A e \in Email : e \notin registered => via[e] = None
    /\ \A e \in Email : via[e] # None => by[e] = inviter[via[e]]

\* What a request remembers of the row it looked up is still so: the kind and
\* the inviter of a row do not change while it exists.
RequestInv ==
    \A r \in Req :
        /\ pc[r] = "create" =>
              req[r].by \in Inviter /\ (req[r].kind = "reusable" => req[r].email = None)
        /\ pc[r] = "revoke" => req[r].inv \in Inv /\ istatus[req[r].inv] # "absent"
        /\ pc[r] = "byCode" =>
              /\ req[r].inv \in Inv
              /\ req[r].email \in Email
              /\ istatus[req[r].inv] # "absent"
              /\ kind[req[r].inv] = req[r].kind
              /\ istatus[req[r].inv] # "deleted" => inviter[req[r].inv] = req[r].by
        /\ pc[r] \in {"byEmail", "open"} => req[r].email \in Email

IInv ==
    /\ TypeOK
    /\ RowInv
    /\ AccountInv
    /\ RequestInv
    /\ AddressPurged
    /\ SingleUseLetsOneIn

\* The initial states satisfy the invariant.
LEMMA InitInv == Init => IInv
  BY RootFresh, NoneFresh
  DEF Init, IInv, TypeOK, InvStatus, Standing, Kind, PC, Blank, RowInv, AccountInv, RequestInv,
      AddressPurged, Pending, SingleUseLetsOneIn, Signups

\* Every action preserves the invariant.
LEMMA NextInv == IInv /\ [Next]_vars => IInv'
<1> SUFFICES ASSUME IInv, [Next]_vars PROVE IInv'
  OBVIOUS
<1> USE RootFresh, NoneFresh
    DEF IInv, TypeOK, InvStatus, Standing, Kind, PC, RowInv, AccountInv, RequestInv, AddressPurged,
        Pending, SingleUseLetsOneIn, Signups
<1>1. ASSUME NEW r \in Req, NEW u \in Inviter, NEW k \in Kind, NEW e \in Email \cup {None},
             CreateRead(r, u, k, e)
      PROVE  IInv'
  BY <1>1 DEF CreateRead, Enter, Blank, invs, accounts, rights
<1>2. ASSUME NEW r \in Req, NEW i \in Inv, CreateWrite(r, i)
      PROVE  IInv'
  BY <1>2 DEF CreateWrite, Insert, Leave, Blank, accounts, rights
<1>3. ASSUME NEW r \in Req, NEW i \in Inv, RevokeRead(r, i)
      PROVE  IInv'
  BY <1>3 DEF RevokeRead, Enter, Blank, invs, accounts, rights
<1>4. ASSUME NEW r \in Req, NEW i \in Inv, RegisterByEmail(r, i)
      PROVE  IInv'
  BY <1>4 DEF RegisterByEmail, Consumable, CreateAccount, Consume, Leave, Blank, rights
<1>5. ASSUME NEW i \in Inv, NEW k \in Kind, CreateRoot(i, k)
      PROVE  IInv'
  BY <1>5 DEF CreateRoot, Insert, accounts, rights, reqs
<1>6. ASSUME NEW i \in Inv, DuePasses(i)
      PROVE  IInv'
  BY <1>6 DEF DuePasses, accounts, rights, reqs
<1>7. ASSUME NEW r \in Req, NEW e \in Email, NEW i \in Inv, ResolveCode(r, e, i)
      PROVE  IInv'
  BY <1>7 DEF ResolveCode, Trusted, Enter, invs, accounts, rights
<1>8. ASSUME NEW r \in Req, NEW e \in Email, NEW i \in Inv, ResolveEmail(r, e, i)
      PROVE  IInv'
  BY <1>8 DEF ResolveEmail, Enter, invs, accounts, rights
<1>9. ASSUME NEW r \in Req, NEW e \in Email, ResolveOpen(r, e)
      PROVE  IInv'
  BY <1>9 DEF ResolveOpen, Enter, Blank, invs, accounts, rights
<1>10. ASSUME NEW r \in Req, RegisterSingleUse(r)
      PROVE  IInv'
  BY <1>10 DEF RegisterSingleUse, Consumable, CreateAccount, Consume, Leave, Blank, rights
<1>11. ASSUME NEW r \in Req, RegisterReusable(r)
      PROVE  IInv'
  BY <1>11 DEF RegisterReusable, CreateAccount, Leave, Blank, invs, rights
<1>12. ASSUME NEW r \in Req, RegisterOpen(r)
      PROVE  IInv'
  BY <1>12 DEF RegisterOpen, CreateAccount, Leave, Blank, invs, rights
<1>13. ASSUME NEW r \in Req, RevokeWrite(r)
      PROVE  IInv'
  BY <1>13 DEF RevokeWrite, Retire, Leave, Blank, accounts, rights
<1>14. ASSUME NEW r \in Req, Abort(r)
      PROVE  IInv'
  BY <1>14 DEF Abort, Leave, Blank, invs, accounts, rights
<1>15. ASSUME NEW u \in Inviter, WithdrawBulk(u) \/ BanLinks(u)
      PROVE  IInv'
  BY <1>15 DEF WithdrawBulk, BanLinks, LinksOf, Retire, accounts, reqs
<1>16. ASSUME NEW u \in Inviter, GrantBulk(u) \/ Ban(u) \/ Flag(u) \/ (\E to \in Standing : Sanction(u, to))
      PROVE  IInv'
  BY <1>16 DEF GrantBulk, Ban, Flag, Sanction, invs, accounts, reqs
<1>17. ASSUME NEW e \in Email, DeleteAccount(e)
      PROVE  IInv'
  BY <1>17 DEF DeleteAccount, rights, reqs
<1>18. ASSUME NEW u \in Inviter, DeleteInviter(u)
      PROVE  IInv'
  BY <1>18 DEF DeleteInviter, reqs
<1>19. CASE ExpireDue
  BY <1>19 DEF ExpireDue, Retire, accounts, rights, reqs
<1>20. CASE UNCHANGED vars
  BY <1>20 DEF vars
<1> HIDE DEF IInv
<1> QED
  BY <1>1, <1>2, <1>3, <1>4, <1>5, <1>6, <1>7, <1>8, <1>9, <1>10, <1>11, <1>12,
      <1>13, <1>14, <1>15, <1>16, <1>17, <1>18, <1>19, <1>20
  DEF Next

\* The invariant holds in every reachable state.
THEOREM Invariance == Spec => []IInv
<1>1. Init => IInv
  BY InitInv
<1>2. IInv /\ [Next]_vars => IInv'
  BY NextInv
<1> QED
  BY <1>1, <1>2, PTL DEF Spec

\* The declared types are those of every reachable state.
THEOREM TypeCorrect == Spec => []TypeOK
<1>1. IInv => TypeOK
  BY DEF IInv
<1> QED
  BY <1>1, Invariance, PTL

\* However many registrations race for it, a single-use invitation admits one
\* account, the one it records.
THEOREM SingleUse == Spec => []SingleUseLetsOneIn
<1>1. IInv => SingleUseLetsOneIn
  BY DEF IInv
<1> QED
  BY <1>1, Invariance, PTL

\* The sponsor credited is that of the invitation consumed.
THEOREM Credit == Spec => []CreditFollowsConsumption
<1>1. IInv => CreditFollowsConsumption
  BY DEF IInv, TypeOK, AccountInv, CreditFollowsConsumption
<1> QED
  BY <1>1, Invariance, PTL

\* No third party's address outlives the pending state of its invitation.
THEOREM Purge == Spec => []AddressPurged
<1>1. IInv => AddressPurged
  BY DEF IInv
<1> QED
  BY <1>1, Invariance, PTL

-----------------------------------------------------------------------------
(* The rows and accounts implement the admissions.                           *)

life == [i \in Inv |-> LifeOf(i)]

LEMMA AdmissionInit == Init => Admission!Init
  BY NoneFresh DEF Init, Admission!Init, LifeOf, SingleUseRows

\* What decides of the abstract state: the status and kind of the rows, and via.
LEMMA AdmissionVars ==
  ASSUME istatus' = istatus, kind' = kind, via' = via
  PROVE  UNCHANGED Admission!vars
  BY DEF Admission!vars, LifeOf, SingleUseRows

\* A step that gives rows S the status s moves their lives, and nobody else's.
LEMMA RowsMove ==
  ASSUME NEW S \in SUBSET Inv, NEW s \in InvStatus, NEW stage,
         istatus' = [i \in Inv |-> IF i \in S THEN s ELSE istatus[i]],
         stage = CASE s = "absent" -> "unborn" [] s = "pending" -> "open"
                   [] s = "deleted" -> "gone" [] OTHER -> "closed"
  PROVE  Admission!Move(S, stage)
<1>1. \A i \in Inv : LifeOf(i)' = IF i \in S THEN stage ELSE LifeOf(i)
  BY DEF LifeOf
<1> QED
  BY <1>1 DEF Admission!Move

\* A row is born open.
LEMMA InsertOpens ==
  ASSUME IInv, NEW i \in Inv, NEW u, NEW k \in Kind, NEW e, Insert(i, u, k, e)
  PROVE  Admission!Next
<1>1. istatus' = [j \in Inv |-> IF j \in {i} THEN "pending" ELSE istatus[j]]
  BY DEF Insert, IInv, TypeOK
<1>2. Admission!Move({i}, "open")
  BY <1>1, RowsMove DEF InvStatus
<1>3. SingleUseRows' \in {SingleUseRows, SingleUseRows \cup {i}}
  <2>1. CASE k = "single_use"
    <3>1. SingleUseRows' = SingleUseRows \cup {i}
      BY <2>1 DEF Insert, SingleUseRows, IInv, TypeOK
    <3> QED
      BY <3>1
  <2>2. CASE k # "single_use"
    <3>1. SingleUseRows' = SingleUseRows
      BY <2>2 DEF Insert, SingleUseRows, IInv, TypeOK
    <3> QED
      BY <3>1
  <2> QED
    BY <2>1, <2>2
<1>4. life[i] = "unborn" /\ via' = via
  BY DEF Insert, accounts, life, LifeOf
<1>5. Admission!Open(i)
  BY <1>2, <1>3, <1>4 DEF Admission!Open, life
<1> QED
  BY <1>5 DEF Admission!Next

\* Whatever retires pending rows closes them; one that was no longer open stays so.
LEMMA RetireCloses ==
  ASSUME IInv, NEW S \in SUBSET Inv, NEW s \in {"revoked", "expired"}, Retire(S, s), via' = via,
         \A i \in S : istatus[i] \notin {"absent", "deleted"}
  PROVE  Admission!Next
<1> DEFINE T == {i \in S : istatus[i] = "pending"}
<1>1. \A i \in Inv : LifeOf(i)' = IF i \in T THEN "closed" ELSE LifeOf(i)
  BY DEF Retire, LifeOf, IInv, TypeOK
<1>2. Admission!Move(T, "closed")
  BY <1>1 DEF Admission!Move
<1>3. SingleUseRows' = SingleUseRows
  BY DEF Retire, SingleUseRows, IInv, TypeOK
<1>4. \A i \in T : life[i] = "open"
  BY DEF life, LifeOf
<1>5. Admission!Close(T)
  BY <1>2, <1>3, <1>4 DEF Admission!Close, life
<1>6. T \in SUBSET Inv
  OBVIOUS
<1> QED
  BY <1>5, <1>6 DEF Admission!Next

\* Consuming a pending single-use row for an account that did not exist is the one
\* admission it gives.
LEMMA ConsumeAdmits ==
  ASSUME IInv, NEW i \in Inv, NEW e \in Email, NEW u,
         Consumable(i), CreateAccount(e, i, u), Consume(i, e)
  PROVE  Admission!Next
<1>1. istatus' = [j \in Inv |-> IF j \in {i} THEN "accepted" ELSE istatus[j]]
  BY DEF Consume, IInv, TypeOK
<1>2. Admission!Move({i}, "closed")
  BY <1>1, RowsMove DEF InvStatus
<1>3. SingleUseRows' = SingleUseRows
  BY DEF Consume, Consumable, Pending, SingleUseRows, IInv, TypeOK
<1>4. i \in SingleUseRows /\ life[i] = "open"
  BY DEF Consumable, Pending, SingleUseRows, life, LifeOf
<1>5. via[e] = None /\ via' = [via EXCEPT ![e] = i]
  BY DEF CreateAccount, IInv, AccountInv
<1>6. Admission!AdmitOnce(e, i)
  BY <1>2, <1>3, <1>4, <1>5 DEF Admission!AdmitOnce, life
<1> QED
  BY <1>6 DEF Admission!Next

LEMMA ReusableAdmits ==
  ASSUME IInv, NEW r \in Req, RegisterReusable(r)
  PROVE  Admission!Next
<1> DEFINE i == req[r].inv
           e == req[r].email
<1>1. i \in Inv /\ e \in Email
  BY DEF RegisterReusable, IInv, RequestInv
<1>2. i \notin SingleUseRows /\ LifeOf(i) \in {"open", "closed"}
  BY DEF RegisterReusable, IInv, TypeOK, InvStatus, RequestInv, SingleUseRows, LifeOf
<1>3. via[e] = None /\ via' = [via EXCEPT ![e] = i]
  BY <1>1 DEF RegisterReusable, CreateAccount, IInv, AccountInv
<1>4. life' = life /\ SingleUseRows' = SingleUseRows
  BY DEF RegisterReusable, invs, life, LifeOf, SingleUseRows
<1>5. life[i] \in {"open", "closed"}
  BY <1>1, <1>2 DEF life
<1>6. Admission!AdmitMany(e, i)
  BY <1>2, <1>3, <1>4, <1>5 DEF Admission!AdmitMany, life
<1> QED
  BY <1>1, <1>6 DEF Admission!Next

\* The rows of a deleted member go, whatever their status, and the accounts that
\* came through them forget it.
LEMMA DeletionDrops ==
  ASSUME IInv, NEW u \in Inviter, DeleteInviter(u)
  PROVE  Admission!Next
<1> DEFINE S == {i \in Inv : inviter[i] = u}
<1>1. istatus' = [i \in Inv |-> IF i \in S THEN "deleted" ELSE istatus[i]]
  BY DEF DeleteInviter
<1>2. Admission!Move(S, "gone")
  <2>1. S \in SUBSET Inv
    OBVIOUS
  <2> HIDE DEF S
  <2> QED
    BY <1>1, <2>1, RowsMove DEF InvStatus
<1>3. \A i \in S : istatus[i] # "absent"
  BY NoneFresh DEF IInv, RowInv
<1>4. \A i \in S : life[i] # "unborn"
  BY <1>3 DEF life, LifeOf
<1>5. SingleUseRows' = SingleUseRows
  BY <1>1, <1>3 DEF DeleteInviter, SingleUseRows, IInv, TypeOK
<1>6. via' = [e \in Email |-> IF via[e] \in S THEN None ELSE via[e]]
  BY DEF DeleteInviter
<1>7. Admission!Drop(S)
  BY <1>2, <1>4, <1>5, <1>6 DEF Admission!Drop, life
<1>8. S \in SUBSET Inv
  OBVIOUS
<1> QED
  BY <1>7, <1>8 DEF Admission!Next

\* Every step is one of the admissions, or leaves them as they are.
LEMMA AdmissionStep == IInv /\ [Next]_vars => [Admission!Next]_(Admission!vars)
<1> SUFFICES ASSUME IInv, [Next]_vars PROVE [Admission!Next]_(Admission!vars)
  OBVIOUS
<1>1. ASSUME NEW r \in Req, NEW i \in Inv, CreateWrite(r, i)
      PROVE  Admission!Next
  BY <1>1, InsertOpens DEF CreateWrite, IInv, TypeOK
<1>2. ASSUME NEW i \in Inv, NEW k \in Kind, CreateRoot(i, k)
      PROVE  Admission!Next
  BY <1>2, InsertOpens DEF CreateRoot
<1>3. ASSUME NEW r \in Req, NEW i \in Inv, RegisterByEmail(r, i)
      PROVE  Admission!Next
  BY <1>3, ConsumeAdmits DEF RegisterByEmail, IInv, RequestInv
<1>4. ASSUME NEW r \in Req, RegisterSingleUse(r)
      PROVE  Admission!Next
  BY <1>4, ConsumeAdmits DEF RegisterSingleUse, IInv, RequestInv
<1>5. ASSUME NEW r \in Req, RevokeWrite(r)
      PROVE  Admission!Next
  <2>1. req[r].inv \in Inv /\ istatus[req[r].inv] \notin {"absent", "deleted"}
    BY <1>5 DEF RevokeWrite, IInv, RequestInv
  <2> QED
    BY <1>5, <2>1, RetireCloses DEF RevokeWrite, accounts
<1>6. ASSUME NEW u \in Inviter, WithdrawBulk(u) \/ BanLinks(u)
      PROVE  Admission!Next
  <2>1. LinksOf(u) \in SUBSET Inv /\ \A i \in LinksOf(u) : istatus[i] = "pending"
    BY DEF LinksOf, Pending
  <2> QED
    BY <1>6, <2>1, RetireCloses DEF WithdrawBulk, BanLinks, accounts
<1>7. CASE ExpireDue
  <2> DEFINE S == {i \in due : Pending(i)}
  <2>1. S \in SUBSET Inv /\ \A i \in S : istatus[i] = "pending"
    BY DEF Pending, IInv, TypeOK
  <2>2. Retire(S, "expired") /\ via' = via
    BY <1>7 DEF ExpireDue, accounts
  <2> HIDE DEF S
  <2> QED
    BY <2>1, <2>2, RetireCloses
<1>8. ASSUME NEW e \in Email, DeleteAccount(e)
      PROVE  Admission!Next
  <2>1. Admission!Leave(e)
    BY <1>8 DEF DeleteAccount, Admission!Leave, LifeOf, SingleUseRows
  <2> QED
    BY <2>1 DEF Admission!Next
<1>9. ASSUME NEW r \in Req, RegisterOpen(r)
      PROVE  UNCHANGED Admission!vars
  <2>1. via' = via
    BY <1>9 DEF RegisterOpen, CreateAccount, IInv, TypeOK, AccountInv, RequestInv
  <2> QED
    BY <1>9, <2>1, AdmissionVars DEF RegisterOpen, invs
<1>10. ASSUME NEW r \in Req, NEW e \in Email, NEW i \in Inv,
              ResolveCode(r, e, i) \/ ResolveEmail(r, e, i)
       PROVE  UNCHANGED Admission!vars
  BY <1>10, AdmissionVars DEF ResolveCode, ResolveEmail, invs, accounts
<1>11. ASSUME NEW r \in Req, NEW u \in Inviter, NEW k \in Kind, NEW e \in Email \cup {None},
              CreateRead(r, u, k, e)
       PROVE  UNCHANGED Admission!vars
  BY <1>11, AdmissionVars DEF CreateRead, invs, accounts
<1>12. ASSUME NEW u \in Inviter,
              GrantBulk(u) \/ Ban(u) \/ Flag(u) \/ \E to \in Standing : Sanction(u, to)
       PROVE  UNCHANGED Admission!vars
  BY <1>12, AdmissionVars DEF GrantBulk, Ban, Flag, Sanction, invs, accounts
<1>13. ASSUME NEW r \in Req, Abort(r) \/ \E e \in Email : ResolveOpen(r, e)
       PROVE  UNCHANGED Admission!vars
  BY <1>13, AdmissionVars DEF Abort, ResolveOpen, invs, accounts
<1>14. ASSUME NEW i \in Inv, DuePasses(i) \/ \E r \in Req : RevokeRead(r, i)
       PROVE  UNCHANGED Admission!vars
  BY <1>14, AdmissionVars DEF DuePasses, RevokeRead, invs, accounts
<1>15. CASE UNCHANGED vars
  BY <1>15, AdmissionVars DEF vars
<1> HIDE DEF IInv
<1> QED
  BY <1>1, <1>2, <1>3, <1>4, <1>5, <1>6, <1>7, <1>8, <1>9, <1>10, <1>11, <1>12, <1>13, <1>14,
     <1>15, ReusableAdmits, DeletionDrops DEF Next

\* However registrations, revocations, expiry, sanctions and deletions interleave, an
\* invitation that has closed never opens again and a single-use one admits one account
\* in all, even when that account is deleted (atomicallyConsumeSingleUse,
\* atomicallyConsumeByEmail, revokeInvitation, deleteAccount).
THEOREM ImplementsAdmissions == Spec => AdmissionSpec
<1>1. Init => Admission!Init
  BY AdmissionInit
<1>2. IInv /\ [Next]_vars => [Admission!Next]_(Admission!vars)
  BY AdmissionStep
<1> QED
  BY <1>1, <1>2, Invariance, PTL DEF Spec, AdmissionSpec, Admission!Spec
====
