---- MODULE AssociationGovernanceProofs ----
(* Proofs about AssociationGovernance for any users and requests.            *)
EXTENDS AssociationGovernance, FiniteSetTheorems, TLAPS

\* What the record of a request in flight holds.
Shape(r) ==
    /\ pc[r] # "idle" => req[r].of \in User
    /\ pc[r] = "join" => req[r].new \in {"pending", "approved"} /\ req[r].seen # "approved"
    /\ pc[r] \in {"approve", "reject"} => req[r].seen = "pending"
    /\ pc[r] = "role" => req[r].new \in Role \ {"owner"}
    /\ pc[r] = "delete" /\ req[r].heir # None => req[r].new \in Elevated

\* Rows belong to accounts and to an association that exists.
RowInv == \A u \in User : HasRow(u) => u \in accounts /\ Exists

TypeInv == TypeOK /\ (\A r \in Req : Shape(r)) /\ RowInv

\* A request about a user no other request has raced with finds what it read.
CountInv ==
    /\ CountMirrorsMembers
    /\ \A q, r \in Req : q # r /\ pc[q] \in CountSteps /\ pc[r] \in CountSteps
                           /\ req[q].of = req[r].of => req[r].of \in raced
    /\ \A r \in Req : pc[r] \in CountSteps =>
          /\ assoc # "none"
          /\ \/ req[r].of \in raced
             \/ req[r].of \notin accounts \/ assoc = "gone"
             \/ status[req[r].of] = req[r].seen

LEMMA EnterType ==
  ASSUME TypeInv, NEW r \in Req, NEW step \in PC \ {"idle"}, NEW by \in User, NEW of \in User,
         NEW seen \in Status, NEW new \in Status \cup Role \cup {"close"},
         NEW heir \in User \cup {None},
         Enter(r, step, Ask(by, of, seen, new, heir)),
         step = "join" => new \in {"pending", "approved"} /\ seen # "approved",
         step \in {"approve", "reject"} => seen = "pending",
         step = "role" => new \in Role \ {"owner"},
         step = "delete" /\ heir # None => new \in Elevated
  PROVE  TypeInv'
<1> DEFINE rec == Ask(by, of, seen, new, heir)
<1>1. rec \in Request
  BY DEF Request, Ask
<1>2. rec.of = of /\ rec.seen = seen /\ rec.new = new /\ rec.heir = heir
  BY DEF Ask
<1>3. /\ pc' = [pc EXCEPT ![r] = step]
      /\ req' = [req EXCEPT ![r] = rec]
      /\ raced' = raced \/ raced' = raced \cup {of}
      /\ crossed' \in BOOLEAN
      /\ UNCHANGED <<assoc, requires, memberCount, pendingOwner, members, seat, accounts>>
  BY <1>2, Zenon DEF Enter, TypeInv, TypeOK
<1> HIDE DEF rec
<1>4. TypeOK'
  BY <1>1, <1>3 DEF TypeInv, TypeOK, members
<1>5. ASSUME NEW q \in Req PROVE Shape(q)'
  <2>1. q = r => pc'[q] = step /\ req'[q] = rec
    BY <1>3 DEF TypeInv, TypeOK
  <2>2. q # r => pc'[q] = pc[q] /\ req'[q] = req[q]
    BY <1>3 DEF TypeInv, TypeOK
  <2>3. CASE q = r
    BY <2>1, <2>3, <1>2 DEF Shape
  <2>4. CASE q # r
    BY <2>2, <2>4 DEF Shape, TypeInv
  <2> QED BY <2>3, <2>4
<1>6. RowInv'
  BY <1>3 DEF TypeInv, RowInv, HasRow, Exists, members
<1> QED BY <1>4, <1>5, <1>6 DEF TypeInv

\* Leaving a request keeps what is known of the others.
LEMMA LeaveShape ==
  ASSUME TypeInv, NEW r \in Req, Leave(r)
  PROVE  /\ pc' \in [Req -> PC] /\ req' \in [Req -> Request]
         /\ \A q \in Req : Shape(q)'
         /\ \A q \in Req : pc'[q] # "idle" => q # r /\ pc'[q] = pc[q] /\ req'[q] = req[q]
<1>1. Blank \in Request
  BY DEF Blank, Ask, Request, Status
<1>2. pc' = [pc EXCEPT ![r] = "idle"] /\ req' = [req EXCEPT ![r] = Blank]
  BY DEF Leave
<1>3. pc' \in [Req -> PC] /\ req' \in [Req -> Request]
  BY <1>1, <1>2 DEF TypeInv, TypeOK, PC
<1>4. \A q \in Req : pc'[q] # "idle" => q # r /\ pc'[q] = pc[q] /\ req'[q] = req[q]
  BY <1>2 DEF TypeInv, TypeOK
<1>5. \A q \in Req : Shape(q)'
  BY <1>4 DEF TypeInv, Shape
<1> QED BY <1>3, <1>4, <1>5

LEMMA FailType ==
  ASSUME TypeInv, NEW r \in Req, Fail(r)
  PROVE  TypeInv'
<1>1. /\ Leave(r)
      /\ UNCHANGED <<assoc, requires, memberCount, pendingOwner, status, role, seat,
                     accounts, raced, crossed>>
  BY DEF Fail, members, ghosts
<1>2. TypeOK'
  BY <1>1, LeaveShape DEF TypeInv, TypeOK
<1>3. RowInv'
  BY <1>1 DEF TypeInv, RowInv, HasRow, Exists
<1> QED BY <1>1, <1>2, <1>3, LeaveShape DEF TypeInv

\* Every action keeps the types and the shape of the requests.
LEMMA NextType == TypeInv /\ [Next]_vars => TypeInv'
<1> SUFFICES ASSUME TypeInv, [Next]_vars PROVE TypeInv'
  OBVIOUS
<1> USE NoneFresh DEF Status, Role, Elevated
<1>1. ASSUME NEW u \in User, Act(u) PROVE TypeInv'
  <2>1. CASE Create(u)
    BY <2>1 DEF Create, TypeInv, TypeOK, Shape, RowInv, HasRow, Exists, SetStatus, reqs
  <2>2. CASE Update(u)
    BY <2>2 DEF Update, TypeInv, TypeOK, Shape, RowInv, HasRow, Exists, members, reqs, ghosts
  <2>3. CASE Remove(u)
    BY <2>3 DEF Remove, TypeInv, TypeOK, Shape, RowInv, HasRow, Exists, reqs, ghosts
  <2>4. CASE AcceptSeat(u)
    BY <2>4 DEF AcceptSeat, TypeInv, TypeOK, Shape, RowInv, HasRow, Exists, members, reqs, ghosts
  <2>5. ASSUME NEW v \in User, RemoveOfficer(u, v) PROVE TypeInv'
    BY <2>5 DEF RemoveOfficer, TypeInv, TypeOK, Shape, RowInv, HasRow, Exists, members, reqs,
       ghosts
  <2> QED BY <1>1, <2>1, <2>2, <2>3, <2>4, <2>5 DEF Act
<1>2. ASSUME NEW r \in Req, NEW u \in User, Read(r, u) PROVE TypeInv'
  <2>0. status[u] \in Status
    BY DEF TypeInv, TypeOK
  <2>1. CASE JoinRead(r, u)
    BY <2>0, <2>1, EnterType DEF JoinRead, PC, RowSteps, CountSteps
  <2>2. CASE LeaveRead(r, u)
    BY <2>0, <2>2, EnterType DEF LeaveRead, PC, RowSteps, CountSteps
  <2>3. CASE AcceptRead(r, u)
    BY <2>3, EnterType DEF AcceptRead, PC, RowSteps
  <2>4. CASE CancelRead(r, u)
    BY <2>4, EnterType DEF CancelRead, PC
  <2>5. CASE DeleteRead(r, u)
    <3>1. CASE Enter(r, "delete", Ask(u, u, status[u], "none", None))
      BY <2>0, <3>1, EnterType DEF PC, RowSteps
    <3>2. ASSUME NEW v \in Heirs(u),
                 Enter(r, "delete", Ask(u, u, "approved",
                       IF role[u] = "owner" THEN "owner" ELSE "admin", v))
          PROVE  TypeInv'
      <4>1. v \in User
        BY DEF Heirs, Approved
      <4> QED BY <3>2, <4>1, EnterType DEF PC, RowSteps
    <3>3. CASE Enter(r, "delete", Ask(u, u, "approved", "close", None))
      BY <3>3, EnterType DEF PC, RowSteps
    <3> QED BY <2>5, <3>1, <3>2, <3>3 DEF DeleteRead
  <2>6. ASSUME NEW v \in User, ApproveRead(r, u, v) PROVE TypeInv'
    BY <2>6, EnterType DEF ApproveRead, PC, RowSteps, CountSteps
  <2>7. ASSUME NEW v \in User, RejectRead(r, u, v) PROVE TypeInv'
    BY <2>7, EnterType DEF RejectRead, PC, RowSteps, CountSteps
  <2>8. ASSUME NEW v \in User, OfferRead(r, u, v) PROVE TypeInv'
    BY <2>8, EnterType DEF OfferRead, PC
  <2>9. ASSUME NEW v \in User, DesignateRead(r, u, v) PROVE TypeInv'
    BY <2>9, EnterType DEF DesignateRead, PC, RowSteps
  <2>10. ASSUME NEW v \in User, NEW new \in Role \ {"owner"}, ChangeRoleRead(r, u, v, new)
         PROVE  TypeInv'
    BY <2>10, EnterType DEF ChangeRoleRead, PC, RowSteps
  <2> QED BY <1>2, <2>1, <2>2, <2>3, <2>4, <2>5, <2>6, <2>7, <2>8, <2>9, <2>10 DEF Read
<1>3. ASSUME NEW r \in Req, Write(r) PROVE TypeInv'
  <2> DEFINE u == req[r].of
  <2>0. pc[r] # "idle" => u \in User
    BY DEF TypeInv, Shape
  <2>1. CASE Fail(r)
    BY <2>1, FailType
  <2>2. ASSUME JoinWrite(r), ~Fail(r) PROVE TypeInv'
    <3>1. /\ pc[r] = "join"
          /\ IF req[r].seen = "none" THEN u \in accounts /\ Exists ELSE HasRow(u)
          /\ status' = [status EXCEPT ![u] = req[r].new]
          /\ role' = [role EXCEPT ![u] = "member"]
          /\ memberCount' \in {memberCount, memberCount + 1}
          /\ Leave(r)
          /\ UNCHANGED <<assoc, requires, pendingOwner, seat, accounts, ghosts>>
      BY <2>2 DEF JoinWrite, SetStatus, Count, TypeInv, TypeOK
    <3>2. u \in User /\ req[r].new \in {"pending", "approved"}
      BY <3>1 DEF TypeInv, Shape
    <3>3. TypeOK'
      BY <3>1, <3>2, LeaveShape DEF TypeInv, TypeOK, ghosts
    <3>4. RowInv'
      BY <3>1, <3>2 DEF TypeInv, TypeOK, RowInv, HasRow, Exists
    <3> QED BY <3>1, <3>3, <3>4, LeaveShape DEF TypeInv
  <2>3. ASSUME ApproveWrite(r), ~Fail(r) PROVE TypeInv'
    <3>1. TypeOK'
      BY <2>0, <2>3, LeaveShape DEF ApproveWrite, SetStatus, Count, TypeInv, TypeOK, ghosts
    <3>2. RowInv'
      BY <2>0, <2>3 DEF ApproveWrite, SetStatus, TypeInv, TypeOK, RowInv, HasRow, Exists
    <3> QED BY <2>3, <3>1, <3>2, LeaveShape DEF ApproveWrite, TypeInv
  <2>4. ASSUME RejectWrite(r), ~Fail(r) PROVE TypeInv'
    <3>1. TypeOK'
      BY <2>0, <2>4, LeaveShape DEF RejectWrite, SetStatus, TypeInv, TypeOK, HasRow, ghosts
    <3>2. RowInv'
      BY <2>0, <2>4 DEF RejectWrite, SetStatus, TypeInv, TypeOK, RowInv, HasRow, Exists
    <3> QED BY <2>4, <3>1, <3>2, LeaveShape DEF RejectWrite, TypeInv
  <2>5. ASSUME LeaveWrite(r), ~Fail(r) PROVE TypeInv'
    <3>1. TypeOK'
      BY <2>0, <2>5, LeaveShape DEF LeaveWrite, SetStatus, Count, TypeInv, TypeOK, ghosts
    <3>2. RowInv'
      BY <2>0, <2>5 DEF LeaveWrite, SetStatus, TypeInv, TypeOK, RowInv, HasRow, Exists
    <3> QED BY <2>5, <3>1, <3>2, LeaveShape DEF LeaveWrite, TypeInv
  <2>6. ASSUME ChangeRoleWrite(r), ~Fail(r) PROVE TypeInv'
    <3>0. pc[r] = "role" /\ req[r].new \in Role
      BY <2>6 DEF ChangeRoleWrite, TypeInv, Shape
    <3>1. TypeOK'
      BY <2>0, <2>6, <3>0, LeaveShape DEF ChangeRoleWrite, HasRow, TypeInv, TypeOK, ghosts
    <3>2. RowInv'
      BY <2>6 DEF ChangeRoleWrite, TypeInv, TypeOK, RowInv, HasRow, Exists
    <3> QED BY <2>6, <3>1, <3>2, LeaveShape DEF ChangeRoleWrite, TypeInv
  <2>7. ASSUME OfferWrite(r), ~Fail(r) PROVE TypeInv'
    <3>1. TypeOK'
      BY <2>0, <2>7, LeaveShape DEF OfferWrite, members, TypeInv, TypeOK, ghosts
    <3>2. RowInv'
      BY <2>7 DEF OfferWrite, members, TypeInv, RowInv, HasRow, Exists
    <3> QED BY <2>7, <3>1, <3>2, LeaveShape DEF OfferWrite, TypeInv
  <2>8. ASSUME AcceptWrite(r), ~Fail(r) PROVE TypeInv'
    <3>1. /\ role' \in [User -> Role]
          /\ \A v \in User : role'[v] = role[v] \/ v = u \/ v \in Approved
      BY <2>0, <2>8 DEF AcceptWrite, Transfer, TypeInv, TypeOK
    <3>2. TypeOK'
      BY <2>0, <2>8, <3>1, LeaveShape DEF AcceptWrite, TypeInv, TypeOK, Approved, HasRow, ghosts
    <3>3. RowInv'
      BY <2>8 DEF AcceptWrite, TypeInv, RowInv, HasRow, Exists
    <3> QED BY <2>8, <3>2, <3>3, LeaveShape DEF AcceptWrite, TypeInv
  <2>9. CASE CancelWrite(r)
    <3>1. TypeOK'
      BY <2>9, LeaveShape DEF CancelWrite, members, TypeInv, TypeOK, ghosts
    <3>2. RowInv'
      BY <2>9 DEF CancelWrite, members, TypeInv, RowInv, HasRow, Exists
    <3> QED BY <2>9, <3>1, <3>2, LeaveShape DEF CancelWrite, TypeInv
  <2>10. ASSUME DesignateWrite(r), ~Fail(r) PROVE TypeInv'
    <3>1. TypeOK'
      BY <2>10, LeaveShape DEF DesignateWrite, members, TypeInv, TypeOK, ghosts
    <3>2. RowInv'
      BY <2>10 DEF DesignateWrite, members, TypeInv, RowInv, HasRow, Exists
    <3> QED BY <2>10, <3>1, <3>2, LeaveShape DEF DesignateWrite, TypeInv
  <2>11. ASSUME DeleteWrite(r), ~Fail(r) PROVE TypeInv'
    <3> DEFINE v == req[r].heir
    <3>1. /\ pc[r] = "delete"
          /\ v # None => HasRow(v)
          /\ accounts' = accounts \ {u}
          /\ (assoc' = "closed" /\ Exists) \/ assoc' = assoc
          /\ status' = [status EXCEPT ![u] = "none"]
          /\ role' = [w \in User |-> IF w = u THEN "member"
                                     ELSE IF w = v THEN req[r].new ELSE role[w]]
          /\ seat' = [seat EXCEPT ![u] = "none"]
          /\ pendingOwner' \in {pendingOwner, None}
          /\ raced' \in {raced, raced \cup {u}}
          /\ Leave(r)
          /\ UNCHANGED <<requires, memberCount, crossed>>
      BY <2>11 DEF DeleteWrite, SetStatus
    <3>2. u \in User /\ (v # None => req[r].new \in Elevated)
      BY <3>1 DEF TypeInv, Shape
    <3>3. TypeOK'
      BY <3>1, <3>2, LeaveShape DEF TypeInv, TypeOK, HasRow
    <3>4. RowInv'
      BY <3>1, <3>2 DEF TypeInv, TypeOK, RowInv, HasRow, Exists
    <3> QED BY <3>1, <3>3, <3>4, LeaveShape DEF TypeInv
  <2> QED BY <1>3, <2>1, <2>2, <2>3, <2>4, <2>5, <2>6, <2>7, <2>8, <2>9, <2>10, <2>11 DEF Write
<1>4. CASE UNCHANGED vars
  BY <1>4 DEF vars, TypeInv, TypeOK, Shape, RowInv, HasRow, Exists
<1> QED BY <1>1, <1>2, <1>3, <1>4 DEF Next

LEMMA InitType == Init => TypeInv
<1> SUFFICES ASSUME Init PROVE TypeInv
  OBVIOUS
<1>1. Blank \in Request /\ Blank.of = None
  BY DEF Blank, Ask, Request, Status
<1>2. TypeOK
  <2>1. /\ status \in [User -> Status] /\ role \in [User -> Role]
        /\ \A u \in User : role[u] = "member"
    BY DEF Init, Status, Role
  <2>2. pc \in [Req -> PC] /\ req \in [Req -> Request]
    BY <1>1 DEF Init, PC
  <2>3. seat \in [User -> {"none", "offered", "accepted"}]
    BY DEF Init
  <2>4. /\ assoc \in {"none", "live", "closed", "gone"}
        /\ requires \in BOOLEAN /\ crossed \in BOOLEAN
        /\ pendingOwner \in User \cup {None}
        /\ accounts \subseteq User /\ raced \subseteq User
    BY Zenon DEF Init
  <2>5. memberCount \in Int
    BY DEF Init
  <2> QED BY <2>1, <2>2, <2>3, <2>4, <2>5, Zenon DEF TypeOK
<1>3. ASSUME NEW r \in Req PROVE Shape(r)
  <2>1. pc[r] = "idle"
    BY DEF Init
  <2> QED BY <2>1 DEF Shape
<1> QED BY <1>2, <1>3 DEF Init, TypeInv, RowInv, HasRow

LEMMA TypeInvariant == Spec => []TypeInv
  BY InitType, NextType, PTL DEF Spec

\* The state of an association keeps its type.
THEOREM TypeCorrect == Spec => []TypeOK
  BY TypeInvariant, PTL DEF TypeInv

-----------------------------------------------------------------------------
(* Ownership.                                                                *)

LEMMA StepClaims ==
  ASSUME TypeInv, [Next]_vars, NEW u \in User, role'[u] = "owner", role[u] # "owner"
  PROVE  \/ assoc = "none"
         \/ pendingOwner = u /\ pendingOwner' = None
         \/ accounts' # accounts
<1>1. ASSUME NEW v \in User, Act(v), assoc # "none" PROVE FALSE
  BY <1>1 DEF Act, Create, Update, Remove, AcceptSeat, RemoveOfficer, members
<1>2. ASSUME NEW r \in Req, NEW v \in User, Read(r, v) PROVE FALSE
  BY <1>2 DEF Read, JoinRead, LeaveRead, AcceptRead, CancelRead, DeleteRead, ApproveRead,
     RejectRead, OfferRead, DesignateRead, ChangeRoleRead, Enter, members
<1>3. ASSUME NEW r \in Req, Fail(r) PROVE FALSE
  BY <1>3 DEF Fail, members
<1>4. ASSUME NEW r \in Req, JoinWrite(r) PROVE FALSE
  BY <1>3, <1>4 DEF JoinWrite, TypeInv, TypeOK
<1>5. ASSUME NEW r \in Req, ApproveWrite(r) \/ RejectWrite(r) PROVE FALSE
  BY <1>3, <1>5 DEF ApproveWrite, RejectWrite
<1>6. ASSUME NEW r \in Req, LeaveWrite(r) PROVE FALSE
  BY <1>3, <1>6 DEF LeaveWrite, TypeInv, TypeOK
<1>7. ASSUME NEW r \in Req, ChangeRoleWrite(r) PROVE FALSE
  BY <1>3, <1>7 DEF ChangeRoleWrite, TypeInv, TypeOK, Shape
<1>8. ASSUME NEW r \in Req, OfferWrite(r) \/ CancelWrite(r) \/ DesignateWrite(r) PROVE FALSE
  BY <1>3, <1>8 DEF OfferWrite, CancelWrite, DesignateWrite, members
<1>9. ASSUME NEW r \in Req, AcceptWrite(r) PROVE pendingOwner = u /\ pendingOwner' = None
  BY <1>3, <1>9 DEF AcceptWrite, Transfer, TypeInv, TypeOK
<1>10. ASSUME NEW r \in Req, DeleteWrite(r) PROVE accounts' # accounts
  BY <1>3, <1>10 DEF DeleteWrite
<1>11. CASE UNCHANGED vars
  BY <1>11 DEF vars
<1> QED BY <1>1, <1>2, <1>4, <1>5, <1>6, <1>7, <1>8, <1>9, <1>10, <1>11 DEF Next, Write

\* Ownership moves only by creation, by the claim of a standing offer, or to the
\* heir of a deleted account.
THEOREM Claimed == Spec => OwnershipIsClaimed
<1>1. TypeInv /\ [Next]_vars =>
        \A u \in User :
          role'[u] = "owner" /\ role[u] # "owner" =>
              \/ assoc = "none"
              \/ pendingOwner = u /\ pendingOwner' = None
              \/ accounts' # accounts
  BY StepClaims
<1> QED BY <1>1, TypeInvariant, PTL DEF Spec, OwnershipIsClaimed

-----------------------------------------------------------------------------
(* The count of members.                                                     *)

LEMMA CountQuiet ==
  ASSUME CountInv, UNCHANGED <<status, memberCount, raced, accounts, assoc>>,
         \A r \in Req : pc'[r] \in CountSteps => pc'[r] = pc[r] /\ req'[r] = req[r]
  PROVE  CountInv'
<1>1. CountMirrorsMembers'
  BY DEF CountInv, CountMirrorsMembers, Approved
<1> QED BY <1>1 DEF CountInv

LEMMA CountEnter ==
  ASSUME TypeInv, CountInv, NEW r \in Req, NEW step, NEW rec, Enter(r, step, rec),
         step \in CountSteps => assoc # "none" /\ status[rec.of] = rec.seen
  PROVE  CountInv'
<1>1. /\ UNCHANGED <<memberCount, status, accounts, assoc>>
      /\ raced \subseteq raced'
      /\ \A q \in Req : pc'[q] = IF q = r THEN step ELSE pc[q]
      /\ \A q \in Req : req'[q] = IF q = r THEN rec ELSE req[q]
      /\ pc[r] = "idle"
      /\ \A q \in Req : step \in CountSteps /\ pc[q] \in CountSteps /\ req[q].of = rec.of
                           => rec.of \in raced'
  BY DEF Enter, TypeInv, TypeOK, members
<1>2. CountMirrorsMembers'
  BY <1>1 DEF CountInv, CountMirrorsMembers, Approved
<1>3. \A q, p \in Req : q # p /\ pc'[q] \in CountSteps /\ pc'[p] \in CountSteps
                           /\ req'[q].of = req'[p].of => req'[p].of \in raced'
  BY <1>1 DEF CountInv
<1>4. \A q \in Req : pc'[q] \in CountSteps =>
          /\ assoc' # "none"
          /\ \/ req'[q].of \in raced'
             \/ req'[q].of \notin accounts' \/ assoc' = "gone"
             \/ status'[req'[q].of] = req'[q].seen
  BY <1>1 DEF CountInv
<1> QED BY <1>2, <1>3, <1>4 DEF CountInv

LEMMA CountWrite ==
  ASSUME TypeInv, CountInv, NEW r \in Req, pc[r] \in CountSteps, NEW s \in Status,
         status' = [status EXCEPT ![req[r].of] = s],
         memberCount' = memberCount + (IF s = "approved" THEN 1 ELSE 0)
                                    - (IF req[r].seen = "approved" THEN 1 ELSE 0),
         Leave(r), req[r].of \in accounts, Exists,
         UNCHANGED <<raced, accounts, assoc>>
  PROVE  CountInv'
<1> DEFINE u == req[r].of
<1>1. u \in User /\ \A q \in Req : pc'[q] # "idle" => q # r /\ pc'[q] = pc[q] /\ req'[q] = req[q]
  BY LeaveShape DEF TypeInv, TypeOK
<1>2. CountMirrorsMembers'
  <2> SUFFICES ASSUME raced = {} PROVE memberCount' = Cardinality(Approved')
    BY DEF CountMirrorsMembers
  <2>1. status[u] = req[r].seen /\ memberCount = Cardinality(Approved)
    BY DEF CountInv, CountMirrorsMembers, Exists
  <2>2. IsFiniteSet(Approved)
    BY Finite, FS_Subset DEF Approved
  <2>3. Cardinality(Approved) \in Nat
    BY <2>2, FS_CardinalityType
  <2>4. CASE s = "approved"
    <3>1. Approved' = Approved \cup {u}
      BY <1>1, <2>4 DEF Approved, TypeInv, TypeOK
    <3>2. u \in Approved <=> req[r].seen = "approved"
      BY <1>1, <2>1 DEF Approved
    <3>3. Cardinality(Approved \cup {u}) =
            IF u \in Approved THEN Cardinality(Approved) ELSE Cardinality(Approved) + 1
      BY <2>2, FS_AddElement
    <3> QED BY <2>1, <2>3, <2>4, <3>1, <3>2, <3>3
  <2>5. CASE s # "approved"
    <3>1. Approved' = Approved \ {u}
      BY <1>1, <2>5 DEF Approved, TypeInv, TypeOK
    <3>2. u \in Approved <=> req[r].seen = "approved"
      BY <1>1, <2>1 DEF Approved
    <3>3. Cardinality(Approved \ {u}) =
            IF u \in Approved THEN Cardinality(Approved) - 1 ELSE Cardinality(Approved)
      BY <2>2, FS_RemoveElement
    <3> QED BY <2>1, <2>3, <2>5, <3>1, <3>2, <3>3
  <2> QED BY <2>4, <2>5
<1>3. ASSUME NEW q \in Req, pc'[q] \in CountSteps
      PROVE  /\ assoc' # "none"
             /\ \/ req'[q].of \in raced'
                \/ req'[q].of \notin accounts' \/ assoc' = "gone"
                \/ status'[req'[q].of] = req'[q].seen
  <2>1. q # r /\ pc[q] \in CountSteps /\ pc'[q] = pc[q] /\ req'[q] = req[q]
    BY <1>1, <1>3 DEF CountSteps
  <2>2. req[q].of # u \/ u \in raced
    BY <2>1 DEF CountInv
  <2> QED BY <1>1, <2>1, <2>2 DEF CountInv, TypeInv, TypeOK, CountSteps
<1>4. \A q, p \in Req : q # p /\ pc'[q] \in CountSteps /\ pc'[p] \in CountSteps
                           /\ req'[q].of = req'[p].of => req'[p].of \in raced'
  BY <1>1 DEF CountInv, CountSteps
<1> QED BY <1>2, <1>3, <1>4 DEF CountInv

\* Every action keeps the count.
LEMMA NextCount == TypeInv /\ CountInv /\ [Next]_vars => CountInv'
<1> SUFFICES ASSUME TypeInv, CountInv, [Next]_vars PROVE CountInv'
  OBVIOUS
<1>1. ASSUME NEW u \in User, Create(u) PROVE CountInv'
  <2>1. \A r \in Req : pc[r] \notin CountSteps
    BY <1>1 DEF Create, CountInv
  <2>2. Approved' = {u}
    BY <1>1 DEF Create, SetStatus, Approved, TypeInv, TypeOK, RowInv, HasRow, Exists
  <2> QED BY <1>1, <2>1, <2>2, FS_Singleton DEF Create, CountInv, CountMirrorsMembers, reqs
<1>2. ASSUME NEW u \in User, Remove(u) PROVE CountInv'
  <2>1. Approved' = {}
    BY <1>2 DEF Remove, Approved
  <2> QED BY <1>2, <2>1, FS_EmptySet DEF Remove, CountInv, CountMirrorsMembers, reqs, ghosts
<1>3. ASSUME NEW u \in User, Update(u) \/ AcceptSeat(u) PROVE CountInv'
  BY <1>3, CountQuiet DEF Update, AcceptSeat, members, reqs, ghosts
<1>4. ASSUME NEW u \in User, NEW v \in User, RemoveOfficer(u, v) PROVE CountInv'
  BY <1>4, CountQuiet DEF RemoveOfficer, members, reqs, ghosts
<1>5. ASSUME NEW r \in Req, NEW u \in User, Read(r, u) PROVE CountInv'
  <2>0. \A v \in User : HasRow(v) => assoc # "none"
    BY DEF TypeInv, RowInv, Exists
  <2>1. CASE JoinRead(r, u)
    BY <2>1, CountEnter DEF JoinRead, Ask
  <2>2. CASE LeaveRead(r, u)
    BY <2>0, <2>2, CountEnter DEF LeaveRead, Ask
  <2>3. CASE AcceptRead(r, u)
    BY <2>3, CountEnter DEF AcceptRead, CountSteps
  <2>4. CASE CancelRead(r, u)
    BY <2>4, CountEnter DEF CancelRead, CountSteps
  <2>5. CASE DeleteRead(r, u)
    BY <2>5, CountEnter DEF DeleteRead, CountSteps
  <2>6. ASSUME NEW v \in User, ApproveRead(r, u, v) PROVE CountInv'
    BY <2>0, <2>6, CountEnter DEF ApproveRead, HasRow, Ask
  <2>7. ASSUME NEW v \in User, RejectRead(r, u, v) PROVE CountInv'
    BY <2>0, <2>7, CountEnter DEF RejectRead, HasRow, Ask
  <2>8. ASSUME NEW v \in User, OfferRead(r, u, v) PROVE CountInv'
    BY <2>8, CountEnter DEF OfferRead, CountSteps
  <2>9. ASSUME NEW v \in User, DesignateRead(r, u, v) PROVE CountInv'
    BY <2>9, CountEnter DEF DesignateRead, CountSteps
  <2>10. ASSUME NEW v \in User, NEW new \in Role \ {"owner"}, ChangeRoleRead(r, u, v, new)
         PROVE  CountInv'
    BY <2>10, CountEnter DEF ChangeRoleRead, CountSteps
  <2> QED BY <1>5, <2>1, <2>2, <2>3, <2>4, <2>5, <2>6, <2>7, <2>8, <2>9, <2>10 DEF Read
<1>6. ASSUME NEW r \in Req, Leave(r), UNCHANGED <<status, memberCount, raced, accounts, assoc>>
      PROVE  CountInv'
  BY <1>6, LeaveShape, CountQuiet DEF CountSteps
<1>7. ASSUME NEW r \in Req, Fail(r) PROVE CountInv'
  BY <1>6, <1>7 DEF Fail, members, ghosts
<1>8. ASSUME NEW r \in Req, Write(r), ~Fail(r) PROVE CountInv'
  <2> DEFINE u == req[r].of
  <2>0. pc[r] # "idle" /\ HasRow(u) => u \in accounts /\ Exists
    BY DEF TypeInv, Shape, RowInv
  <2>a. memberCount \in Int
    BY DEF TypeInv, TypeOK
  <2>1. CASE JoinWrite(r)
    <3>1. req[r].new \in {"pending", "approved"} /\ req[r].seen # "approved"
      BY <2>1 DEF JoinWrite, TypeInv, Shape
    <3> QED BY <1>8, <2>0, <2>a, <2>1, <3>1, CountWrite
         DEF JoinWrite, SetStatus, Count, CountSteps, Status, ghosts
  <2>2. CASE ApproveWrite(r)
    <3>1. req[r].seen = "pending"
      BY <2>2 DEF ApproveWrite, TypeInv, Shape
    <3> QED BY <1>8, <2>0, <2>a, <2>2, <3>1, CountWrite
         DEF ApproveWrite, SetStatus, Count, CountSteps, Status, ghosts
  <2>3. CASE RejectWrite(r)
    <3>1. req[r].seen = "pending"
      BY <2>3 DEF RejectWrite, TypeInv, Shape
    <3> QED BY <1>8, <2>0, <2>a, <2>3, <3>1, CountWrite
         DEF RejectWrite, SetStatus, CountSteps, Status, ghosts
  <2>4. CASE LeaveWrite(r)
    BY <1>8, <2>0, <2>a, <2>4, CountWrite
    DEF LeaveWrite, SetStatus, Count, CountSteps, Status, ghosts
  <2>5. CASE ChangeRoleWrite(r)
    BY <1>6, <1>8, <2>5 DEF ChangeRoleWrite, ghosts
  <2>6. CASE OfferWrite(r) \/ CancelWrite(r) \/ DesignateWrite(r)
    BY <1>6, <1>8, <2>6 DEF OfferWrite, CancelWrite, DesignateWrite, members, ghosts
  <2>7. CASE AcceptWrite(r)
    BY <1>6, <1>8, <2>7 DEF AcceptWrite, ghosts
  <2>8. CASE DeleteWrite(r)
    <3>1. /\ pc[r] = "delete"
          /\ accounts' = accounts \ {u}
          /\ (assoc' = "closed" /\ Exists) \/ assoc' = assoc
          /\ status' = [status EXCEPT ![u] = "none"]
          /\ raced' = IF u \in Approved THEN raced \cup {u} ELSE raced
          /\ memberCount' = memberCount
          /\ Leave(r)
      BY <1>8, <2>8 DEF DeleteWrite, SetStatus
    <3>2. u \in User
      BY <3>1 DEF TypeInv, Shape
    <3>3. CountMirrorsMembers'
      <4>1. CASE u \in Approved
        BY <3>1, <4>1 DEF CountMirrorsMembers
      <4>2. CASE u \notin Approved
        <5>1. Approved' = Approved
          BY <3>1, <3>2, <4>2 DEF Approved, TypeInv, TypeOK
        <5> QED BY <3>1, <4>2, <5>1 DEF CountMirrorsMembers, CountInv
      <4> QED BY <4>1, <4>2
    <3>4. \A q \in Req : pc'[q] # "idle" => q # r /\ pc'[q] = pc[q] /\ req'[q] = req[q]
      BY <3>1, LeaveShape
    <3>5. ASSUME NEW q \in Req, pc'[q] \in CountSteps
          PROVE  /\ assoc' # "none"
                 /\ \/ req'[q].of \in raced'
                    \/ req'[q].of \notin accounts' \/ assoc' = "gone"
                    \/ status'[req'[q].of] = req'[q].seen
      <4>1. pc[q] \in CountSteps /\ req'[q] = req[q] /\ req[q].of \in User
        BY <3>4, <3>5 DEF CountSteps, TypeInv, Shape
      <4> QED BY <3>1, <3>2, <4>1 DEF CountInv, Exists, TypeInv, TypeOK
    <3>6. \A q, p \in Req : q # p /\ pc'[q] \in CountSteps /\ pc'[p] \in CountSteps
                               /\ req'[q].of = req'[p].of => req'[p].of \in raced'
      BY <3>1, <3>4 DEF CountInv, CountSteps
    <3> QED BY <3>3, <3>5, <3>6 DEF CountInv
  <2> QED BY <1>8, <2>1, <2>2, <2>3, <2>4, <2>5, <2>6, <2>7, <2>8 DEF Write
<1>9. CASE UNCHANGED vars
  BY <1>9, CountQuiet DEF vars
<1> QED BY <1>1, <1>2, <1>3, <1>4, <1>5, <1>7, <1>8, <1>9 DEF Next, Act

LEMMA InitCount == Init => CountInv
<1> SUFFICES ASSUME Init PROVE CountInv
  OBVIOUS
<1>1. Approved = {}
  BY DEF Init, Approved
<1> QED BY <1>1, FS_EmptySet DEF Init, CountInv, CountMirrorsMembers, CountSteps

\* The public number of members is the number of approved rows, unless two requests
\* raced on one member or a member's account was deleted.
THEOREM CountExact == Spec => []CountMirrorsMembers
<1>1. Spec => []CountInv
  BY InitCount, NextCount, TypeInvariant, PTL DEF Spec
<1> QED BY <1>1, PTL DEF CountInv

-----------------------------------------------------------------------------
(* Who runs the association, and the board.                                  *)

\* What a request alone in flight knows of the rows.
Known(step, q) ==
    /\ step \in {"join", "approve"} => assoc = "live"
    /\ step \in CountSteps => status[q.of] = q.seen
    /\ step = "leave" => q.of \notin Heads \/ Heads \ {q.of} # {}
    /\ step = "role" => q.of \in Approved /\ (q.new \in Elevated \/ Heads \ {q.of} # {})
    /\ step \in {"accept", "designate"} => q.of \in Approved
    /\ step = "delete" =>
          \/ q.new # "close" /\ (q.of \notin Heads \/ Heads \ {q.of} # {})
          \/ q.new # "close" /\ q.heir \in Approved \ {q.of} /\ q.new \in Elevated
          \/ q.new = "close" /\ Approved = {q.of} /\ q.heir = None

RunInv ==
    /\ assoc = "live" => Heads # {}
    /\ assoc = "closed" => Approved = {}

Seated == \A u \in User : seat[u] # "none" => u \in Approved

BoardInv ==
    ~crossed =>
        /\ RunInv
        /\ Seated
        /\ \A q, r \in Req : pc[q] \in RowSteps /\ pc[r] \in RowSteps => q = r
        /\ \A r \in Req : Exists => Known(pc[r], req[r])

LEMMA TwoHeads ==
  ASSUME NEW u \in User, Cardinality(Heads) > 1
  PROVE  Heads \ {u} # {}
<1> SUFFICES ASSUME Heads \ {u} = {} PROVE FALSE
  OBVIOUS
<1>1. Heads \subseteq {u}
  OBVIOUS
<1>2. Cardinality(Heads) <= Cardinality({u}) /\ Cardinality({u}) = 1
  BY <1>1, FS_Singleton, FS_Subset
<1>3. IsFiniteSet(Heads)
  BY <1>1, FS_Singleton, FS_Subset
<1> QED BY <1>2, <1>3, FS_CardinalityType

\* Nothing that Known, RunInv and Seated speak of changes, and requests only leave.
LEMMA BoardQuiet ==
  ASSUME BoardInv, UNCHANGED <<status, role, assoc>>,
         crossed => crossed',
         ~crossed => Seated',
         \A r \in Req : pc'[r] \in RowSteps => pc'[r] = pc[r] /\ req'[r] = req[r]
  PROVE  BoardInv'
<1>1. Approved' = Approved /\ Heads' = Heads /\ (Exists' <=> Exists)
  BY DEF Approved, Heads, Exists
<1>2. ASSUME NEW r \in Req, Known(pc[r], req[r]) PROVE Known(pc[r], req[r])'
  <2>1. CASE pc'[r] \in RowSteps
    <3>1. pc'[r] = pc[r] /\ req'[r] = req[r]
      BY <2>1
    <3> QED BY <1>1, <1>2, <3>1 DEF Known
  <2>2. CASE pc'[r] \notin RowSteps
    BY <2>2 DEF Known, RowSteps, CountSteps
  <2> QED BY <2>1, <2>2
<1>3. ~crossed' => RunInv' /\ Seated'
  BY <1>1 DEF BoardInv, RunInv
<1>4. ~crossed' => \A q, r \in Req : pc'[q] \in RowSteps /\ pc'[r] \in RowSteps => q = r
  BY DEF BoardInv
<1>5. ~crossed' => \A r \in Req : Exists' => Known(pc[r], req[r])'
  BY <1>1, <1>2 DEF BoardInv
<1> QED BY <1>3, <1>4, <1>5 DEF BoardInv

\* A request that reads alone knows what it read.
LEMMA BoardEnter ==
  ASSUME TypeInv, BoardInv, NEW r \in Req, NEW step \in PC, NEW rec, Enter(r, step, rec),
         Known(step, rec) \/ crossed
  PROVE  BoardInv'
<1> SUFFICES ASSUME ~crossed'
    PROVE  /\ RunInv' /\ Seated'
           /\ \A q, p \in Req : pc'[q] \in RowSteps /\ pc'[p] \in RowSteps => q = p
           /\ \A q \in Req : Exists' => Known(pc[q], req[q])'
  BY DEF BoardInv
<1>1. /\ UNCHANGED <<status, role, seat, assoc>>
      /\ ~crossed
      /\ \A q \in Req : pc'[q] = IF q = r THEN step ELSE pc[q]
      /\ \A q \in Req : req'[q] = IF q = r THEN rec ELSE req[q]
      /\ step \in RowSteps => \A q \in Req : pc[q] \notin RowSteps
  BY DEF Enter, TypeInv, TypeOK, members
<1>2. Approved' = Approved /\ Heads' = Heads /\ (Exists' <=> Exists)
  BY <1>1 DEF Approved, Heads, Exists
<1>3. RunInv' /\ Seated'
  BY <1>1, <1>2 DEF BoardInv, RunInv, Seated
<1>4. ASSUME NEW q \in Req, Exists PROVE Known(pc[q], req[q])'
  <2>1. Known(pc'[q], req'[q])
    BY <1>1, <1>4 DEF BoardInv
  <2> QED BY <1>1, <1>2, <2>1 DEF Known
<1>5. \A q, p \in Req : pc'[q] \in RowSteps /\ pc'[p] \in RowSteps => q = p
  BY <1>1 DEF BoardInv
<1> QED BY <1>2, <1>3, <1>4, <1>5

\* A request alone in flight writes: only the state it leaves matters.
LEMMA BoardWrite ==
  ASSUME TypeInv, BoardInv, NEW r \in Req, pc[r] \in RowSteps, Leave(r), crossed' = crossed,
         ~crossed => RunInv' /\ Seated'
  PROVE  BoardInv'
<1> SUFFICES ASSUME ~crossed PROVE BoardInv'
  BY DEF BoardInv
<1>1. \A q \in Req : pc'[q] \notin RowSteps
  BY LeaveShape DEF BoardInv, RowSteps, CountSteps
<1>2. ASSUME NEW q \in Req PROVE Known(pc[q], req[q])'
  <2>1. pc'[q] \notin RowSteps
    BY <1>1
  <2> QED BY <2>1 DEF Known, RowSteps, CountSteps
<1> QED BY <1>1, <1>2 DEF BoardInv

\* Every action keeps an association run and its board made of members.
LEMMA NextBoard == TypeInv /\ BoardInv /\ [Next]_vars => BoardInv'
<1> SUFFICES ASSUME TypeInv, BoardInv, [Next]_vars PROVE BoardInv'
  OBVIOUS
<1>0. \A v \in User : HasRow(v) => Exists
  BY DEF TypeInv, RowInv
<1>1. ASSUME NEW u \in User, Create(u) PROVE BoardInv'
  <2> SUFFICES ASSUME ~crossed' PROVE BoardInv'
    BY DEF BoardInv
  <2>1. \A r \in Req : pc'[r] \notin RowSteps
    BY <1>1 DEF Create, reqs
  <2>2. u \in Heads'
    BY <1>1 DEF Create, SetStatus, Heads, Approved, Elevated, TypeInv, TypeOK
  <2>3. RunInv'
    BY <1>1, <2>2 DEF Create, RunInv
  <2>4. \A v \in User : seat'[v] # "none" => FALSE
    BY <1>1, <1>0 DEF Create, BoardInv, Seated, Approved, HasRow, Exists
  <2>5. ASSUME NEW r \in Req PROVE Known(pc[r], req[r])'
    BY <2>1 DEF Known, RowSteps, CountSteps
  <2> QED BY <2>1, <2>3, <2>4, <2>5 DEF BoardInv, Seated
<1>2. ASSUME NEW u \in User, Remove(u) PROVE BoardInv'
  BY <1>2 DEF Remove, BoardInv, RunInv, Seated, Exists, reqs, ghosts
<1>3. ASSUME NEW u \in User, Update(u) PROVE BoardInv'
  BY <1>3, BoardQuiet DEF Update, BoardInv, Seated, Approved, members, reqs, ghosts
<1>4. ASSUME NEW u \in User, AcceptSeat(u) PROVE BoardInv'
  BY <1>4, BoardQuiet DEF AcceptSeat, BoardInv, Seated, Approved, members, reqs, ghosts, TypeInv,
     TypeOK
<1>5. ASSUME NEW u \in User, NEW v \in User, RemoveOfficer(u, v) PROVE BoardInv'
  BY <1>5, BoardQuiet DEF RemoveOfficer, BoardInv, Seated, Approved, members, reqs, ghosts,
     TypeInv, TypeOK
<1>6. ASSUME NEW r \in Req, NEW u \in User, Read(r, u) PROVE BoardInv'
  <2>0. Approved # {} => assoc = "live" \/ crossed
    BY <1>0 DEF BoardInv, RunInv, Approved, HasRow, Exists
  <2>1. CASE JoinRead(r, u)
    BY <2>1, BoardEnter DEF JoinRead, Known, Ask, PC, RowSteps, CountSteps
  <2>2. CASE LeaveRead(r, u)
    BY <2>2, BoardEnter, TwoHeads DEF LeaveRead, Known, Ask, PC, RowSteps, CountSteps
  <2>3. CASE AcceptRead(r, u)
    BY <2>3, BoardEnter DEF AcceptRead, Known, Ask, PC, RowSteps, CountSteps
  <2>4. CASE CancelRead(r, u)
    BY <2>4, BoardEnter DEF CancelRead, Known, Ask, PC, RowSteps, CountSteps
  <2>5. CASE DeleteRead(r, u)
    <3>1. ASSUME Heads # {u}, Enter(r, "delete", Ask(u, u, status[u], "none", None))
          PROVE  BoardInv'
      BY <3>1, BoardEnter DEF Known, Ask, PC, RowSteps, CountSteps
    <3>2. ASSUME NEW v \in Heirs(u), NEW new \in {"owner", "admin"},
                 Enter(r, "delete", Ask(u, u, "approved", new, v))
          PROVE  BoardInv'
      <4>1. v \in Approved \ {u}
        BY DEF Heirs
      <4> QED BY <3>2, <4>1, BoardEnter DEF Known, Ask, PC, RowSteps, CountSteps, Elevated
    <3>3. ASSUME Heads = {u}, Heirs(u) = {},
                 Enter(r, "delete", Ask(u, u, "approved", "close", None))
          PROVE  BoardInv'
      <4>1. \A v \in Approved \ {u} : role[v] # "moderator" /\ role[v] # "member"
        BY <3>3 DEF Heirs
      <4>2. \A v \in Approved \ {u} : role[v] \in Elevated
        BY <4>1 DEF TypeInv, TypeOK, Approved, Role, Elevated
      <4>3. Approved = {u}
        BY <3>3, <4>2 DEF Heads
      <4> QED BY <3>3, <4>3, BoardEnter DEF Known, Ask, PC, RowSteps, CountSteps
    <3> QED BY <2>5, <3>1, <3>2, <3>3 DEF DeleteRead
  <2>6. ASSUME NEW v \in User, ApproveRead(r, u, v) PROVE BoardInv'
    BY <2>0, <2>6, BoardEnter DEF ApproveRead, May, Known, Ask, PC, RowSteps, CountSteps
  <2>7. ASSUME NEW v \in User, RejectRead(r, u, v) PROVE BoardInv'
    BY <2>7, BoardEnter DEF RejectRead, Known, Ask, PC, RowSteps, CountSteps
  <2>8. ASSUME NEW v \in User, OfferRead(r, u, v) PROVE BoardInv'
    BY <2>8, BoardEnter DEF OfferRead, Known, Ask, PC, RowSteps, CountSteps
  <2>9. ASSUME NEW v \in User, DesignateRead(r, u, v) PROVE BoardInv'
    BY <2>9, BoardEnter DEF DesignateRead, Known, Ask, PC, RowSteps, CountSteps
  <2>10. ASSUME NEW v \in User, NEW new \in Role \ {"owner"}, ChangeRoleRead(r, u, v, new)
         PROVE  BoardInv'
    <3>1. u \in Heads
      BY <2>10 DEF ChangeRoleRead, May, Heads
    <3>2. v \in Approved /\ (new \in Elevated \/ Heads \ {v} # {})
      BY <2>10, <3>1, TwoHeads DEF ChangeRoleRead
    <3> QED BY <2>10, <3>2, BoardEnter DEF ChangeRoleRead, Known, Ask, PC, RowSteps, CountSteps
  <2> QED BY <1>6, <2>1, <2>2, <2>3, <2>4, <2>5, <2>6, <2>7, <2>8, <2>9, <2>10 DEF Read
<1>7. ASSUME NEW r \in Req, Leave(r), UNCHANGED <<status, role, assoc, seat, crossed>>
      PROVE  BoardInv'
  BY <1>7, LeaveShape, BoardQuiet DEF RowSteps, CountSteps, Seated, BoardInv, Approved
<1>8. ASSUME NEW r \in Req, Fail(r) PROVE BoardInv'
  BY <1>7, <1>8 DEF Fail, members, ghosts
<1>9. ASSUME NEW r \in Req, OfferWrite(r) \/ CancelWrite(r) PROVE BoardInv'
  BY <1>7, <1>8, <1>9 DEF OfferWrite, CancelWrite, members, ghosts
<1>10. ASSUME NEW r \in Req, Write(r), ~Fail(r), ~OfferWrite(r), ~CancelWrite(r) PROVE BoardInv'
  <2> DEFINE u == req[r].of
  <2>1. pc[r] \in RowSteps /\ Leave(r) /\ crossed' = crossed
    BY <1>10 DEF Write, JoinWrite, ApproveWrite, RejectWrite, LeaveWrite, ChangeRoleWrite,
       AcceptWrite, DesignateWrite, DeleteWrite, RowSteps, CountSteps, ghosts
  <2> SUFFICES ASSUME ~crossed PROVE RunInv' /\ Seated'
    BY <2>1, BoardWrite
  <2>2. u \in User
    BY <2>1 DEF TypeInv, Shape, RowSteps, CountSteps
  <2>3. RunInv /\ Seated /\ (Exists => Known(pc[r], req[r]))
    BY DEF BoardInv
  <2>4. HasRow(u) => Exists
    BY <1>0, <2>2
  <2>5. CASE JoinWrite(r)
    <3>1. /\ status' = [status EXCEPT ![u] = req[r].new]
          /\ role' = [role EXCEPT ![u] = "member"]
          /\ Exists /\ assoc = "live"
          /\ status[u] = req[r].seen /\ req[r].seen # "approved"
          /\ UNCHANGED <<assoc, seat>>
      BY <1>10, <2>3, <2>4, <2>5
      DEF JoinWrite, SetStatus, Known, CountSteps, TypeInv, Shape
    <3>2. Approved \subseteq Approved' /\ Heads \subseteq Heads'
      BY <2>2, <3>1 DEF Approved, Heads, TypeInv, TypeOK
    <3> QED BY <2>3, <3>1, <3>2 DEF RunInv, Seated
  <2>6. CASE ApproveWrite(r)
    <3>1. /\ status' = [status EXCEPT ![u] = "approved"]
          /\ assoc = "live"
          /\ UNCHANGED <<assoc, seat, role>>
      BY <1>10, <2>3, <2>4, <2>6 DEF ApproveWrite, SetStatus, Known
    <3>2. Approved \subseteq Approved' /\ Heads \subseteq Heads'
      BY <2>2, <3>1 DEF Approved, Heads, TypeInv, TypeOK
    <3> QED BY <2>3, <3>1, <3>2 DEF RunInv, Seated
  <2>7. CASE RejectWrite(r)
    <3>1. /\ status' = [status EXCEPT ![u] = "rejected"]
          /\ status[u] = "pending"
          /\ UNCHANGED <<assoc, seat, role>>
      BY <1>10, <2>3, <2>4, <2>7 DEF RejectWrite, SetStatus, Known, CountSteps, TypeInv, Shape
    <3>2. Approved' = Approved /\ Heads' = Heads
      BY <2>2, <3>1 DEF Approved, Heads, TypeInv, TypeOK
    <3> QED BY <2>3, <3>1, <3>2 DEF RunInv, Seated
  <2>8. CASE LeaveWrite(r)
    <3>1. /\ status' = [status EXCEPT ![u] = "none"]
          /\ role' = [role EXCEPT ![u] = "member"]
          /\ seat' = [seat EXCEPT ![u] = "none"]
          /\ assoc' = assoc
          /\ u \notin Heads \/ Heads \ {u} # {}
      BY <1>10, <2>3, <2>4, <2>8 DEF LeaveWrite, SetStatus, Known
    <3>2. Approved' = Approved \ {u} /\ Heads' = Heads \ {u}
      BY <2>2, <3>1 DEF Approved, Heads, TypeInv, TypeOK
    <3>3. Seated'
      BY <2>2, <2>3, <3>1, <3>2 DEF Seated, TypeInv, TypeOK
    <3> QED BY <2>3, <3>1, <3>2, <3>3 DEF RunInv
  <2>9. CASE ChangeRoleWrite(r)
    <3>1. /\ role' = [role EXCEPT ![u] = req[r].new]
          /\ u \in Approved /\ (req[r].new \in Elevated \/ Heads \ {u} # {})
          /\ UNCHANGED <<assoc, seat, status>>
      BY <1>10, <2>3, <2>4, <2>9 DEF ChangeRoleWrite, Known
    <3>2. Approved' = Approved /\ Heads \ {u} \subseteq Heads'
      BY <2>2, <3>1 DEF Approved, Heads, TypeInv, TypeOK
    <3>3. Heads' # {}
      BY <2>2, <3>1, <3>2 DEF Heads, TypeInv, TypeOK
    <3> QED BY <2>3, <3>1, <3>2, <3>3 DEF RunInv, Seated
  <2>10. CASE AcceptWrite(r)
    <3>1. /\ Transfer(r)
          /\ u \in Approved
          /\ UNCHANGED <<assoc, seat, status>>
      BY <1>10, <2>3, <2>4, <2>10 DEF AcceptWrite, Known
    <3>2. Approved' = Approved /\ role'[u] = "owner"
      BY <2>2, <3>1 DEF Approved, Transfer, TypeInv, TypeOK
    <3>3. u \in Heads'
      BY <3>1, <3>2 DEF Heads, Elevated
    <3> QED BY <2>3, <3>1, <3>2, <3>3 DEF RunInv, Seated
  <2>11. CASE DesignateWrite(r)
    <3>1. /\ seat' = [seat EXCEPT ![u] = "offered"]
          /\ u \in Approved
          /\ UNCHANGED <<assoc, role, status>>
      BY <1>10, <2>3, <2>11 DEF DesignateWrite, members, Known
    <3>2. Approved' = Approved /\ Heads' = Heads
      BY <3>1 DEF Approved, Heads
    <3> QED BY <2>3, <3>1, <3>2 DEF RunInv, Seated, TypeInv, TypeOK
  <2>12. CASE DeleteWrite(r)
    <3> DEFINE v == req[r].heir
    <3>1. /\ pc[r] = "delete"
          /\ v # None => HasRow(v)
          /\ assoc' = IF req[r].new = "close" /\ Exists THEN "closed" ELSE assoc
          /\ status' = [status EXCEPT ![u] = "none"]
          /\ role' = [w \in User |-> IF w = u THEN "member"
                                     ELSE IF w = v THEN req[r].new ELSE role[w]]
          /\ seat' = [seat EXCEPT ![u] = "none"]
      BY <1>10, <2>12 DEF DeleteWrite, SetStatus
    <3>2. Approved' = Approved \ {u}
      BY <2>2, <3>1 DEF Approved, TypeInv, TypeOK
    <3>3. Seated'
      BY <2>2, <2>3, <3>1, <3>2 DEF Seated, TypeInv, TypeOK
    <3>4. CASE ~Exists
      BY <3>1, <3>3, <3>4 DEF RunInv, Exists
    <3>5. v # None => req[r].new \in Elevated
      BY <3>1 DEF TypeInv, Shape
    <3>6. Heads \ {u} \subseteq Heads'
      <4> SUFFICES ASSUME NEW w \in Heads, w # u PROVE w \in Heads'
        OBVIOUS
      <4>1. w \in User /\ w \in Approved' /\ role[w] \in Elevated
        BY <3>2 DEF Heads, Approved
      <4>2. role'[w] = role[w] \/ (w = v /\ role'[w] = req[r].new)
        BY <3>1, <4>1
      <4>3. role'[w] \in Elevated
        BY <3>5, <4>1, <4>2, NoneFresh
      <4> QED BY <4>1, <4>3 DEF Heads
    <3>7. CASE Exists /\ req[r].new # "close" /\ (u \notin Heads \/ Heads \ {u} # {})
      BY <2>3, <3>1, <3>2, <3>3, <3>6, <3>7 DEF RunInv
    <3>8. CASE Exists /\ req[r].new # "close" /\ v \in Approved \ {u} /\ req[r].new \in Elevated
      <4>1. v \in Heads'
        BY <3>1, <3>2, <3>8 DEF Heads, Approved
      <4> QED BY <2>3, <3>1, <3>3, <3>8, <4>1 DEF RunInv
    <3>9. CASE Exists /\ req[r].new = "close" /\ Approved = {u}
      BY <3>1, <3>2, <3>3, <3>9 DEF RunInv
    <3>10. Exists => Known("delete", req[r])
      BY <2>3, <3>1
    <3> QED BY <3>3, <3>4, <3>7, <3>8, <3>9, <3>10 DEF Known
  <2> QED BY <1>10, <2>5, <2>6, <2>7, <2>8, <2>9, <2>10, <2>11, <2>12 DEF Write
<1>11. CASE UNCHANGED vars
  BY <1>11, BoardQuiet DEF vars, BoardInv, Seated, Approved
<1> QED BY <1>1, <1>2, <1>3, <1>4, <1>5, <1>6, <1>8, <1>9, <1>10, <1>11 DEF Next, Act

LEMMA InitBoard == Init => BoardInv
<1> SUFFICES ASSUME Init PROVE BoardInv
  OBVIOUS
<1>1. RunInv /\ Seated
  BY DEF Init, RunInv, Seated
<1>2. \A r \in Req : pc[r] \notin RowSteps
  BY DEF Init, RowSteps, CountSteps
<1> QED BY <1>1, <1>2 DEF BoardInv, Init, Exists

LEMMA BoardInvariant == Spec => []BoardInv
  BY InitBoard, NextBoard, TypeInvariant, PTL DEF Spec

\* As long as requests on rows do not overlap, an association with members is live
\* and is run by one of them.
THEOREM AlwaysRun == Spec => []RunBySomebody
<1>1. BoardInv => RunBySomebody
  BY DEF BoardInv, RunInv, RunBySomebody, Exists
<1> QED BY <1>1, BoardInvariant, PTL

\* And its board is made of members.
THEOREM BoardOfMembers == Spec => []BoardSits
<1>1. BoardInv => BoardSits
  BY DEF BoardInv, Seated, BoardSits
<1> QED BY <1>1, BoardInvariant, PTL
====
