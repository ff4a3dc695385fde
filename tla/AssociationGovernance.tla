---- MODULE AssociationGovernance ----
(* One association: who belongs to it, who runs it, who is offered it. A     *)
(* handler reads the rows it decides on, then writes by primary key without a*)
(* condition on what it read, so each is a read step and a write step of a   *)
(* request. The several reads of one handler are one step: nothing is written*)
(* between them. The deletion of an account is a transaction under READ      *)
(* COMMITTED: it decides on what it reads and other requests commit before   *)
(* its writes.                                                               *)
EXTENDS Integers, FiniteSets

CONSTANTS User,
          Req,     \* requests in flight at the same time
          Cap,     \* how far the count of members is followed out of 0 .. |User|
          None

ASSUME NoneFresh == None \notin User
ASSUME Finite == IsFiniteSet(User)
ASSUME CapBound == Cap \in Nat

Status == {"none", "pending", "approved", "rejected"}   \* none: no row
Role == {"member", "moderator", "admin", "owner"}
Elevated == {"owner", "admin"}
Staff == Elevated \cup {"moderator"}

VARIABLES
    assoc,          \* none, live, closed (deletedAt is set) or gone (row deleted)
    requires,       \* requiresApproval
    memberCount,
    pendingOwner,   \* the member the association is offered to
    status, role,   \* the rows of members
    seat,           \* the rows of the board: none, offered or accepted
    accounts,       \* the users that exist
    pc, req,        \* next step of each request, and what it remembers
    raced,          \* history: users whose count two requests moved at once
    crossed         \* history: two requests on members' rows overlapped

members == <<status, role>>
reqs == <<pc, req>>
ghosts == <<raced, crossed>>
vars == <<assoc, requires, memberCount, pendingOwner, status, role, seat,
          accounts, pc, req, raced, crossed>>

\* Steps that change which rows are approved, and steps that write a row of a
\* member or of the board.
CountSteps == {"join", "approve", "reject", "leave"}
RowSteps == CountSteps \cup {"role", "accept", "delete", "designate"}
PC == RowSteps \cup {"idle", "offer", "cancel"}

Request == [by : User \cup {None}, of : User \cup {None},
            seen : Status, new : Status \cup Role \cup {"close"}, heir : User \cup {None}]

Ask(by, of, seen, new, heir) ==
    [by |-> by, of |-> of, seen |-> seen, new |-> new, heir |-> heir]
Blank == Ask(None, None, "none", "none", None)

TypeOK ==
    /\ assoc \in {"none", "live", "closed", "gone"}
    /\ requires \in BOOLEAN
    /\ memberCount \in Int
    /\ pendingOwner \in User \cup {None}
    /\ status \in [User -> Status]
    /\ role \in [User -> Role]
    /\ \A u \in User : status[u] = "none" => role[u] = "member"
    /\ seat \in [User -> {"none", "offered", "accepted"}]
    /\ accounts \subseteq User
    /\ pc \in [Req -> PC]
    /\ req \in [Req -> Request]
    /\ raced \subseteq User
    /\ crossed \in BOOLEAN

Init ==
    /\ assoc = "none"
    /\ requires = FALSE
    /\ memberCount = 0
    /\ pendingOwner = None
    /\ status = [u \in User |-> "none"]
    /\ role = [u \in User |-> "member"]
    /\ seat = [u \in User |-> "none"]
    /\ accounts = User
    /\ pc = [r \in Req |-> "idle"]
    /\ req = [r \in Req |-> Blank]
    /\ raced = {}
    /\ crossed = FALSE

-----------------------------------------------------------------------------
Approved == {u \in User : status[u] = "approved"}
Heads == {u \in Approved : role[u] \in Elevated}
Exists == assoc \in {"live", "closed"}

\* assertRole
May(u, roles) == u \in Approved /\ role[u] \in roles

\* A request has read what it decides on and goes to its write.
Enter(r, step, rec) ==
    /\ pc[r] = "idle"
    /\ pc' = [pc EXCEPT ![r] = step]
    /\ req' = [req EXCEPT ![r] = rec]
    /\ raced' = IF step \in CountSteps
                     /\ \E q \in Req : pc[q] \in CountSteps /\ req[q].of = rec.of
                THEN raced \cup {rec.of} ELSE raced
    /\ crossed' = (crossed \/ (step \in RowSteps /\ \E q \in Req : pc[q] \in RowSteps))
    /\ UNCHANGED <<assoc, requires, memberCount, pendingOwner, members, seat, accounts>>

Leave(r) ==
    /\ pc' = [pc EXCEPT ![r] = "idle"]
    /\ req' = [req EXCEPT ![r] = Blank]

\* The write finds no row, or one too many: the handler throws.
Fail(r) ==
    /\ Leave(r)
    /\ UNCHANGED <<assoc, requires, memberCount, pendingOwner, members, seat,
                   accounts, ghosts>>

HasRow(u) == status[u] # "none"

SetStatus(u, s) == status' = [status EXCEPT ![u] = s]

Count(d) ==
    /\ memberCount + d \in -Cap .. Cardinality(User) + Cap
    /\ memberCount' = memberCount + d

-----------------------------------------------------------------------------
Create(u) ==
    /\ assoc = "none"
    /\ u \in accounts
    /\ assoc' = "live"
    /\ requires' \in BOOLEAN
    /\ memberCount' = 1
    /\ SetStatus(u, "approved")
    /\ role' = [role EXCEPT ![u] = "owner"]
    /\ crossed' = (crossed \/ \E q \in Req : pc[q] \in RowSteps)
    /\ UNCHANGED <<pendingOwner, seat, accounts, reqs, raced>>

\* update, of which only requiresApproval matters here.
Update(u) ==
    /\ May(u, Elevated)
    /\ requires' = ~requires
    /\ UNCHANGED <<assoc, memberCount, pendingOwner, members, seat, accounts, reqs, ghosts>>

\* The row goes, and with it by cascade every member and every seat.
Remove(u) ==
    /\ May(u, Elevated)
    /\ assoc' = "gone"
    /\ memberCount' = 0
    /\ pendingOwner' = None
    /\ status' = [v \in User |-> "none"]
    /\ role' = [v \in User |-> "member"]
    /\ seat' = [v \in User |-> "none"]
    /\ UNCHANGED <<requires, accounts, reqs, ghosts>>

-----------------------------------------------------------------------------
(* Members.                                                                  *)

JoinRead(r, u) ==
    /\ u \in accounts
    /\ assoc = "live"
    /\ status[u] \in {"none", "rejected"}
    /\ Enter(r, "join", Ask(u, u, status[u], IF requires THEN "pending" ELSE "approved", None))

\* A new row is refused by its key or by the deletion of what it refers to; an
\* update is refused when the row is gone.
JoinWrite(r) ==
    LET u == req[r].of
        possible == IF req[r].seen = "none"
                    THEN ~HasRow(u) /\ u \in accounts /\ Exists
                    ELSE HasRow(u)
    IN  /\ pc[r] = "join"
        /\ \/ ~possible /\ Fail(r)
           \/ /\ possible
              /\ SetStatus(u, req[r].new)
              /\ role' = [role EXCEPT ![u] = "member"]
              /\ Count(IF req[r].new = "approved" THEN 1 ELSE 0)
              /\ Leave(r)
              /\ UNCHANGED <<assoc, requires, pendingOwner, seat, accounts, ghosts>>

ApproveRead(r, a, u) ==
    /\ May(a, Staff)
    /\ status[u] = "pending"
    /\ Enter(r, "approve", Ask(a, u, "pending", "approved", None))

ApproveWrite(r) ==
    /\ pc[r] = "approve"
    /\ \/ ~HasRow(req[r].of) /\ Fail(r)
       \/ /\ HasRow(req[r].of)
          /\ SetStatus(req[r].of, "approved")
          /\ Count(1)
          /\ Leave(r)
          /\ UNCHANGED <<assoc, requires, pendingOwner, role, seat, accounts, ghosts>>

RejectRead(r, a, u) ==
    /\ May(a, Staff)
    /\ status[u] = "pending"
    /\ Enter(r, "reject", Ask(a, u, "pending", "rejected", None))

RejectWrite(r) ==
    /\ pc[r] = "reject"
    /\ \/ ~HasRow(req[r].of) /\ Fail(r)
       \/ /\ HasRow(req[r].of)
          /\ SetStatus(req[r].of, "rejected")
          /\ Leave(r)
          /\ UNCHANGED <<assoc, requires, memberCount, pendingOwner, role, seat,
                         accounts, ghosts>>

\* The last admin or owner may not go. (Bug: rows that are not approved count.)
LeaveReadBug(r, u) ==
    /\ HasRow(u)
    /\ u \in Heads => Cardinality({v \in User : HasRow(v)}) > 1
    /\ Enter(r, "leave", Ask(u, u, status[u], "none", None))
LeaveRead(r, u) ==
    /\ HasRow(u)
    /\ u \in Heads => Cardinality(Heads) > 1
    /\ Enter(r, "leave", Ask(u, u, status[u], "none", None))

\* The row and the seat go; the count goes down if the row read was approved.
\* (Bugs: the withdrawal of a request counts too; the seat stays.)
LeaveWriteCountBug(r) ==
    LET u == req[r].of
    IN  /\ pc[r] = "leave"
        /\ HasRow(u)
        /\ SetStatus(u, "none")
        /\ role' = [role EXCEPT ![u] = "member"]
        /\ seat' = [seat EXCEPT ![u] = "none"]
        /\ Count(-1)
        /\ Leave(r)
        /\ UNCHANGED <<assoc, requires, pendingOwner, accounts, ghosts>>
LeaveWriteSeatBug(r) ==
    LET u == req[r].of
    IN  /\ pc[r] = "leave"
        /\ HasRow(u)
        /\ SetStatus(u, "none")
        /\ role' = [role EXCEPT ![u] = "member"]
        /\ Count(IF req[r].seen = "approved" THEN -1 ELSE 0)
        /\ Leave(r)
        /\ UNCHANGED <<assoc, requires, pendingOwner, seat, accounts, ghosts>>
LeaveWrite(r) ==
    LET u == req[r].of
    IN  /\ pc[r] = "leave"
        /\ \/ ~HasRow(u) /\ Fail(r)
           \/ /\ HasRow(u)
              /\ SetStatus(u, "none")
              /\ role' = [role EXCEPT ![u] = "member"]
              /\ seat' = [seat EXCEPT ![u] = "none"]
              /\ Count(IF req[r].seen = "approved" THEN -1 ELSE 0)
              /\ Leave(r)
              /\ UNCHANGED <<assoc, requires, pendingOwner, accounts, ghosts>>

-----------------------------------------------------------------------------
(* Roles and ownership.                                                      *)

ChangeRoleRead(r, a, u, new) ==
    /\ May(a, Elevated)
    /\ u \in Approved
    /\ role[u] # "owner"
    /\ role[a] = "admin" /\ role[u] = "admin" => a = u
    /\ a = u /\ new \notin Elevated => Cardinality(Heads) > 1
    /\ Enter(r, "role", Ask(a, u, "approved", new, None))

ChangeRoleWrite(r) ==
    /\ pc[r] = "role"
    /\ \/ ~HasRow(req[r].of) /\ Fail(r)
       \/ /\ HasRow(req[r].of)
          /\ role' = [role EXCEPT ![req[r].of] = req[r].new]
          /\ Leave(r)
          /\ UNCHANGED <<assoc, requires, memberCount, pendingOwner, status, seat,
                         accounts, ghosts>>

OfferRead(r, a, u) ==
    /\ May(a, {"owner"})
    /\ u # a
    /\ u \in Approved
    /\ Enter(r, "offer", Ask(a, u, "approved", "owner", None))

OfferWrite(r) ==
    LET possible == Exists /\ req[r].of \in accounts
    IN  /\ pc[r] = "offer"
        /\ \/ ~possible /\ Fail(r)
           \/ /\ possible
              /\ pendingOwner' = req[r].of
              /\ Leave(r)
              /\ UNCHANGED <<assoc, requires, memberCount, members, seat, accounts, ghosts>>

AcceptRead(r, u) ==
    /\ pendingOwner = u
    /\ u \in Approved
    /\ Enter(r, "accept", Ask(u, u, "approved", "owner", None))

\* The owner in place when the offer is claimed becomes an admin.
Transfer(r) ==
    LET u == req[r].of
        Outgoing == {v \in Approved : role[v] = "owner"}
    IN  \/ /\ Outgoing = {}
           /\ role' = [role EXCEPT ![u] = "owner"]
        \/ \E out \in Outgoing :
              role' = [v \in User |-> IF v = u THEN "owner"
                                      ELSE IF v = out THEN "admin" ELSE role[v]]

\* The offer is claimed by a conditional update. (Bugs: by its key alone; and the
\* row of the new owner is created if it has gone.)
AcceptWriteBug(r) ==
    /\ pc[r] = "accept"
    /\ HasRow(req[r].of)
    /\ pendingOwner' = None
    /\ Transfer(r)
    /\ Leave(r)
    /\ UNCHANGED <<assoc, requires, memberCount, status, seat, accounts, ghosts>>
AcceptWriteUpsertBug(r) ==
    /\ pc[r] = "accept"
    /\ pendingOwner = req[r].of
    /\ pendingOwner' = None
    /\ Transfer(r)
    /\ Leave(r)
    /\ UNCHANGED <<assoc, requires, memberCount, status, seat, accounts, ghosts>>
AcceptWrite(r) ==
    LET possible == pendingOwner = req[r].of /\ HasRow(req[r].of)
    IN  /\ pc[r] = "accept"
        /\ \/ ~possible /\ Fail(r)
           \/ /\ possible
              /\ pendingOwner' = None
              /\ Transfer(r)
              /\ Leave(r)
              /\ UNCHANGED <<assoc, requires, memberCount, status, seat, accounts, ghosts>>

\* declineOrCancelOwnershipTransfer
CancelRead(r, u) ==
    /\ pendingOwner # None
    /\ u = pendingOwner \/ May(u, {"owner"})
    /\ Enter(r, "cancel", Ask(u, u, "none", "none", None))

CancelWrite(r) ==
    /\ pc[r] = "cancel"
    /\ pendingOwner' = None
    /\ Leave(r)
    /\ UNCHANGED <<assoc, requires, memberCount, members, seat, accounts, ghosts>>

-----------------------------------------------------------------------------
(* The board.                                                                *)

DesignateRead(r, a, u) ==
    /\ May(a, Elevated)
    /\ u \in Approved
    /\ seat[u] = "none"
    /\ Enter(r, "designate", Ask(a, u, "approved", "none", None))

DesignateWrite(r) ==
    LET u == req[r].of
        possible == seat[u] = "none" /\ u \in accounts /\ Exists
    IN  /\ pc[r] = "designate"
        /\ \/ ~possible /\ Fail(r)
           \/ /\ possible
              /\ seat' = [seat EXCEPT ![u] = "offered"]
              /\ Leave(r)
              /\ UNCHANGED <<assoc, requires, memberCount, pendingOwner, members,
                             accounts, ghosts>>

AcceptSeat(u) ==
    /\ seat[u] = "offered"
    /\ seat' = [seat EXCEPT ![u] = "accepted"]
    /\ UNCHANGED <<assoc, requires, memberCount, pendingOwner, members, accounts,
                   reqs, ghosts>>

RemoveOfficer(a, u) ==
    /\ a = u \/ May(a, Elevated)
    /\ seat[u] # "none"
    /\ seat' = [seat EXCEPT ![u] = "none"]
    /\ UNCHANGED <<assoc, requires, memberCount, pendingOwner, members, accounts,
                   reqs, ghosts>>

-----------------------------------------------------------------------------
(* Deletion of an account (reassignOwnershipBeforeDeletion, then the row).   *)

\* The oldest moderator, else the oldest member; the order of arrival is left
\* open.
Heirs(u) ==
    LET With(x) == {v \in Approved \ {u} : role[v] = x}
    IN  IF With("moderator") # {} THEN With("moderator") ELSE With("member")

\* What the transaction decides for the one who runs the association alone.
DeleteRead(r, u) ==
    /\ u \in accounts
    /\ \/ /\ Heads # {u}
          /\ Enter(r, "delete", Ask(u, u, status[u], "none", None))
       \/ /\ Heads = {u}
          /\ \/ \E v \in Heirs(u) :
                   Enter(r, "delete", Ask(u, u, "approved",
                         IF role[u] = "owner" THEN "owner" ELSE "admin", v))
             \/ /\ Heirs(u) = {}
                /\ Enter(r, "delete", Ask(u, u, "approved", "close", None))

\* The count of members is not touched: the row of a member goes by cascade.
DeleteWrite(r) ==
    LET u == req[r].of
        v == req[r].heir
        possible == u \in accounts /\ (v # None => HasRow(v))
    IN  /\ pc[r] = "delete"
        /\ \/ ~possible /\ Fail(r)
           \/ /\ possible
              /\ accounts' = accounts \ {u}
              /\ assoc' = IF req[r].new = "close" /\ Exists THEN "closed" ELSE assoc
              /\ SetStatus(u, "none")
              /\ role' = [w \in User |-> IF w = u THEN "member"
                                         ELSE IF w = v THEN req[r].new ELSE role[w]]
              /\ seat' = [seat EXCEPT ![u] = "none"]
              /\ pendingOwner' = IF pendingOwner = u THEN None ELSE pendingOwner
              /\ raced' = IF u \in Approved THEN raced \cup {u} ELSE raced
              /\ Leave(r)
              /\ UNCHANGED <<requires, memberCount, crossed>>

-----------------------------------------------------------------------------
Act(u) ==
    \/ Create(u) \/ Update(u) \/ Remove(u) \/ AcceptSeat(u)
    \/ \E v \in User : RemoveOfficer(u, v)

Read(r, u) ==
    \/ JoinRead(r, u) \/ LeaveRead(r, u) \/ AcceptRead(r, u) \/ CancelRead(r, u)
    \/ DeleteRead(r, u)
    \/ \E v \in User :
          \/ ApproveRead(r, u, v) \/ RejectRead(r, u, v) \/ OfferRead(r, u, v)
          \/ DesignateRead(r, u, v)
          \/ \E new \in Role \ {"owner"} : ChangeRoleRead(r, u, v, new)

Write(r) ==
    \/ JoinWrite(r) \/ ApproveWrite(r) \/ RejectWrite(r) \/ LeaveWrite(r)
    \/ ChangeRoleWrite(r) \/ OfferWrite(r) \/ AcceptWrite(r) \/ CancelWrite(r)
    \/ DesignateWrite(r) \/ DeleteWrite(r)

Next ==
    \/ \E u \in User : Act(u)
    \/ \E r \in Req : Write(r) \/ \E u \in User : Read(r, u)

Spec == Init /\ [][Next]_vars

-----------------------------------------------------------------------------
(* Properties.                                                               *)

\* The public number of members is the number of approved rows, however the
\* requests on different members interleave: it drifts only through two requests
\* on the row of one member, or the deletion of a member's account.
CountMirrorsMembers == raced = {} => memberCount = Cardinality(Approved)

\* As long as requests on members' rows do not overlap, an association with
\* members is live and has somebody to run it, through departures, changes of
\* role, transfers, refusals and the deletion of the accounts of those who ran it.
RunBySomebody ==
    Exists /\ ~crossed /\ Approved # {} => assoc = "live" /\ Heads # {}

\* And under the same condition nobody sits on the board, or is offered a seat,
\* without being a member.
BoardSits == ~crossed => \A u \in User : seat[u] # "none" => u \in Approved

\* Somebody becomes the owner only by creating the association, by claiming the
\* offer that stands at that moment, which is spent, or as the heir of an owner
\* whose account is deleted.
OwnershipIsClaimed ==
    [][\A u \in User :
          role'[u] = "owner" /\ role[u] # "owner" =>
              \/ assoc = "none"
              \/ pendingOwner = u /\ pendingOwner' = None
              \/ accounts' # accounts]_vars

\* "NOBODY may demote the owner through this generic endpoint" (changeRole): an
\* owner stops being one by a transfer of the ownership or by going.
OwnerKept ==
    [][\A u \in User :
          May(u, {"owner"}) /\ role'[u] # "owner" =>
              pendingOwner' # pendingOwner \/ status'[u] = "none"]_vars
====
