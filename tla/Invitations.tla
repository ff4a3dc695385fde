---- MODULE Invitations ----
(* Sponsorship: invitations from creation to acceptance, revocation or       *)
(* expiry, and the registrations that go through them. A registration in the *)
(* invite_only mode first looks the invitation up (by code, or by the        *)
(* address it targets), then creates the account and consumes the invitation *)
(* in one transaction; anything may happen in between.                       *)
(* Accounts are named by their address, which the schema keeps unique. The   *)
(* abuse flags of an inviter are kept as one bit: three or more of them.     *)
(* Modes open and closed are a registration with no invitation, and none.    *)
EXTENDS FiniteSets

CONSTANTS Inviter,   \* members who may invite
          Email,     \* addresses, each the identity of the account it registers
          Inv,       \* invitation rows that can ever be created (the bound)
          Req,       \* requests in flight at the same time
          Root,      \* the null inviter of an administrator's invitation
          None

ASSUME RootFresh == Root \notin Inviter
ASSUME NoneFresh == None \notin Inviter \cup Email \cup Inv \cup {Root}

Kind == {"single_use", "reusable"}
Standing == {"active", "suspended", "banned"}
InvStatus == {"absent", "pending", "accepted", "revoked", "expired", "deleted"}
PC == {"idle", "create", "revoke", "byCode", "byEmail", "open"}

VARIABLES
    istatus, kind, inviter, target, acceptedBy,  \* the invitation row
    due,          \* pending rows whose expires_at has passed
    registered,   \* accounts that exist
    members,      \* inviters whose account exists
    via, by,      \* users.invited_via_id and invited_by_id
    standing,     \* users.status of each inviter
    flagged,      \* inviters with three abuse flags, which nothing takes back
    bulk,         \* holders of can_bulk_invite
    cutting,      \* inviters banned, whose links are not yet revoked
    pc, req       \* next step of each request, and what it remembers

invs     == <<istatus, kind, inviter, target, acceptedBy, due>>
accounts == <<registered, via, by, members>>
rights   == <<standing, flagged, bulk, cutting>>
reqs     == <<pc, req>>
vars     == <<istatus, kind, inviter, target, acceptedBy, due,
              registered, via, by, members, standing, flagged, bulk, cutting, pc, req>>

Blank == [inv |-> None, email |-> None, by |-> None, kind |-> "single_use"]

TypeOK ==
    /\ istatus \in [Inv -> InvStatus]
    /\ kind \in [Inv -> Kind]
    /\ inviter \in [Inv -> Inviter \cup {Root, None}]
    /\ target \in [Inv -> Email \cup {None}]
    /\ acceptedBy \in [Inv -> Email \cup {None}]
    /\ due \subseteq Inv
    /\ registered \subseteq Email
    /\ via \in [Email -> Inv \cup {None}]
    /\ by \in [Email -> Inviter \cup {Root, None}]
    /\ members \subseteq Inviter
    /\ standing \in [Inviter -> Standing]
    /\ flagged \subseteq Inviter
    /\ bulk \subseteq Inviter
    /\ cutting \subseteq Inviter
    /\ pc \in [Req -> PC]
    /\ req \in [Req -> [inv : Inv \cup {None}, email : Email \cup {None},
                        by : Inviter \cup {Root, None}, kind : Kind]]

Init ==
    /\ istatus = [i \in Inv |-> "absent"]
    /\ kind = [i \in Inv |-> "single_use"]
    /\ inviter = [i \in Inv |-> None]
    /\ target = [i \in Inv |-> None]
    /\ acceptedBy = [i \in Inv |-> None]
    /\ due = {}
    /\ registered = {}
    /\ via = [e \in Email |-> None]
    /\ by = [e \in Email |-> None]
    /\ members = Inviter
    /\ standing = [u \in Inviter |-> "active"]
    /\ flagged = {}
    /\ bulk = {}
    /\ cutting = {}
    /\ pc = [r \in Req |-> "idle"]
    /\ req = [r \in Req |-> Blank]

-----------------------------------------------------------------------------
(* Requests.                                                                 *)

Enter(r, step, rec) ==
    /\ pc[r] = "idle"
    /\ pc' = [pc EXCEPT ![r] = step]
    /\ req' = [req EXCEPT ![r] = rec]

Leave(r) ==
    /\ pc' = [pc EXCEPT ![r] = "idle"]
    /\ req' = [req EXCEPT ![r] = Blank]

Pending(i) == istatus[i] = "pending"

\* createInvitation reads the inviter and applies its gates. It does not read
\* his status, which the guard in front may know from a cache.
CreateRead(r, u, k, e) ==
    /\ u \in members \ flagged
    /\ k = "reusable" => u \in bulk /\ e = None
    /\ Enter(r, "create", [inv |-> None, email |-> e, by |-> u, kind |-> k])
    /\ UNCHANGED <<invs, accounts, rights>>

Insert(i, u, k, e) ==
    /\ istatus[i] = "absent"
    /\ istatus' = [istatus EXCEPT ![i] = "pending"]
    /\ kind' = [kind EXCEPT ![i] = k]
    /\ inviter' = [inviter EXCEPT ![i] = u]
    /\ target' = [target EXCEPT ![i] = e]
    /\ UNCHANGED <<acceptedBy, due, accounts, rights>>

CreateWrite(r, i) ==
    /\ pc[r] = "create"
    /\ req[r].by \in members
    /\ Insert(i, req[r].by, req[r].kind, req[r].email)
    /\ Leave(r)

\* generateRootInvites: no inviter, no address.
CreateRoot(i, k) ==
    /\ Insert(i, Root, k, None)
    /\ UNCHANGED reqs

\* revokeInvitation reads the row and refuses one that is not pending...
RevokeRead(r, i) ==
    /\ Pending(i)
    /\ inviter[i] \in Inviter
    /\ Enter(r, "revoke", [Blank EXCEPT !.inv = i])
    /\ UNCHANGED <<invs, accounts, rights>>

\* Rows S leave "pending" for s. Whatever the way out, the address is purged.
\* (Bug: it is kept.)
RetireBug(S, s) ==
    /\ istatus' = [i \in Inv |-> IF i \in S THEN s ELSE istatus[i]]
    /\ UNCHANGED <<kind, inviter, target, acceptedBy>>
Retire(S, s) ==
    /\ istatus' = [i \in Inv |-> IF i \in S THEN s ELSE istatus[i]]
    /\ target' = [i \in Inv |-> IF i \in S THEN None ELSE target[i]]
    /\ UNCHANGED <<kind, inviter, acceptedBy>>

\* ... then updates it by id, whatever its status has become.
RevokeWrite(r) ==
    /\ pc[r] = "revoke"
    /\ istatus[req[r].inv] # "deleted"
    /\ Retire({req[r].inv}, "revoked")
    /\ due' = due \ {req[r].inv}
    /\ Leave(r)
    /\ UNCHANGED <<accounts, rights>>

\* The invitation's expires_at, set on some root invitations, passes.
DuePasses(i) ==
    /\ Pending(i)
    /\ inviter[i] = Root
    /\ due' = due \cup {i}
    /\ UNCHANGED <<istatus, kind, inviter, target, acceptedBy, accounts, rights, reqs>>

\* InvitationExpiryCron.run.
ExpireDue ==
    LET S == {i \in due : Pending(i)} IN
    /\ S # {}
    /\ Retire(S, "expired")
    /\ due' = due \ S
    /\ UNCHANGED <<accounts, rights, reqs>>

-----------------------------------------------------------------------------
(* Registration.                                                             *)

Trusted == {u \in Inviter : standing[u] = "active" /\ u \notin flagged}

\* resolveCodeForRegistration: the row is pending and its inviter, if any, in
\* good standing. expires_at is not read.
ResolveCode(r, e, i) ==
    /\ Pending(i)
    /\ inviter[i] \in {Root} \cup Trusted
    /\ Enter(r, "byCode", [inv |-> i, email |-> e, by |-> inviter[i], kind |-> kind[i]])
    /\ UNCHANGED <<invs, accounts, rights>>

\* preValidateEmail: some pending row targets the address. The inviter's
\* standing is not read on this path.
ResolveEmail(r, e, i) ==
    /\ Pending(i)
    /\ target[i] = e
    /\ Enter(r, "byEmail", [inv |-> i, email |-> e, by |-> inviter[i], kind |-> kind[i]])
    /\ UNCHANGED <<invs, accounts, rights>>

\* The open mode: no invitation is looked at.
ResolveOpen(r, e) ==
    /\ Enter(r, "open", [Blank EXCEPT !.email = e])
    /\ UNCHANGED <<invs, accounts, rights>>

\* (Bug: the sponsor recorded is the address of the account.)
CreateAccountBug(e, i, u) ==
    /\ e \notin registered
    /\ registered' = registered \cup {e}
    /\ via' = [via EXCEPT ![e] = i]
    /\ by' = [by EXCEPT ![e] = e]
    /\ UNCHANGED members

\* tx.user.create: the unique address decides between two registrations.
CreateAccount(e, i, u) ==
    /\ e \notin registered
    /\ registered' = registered \cup {e}
    /\ via' = [via EXCEPT ![e] = i]
    /\ by' = [by EXCEPT ![e] = u]
    /\ UNCHANGED members

Consume(i, e) ==
    /\ istatus' = [istatus EXCEPT ![i] = "accepted"]
    /\ acceptedBy' = [acceptedBy EXCEPT ![i] = e]
    /\ target' = [target EXCEPT ![i] = None]
    /\ due' = due \ {i}
    /\ UNCHANGED <<kind, inviter>>

\* What a single-use code must still be when the account is created. (Bug:
\* the condition on the status is dropped.)
ConsumableBug(i) == kind[i] = "single_use" /\ istatus[i] # "absent"
Consumable(i) == kind[i] = "single_use" /\ Pending(i)

\* atomicallyConsumeSingleUse, in the transaction of the account.
RegisterSingleUse(r) ==
    /\ pc[r] = "byCode" /\ req[r].kind = "single_use"
    /\ Consumable(req[r].inv)
    /\ CreateAccount(req[r].email, req[r].inv, req[r].by)
    /\ Consume(req[r].inv, req[r].email)
    /\ Leave(r)
    /\ UNCHANGED rights

\* A reusable link is not consumed, nor is its status looked at again: the
\* row has only to exist, for the foreign key.
RegisterReusable(r) ==
    /\ pc[r] = "byCode" /\ req[r].kind = "reusable"
    /\ istatus[req[r].inv] # "deleted"
    /\ CreateAccount(req[r].email, req[r].inv, req[r].by)
    /\ Leave(r)
    /\ UNCHANGED <<invs, rights>>

\* atomicallyConsumeByEmail runs its own findFirst: the row it consumes may be
\* another one than preValidateEmail found, and the account is set to it. The
\* row found first has to exist, for the foreign key.
\* (Bug: the account keeps the sponsor found first.)
RegisterByEmailBug(r, i) ==
    /\ pc[r] = "byEmail"
    /\ istatus[req[r].inv] # "deleted"
    /\ Consumable(i) /\ target[i] = req[r].email
    /\ CreateAccount(req[r].email, i, req[r].by)
    /\ Consume(i, req[r].email)
    /\ Leave(r)
    /\ UNCHANGED rights
RegisterByEmail(r, i) ==
    /\ pc[r] = "byEmail"
    /\ istatus[req[r].inv] # "deleted"
    /\ Consumable(i) /\ target[i] = req[r].email
    /\ CreateAccount(req[r].email, i, inviter[i])
    /\ Consume(i, req[r].email)
    /\ Leave(r)
    /\ UNCHANGED rights

RegisterOpen(r) ==
    /\ pc[r] = "open"
    /\ CreateAccount(req[r].email, None, None)
    /\ Leave(r)
    /\ UNCHANGED <<invs, rights>>

\* The address is taken, the invitation gone, or the server failed: the
\* transaction is rolled back.
Abort(r) ==
    /\ pc[r] # "idle"
    /\ Leave(r)
    /\ UNCHANGED <<invs, accounts, rights>>

-----------------------------------------------------------------------------
(* Rights and sanctions of inviters.                                         *)

LinksOf(u) == {i \in Inv : inviter[i] = u /\ kind[i] = "reusable" /\ Pending(i)}

GrantBulk(u) ==
    /\ u \in members
    /\ bulk' = bulk \cup {u}
    /\ UNCHANGED <<invs, accounts, standing, flagged, cutting, reqs>>

\* setBulkInviteRight(false): right and links go in one transaction.
WithdrawBulk(u) ==
    /\ u \in members
    /\ bulk' = bulk \ {u}
    /\ Retire(LinksOf(u), "revoked")
    /\ due' = due \ LinksOf(u)
    /\ UNCHANGED <<accounts, standing, flagged, cutting, reqs>>

\* The moderation ban, on the transition into banned: status and right first...
Ban(u) ==
    /\ u \in members
    /\ standing[u] # "banned"
    /\ standing' = [standing EXCEPT ![u] = "banned"]
    /\ bulk' = bulk \ {u}
    /\ cutting' = cutting \cup {u}
    /\ UNCHANGED <<invs, accounts, flagged, reqs>>

\* ... then the links.
BanLinks(u) ==
    /\ u \in cutting
    /\ cutting' = cutting \ {u}
    /\ Retire(LinksOf(u), "revoked")
    /\ due' = due \ LinksOf(u)
    /\ UNCHANGED <<accounts, standing, flagged, bulk, reqs>>

\* The console's setUserStatus, in either direction, leaves right and links
\* alone; so does a moderation suspension.
Sanction(u, to) ==
    /\ u \in members
    /\ standing[u] # to
    /\ standing' = [standing EXCEPT ![u] = to]
    /\ UNCHANGED <<invs, accounts, flagged, bulk, cutting, reqs>>

\* The ban of an account he invited gives an inviter his third flag.
Flag(u) ==
    /\ u \in members \ flagged
    /\ flagged' = flagged \cup {u}
    /\ UNCHANGED <<invs, accounts, standing, bulk, cutting, reqs>>

\* An invited account is deleted: accepted_by_id is set to null. (Bug: and its
\* invitation is given back.)
DeleteAccountBug(e) ==
    /\ e \in registered
    /\ registered' = registered \ {e}
    /\ via' = [via EXCEPT ![e] = None]
    /\ by' = [by EXCEPT ![e] = None]
    /\ acceptedBy' = [i \in Inv |-> IF acceptedBy[i] = e THEN None ELSE acceptedBy[i]]
    /\ istatus' = [i \in Inv |-> IF acceptedBy[i] = e THEN "pending" ELSE istatus[i]]
    /\ UNCHANGED <<kind, inviter, target, due, members, rights, reqs>>
DeleteAccount(e) ==
    /\ e \in registered
    /\ registered' = registered \ {e}
    /\ via' = [via EXCEPT ![e] = None]
    /\ by' = [by EXCEPT ![e] = None]
    /\ acceptedBy' = [i \in Inv |-> IF acceptedBy[i] = e THEN None ELSE acceptedBy[i]]
    /\ UNCHANGED <<istatus, kind, inviter, target, due, members, rights, reqs>>

\* An inviter's account is deleted: his rows go with it, the accounts that came
\* through them keep no trace of it.
DeleteInviter(u) ==
    LET S == {i \in Inv : inviter[i] = u} IN
    /\ u \in members
    /\ members' = members \ {u}
    /\ standing' = [standing EXCEPT ![u] = "active"]
    /\ flagged' = flagged \ {u}
    /\ bulk' = bulk \ {u}
    /\ cutting' = cutting \ {u}
    /\ istatus' = [i \in Inv |-> IF i \in S THEN "deleted" ELSE istatus[i]]
    /\ inviter' = [i \in Inv |-> IF i \in S THEN None ELSE inviter[i]]
    /\ target' = [i \in Inv |-> IF i \in S THEN None ELSE target[i]]
    /\ acceptedBy' = [i \in Inv |-> IF i \in S THEN None ELSE acceptedBy[i]]
    /\ via' = [e \in Email |-> IF via[e] \in S THEN None ELSE via[e]]
    /\ by' = [e \in Email |-> IF by[e] = u THEN None ELSE by[e]]
    /\ UNCHANGED <<kind, due, registered, reqs>>

Next ==
    \/ \E r \in Req, u \in Inviter, k \in Kind, e \in Email \cup {None} : CreateRead(r, u, k, e)
    \/ \E r \in Req, i \in Inv : CreateWrite(r, i) \/ RevokeRead(r, i) \/ RegisterByEmail(r, i)
    \/ \E i \in Inv, k \in Kind : CreateRoot(i, k)
    \/ \E i \in Inv : DuePasses(i)
    \/ ExpireDue
    \/ \E r \in Req, e \in Email, i \in Inv : ResolveCode(r, e, i) \/ ResolveEmail(r, e, i)
    \/ \E r \in Req, e \in Email : ResolveOpen(r, e)
    \/ \E r \in Req : RegisterSingleUse(r) \/ RegisterReusable(r) \/ RegisterOpen(r)
    \/ \E r \in Req : RevokeWrite(r) \/ Abort(r)
    \/ \E u \in Inviter : GrantBulk(u) \/ WithdrawBulk(u) \/ Ban(u) \/ BanLinks(u)
    \/ \E u \in Inviter, to \in Standing : Sanction(u, to)
    \/ \E u \in Inviter : Flag(u)
    \/ \E e \in Email : DeleteAccount(e)
    \/ \E u \in Inviter : DeleteInviter(u)

Spec == Init /\ [][Next]_vars

-----------------------------------------------------------------------------
(* Properties.                                                               *)

Signups(i) == {e \in registered : via[e] = i}

\* A single-use invitation lets in one account, the one it records, however
\* many registrations looked it up, by code or by address, while it was
\* pending. Nothing but that account's deletion empties acceptedBy.
SingleUseLetsOneIn ==
    \A i \in Inv : kind[i] = "single_use" =>
        Signups(i) = IF acceptedBy[i] = None THEN {} ELSE {acceptedBy[i]}

\* The sponsor credited to an account is the inviter of the invitation it
\* consumed, also when another one was found at the start.
CreditFollowsConsumption ==
    \A e \in registered : via[e] # None => by[e] = inviter[via[e]]

\* schema.prisma:1551: a third party's address is kept only while its
\* invitation is pending, whichever of the four ways out it takes.
AddressPurged ==
    \A i \in Inv : target[i] # None => Pending(i) /\ kind[i] = "single_use"

\* An invitation is open once in its life, a single-use one admits one account in
\* all, and the deletion of that account does not give the place back, whatever the
\* order of registrations, revocations, expiry and deletions.
LifeOf(i) ==
    CASE istatus[i] = "absent" -> "unborn"
      [] istatus[i] = "pending" -> "open"
      [] istatus[i] = "deleted" -> "gone"
      [] OTHER -> "closed"

SingleUseRows == {i \in Inv : istatus[i] # "absent" /\ kind[i] = "single_use"}

Admission == INSTANCE Admissions
    WITH life <- [i \in Inv |-> LifeOf(i)], once <- SingleUseRows, pass <- via

AdmissionSpec == Admission!Spec
====
