---- MODULE IdentityLifecycle ----
(* The identity documents of one account, from the private bucket to the     *)
(* vault. Three kinds of process work on them, each a chain of awaited calls *)
(* to PostgreSQL and to two object stores: the hourly cron, the deletion of  *)
(* the account, and the requests of moderators and administrators. The cron  *)
(* and the deletion both run archiveDocument. Every failing call and every   *)
(* restart of the API is a fault; there are at most MaxFaults of them.       *)
EXTENDS Naturals, FiniteSets

CONSTANTS MaxDoc,      \* documents ever created, numbered in order of createdAt
          MaxArchive,  \* archive ids ever drawn (randomUUID)
          Desk,        \* requests of reviewers in flight at the same time
          MaxElapsed,  \* the archives up to this id can reach the end of their term
          MaxFaults,
          ObjectLock   \* the vault's storage enforces the WORM lock

ASSUME IdentityAssumption ==
    /\ MaxDoc \in Nat /\ MaxArchive \in Nat /\ MaxElapsed \in Nat /\ MaxFaults \in Nat
    /\ ObjectLock \in BOOLEAN

Doc == 1..MaxDoc
Archive == 1..MaxArchive
Worker == {"cron", "account"}
Outcome == {"approved", "rejected"}
RowStatus == {"unborn", "pending", "gone"} \cup Outcome
Sealing == {"loop", "fetch", "seal", "record", "drop"}
Steps == Sealing \cup {"idle", "destroy", "unrow", "stale", "unstale", "purge", "mark",
                       "extend", "restamp", "clean"}

VARIABLES
    status,          \* the row of each document
    manual,          \* the documents without a file: verified by hand
    file,            \* the documents whose file is in the private bucket
    aged,            \* reviewed 30 days ago, or submitted 90 days ago
    identityStatus,  \* of the account; "deleted" when its row is gone
    vault,           \* the archives whose envelope is in the vault
    archive,         \* the rows of identity_archives
    due,             \* the archives whose purge_at has passed
    lapsed,          \* the archives whose WORM lock has run out
    job,             \* the cron's run and the deletion of the account
    desk,            \* what each reviewer's request has found
    faults

docs == <<status, manual, aged, identityStatus>>
archives == <<archive, due, lapsed>>
vars == <<status, manual, file, aged, identityStatus, vault, archive, due, lapsed,
          job, desk, faults>>

Job == [at : Steps, todo : SUBSET Doc, files : SUBSET Doc, doc : Doc \cup {0},
        outcome : Outcome \cup {"none"}, ids : SUBSET Archive, id : Archive \cup {0}]
ArchiveRow == [row : {"none", "live", "purged"}, outcome : Outcome \cup {"none"}]

\* A job amid a loop over documents, and amid a loop over archives.
OnDocs(at, todo, files, d, o, a) ==
    [at |-> at, todo |-> todo, files |-> files, doc |-> d, outcome |-> o, ids |-> {}, id |-> a]
OnArchives(at, ids, files, a) ==
    [at |-> at, todo |-> {}, files |-> files, doc |-> 0, outcome |-> "none", ids |-> ids, id |-> a]
Rest == OnDocs("idle", {}, {}, 0, "none", 0)
Idle == [at |-> "idle", doc |-> 0]

TypeOK ==
    /\ status \in [Doc -> RowStatus]
    /\ manual \subseteq Doc /\ file \subseteq Doc /\ aged \subseteq Doc
    /\ identityStatus \in {"not_submitted", "pending", "deleted"} \cup Outcome
    /\ vault \subseteq Archive
    /\ archive \in [Archive -> ArchiveRow]
    /\ due \subseteq Archive /\ lapsed \subseteq Archive
    /\ job \in [Worker -> Job]
    /\ desk \in [Desk -> [at : {"idle", "review", "manual", "revoke"}, doc : Doc \cup {0}]]
    /\ faults \in 0..MaxFaults

Init ==
    /\ status = [d \in Doc |-> "unborn"]
    /\ manual = {} /\ file = {} /\ aged = {}
    /\ identityStatus = "not_submitted"
    /\ vault = {}
    /\ archive = [a \in Archive |-> [row |-> "none", outcome |-> "none"]]
    /\ due = {} /\ lapsed = {}
    /\ job = [w \in Worker |-> Rest]
    /\ desk = [q \in Desk |-> Idle]
    /\ faults = 0

-----------------------------------------------------------------------------
Rows == {d \in Doc : status[d] \notin {"unborn", "gone"}}
Examined == {d \in Doc : status[d] \in Outcome}
Exists == identityStatus # "deleted"
NextDoc(d) == status[d] = "unborn" /\ \A e \in Doc : e < d => status[e] # "unborn"
Latest(S, d) == d \in S /\ \A e \in S : e <= d
Live == {a \in Archive : archive[a].row = "live"}
Fault == faults < MaxFaults /\ faults' = faults + 1

-----------------------------------------------------------------------------
\* The member and the reviewers.

\* submitIdentity: the row and the account's status in one transaction; the
\* file is in the private bucket since the presigned upload.
Submit(d) ==
    /\ Exists /\ NextDoc(d)
    /\ status' = [status EXCEPT ![d] = "pending"]
    /\ file' = file \cup {d}
    /\ identityStatus' = "pending"
    /\ UNCHANGED <<manual, aged, vault, archives, job, desk, faults>>

\* The first read of reviewIdentity, manualApproveIdentity and revokeIdentity.
Found(q, at, S) ==
    /\ desk[q].at = "idle" /\ Exists
    /\ \E d \in Doc \cup {0} :
        /\ IF S = {} THEN d = 0 ELSE Latest(S, d)
        /\ desk' = [desk EXCEPT ![q] = [at |-> at, doc |-> d]]
    /\ UNCHANGED <<docs, file, vault, archives, job, faults>>

FindPending(q) ==
    LET pending == {d \in Doc : status[d] = "pending"}
    IN  pending # {} /\ Found(q, "review", pending)
FindManual(q) == Found(q, "manual", Rows \cap manual)
FindLatest(q) == Found(q, "revoke", Rows)

\* Their transaction: it fails when the row it updates, or the account, is gone.
Decide(q, d, verdict) ==
    /\ Exists
    /\ status' = [status EXCEPT ![d] = verdict]
    /\ aged' = aged \ {d}
    /\ identityStatus' = verdict

Close(q) ==
    /\ desk' = [desk EXCEPT ![q] = Idle]
    /\ UNCHANGED <<file, vault, archives, job, faults>>

Review(q) ==
    /\ desk[q].at = "review"
    /\ desk[q].doc \in Rows
    /\ \E verdict \in Outcome : Decide(q, desk[q].doc, verdict)
    /\ UNCHANGED manual
    /\ Close(q)

ApproveByHand(q) ==
    /\ desk[q].at = "manual"
    /\ \E d \in Doc :
        /\ IF desk[q].doc = 0 THEN NextDoc(d) ELSE d = desk[q].doc /\ d \in Rows
        /\ Decide(q, d, "approved")
        /\ manual' = manual \cup {d}
    /\ Close(q)

Revoke(q) ==
    /\ desk[q].at = "revoke" /\ desk[q].doc # 0
    /\ desk[q].doc \in Rows
    /\ Decide(q, desk[q].doc, "rejected")
    /\ UNCHANGED manual
    /\ Close(q)

RevokeNothing(q) ==
    /\ desk[q].at = "revoke" /\ desk[q].doc = 0
    /\ Exists
    /\ identityStatus' = "not_submitted"
    /\ UNCHANGED <<status, manual, aged>>
    /\ Close(q)

Refused(q) ==
    /\ desk[q].at # "idle"
    /\ ~Exists \/ desk[q].doc \notin Rows \cup {0}
    /\ UNCHANGED docs
    /\ Close(q)

\* Time: thirty days after a review, ninety after a submission; the years an
\* archive is kept do not run out within the run that seals or extends it.
Age(d) ==
    /\ d \in Rows \ aged
    /\ aged' = aged \cup {d}
    /\ UNCHANGED <<status, manual, file, identityStatus, vault, archives, job, desk, faults>>

Elapse(a) ==
    /\ a \in Live \ (due \cap lapsed) /\ a <= MaxElapsed
    /\ \A w \in Worker : job[w].id # a
    /\ due' = due \cup {a}
    /\ lapsed' = lapsed \cup {a}
    /\ UNCHANGED <<docs, file, vault, archive, job, desk, faults>>

-----------------------------------------------------------------------------
\* archiveDocument, for either caller.

Set(w, j) == job' = [job EXCEPT ![w] = j]

\* The next call for the same document, and the end of the work on document d.
To(w, at, a) ==
    Set(w, OnDocs(at, job[w].todo, job[w].files, job[w].doc, job[w].outcome, a))
Done(w, d, at) == Set(w, OnDocs(at, job[w].todo \ {d}, job[w].files, 0, "none", 0))
Remove(w, d, at) == Set(w, OnDocs(at, job[w].todo, {}, d, "none", 0))

\* Nothing was sealed: the cron destroys the file and the row itself, the
\* deletion of the account leaves both to its own end.
Unsealed(w, d) ==
    \/ w = "account" /\ Done(w, d, "loop")
    \/ w = "cron" /\ d \in manual /\ Remove(w, d, "unrow")
    \/ w = "cron" /\ d \notin manual /\ Remove(w, d, "destroy")

\* An exception: the cron skips the document, the deletion goes on without.
Thrown(w, d) == Done(w, d, "loop")

Sealed(w, d) ==
    \/ w = "cron" /\ Remove(w, d, "unrow")
    \/ w = "account" /\ Set(w, OnDocs("loop", job[w].todo \ {d}, job[w].files \ {d}, 0, "none", 0))

\* What can be sealed: a row, examined, with a file to its name.
Archivable(d) == d \in Examined \ manual

Take(w) ==
    /\ job[w].at = "loop"
    /\ \E d \in job[w].todo :
        \/ /\ Archivable(d)
           /\ Set(w, OnDocs("fetch", job[w].todo, job[w].files, d, status[d], 0))
        \/ /\ ~Archivable(d)
           /\ Unsealed(w, d)
    /\ UNCHANGED <<docs, file, vault, archives, desk, faults>>

\* getPrivateObject answers null when the object is gone.
Fetch(w) ==
    /\ job[w].at = "fetch"
    /\ \/ job[w].doc \in file /\ To(w, "seal", 0)
       \/ job[w].doc \notin file /\ Unsealed(w, job[w].doc)
    /\ UNCHANGED <<docs, file, vault, archives, desk, faults>>

\* getPrivateObject answers null when the call fails, too.
FetchFails(w) ==
    /\ job[w].at = "fetch"
    /\ Fault
    /\ Unsealed(w, job[w].doc)
    /\ UNCHANGED <<docs, file, vault, archives, desk>>

\* Ids are drawn in order: they are only ever compared for equality.
Fresh(a) ==
    LET used == vault \cup {b \in Archive : archive[b].row # "none"} \cup
                {job[w].id : w \in Worker}
    IN  \A b \in used : b < a

Seal(w) ==
    /\ job[w].at = "seal"
    /\ \E a \in Archive :
        /\ Fresh(a) /\ \A b \in Archive : Fresh(b) => a <= b
        /\ vault' = vault \cup {a}
        /\ To(w, "record", a)
    /\ UNCHANGED <<docs, file, archives, desk, faults>>

\* The read of the row, the vault or the insert of the archive throws.
SealFails(w) ==
    /\ Fault
    /\ \/ job[w].at = "loop" /\ \E d \in job[w].todo : Thrown(w, d)
       \/ job[w].at \in {"seal", "record"} /\ Thrown(w, job[w].doc)
    /\ UNCHANGED <<docs, file, vault, archives, desk>>

Record(w) ==
    /\ job[w].at = "record"
    /\ archive' = [archive EXCEPT ![job[w].id] = [row |-> "live", outcome |-> job[w].outcome]]
    /\ To(w, "drop", job[w].id)
    /\ UNCHANGED <<docs, file, vault, due, lapsed, desk, faults>>

Drop(w) ==
    /\ job[w].at = "drop"
    /\ file' = file \ {job[w].doc}
    /\ Sealed(w, job[w].doc)
    /\ UNCHANGED <<docs, vault, archives, desk, faults>>

\* deleteObject swallows its failure.
DropFails(w) ==
    /\ job[w].at = "drop"
    /\ Fault
    /\ Sealed(w, job[w].doc)
    /\ UNCHANGED <<docs, file, vault, archives, desk>>

-----------------------------------------------------------------------------
\* The cron, on one server. Nothing in the code keeps a run from overlapping
\* the next one; here a run ends within the hour that separates them.

ListedBug == {d \in Examined \cap aged : status[d] = "approved"}
Listed == Examined \cap aged

ListReviewed ==
    /\ job["cron"].at = "idle"
    /\ Set("cron", OnDocs("loop", Listed, {}, 0, "none", 0))
    /\ UNCHANGED <<docs, file, vault, archives, desk, faults>>

Destroy ==
    /\ job["cron"].at = "destroy"
    /\ \/ file' = file \ {job["cron"].doc} /\ UNCHANGED faults
       \/ Fault /\ UNCHANGED file
    /\ To("cron", "unrow", 0)
    /\ UNCHANGED <<docs, vault, archives, desk>>

\* delete throws when the row is gone, and the exception ends the run.
Unrow ==
    LET d == job["cron"].doc
    IN  /\ job["cron"].at = "unrow"
        /\ IF d \in Rows
           THEN /\ status' = [status EXCEPT ![d] = "gone"]
                /\ Done("cron", d, "loop")
           ELSE /\ Set("cron", Rest)
                /\ UNCHANGED status
        /\ UNCHANGED <<manual, file, aged, identityStatus, vault, archives, desk, faults>>

ListStale ==
    /\ job["cron"].at = "loop" /\ job["cron"].todo = {}
    /\ Set("cron", OnDocs("stale", {d \in aged : status[d] = "pending"}, {}, 0, "none", 0))
    /\ UNCHANGED <<docs, file, vault, archives, desk, faults>>

DestroyStale ==
    /\ job["cron"].at = "stale"
    /\ \E d \in job["cron"].todo :
        /\ \/ file' = file \ {d} /\ UNCHANGED faults
           \/ Fault /\ UNCHANGED file
        /\ Remove("cron", d, "unstale")
    /\ UNCHANGED <<docs, vault, archives, desk>>

\* updateMany only touches an account that is still pending.
StatusAfterStaleBug == IF Exists THEN "not_submitted" ELSE identityStatus
StatusAfterStale == IF identityStatus = "pending" THEN "not_submitted" ELSE identityStatus

UnrowStale ==
    LET d == job["cron"].doc
    IN  /\ job["cron"].at = "unstale"
        /\ IF d \in Rows
           THEN /\ status' = [status EXCEPT ![d] = "gone"]
                /\ identityStatus' = StatusAfterStale
                /\ Done("cron", d, "stale")
           ELSE /\ Set("cron", Rest)
                /\ UNCHANGED <<status, identityStatus>>
        /\ UNCHANGED <<manual, file, aged, vault, archives, desk, faults>>

\* purgeExpired.
Filed(w, a, at) ==
    Set(w, OnArchives(at, job[w].ids \ {a}, job[w].files, 0))
Upon(w, a, at) ==
    Set(w, OnArchives(at, job[w].ids, job[w].files, a))

ListDue ==
    /\ job["cron"].at = "stale" /\ job["cron"].todo = {}
    /\ Set("cron", OnArchives("purge", Live \cap due, {}, 0))
    /\ UNCHANGED <<docs, file, vault, archives, desk, faults>>

\* The storage refuses to delete what is still locked.
Purge ==
    /\ job["cron"].at = "purge"
    /\ \E a \in job["cron"].ids :
        \/ /\ ObjectLock => a \in lapsed
           /\ vault' = vault \ {a}
           /\ Upon("cron", a, "mark")
           /\ UNCHANGED faults
        \/ /\ \/ ObjectLock /\ a \notin lapsed /\ UNCHANGED faults
              \/ Fault
           /\ Filed("cron", a, "purge")
           /\ UNCHANGED vault
    /\ UNCHANGED <<docs, file, archives, desk>>

MarkPurged ==
    LET a == job["cron"].id
    IN  /\ job["cron"].at = "mark"
        /\ archive' = [archive EXCEPT ![a].row = "purged"]
        /\ Filed("cron", a, "purge")
        /\ UNCHANGED <<docs, file, vault, due, lapsed, desk, faults>>

EndRun ==
    /\ job["cron"].at = "purge" /\ job["cron"].ids = {}
    /\ Set("cron", Rest)
    /\ UNCHANGED <<docs, file, vault, archives, desk, faults>>

-----------------------------------------------------------------------------
\* deleteAccount.

ListDocs ==
    /\ job["account"].at = "idle" /\ Exists
    /\ Set("account", OnDocs("loop", Examined, Rows \ manual, 0, "none", 0))
    /\ UNCHANGED <<docs, file, vault, archives, desk, faults>>

\* onAccountDeleted: every archive not purged yet.
ListArchives ==
    /\ job["account"].at = "loop" /\ job["account"].todo = {}
    /\ Set("account", OnArchives("extend", Live, job["account"].files, 0))
    /\ UNCHANGED <<docs, file, vault, archives, desk, faults>>

\* extendRetention fails on an object that is not there; without a lock there
\* is nothing to call. A rejected document keeps its term.
ExtendableBug(a) == TRUE
Extendable(a) == ObjectLock => a \in vault

Extend ==
    /\ job["account"].at = "extend"
    /\ \E a \in job["account"].ids :
        \/ /\ archive[a].outcome = "approved" => Extendable(a)
           /\ lapsed' = IF archive[a].outcome = "approved" THEN lapsed \ {a} ELSE lapsed
           /\ Upon("account", a, "restamp")
           /\ UNCHANGED faults
        \/ /\ archive[a].outcome = "approved"
           /\ \/ ~Extendable(a) /\ UNCHANGED faults
              \/ Fault
           /\ Filed("account", a, "extend")
           /\ UNCHANGED lapsed
    /\ UNCHANGED <<docs, file, vault, archive, due, desk>>

Restamp ==
    LET a == job["account"].id
    IN  /\ job["account"].at = "restamp"
        /\ due' = IF archive[a].outcome = "approved" THEN due \ {a} ELSE due
        /\ Filed("account", a, "extend")
        /\ UNCHANGED <<docs, file, vault, archive, lapsed, desk, faults>>

\* The row of the account, and by cascade those of its documents.
DeleteUser ==
    /\ job["account"].at = "extend" /\ job["account"].ids = {}
    /\ status' = [d \in Doc |-> IF d \in Rows THEN "gone" ELSE status[d]]
    /\ identityStatus' = "deleted"
    /\ Set("account", OnDocs("clean", job["account"].files, {}, 0, "none", 0))
    /\ UNCHANGED <<manual, file, aged, vault, archives, desk, faults>>

\* The best-effort cleanup of the files that were not sealed.
Clean ==
    /\ job["account"].at = "clean"
    /\ \E d \in job["account"].todo :
        /\ \/ file' = file \ {d} /\ UNCHANGED faults
           \/ Fault /\ UNCHANGED file
        /\ Done("account", d, "clean")
    /\ UNCHANGED <<docs, vault, archives, desk>>

EndDeletion ==
    /\ job["account"].at = "clean" /\ job["account"].todo = {}
    /\ Set("account", Rest)
    /\ UNCHANGED <<docs, file, vault, archives, desk, faults>>

-----------------------------------------------------------------------------
\* A call to PostgreSQL fails: outside archiveDocument the exception ends the
\* run of the cron; onAccountDeleted is caught, and the deletion goes on; the
\* transaction of the deletion fails as a whole.
CronFails ==
    /\ \/ job["cron"].at \in {"unrow", "unstale", "mark"}
       \/ job["cron"].at \in {"loop", "stale"} /\ job["cron"].todo = {}
    /\ Fault
    /\ Set("cron", Rest)
    /\ UNCHANGED <<docs, file, vault, archives, desk>>

ExtensionFails ==
    /\ \/ job["account"].at = "loop" /\ job["account"].todo = {}
       \/ job["account"].at = "restamp"
    /\ Fault
    /\ Set("account", OnArchives("extend", {}, job["account"].files, 0))
    /\ UNCHANGED <<docs, file, vault, archives, desk>>

DeletionFails ==
    /\ job["account"].at = "extend" /\ job["account"].ids = {}
    /\ Fault
    /\ Set("account", Rest)
    /\ UNCHANGED <<docs, file, vault, archives, desk>>

\* The API restarts and everything in flight is lost.
Restart ==
    /\ Fault
    /\ job' = [w \in Worker |-> Rest]
    /\ desk' = [q \in Desk |-> Idle]
    /\ UNCHANGED <<docs, file, vault, archives>>

Sealer(w) == Take(w) \/ Fetch(w) \/ Seal(w) \/ Record(w) \/ Drop(w)
Cron ==
    \/ ListReviewed \/ Sealer("cron") \/ Destroy \/ Unrow
    \/ ListStale \/ DestroyStale \/ UnrowStale
    \/ ListDue \/ Purge \/ MarkPurged \/ EndRun
Deletion ==
    \/ ListDocs \/ Sealer("account") \/ ListArchives \/ Extend \/ Restamp
    \/ DeleteUser \/ Clean \/ EndDeletion
Reviewing(q) ==
    \/ FindPending(q) \/ FindManual(q) \/ FindLatest(q)
    \/ Review(q) \/ ApproveByHand(q) \/ Revoke(q) \/ RevokeNothing(q) \/ Refused(q)
Failure ==
    \/ \E w \in Worker : FetchFails(w) \/ SealFails(w) \/ DropFails(w)
    \/ CronFails \/ ExtensionFails \/ DeletionFails \/ Restart

Next ==
    \/ \E d \in Doc : Submit(d) \/ Age(d)
    \/ \E a \in Archive : Elapse(a)
    \/ \E q \in Desk : Reviewing(q)
    \/ Cron
    \/ Deletion
    \/ Failure

Spec == Init /\ [][Next]_vars

\* setInterval starts a run every hour and every call of a run returns.
FairSpec == Spec /\ WF_vars(Cron)

-----------------------------------------------------------------------------
\* An archive whose term has not come has its envelope in the vault: neither a
\* purge that races the extension of a term (purgeExpired, onAccountDeleted),
\* nor a crash between the object store and the database, leaves a row that
\* promises evidence which is no longer there. It needs the object lock.
ArchiveIsBacked ==
    \A a \in Live : a \notin due => a \in vault

\* The cron never takes an account's verdict back: a document reviewed between
\* the cron's reading of the stale ones and its destruction of it leaves the
\* account approved or rejected (processStalePending).
VerdictStands ==
    [][Cron /\ identityStatus \in Outcome => identityStatus' = identityStatus]_vars

\* An examined document whose thirty days have passed leaves the active base,
\* unless it is examined again, whatever calls fail and whoever else works on
\* it (processReviewed: a failing document never blocks the others for good).
DueLeaves ==
    \A d \in Doc : d \in Examined \cap aged ~> d \notin Examined \cap aged

\* "On ne retire le document du bucket prive QUE si le scellement a reussi. En
\* cas d'echec on ne touche a rien" (identity-archiver.service.ts:26): the file
\* of an examined document leaves the private bucket once it is archived. A
\* document that the cron listed as never examined is left aside.
SealedBeforeRemoved ==
    [][\A d \in Examined \cap (file \ file') :
          \/ \E a \in Archive : archive[a].row # "none"
          \/ job["cron"].at = "stale"]_vars
====
