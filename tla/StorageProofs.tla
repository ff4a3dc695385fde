---- MODULE StorageProofs ----
(* What the members keep in the object store, for any numbers of documents,  *)
(* archives, reviewers, faults, posts, objects, videos and requests: the     *)
(* identity documents and their archives, the disk of an association, the    *)
(* video stories. Each part has an inductive invariant of its own; they meet *)
(* in the last section.                                                      *)
EXTENDS MCStorage, Functions, FiniteSetTheorems, WellFoundedInduction, TLAPS

\* The parts count and add as this module does.
LEMMA SpaceCount == \A S : Space!IsFiniteSet(S) <=> IsFiniteSet(S)
  BY DEF Space!IsFiniteSet, IsFiniteSet
LEMMA StoriesCount ==
    \A S : Stories!Cardinality(S) = Cardinality(S) /\ (Stories!IsFiniteSet(S) <=> IsFiniteSet(S))
  BY DEF Stories!Cardinality, Cardinality, Stories!IsFiniteSet, IsFiniteSet
LEMMA SameSums == \A h, S : Space!SumFunctionOnSet(h, S) = SumFunctionOnSet(h, S)
  BY DEF Space!SumFunctionOnSet, Space!FoldFunctionOnSet, Space!MapThenFoldSet,
         SumFunctionOnSet, FoldFunctionOnSet, MapThenFoldSet
-----------------------------------------------------------------------------
(* The identity documents and the vault.                                     *)

Recorded == {a \in Archive : archive[a].row # "none"}

\* A lock has only run out on an archive whose term has passed.
LockInv == lapsed \subseteq due /\ lapsed \subseteq Recorded

\* What a job knows of the archives it works on: the envelope it has just
\* sealed is in the vault, under an id of its own; what it has listed has a
\* row; and while it extends an approved one, the lock is on.
JobOf(w) ==
    /\ job[w].at = "record" =>
          job[w].id \in vault /\ archive[job[w].id].row = "none"
    /\ job[w].at \in {"purge", "mark", "extend", "restamp"} => job[w].ids \subseteq Recorded
    /\ job[w].at \in {"mark", "restamp"} => job[w].id \in Recorded
    /\ job[w].at = "restamp" /\ archive[job[w].id].outcome = "approved" =>
          job[w].id \in vault \ lapsed

Apart ==
    \A v, w \in Worker :
        job[v].at = "record" /\ job[w].at = "record" /\ v # w => job[v].id # job[w].id

JobInv == \A w \in Worker : JobOf(w)

IInv == TypeOK /\ LockInv /\ JobInv /\ Apart /\ ArchiveIsBacked

\* The initial states satisfy the invariant.
LEMMA InitInv == Init => IInv
  BY IdentityAssumption DEF Init, IInv, TypeOK, LockInv, JobInv, JobOf, Apart, ArchiveIsBacked,
     Recorded, Live, Rest, OnDocs, Idle, Job, ArchiveRow, Steps, Sealing, RowStatus, Outcome, Worker

\* The fields of a job.
LEMMA JobFields ==
    ASSUME TypeOK, NEW w \in Worker
    PROVE  /\ job[w].todo \subseteq Doc /\ job[w].files \subseteq Doc /\ job[w].ids \subseteq Archive
           /\ job[w].doc \in Doc \cup {0} /\ job[w].outcome \in Outcome \cup {"none"}
           /\ job[w].id \in Archive \cup {0} /\ job[w].at \in Steps
<1>1. job[w] \in Job
  BY DEF TypeOK
<1> QED
  BY <1>1 DEF Job

\* What each operator that moves a job leaves in it is a job.
LEMMA SetType ==
    ASSUME TypeOK, NEW w \in Worker, NEW j \in Job, Set(w, j)
    PROVE  job' \in [Worker -> Job]
  BY DEF Set, TypeOK

LEMMA OnDocsType ==
    ASSUME TypeOK, NEW w \in Worker, NEW at \in Steps, NEW todo \in SUBSET Doc,
           NEW files \in SUBSET Doc, NEW d \in Doc \cup {0}, NEW o \in Outcome \cup {"none"},
           NEW a \in Archive \cup {0}, Set(w, OnDocs(at, todo, files, d, o, a))
    PROVE  job' \in [Worker -> Job]
<1>1. OnDocs(at, todo, files, d, o, a) \in Job
  BY DEF OnDocs, Job
<1> QED
  BY <1>1, SetType

LEMMA OnArchivesType ==
    ASSUME TypeOK, NEW w \in Worker, NEW at \in Steps, NEW ids \in SUBSET Archive,
           NEW files \in SUBSET Doc, NEW a \in Archive \cup {0},
           Set(w, OnArchives(at, ids, files, a))
    PROVE  job' \in [Worker -> Job]
<1>1. OnArchives(at, ids, files, a) \in Job
  BY DEF OnArchives, Job
<1> QED
  BY <1>1, SetType

LEMMA RestType == Rest \in Job
  BY DEF OnDocs, Rest, Job, Steps, Sealing

LEMMA StepType ==
    ASSUME TypeOK, NEW w \in Worker, NEW at \in Steps, NEW d \in Doc \cup {0},
           Done(w, d, at) \/ Remove(w, d, at)
    PROVE  job' \in [Worker -> Job]
<1>1. /\ job[w].todo \in SUBSET Doc /\ job[w].files \in SUBSET Doc
      /\ job[w].todo \ {d} \in SUBSET Doc /\ "none" \in Outcome \cup {"none"} /\ 0 \in Archive \cup {0}
      /\ 0 \in Doc \cup {0} /\ {} \in SUBSET Doc
  BY JobFields
<1>2. CASE Done(w, d, at)
  BY <1>1, <1>2, OnDocsType DEF Done
<1>3. CASE Remove(w, d, at)
  BY <1>1, <1>3, OnDocsType DEF Remove
<1> QED
  BY <1>2, <1>3

LEMMA CallType ==
    ASSUME TypeOK, NEW w \in Worker, NEW at \in Steps, NEW a \in Archive \cup {0},
           To(w, at, a) \/ Filed(w, a, at) \/ Upon(w, a, at)
    PROVE  job' \in [Worker -> Job]
<1>1. /\ job[w].todo \in SUBSET Doc /\ job[w].files \in SUBSET Doc /\ job[w].ids \in SUBSET Archive
      /\ job[w].ids \ {a} \in SUBSET Archive /\ 0 \in Archive \cup {0}
      /\ job[w].doc \in Doc \cup {0} /\ job[w].outcome \in Outcome \cup {"none"}
  BY JobFields
<1>2. CASE To(w, at, a)
  BY <1>1, <1>2, OnDocsType DEF To
<1>3. CASE Filed(w, a, at)
  BY <1>1, <1>3, OnArchivesType DEF Filed
<1>4. CASE Upon(w, a, at)
  BY <1>1, <1>4, OnArchivesType DEF Upon
<1> QED
  BY <1>2, <1>3, <1>4

\* Type correctness alone is inductive.
LEMMA TypeInv == ASSUME TypeOK, [Next]_vars PROVE TypeOK'
<1> USE IdentityAssumption
<1>0. /\ "cron" \in Worker /\ "account" \in Worker /\ {} \subseteq Doc /\ {} \subseteq Archive
      /\ 0 \in Doc \cup {0} /\ 0 \in Archive \cup {0} /\ "none" \in Outcome \cup {"none"}
      /\ "loop" \in Steps /\ "fetch" \in Steps /\ "seal" \in Steps /\ "record" \in Steps
      /\ "drop" \in Steps /\ "destroy" \in Steps /\ "unrow" \in Steps /\ "stale" \in Steps
      /\ "unstale" \in Steps /\ "purge" \in Steps /\ "mark" \in Steps /\ "extend" \in Steps
      /\ "restamp" \in Steps /\ "clean" \in Steps
  BY DEF Worker, Steps, Sealing
<1>1. ASSUME NEW d \in Doc, Submit(d) \/ Age(d) PROVE TypeOK'
  BY <1>1 DEF Submit, Age, archives, Rows, TypeOK, RowStatus
<1>3. ASSUME NEW a \in Archive, Elapse(a) PROVE TypeOK'
  BY <1>3 DEF Elapse, docs, TypeOK
<1>4. ASSUME NEW q \in Desk, NEW at \in {"review", "manual", "revoke"}, NEW T, Found(q, at, T)
      PROVE  TypeOK'
  <2>1. PICK d \in Doc \cup {0} : desk' = [desk EXCEPT ![q] = [at |-> at, doc |-> d]]
    BY <1>4 DEF Found
  <2>2. [at |-> at, doc |-> d] \in [at : {"idle", "review", "manual", "revoke"}, doc : Doc \cup {0}]
    OBVIOUS
  <2>3. desk' \in [Desk -> [at : {"idle", "review", "manual", "revoke"}, doc : Doc \cup {0}]]
    BY <2>1, <2>2 DEF TypeOK
  <2> QED
    BY <1>4, <2>3 DEF Found, docs, archives, TypeOK
<1>5. ASSUME NEW q \in Desk, Review(q) \/ Revoke(q) \/ RevokeNothing(q) \/ Refused(q) \/ ApproveByHand(q)
      PROVE  TypeOK'
  <2>1. desk' \in [Desk -> [at : {"idle", "review", "manual", "revoke"}, doc : Doc \cup {0}]]
    BY <1>5 DEF Review, Revoke, RevokeNothing, Refused, ApproveByHand, Close, Idle, TypeOK
  <2>2. ASSUME Review(q) \/ Revoke(q) PROVE TypeOK'
    BY <2>1, <2>2 DEF Review, Revoke, Decide, Close, archives, Rows, TypeOK, RowStatus, Outcome
  <2>3. ASSUME ApproveByHand(q) PROVE TypeOK'
    BY <2>1, <2>3 DEF ApproveByHand, Decide, Close, archives, TypeOK, RowStatus, Outcome
  <2>4. ASSUME RevokeNothing(q) \/ Refused(q) PROVE TypeOK'
    BY <2>1, <2>4 DEF RevokeNothing, Refused, Close, archives, docs, TypeOK
  <2> QED
    BY <1>5, <2>2, <2>3, <2>4
<1>6. ASSUME NEW w \in Worker, NEW d \in Doc \cup {0}, Unsealed(w, d) \/ Sealed(w, d) \/ Thrown(w, d)
      PROVE  job' \in [Worker -> Job]
  <2>1. job[w].todo \ {d} \in SUBSET Doc /\ job[w].files \ {d} \in SUBSET Doc
    BY JobFields
  <2> QED
    BY <1>0, <1>6, <2>1, StepType, CallType, OnDocsType, OnArchivesType, RestType, SetType
       DEF Unsealed, Sealed, Thrown
<1>8. ASSUME NEW w \in Worker, Take(w) PROVE TypeOK'
  <2>1. PICK d \in job[w].todo :
           \/ Archivable(d) /\ Set(w, OnDocs("fetch", job[w].todo, job[w].files, d, status[d], 0))
           \/ Unsealed(w, d)
    BY <1>8 DEF Take
  <2>2. d \in Doc
    BY JobFields
  <2>3. Archivable(d) => status[d] \in Outcome \cup {"none"}
    BY DEF Archivable, Examined
  <2>4. job' \in [Worker -> Job]
    BY <1>0, <1>6, <2>1, <2>2, <2>3, StepType, CallType, OnDocsType, OnArchivesType, RestType,
       SetType, JobFields
  <2> QED
    BY <1>8, <2>4 DEF Take, docs, archives, TypeOK
<1>9. ASSUME NEW w \in Worker, Fetch(w) \/ FetchFails(w) \/ SealFails(w) PROVE TypeOK'
  <2>1. job' \in [Worker -> Job]
    BY <1>0, <1>6, <1>9, StepType, CallType, OnDocsType, OnArchivesType, RestType, SetType,
       JobFields DEF Fetch, FetchFails, SealFails
  <2> QED
    BY <1>9, <2>1 DEF Fetch, FetchFails, SealFails, Fault, docs, archives, TypeOK
<1>10. ASSUME NEW w \in Worker, Seal(w) PROVE TypeOK'
  <2>1. job' \in [Worker -> Job]
    BY <1>0, <1>10, StepType, CallType, OnDocsType, OnArchivesType, RestType, SetType DEF Seal
  <2> QED
    BY <1>10, <2>1 DEF Seal, docs, archives, TypeOK
<1>12. ASSUME NEW w \in Worker, Record(w) PROVE TypeOK'
  <2>1. job' \in [Worker -> Job]
    BY <1>0, <1>12, StepType, CallType, OnDocsType, OnArchivesType, RestType, SetType,
       JobFields DEF Record
  <2>2. [row |-> "live", outcome |-> job[w].outcome] \in ArchiveRow
    BY JobFields DEF ArchiveRow
  <2>3. archive' \in [Archive -> ArchiveRow]
    BY <1>12, <2>2 DEF Record, TypeOK
  <2> QED
    BY <1>12, <2>1, <2>3 DEF Record, docs, TypeOK
<1>13. ASSUME NEW w \in Worker, Drop(w) \/ DropFails(w) PROVE TypeOK'
  <2>1. job' \in [Worker -> Job]
    BY <1>6, <1>13, JobFields DEF Drop, DropFails
  <2> QED
    BY <1>13, <2>1 DEF Drop, DropFails, Fault, docs, archives, TypeOK
<1>14. ASSUME ListReviewed \/ ListStale \/ ListDue \/ EndRun \/ ListDocs \/ ListArchives \/ EndDeletion
      PROVE  TypeOK'
  <2>1. /\ Listed \subseteq Doc /\ {d \in aged : status[d] = "pending"} \subseteq Doc
        /\ Live \cap due \subseteq Archive /\ Live \subseteq Archive
        /\ Examined \subseteq Doc /\ Rows \ manual \subseteq Doc
    BY DEF Listed, Examined, Live, Rows, TypeOK
  <2>2. job' \in [Worker -> Job]
    BY <1>0, <1>14, <2>1, StepType, CallType, OnDocsType, OnArchivesType, RestType, SetType,
       JobFields
       DEF ListReviewed, ListStale, ListDue, EndRun, ListDocs, ListArchives, EndDeletion
  <2> QED
    BY <1>14, <2>2 DEF ListReviewed, ListStale, ListDue, EndRun, ListDocs, ListArchives,
       EndDeletion,
       docs, archives, TypeOK
<1>15. ASSUME Destroy \/ DestroyStale \/ Clean PROVE TypeOK'
  <2>1. job' \in [Worker -> Job]
    BY <1>0, <1>15, StepType, CallType, OnDocsType, OnArchivesType, RestType, SetType,
       JobFields DEF Destroy, DestroyStale, Clean
  <2>2. file' \subseteq Doc /\ faults' \in 0..MaxFaults
    BY <1>15 DEF Destroy, DestroyStale, Clean, Fault, TypeOK
  <2> QED
    BY <1>15, <2>1, <2>2 DEF Destroy, DestroyStale, Clean, docs, archives, TypeOK
<1>16. ASSUME Unrow \/ UnrowStale PROVE TypeOK'
  <2>1. job' \in [Worker -> Job]
    BY <1>0, <1>16, StepType, CallType, OnDocsType, OnArchivesType, RestType, SetType,
       JobFields DEF Unrow, UnrowStale
  <2>2. status' \in [Doc -> RowStatus]
    BY <1>16 DEF Unrow, UnrowStale, Rows, TypeOK, RowStatus
  <2>3. identityStatus' \in {"not_submitted", "pending", "deleted"} \cup Outcome
    BY <1>16 DEF Unrow, UnrowStale, StatusAfterStale, TypeOK
  <2> QED
    BY <1>16, <2>1, <2>2, <2>3 DEF Unrow, UnrowStale, archives, TypeOK
<1>19. ASSUME Purge PROVE TypeOK'
  <2>1. job' \in [Worker -> Job]
    BY <1>0, <1>19, StepType, CallType, OnDocsType, OnArchivesType, RestType, SetType,
       JobFields DEF Purge
  <2> QED
    BY <1>19, <2>1 DEF Purge, Fault, docs, archives, TypeOK
<1>20. ASSUME MarkPurged PROVE TypeOK'
  <2>1. job' \in [Worker -> Job]
    BY <1>0, <1>20, StepType, CallType, OnDocsType, OnArchivesType, RestType, SetType,
       JobFields DEF MarkPurged
  <2>2. archive' \in [Archive -> ArchiveRow]
    BY <1>20, ZenonT(60) DEF MarkPurged, TypeOK, ArchiveRow
  <2> QED
    BY <1>20, <2>1, <2>2 DEF MarkPurged, docs, TypeOK
<1>22. ASSUME Extend \/ Restamp PROVE TypeOK'
  <2>1. job' \in [Worker -> Job]
    BY <1>0, <1>22, StepType, CallType, OnDocsType, OnArchivesType, RestType, SetType,
       JobFields DEF Extend, Restamp
  <2> QED
    BY <1>22, <2>1 DEF Extend, Restamp, Fault, docs, TypeOK
<1>24. ASSUME DeleteUser PROVE TypeOK'
  <2>1. job' \in [Worker -> Job]
    BY <1>0, <1>24, StepType, CallType, OnDocsType, OnArchivesType, RestType, SetType,
       JobFields DEF DeleteUser
  <2> QED
    BY <1>24, <2>1 DEF DeleteUser, Rows, archives, TypeOK, RowStatus
<1>26. ASSUME CronFails \/ ExtensionFails \/ DeletionFails PROVE TypeOK'
  <2>1. job' \in [Worker -> Job]
    BY <1>0, <1>26, OnArchivesType, RestType, SetType, JobFields
       DEF CronFails, ExtensionFails, DeletionFails
  <2> QED
    BY <1>26, <2>1 DEF CronFails, ExtensionFails, DeletionFails, Fault, docs, archives, TypeOK
<1>27. ASSUME Restart PROVE TypeOK'
  <2>1. Rest \in Job
    BY DEF Rest, OnDocs, Job, Steps, Sealing
  <2> QED
    BY <1>27, <2>1 DEF Restart, Fault, docs, archives, Idle, TypeOK
<1>28. ASSUME UNCHANGED vars PROVE TypeOK'
  BY <1>28 DEF vars, TypeOK
<1> QED
  BY <1>0, <1>1, <1>3, <1>4, <1>5, <1>8, <1>9, <1>10, <1>12, <1>13, <1>14, <1>15, <1>16,
     <1>19, <1>20, <1>22, <1>24, <1>26, <1>27, <1>28
     DEF Next, Cron, Deletion, Reviewing, Failure, Sealer, FindPending, FindManual, FindLatest

-----------------------------------------------------------------------------
Holding == {"record", "purge", "mark", "extend", "restamp"}

\* The part of the invariant that is not about types.
Inv == LockInv /\ JobInv /\ Apart /\ ArchiveIsBacked

\* A step that touches no archive, and leaves every job that it moves where it
\* holds none, preserves it.
LEMMA Quiet ==
    ASSUME IInv, UNCHANGED <<vault, archives>>,
           \A w \in Worker : job'[w] = job[w] \/ job'[w].at \notin Holding
    PROVE  Inv'
<1>1. LockInv' /\ ArchiveIsBacked'
  BY DEF IInv, archives, LockInv, Recorded, ArchiveIsBacked, Live
<1>2. Recorded' = Recorded
  BY DEF archives, Recorded
<1>3. ASSUME NEW w \in Worker PROVE JobOf(w)'
  <2>1. CASE job'[w] = job[w]
    BY <1>2, <2>1 DEF IInv, JobInv, JobOf, archives
  <2>2. CASE job'[w].at \notin Holding
    BY <2>2 DEF Holding, JobOf
  <2> QED
    BY <2>1, <2>2
<1>4. Apart'
  BY DEF IInv, Apart, Holding
<1> QED
  BY <1>1, <1>3, <1>4 DEF Inv, JobInv

\* Where the operators leave a job.
LEMMA SetIs ==
    ASSUME TypeOK, NEW w \in Worker, NEW j, Set(w, j)
    PROVE  job'[w] = j /\ \A v \in Worker : v # w => job'[v] = job[v]
  BY DEF Set, TypeOK

\* Every action preserves the invariant.
LEMMA NextInv == ASSUME ObjectLock, IInv, [Next]_vars PROVE IInv'
<1>0. TypeOK /\ TypeOK' /\ "cron" \in Worker /\ "account" \in Worker
  BY TypeInv DEF IInv, Worker
<1>1. ASSUME NEW w \in Worker, NEW j, Set(w, j), j.at \notin Holding, UNCHANGED <<vault, archives>>
      PROVE  Inv'
  BY <1>0, <1>1, SetIs, Quiet
<1>2. ASSUME NEW w \in Worker, NEW d, NEW at \in Steps \ Holding, Done(w, d, at) \/ Remove(w, d, at),
             UNCHANGED <<vault, archives>>
      PROVE  Inv'
  BY <1>1, <1>2 DEF Done, Remove, OnDocs
<1>3. /\ "loop" \in Steps \ Holding /\ "unrow" \in Steps \ Holding /\ "destroy" \in Steps \ Holding
      /\ "stale" \in Steps \ Holding /\ "unstale" \in Steps \ Holding /\ "clean" \in Steps \ Holding
  BY DEF Holding, Steps, Sealing
<1>4. ASSUME NEW w \in Worker, NEW d, Unsealed(w, d) \/ Sealed(w, d) \/ Thrown(w, d),
             UNCHANGED <<vault, archives>>
      PROVE  Inv'
  <2>1. ASSUME Set(w, OnDocs("loop", job[w].todo \ {d}, job[w].files \ {d}, 0, "none", 0)) PROVE Inv'
    BY <1>1, <1>4, <2>1 DEF OnDocs, Holding
  <2> QED
    BY <1>2, <1>3, <1>4, <2>1 DEF Unsealed, Sealed, Thrown
<1>5. ASSUME Set("cron", Rest) \/ Set("account", Rest), UNCHANGED <<vault, archives>> PROVE Inv'
  BY <1>0, <1>1, <1>5 DEF Rest, OnDocs, Holding
<1>6. ASSUME UNCHANGED <<vault, archives, job>> PROVE Inv'
  BY <1>6, Quiet
<1>7. ASSUME NEW d \in Doc, Submit(d) \/ Age(d) PROVE Inv'
  BY <1>6, <1>7 DEF Submit, Age
<1>8. ASSUME NEW q \in Desk, Reviewing(q) PROVE Inv'
  BY <1>6, <1>8 DEF Reviewing, FindPending, FindManual, FindLatest, Found, Review, ApproveByHand,
     Revoke, RevokeNothing, Refused, Close
<1>9. ASSUME NEW w \in Worker, Take(w) PROVE Inv'
  <2>1. PICK d \in job[w].todo :
           \/ Set(w, OnDocs("fetch", job[w].todo, job[w].files, d, status[d], 0))
           \/ Unsealed(w, d)
    BY <1>9 DEF Take
  <2>2. UNCHANGED <<vault, archives>>
    BY <1>9 DEF Take
  <2>3. CASE Set(w, OnDocs("fetch", job[w].todo, job[w].files, d, status[d], 0))
    BY <1>1, <2>2, <2>3 DEF OnDocs, Holding
  <2> QED
    BY <1>4, <2>1, <2>2, <2>3
<1>10. ASSUME NEW w \in Worker, Fetch(w) \/ FetchFails(w) \/ SealFails(w) \/ Drop(w) \/ DropFails(w)
       PROVE  Inv'
  <2>1. UNCHANGED <<vault, archives>>
    BY <1>10 DEF Fetch, FetchFails, SealFails, Drop, DropFails
  <2>2. CASE To(w, "seal", 0)
    BY <1>1, <2>1, <2>2 DEF To, OnDocs, Holding
  <2> QED
    BY <1>4, <1>10, <2>1, <2>2 DEF Fetch, FetchFails, SealFails, Drop, DropFails
<1>11. ASSUME ListReviewed \/ ListStale \/ EndRun \/ ListDocs \/ EndDeletion \/ DeleteUser PROVE Inv'
  <2>1. UNCHANGED <<vault, archives>>
    BY <1>11 DEF ListReviewed, ListStale, EndRun, ListDocs, EndDeletion, DeleteUser
  <2> QED
    BY <1>0, <1>1, <1>5, <1>11, <2>1
       DEF ListReviewed, ListStale, EndRun, ListDocs, EndDeletion, DeleteUser, OnDocs, Holding
<1>12. ASSUME Destroy \/ DestroyStale \/ Clean \/ Unrow \/ UnrowStale PROVE Inv'
  <2>1. UNCHANGED <<vault, archives>>
    BY <1>12 DEF Destroy, DestroyStale, Clean, Unrow, UnrowStale
  <2>2. CASE To("cron", "unrow", 0)
    BY <1>0, <1>1, <2>1, <2>2 DEF To, OnDocs, Holding
  <2> QED
    BY <1>0, <1>2, <1>3, <1>5, <1>12, <2>1, <2>2 DEF Destroy, DestroyStale, Clean, Unrow, UnrowStale
<1>13. ASSUME CronFails \/ DeletionFails PROVE Inv'
  BY <1>5, <1>13 DEF CronFails, DeletionFails
<1>14. ASSUME Restart PROVE Inv'
  BY <1>14, Quiet DEF Restart, Rest, OnDocs, Holding
<1>15. ASSUME NEW a \in Archive, Elapse(a) PROVE Inv'
  <2>1. UNCHANGED <<vault, archive, job>> /\ due' = due \cup {a} /\ lapsed' = lapsed \cup {a}
    BY <1>15 DEF Elapse
  <2>2. a \in Recorded /\ Recorded' = Recorded /\ Live' = Live
    BY <1>15, <2>1 DEF Elapse, Live, Recorded
  <2>3. LockInv' /\ ArchiveIsBacked' /\ Apart'
    BY <2>1, <2>2 DEF IInv, LockInv, ArchiveIsBacked, Apart
  <2>4. ASSUME NEW w \in Worker PROVE JobOf(w)'
    BY <1>15, <2>1, <2>2, <2>4 DEF IInv, JobInv, JobOf, Elapse
  <2> QED
    BY <2>3, <2>4 DEF Inv, JobInv
<1>16. ASSUME NEW w \in Worker, Seal(w) PROVE Inv'
  <2>1. PICK a \in Archive : Fresh(a) /\ vault' = vault \cup {a} /\ To(w, "record", a)
    BY <1>16 DEF Seal
  <2>2. UNCHANGED <<archive, due, lapsed>> /\ Recorded' = Recorded /\ Live' = Live
    BY <1>16 DEF Seal, archives, Recorded, Live
  <2>3. archive[a].row = "none" /\ \A v \in Worker : job[v].id # a
    <3>1. a \in Nat
      BY IdentityAssumption DEF Archive
    <3>2. ~(a < a)
      BY <3>1
    <3> QED
      BY <2>1, <3>2 DEF Fresh
  <2>4. job'[w].at = "record" /\ job'[w].id = a /\ \A v \in Worker : v # w => job'[v] = job[v]
    BY <1>0, <2>1, SetIs DEF To, OnDocs
  <2>5. LockInv' /\ ArchiveIsBacked'
    BY <2>1, <2>2 DEF IInv, LockInv, ArchiveIsBacked
  <2>6. Apart'
    BY <2>3, <2>4 DEF IInv, Apart
  <2>7. JobOf(w)'
    BY <2>1, <2>2, <2>3, <2>4 DEF JobOf
  <2>8. ASSUME NEW v \in Worker, v # w PROVE JobOf(v)'
    BY <2>1, <2>2, <2>4, <2>8 DEF IInv, JobInv, JobOf
  <2> QED
    BY <2>5, <2>6, <2>7, <2>8 DEF Inv, JobInv
<1>17. ASSUME NEW w \in Worker, Record(w) PROVE Inv'
  <2> DEFINE a == job[w].id
  <2>1. /\ UNCHANGED <<vault, due, lapsed>> /\ job[w].at = "record"
        /\ archive' = [archive EXCEPT ![a] = [row |-> "live", outcome |-> job[w].outcome]]
        /\ To(w, "drop", a)
    BY <1>17 DEF Record
  <2>2. a \in vault /\ a \in Archive /\ archive[a].row = "none"
    BY <1>0, <2>1 DEF IInv, JobInv, JobOf, TypeOK
  <2>3. /\ archive'[a] = [row |-> "live", outcome |-> job[w].outcome]
        /\ \A b \in Archive : b # a => archive'[b] = archive[b]
    BY <1>0, <2>1, <2>2 DEF TypeOK
  <2>4. Recorded' = Recorded \cup {a} /\ Live' = Live \cup {a} /\ a \notin Recorded
    BY <2>2, <2>3 DEF Recorded, Live
  <2>5. job'[w].at = "drop" /\ \A v \in Worker : v # w => job'[v] = job[v]
    BY <1>0, <2>1, SetIs DEF To, OnDocs
  <2>6. LockInv' /\ ArchiveIsBacked' /\ Apart'
    BY <2>1, <2>2, <2>4, <2>5 DEF IInv, LockInv, ArchiveIsBacked, Apart
  <2>7. JobOf(w)'
    BY <2>5 DEF JobOf
  <2>8. ASSUME NEW v \in Worker, v # w PROVE JobOf(v)'
    <3>1. job[v].at = "record" => job[v].id # a /\ job[v].id \in Archive
      BY <1>0, <2>1, <2>8 DEF IInv, Apart, JobInv, JobOf, TypeOK
    <3>2. job[v].at \in {"mark", "restamp"} => job[v].id \in Recorded
      BY <2>8 DEF IInv, JobInv, JobOf
    <3> QED
      BY <2>1, <2>3, <2>4, <2>5, <2>8, <3>1, <3>2 DEF IInv, JobInv, JobOf, Recorded
  <2> QED
    BY <2>6, <2>7, <2>8 DEF Inv, JobInv
<1>18. ASSUME ListDue \/ ListArchives \/ ExtensionFails PROVE Inv'
  <2>1. PICK w \in Worker, at \in {"purge", "extend"}, S \in SUBSET Live, F \in SUBSET Doc :
           Set(w, OnArchives(at, S, F, 0))
    <3>1. Live \cap due \in SUBSET Live /\ {} \in SUBSET Live /\ {} \in SUBSET Doc
      OBVIOUS
    <3>2. Live \in SUBSET Live /\ job["account"].files \in SUBSET Doc
      BY <1>0, JobFields
    <3> QED
      BY <1>0, <1>18, <3>1, <3>2 DEF ListDue, ListArchives, ExtensionFails
  <2>2. UNCHANGED <<vault, archive, due, lapsed>> /\ Recorded' = Recorded /\ Live' = Live
    BY <1>18 DEF ListDue, ListArchives, ExtensionFails, archives, Recorded, Live
  <2>3. job'[w].at = at /\ job'[w].ids = S /\ \A v \in Worker : v # w => job'[v] = job[v]
    BY <1>0, <2>1, SetIs DEF OnArchives
  <2>4. LockInv' /\ ArchiveIsBacked' /\ Apart'
    BY <2>2, <2>3 DEF IInv, LockInv, ArchiveIsBacked, Apart
  <2>5. JobOf(w)'
    BY <2>2, <2>3 DEF JobOf, Live, Recorded
  <2>6. ASSUME NEW v \in Worker, v # w PROVE JobOf(v)'
    BY <2>2, <2>3, <2>6 DEF IInv, JobInv, JobOf
  <2> QED
    BY <2>4, <2>5, <2>6 DEF Inv, JobInv
<1>19. ASSUME Purge PROVE Inv'
  <2>1. PICK a \in job["cron"].ids :
           \/ /\ ObjectLock => a \in lapsed
              /\ vault' = vault \ {a}
              /\ Upon("cron", a, "mark")
           \/ Filed("cron", a, "purge") /\ UNCHANGED vault
    BY <1>19 DEF Purge
  <2>2. /\ UNCHANGED <<archive, due, lapsed>> /\ Recorded' = Recorded /\ Live' = Live
        /\ job["cron"].at = "purge" /\ job["cron"].ids \subseteq Recorded /\ a \in Recorded
    BY <1>0, <1>19 DEF Purge, archives, IInv, JobInv, JobOf, Recorded, Live
  <2>3. CASE Filed("cron", a, "purge") /\ UNCHANGED vault
    <3>1. /\ job'["cron"].at = "purge" /\ job'["cron"].ids \subseteq Recorded
          /\ \A v \in Worker : v # "cron" => job'[v] = job[v]
      BY <1>0, <2>2, <2>3, SetIs DEF Filed, OnArchives
    <3>2. LockInv' /\ ArchiveIsBacked' /\ Apart'
      BY <2>2, <2>3, <3>1 DEF IInv, LockInv, ArchiveIsBacked, Apart
    <3>3. JobOf("cron")'
      BY <2>2, <3>1 DEF JobOf
    <3>4. ASSUME NEW v \in Worker, v # "cron" PROVE JobOf(v)'
      BY <2>2, <2>3, <3>1, <3>4 DEF IInv, JobInv, JobOf
    <3> QED
      BY <3>2, <3>3, <3>4 DEF Inv, JobInv
  <2>4. CASE a \in lapsed /\ vault' = vault \ {a} /\ Upon("cron", a, "mark")
    <3>1. /\ job'["cron"].at = "mark" /\ job'["cron"].ids \subseteq Recorded
          /\ job'["cron"].id = a /\ \A v \in Worker : v # "cron" => job'[v] = job[v]
      BY <1>0, <2>2, <2>4, SetIs DEF Upon, OnArchives
    <3>2. LockInv' /\ ArchiveIsBacked' /\ Apart'
      BY <2>2, <2>4, <3>1 DEF IInv, LockInv, ArchiveIsBacked, Apart
    <3>3. JobOf("cron")'
      BY <2>2, <3>1 DEF JobOf
    <3>4. ASSUME NEW v \in Worker, v # "cron" PROVE JobOf(v)'
      BY <2>2, <2>4, <3>1, <3>4 DEF IInv, JobInv, JobOf, Recorded
    <3> QED
      BY <3>2, <3>3, <3>4 DEF Inv, JobInv
  <2> QED
    BY <2>1, <2>3, <2>4
<1>20. ASSUME MarkPurged PROVE Inv'
  <2> DEFINE a == job["cron"].id
  <2>1. /\ UNCHANGED <<vault, due, lapsed>> /\ archive' = [archive EXCEPT ![a].row = "purged"]
        /\ Filed("cron", a, "purge") /\ job["cron"].at = "mark"
    BY <1>20 DEF MarkPurged
  <2>2. a \in Recorded /\ a \in Archive /\ job["cron"].ids \subseteq Recorded
    BY <1>0, <2>1 DEF IInv, JobInv, JobOf, Recorded
  <2>3. /\ archive'[a].row = "purged" /\ archive'[a].outcome = archive[a].outcome
        /\ \A b \in Archive : b # a => archive'[b] = archive[b]
    BY <1>0, <2>1, <2>2 DEF TypeOK, ArchiveRow
  <2>4. Recorded' = Recorded /\ Live' \subseteq Live
    BY <2>2, <2>3 DEF Recorded, Live
  <2>5. /\ job'["cron"].at = "purge" /\ job'["cron"].ids \subseteq Recorded
        /\ \A v \in Worker : v # "cron" => job'[v] = job[v]
    BY <1>0, <2>1, <2>2, SetIs DEF Filed, OnArchives
  <2>6. LockInv' /\ ArchiveIsBacked' /\ Apart'
    BY <2>1, <2>4, <2>5 DEF IInv, LockInv, ArchiveIsBacked, Apart
  <2>7. JobOf("cron")'
    BY <2>4, <2>5 DEF JobOf
  <2>8. ASSUME NEW v \in Worker, v # "cron" PROVE JobOf(v)'
    <3>1. job[v].at = "record" => job[v].id # a /\ job[v].id \in Archive
      BY <1>0, <2>2, <2>8 DEF IInv, JobInv, JobOf, TypeOK, Recorded
    <3>2. job[v].at \in {"mark", "restamp"} =>
             job[v].id \in Recorded /\ archive'[job[v].id].outcome = archive[job[v].id].outcome
      BY <2>3, <2>8 DEF IInv, JobInv, JobOf, Recorded
    <3> QED
      BY <2>1, <2>3, <2>4, <2>5, <2>8, <3>1, <3>2 DEF IInv, JobInv, JobOf
  <2> QED
    BY <2>6, <2>7, <2>8 DEF Inv, JobInv
<1>21. ASSUME Extend PROVE Inv'
  <2>1. PICK a \in job["account"].ids :
           \/ /\ archive[a].outcome = "approved" => Extendable(a)
              /\ lapsed' = IF archive[a].outcome = "approved" THEN lapsed \ {a} ELSE lapsed
              /\ Upon("account", a, "restamp")
           \/ Filed("account", a, "extend") /\ UNCHANGED lapsed
    BY <1>21 DEF Extend
  <2>2. /\ UNCHANGED <<archive, due, vault>> /\ Recorded' = Recorded /\ Live' = Live
        /\ job["account"].at = "extend" /\ job["account"].ids \subseteq Recorded /\ a \in Recorded
    BY <1>0, <1>21 DEF Extend, IInv, JobInv, JobOf, Recorded, Live
  <2>3. lapsed' \subseteq lapsed
    BY <2>1
  <2>4. /\ job'["account"].at \in {"restamp", "extend"} /\ job'["account"].ids \subseteq Recorded
        /\ \A v \in Worker : v # "account" => job'[v] = job[v]
        /\ job'["account"].at = "restamp" =>
             /\ job'["account"].id = a
             /\ archive[a].outcome = "approved" => a \in vault \ lapsed'
    <3>1. CASE Filed("account", a, "extend")
      BY <1>0, <2>2, <3>1, SetIs DEF Filed, OnArchives
    <3>2. CASE Upon("account", a, "restamp") /\ (archive[a].outcome = "approved" =>
                  Extendable(a) /\ lapsed' = lapsed \ {a})
      <4>1. archive[a].outcome = "approved" => a \in vault \ lapsed'
        BY <3>2 DEF Extendable
      <4> QED
        BY <1>0, <2>2, <3>2, <4>1, SetIs DEF Upon, OnArchives
    <3> QED
      BY <2>1, <3>1, <3>2
  <2>5. LockInv' /\ ArchiveIsBacked' /\ Apart'
    BY <2>2, <2>3, <2>4 DEF IInv, LockInv, ArchiveIsBacked, Apart
  <2>6. JobOf("account")'
    BY <2>2, <2>4 DEF JobOf
  <2>7. ASSUME NEW v \in Worker, v # "account" PROVE JobOf(v)'
    BY <2>2, <2>3, <2>4, <2>7 DEF IInv, JobInv, JobOf
  <2> QED
    BY <2>5, <2>6, <2>7 DEF Inv, JobInv
<1>22. ASSUME Restamp PROVE Inv'
  <2> DEFINE a == job["account"].id
  <2>1. /\ UNCHANGED <<vault, archive, lapsed>> /\ job["account"].at = "restamp"
        /\ due' = IF archive[a].outcome = "approved" THEN due \ {a} ELSE due
        /\ Filed("account", a, "extend")
    BY <1>22 DEF Restamp
  <2>2. /\ Recorded' = Recorded /\ Live' = Live /\ job["account"].ids \subseteq Recorded
        /\ archive[a].outcome = "approved" => a \in vault \ lapsed
    BY <1>0, <2>1 DEF Recorded, Live, IInv, JobInv, JobOf
  <2>3. /\ job'["account"].at = "extend" /\ job'["account"].ids \subseteq Recorded
        /\ \A v \in Worker : v # "account" => job'[v] = job[v]
    BY <1>0, <2>1, <2>2, SetIs DEF Filed, OnArchives
  <2>4. LockInv' /\ ArchiveIsBacked' /\ Apart'
    BY <2>1, <2>2, <2>3 DEF IInv, LockInv, ArchiveIsBacked, Apart
  <2>5. JobOf("account")'
    BY <2>2, <2>3 DEF JobOf
  <2>6. ASSUME NEW v \in Worker, v # "account" PROVE JobOf(v)'
    BY <2>1, <2>2, <2>3, <2>6 DEF IInv, JobInv, JobOf
  <2> QED
    BY <2>4, <2>5, <2>6 DEF Inv, JobInv
<1>23. ASSUME UNCHANGED vars PROVE Inv'
  BY <1>6, <1>23 DEF vars, archives
<1>24. ASSUME NEW w \in Worker, Sealer(w) PROVE Inv'
  BY <1>9, <1>10, <1>16, <1>17, <1>24 DEF Sealer
<1>25. ASSUME Cron PROVE Inv'
  BY <1>0, <1>11, <1>12, <1>18, <1>19, <1>20, <1>24, <1>25 DEF Cron
<1>26. ASSUME Deletion PROVE Inv'
  BY <1>0, <1>11, <1>12, <1>18, <1>21, <1>22, <1>24, <1>26 DEF Deletion
<1>27. ASSUME Failure PROVE Inv'
  BY <1>10, <1>13, <1>14, <1>18, <1>27 DEF Failure
<1>28. Inv'
  BY <1>7, <1>8, <1>15, <1>23, <1>25, <1>26, <1>27 DEF Next
<1> QED
  BY <1>0, <1>28 DEF IInv, Inv

-----------------------------------------------------------------------------
\* Every state of every behaviour has the right types: the invariant of the
\* model of the cron, the archiver, the deletion and the reviews.
THEOREM TypeCorrect == Spec => []TypeOK
<1>1. Init => TypeOK
  BY InitInv DEF IInv
<1>2. TypeOK /\ [Next]_vars => TypeOK'
  BY TypeInv
<1> QED
  BY <1>1, <1>2, PTL DEF Spec

\* On a storage that enforces the lock, a row of identity_archives whose term
\* has not come has its envelope in the vault, whatever fails and however the
\* cron and the deletion of the account interleave (purgeExpired,
\* onAccountDeleted, archiveDocument).
THEOREM EvidenceIsThere == ObjectLock => (Spec => []ArchiveIsBacked)
<1> SUFFICES ASSUME ObjectLock PROVE Spec => []ArchiveIsBacked
  OBVIOUS
<1>1. IInv => ArchiveIsBacked
  BY DEF IInv
<1>2. IInv /\ [Next]_vars => IInv'
  BY NextInv
<1> QED
  BY <1>1, <1>2, InitInv, PTL DEF Spec

\* The cron never takes back the verdict on an account: only processStalePending
\* writes to the account, and only while it is still pending.
THEOREM CronRespectsVerdicts == Spec => VerdictStands
<1>1. ASSUME Cron, identityStatus \in Outcome PROVE identityStatus' = identityStatus
  <2>1. identityStatus # "pending"
    BY <1>1 DEF Outcome
  <2>2. CASE UnrowStale
    BY <2>1, <2>2 DEF UnrowStale, StatusAfterStale
  <2>3. ASSUME Sealer("cron") PROVE identityStatus' = identityStatus
    BY <2>3 DEF Sealer, Take, Fetch, Seal, Record, Drop, docs
  <2>4. ASSUME ListReviewed \/ Destroy \/ Unrow \/ ListStale \/ DestroyStale
        PROVE  identityStatus' = identityStatus
    BY <2>4 DEF ListReviewed, Destroy, Unrow, ListStale, DestroyStale, docs
  <2>5. ASSUME ListDue \/ Purge \/ MarkPurged \/ EndRun PROVE identityStatus' = identityStatus
    BY <2>5 DEF ListDue, Purge, MarkPurged, EndRun, docs
  <2> QED
    BY <1>1, <2>2, <2>3, <2>4, <2>5 DEF Cron
<1>2. [Next]_vars => [Cron /\ identityStatus \in Outcome => identityStatus' = identityStatus]_vars
  BY <1>1
<1> QED
  BY <1>2, PTL DEF Spec, VerdictStands

-----------------------------------------------------------------------------
(* Sums, and the disk of an association.                                     *)

LEMMA LeastExists ==
    ASSUME NEW S \in SUBSET Nat, S # {}
    PROVE  \E x \in S : \A y \in S : x <= y
  <1>1. PICK x \in S : \A y \in S : <<y, x>> \notin OpToRel(<, Nat)
    BY NatLessThanWellFounded, WFMin
  <1>2. \A y \in S : ~(y < x)
    BY <1>1 DEF OpToRel
  <1> QED
    BY <1>2

\* The sum of h over the subsets of S, one element after the other.
Pick(s) == CHOOSE x \in s : TRUE
Adds(h, S, g) ==
    g = [s \in SUBSET S |-> IF s = {} THEN 0 ELSE h[Pick(s)] + g[s \ {Pick(s)}]]

LEMMA SumUnfolds ==
    ASSUME NEW h, NEW S
    PROVE  SumFunctionOnSet(h, S) = (CHOOSE g : Adds(h, S, g))[S]
  BY DEF SumFunctionOnSet, FoldFunctionOnSet, MapThenFoldSet, Adds, Pick

LEMMA AddsAt ==
    ASSUME NEW h, NEW S, NEW g, Adds(h, S, g)
    PROVE  /\ g[{}] = 0
           /\ \A s \in SUBSET S : s # {} =>
                /\ Pick(s) \in s /\ g[s] = h[Pick(s)] + g[s \ {Pick(s)}]
  <1>1. \A s \in SUBSET S : g[s] = IF s = {} THEN 0 ELSE h[Pick(s)] + g[s \ {Pick(s)}]
    BY Zenon DEF Adds
  <1>2. \A s : s # {} => Pick(s) \in s
    BY DEF Pick
  <1> QED
    BY <1>1, <1>2

\* Such a sum exists: it is built for the subsets of at most n elements, one n after
\* the other.
LEMMA SumExists ==
    ASSUME NEW h, NEW S, IsFiniteSet(S)
    PROVE  \E g : Adds(h, S, g)
  <1> DEFINE Small(n) == {s \in SUBSET S : Cardinality(s) <= n}
             Upto(n, g) ==
                g = [s \in Small(n) |-> IF s = {} THEN 0 ELSE h[Pick(s)] + g[s \ {Pick(s)}]]
             Bad == {n \in Nat : ~ \E g : Upto(n, g)}
  <1>1. \A s \in SUBSET S : IsFiniteSet(s) /\ Cardinality(s) \in Nat /\ Cardinality(s) <= Cardinality(S)
    BY FS_Subset, FS_CardinalityType
  <1>2. Cardinality(S) \in Nat
    BY FS_CardinalityType
  <1>3. 0 \notin Bad
    <2>1. \A s \in Small(0) : s = {}
      BY <1>1, FS_EmptySet
    <2> DEFINE g == [s \in Small(0) |-> 0]
    <2>2. Upto(0, g)
      BY <2>1
    <2> QED
      BY <2>2
  <1>4. ASSUME NEW n \in Nat, n + 1 \in Bad PROVE n \in Bad
    <2> SUFFICES ASSUME NEW g, Upto(n, g) PROVE \E k : Upto(n + 1, k)
      BY <1>4
    <2> DEFINE k == [s \in Small(n + 1) |-> IF s = {} THEN 0 ELSE h[Pick(s)] + g[s \ {Pick(s)}]]
    <2>1. ASSUME NEW s \in Small(n + 1), s # {}
          PROVE  s \ {Pick(s)} \in Small(n) /\ s \ {Pick(s)} \in Small(n + 1)
      <3>1. Pick(s) \in s
        BY <2>1 DEF Pick
      <3>2. /\ Cardinality(s \ {Pick(s)}) = Cardinality(s) - 1
        BY <3>1, <1>1, FS_RemoveElement
      <3> QED
        BY <3>2, <1>1
    <2>2. \A s \in Small(n) : s \in Small(n + 1) /\ k[s] = g[s]
      <3>1. \A s \in Small(n) : s \in Small(n + 1)
        BY <1>1
      <3>2. \A s \in Small(n) : g[s] = IF s = {} THEN 0 ELSE h[Pick(s)] + g[s \ {Pick(s)}]
        BY Zenon
      <3> QED
        BY <3>1, <3>2, Zenon
    <2>3. \A s \in Small(n + 1) : k[s] = IF s = {} THEN 0 ELSE h[Pick(s)] + k[s \ {Pick(s)}]
      <3>1. ASSUME NEW s \in Small(n + 1), s # {}
            PROVE  k[s] = h[Pick(s)] + k[s \ {Pick(s)}]
        <4>1. k[s] = h[Pick(s)] + g[s \ {Pick(s)}]
          BY <3>1, Zenon
        <4> QED
          BY <4>1, <2>1, <2>2, <3>1, Zenon
      <3>2. ASSUME NEW s \in Small(n + 1), s = {} PROVE k[s] = 0
        BY <3>2, Zenon
      <3> QED
        BY <3>1, <3>2, Zenon
    <2>4. k = [s \in Small(n + 1) |-> k[s]]
      BY Zenon
    <2>5. Upto(n + 1, k)
      <3> HIDE DEF k, Small
      <3> QED
        BY <2>3, <2>4, Zenon
    <2> QED
      BY <2>5, Zenon
  <1>5. Bad = {}
    <2> SUFFICES ASSUME Bad # {} PROVE FALSE
      OBVIOUS
    <2>1. Bad \in SUBSET Nat
      BY Zenon
    <2> HIDE DEF Bad
    <2>2. PICK n \in Bad : \A m \in Bad : n <= m
      BY <2>1, LeastExists
    <2>3. n - 1 \in Nat /\ n = (n - 1) + 1
      BY <2>1, <2>2, <1>3
    <2>4. n - 1 \in Bad
      BY <2>2, <2>3, <1>4
    <2> QED
      BY <2>1, <2>2, <2>4
  <1>6. PICK g : Upto(Cardinality(S), g)
    BY <1>2, <1>5, Zenon
  <1>7. Small(Cardinality(S)) = SUBSET S
    BY <1>1
  <1>8. Adds(h, S, g)
    <2> HIDE DEF Small
    <2> QED
      BY <1>6, <1>7, Zenon DEF Adds
  <1> QED
    BY <1>8

LEMMA SumAdds ==
    ASSUME NEW h, NEW S, IsFiniteSet(S)
    PROVE  \E g : Adds(h, S, g) /\ SumFunctionOnSet(h, S) = g[S]
  <1> DEFINE g == CHOOSE k : Adds(h, S, k)
  <1>1. Adds(h, S, g)
    BY SumExists, Zenon
  <1> QED
    BY <1>1, SumUnfolds, Zenon

\* Subsets of a finite set are ordered by their size: what fails for none but
\* when it fails for a smaller one does not fail.
LEMMA SmallestSubset ==
    ASSUME NEW S, IsFiniteSet(S), NEW B \in SUBSET SUBSET S, B # {}
    PROVE  \E s \in B : \A x \in s : s \ {x} \notin B
  <1> DEFINE Sizes == {Cardinality(s) : s \in B}
  <1>1. \A s \in B : IsFiniteSet(s) /\ Cardinality(s) \in Nat
    BY FS_Subset, FS_CardinalityType
  <1>2. Sizes \in SUBSET Nat /\ Sizes # {}
    BY <1>1
  <1>3. PICK n \in Sizes : \A m \in Sizes : n <= m
    <2> HIDE DEF Sizes
    <2> QED
      BY <1>2, LeastExists
  <1>4. PICK s \in B : n = Cardinality(s)
    BY <1>3
  <1>5. ASSUME NEW x \in s, s \ {x} \in B PROVE FALSE
    <2>1. Cardinality(s \ {x}) = Cardinality(s) - 1
      BY <1>1, FS_RemoveElement
    <2>2. Cardinality(s \ {x}) \in Sizes
      BY <1>5
    <2> QED
      BY <2>1, <2>2, <1>1, <1>3, <1>4
  <1> QED
    BY <1>5

\* The sum only depends on the values at the elements of the set.
LEMMA AddsAgree ==
    ASSUME NEW h, NEW S, NEW g, Adds(h, S, g), NEW k, NEW T, NEW m, Adds(k, T, m),
           NEW U, IsFiniteSet(U), U \subseteq S, U \subseteq T, \A x \in U : h[x] = k[x]
    PROVE  g[U] = m[U]
  <1> DEFINE B == {s \in SUBSET U : g[s] # m[s]}
  <1>1. B \in SUBSET SUBSET U
    OBVIOUS
  <1>2. B = {}
    <2> SUFFICES ASSUME B # {} PROVE FALSE
      OBVIOUS
    <2>1. PICK s \in B : \A x \in s : s \ {x} \notin B
      <3> HIDE DEF B
      <3> QED
        BY <1>1, SmallestSubset
    <2>2. s \in SUBSET U /\ s \in SUBSET S /\ s \in SUBSET T
      BY <1>1
    <2>3. s # {}
      BY AddsAt
    <2>4. /\ Pick(s) \in s /\ g[s] = h[Pick(s)] + g[s \ {Pick(s)}]
          /\ m[s] = k[Pick(s)] + m[s \ {Pick(s)}]
      BY <2>2, <2>3, AddsAt
    <2>5. g[s \ {Pick(s)}] = m[s \ {Pick(s)}]
      BY <2>1, <2>2, <2>4
    <2> QED
      BY <2>1, <2>2, <2>4, <2>5
  <1> QED
    BY <1>2

LEMMA AddsNat ==
    ASSUME NEW h, NEW S, IsFiniteSet(S), NEW g, Adds(h, S, g), \A x \in S : h[x] \in Nat
    PROVE  \A s \in SUBSET S : g[s] \in Nat
  <1> DEFINE B == {s \in SUBSET S : g[s] \notin Nat}
  <1>1. B \in SUBSET SUBSET S
    OBVIOUS
  <1>2. B = {}
    <2> SUFFICES ASSUME B # {} PROVE FALSE
      OBVIOUS
    <2>1. PICK s \in B : \A x \in s : s \ {x} \notin B
      <3> HIDE DEF B
      <3> QED
        BY <1>1, SmallestSubset
    <2>2. s \in SUBSET S /\ s # {}
      <3>1. g[{}] = 0
        BY AddsAt
      <3>2. g[s] \notin Nat /\ s \in SUBSET S
        OBVIOUS
      <3>3. s = {} => g[s] = 0
        BY <3>1, Zenon
      <3>4. 0 \in Nat
        OBVIOUS
      <3> HIDE DEF B
      <3> QED
        BY <3>2, <3>3, <3>4
    <2>3. Pick(s) \in s /\ g[s] = h[Pick(s)] + g[s \ {Pick(s)}]
      BY <2>2, AddsAt
    <2>4. g[s \ {Pick(s)}] \in Nat /\ h[Pick(s)] \in Nat
      BY <2>1, <2>2, <2>3
    <2> QED
      BY <2>1, <2>3, <2>4
  <1> QED
    BY <1>2

\* Any element may be taken out, not only the one that is picked.
LEMMA AddsAny ==
    ASSUME NEW h, NEW S, IsFiniteSet(S), NEW g, Adds(h, S, g), \A x \in S : h[x] \in Nat,
           NEW z \in S
    PROVE  g[S] = h[z] + g[S \ {z}]
  <1> DEFINE B == {s \in SUBSET S : \E x \in s : g[s] # h[x] + g[s \ {x}]}
  <1>1. B \in SUBSET SUBSET S
    OBVIOUS
  <1>2. B = {}
    <2> SUFFICES ASSUME B # {} PROVE FALSE
      OBVIOUS
    <2>1. PICK s \in B : \A x \in s : s \ {x} \notin B
      <3> HIDE DEF B
      <3> QED
        BY <1>1, SmallestSubset
    <2>2. PICK x \in s : g[s] # h[x] + g[s \ {x}]
      BY <2>1
    <2> DEFINE p == Pick(s)
    <2>3. s \in SUBSET S /\ p \in s /\ g[s] = h[p] + g[s \ {p}]
      <3>1. s \in SUBSET S /\ s # {}
        BY <1>1, <2>2
      <3>2. Pick(s) \in s /\ g[s] = h[Pick(s)] + g[s \ {Pick(s)}]
        <4> HIDE DEF B
        <4> QED
          BY <3>1, AddsAt
      <3> QED
        BY <3>1, <3>2
    <2> HIDE DEF p
    <2>4. x # p
      BY <2>2, <2>3
    <2>5. g[s \ {p}] = h[x] + g[(s \ {p}) \ {x}]
      BY <2>1, <2>3, <2>4
    <2>6. g[s \ {x}] = h[p] + g[(s \ {x}) \ {p}]
      BY <2>1, <2>2, <2>3, <2>4
    <2>7. (s \ {p}) \ {x} = (s \ {x}) \ {p}
      OBVIOUS
    <2>8. /\ h[x] \in Nat /\ h[p] \in Nat /\ g[(s \ {x}) \ {p}] \in Nat
      BY <2>3, AddsNat
    <2>9. g[s] = h[p] + (h[x] + g[(s \ {x}) \ {p}])
      BY <2>3, <2>5, <2>7
    <2>10. h[p] + (h[x] + g[(s \ {x}) \ {p}]) = h[x] + (h[p] + g[(s \ {x}) \ {p}])
      BY <2>8
    <2> QED
      BY <2>2, <2>6, <2>9, <2>10
  <1> QED
    BY <1>2

\* The three facts about sums that the proofs use.
LEMMA SumIsNat ==
    ASSUME NEW h, NEW S, IsFiniteSet(S), \A x \in S : h[x] \in Nat
    PROVE  SumFunctionOnSet(h, S) \in Nat
  BY SumAdds, AddsNat

LEMMA SumAgrees ==
    ASSUME NEW h, NEW k, NEW S, IsFiniteSet(S), \A x \in S : h[x] = k[x]
    PROVE  SumFunctionOnSet(h, S) = SumFunctionOnSet(k, S)
  <1>1. PICK g : Adds(h, S, g) /\ SumFunctionOnSet(h, S) = g[S]
    BY SumAdds
  <1>2. PICK m : Adds(k, S, m) /\ SumFunctionOnSet(k, S) = m[S]
    BY SumAdds
  <1>3. g[S] = m[S]
    BY <1>1, <1>2, AddsAgree
  <1> QED
    BY <1>1, <1>2, <1>3

LEMMA SumWith ==
    ASSUME NEW h, NEW S, IsFiniteSet(S), NEW x, x \notin S,
           \A y \in S \cup {x} : h[y] \in Nat
    PROVE  SumFunctionOnSet(h, S \cup {x}) = SumFunctionOnSet(h, S) + h[x]
  <1>0. IsFiniteSet(S \cup {x})
    BY FS_AddElement
  <1>1. PICK g : Adds(h, S \cup {x}, g) /\ SumFunctionOnSet(h, S \cup {x}) = g[S \cup {x}]
    BY <1>0, SumAdds
  <1>2. PICK m : Adds(h, S, m) /\ SumFunctionOnSet(h, S) = m[S]
    BY SumAdds
  <1>3. g[S] = m[S]
    BY <1>1, <1>2, AddsAgree
  <1>4. (S \cup {x}) \ {x} = S
    OBVIOUS
  <1>5. g[S \cup {x}] = h[x] + g[(S \cup {x}) \ {x}]
    <2> DEFINE T == S \cup {x}
    <2>1. IsFiniteSet(T) /\ Adds(h, T, g) /\ (\A y \in T : h[y] \in Nat) /\ x \in T
      BY <1>0, <1>1
    <2> HIDE DEF T
    <2>2. g[T] = h[x] + g[T \ {x}]
      BY <2>1, AddsAny
    <2> QED
      BY <2>2 DEF T
  <1>6. m[S] \in Nat
    BY <1>2, AddsNat
  <1>7. h[x] \in Nat
    OBVIOUS
  <1>8. g[S \cup {x}] = h[x] + m[S]
    BY <1>3, <1>4, <1>5
  <1> QED
    BY <1>1, <1>2, <1>6, <1>7, <1>8

\* A sum over a set that one element enters or leaves.
LEMMA SumGrows ==
    ASSUME NEW h, NEW k, NEW S, IsFiniteSet(S), NEW x, x \notin S, NEW T, T = S \cup {x},
           \A y \in S : h[y] \in Nat /\ k[y] = h[y], k[x] \in Nat
    PROVE  SumFunctionOnSet(k, T) = SumFunctionOnSet(h, S) + k[x]
  <1>1. SumFunctionOnSet(k, S \cup {x}) = SumFunctionOnSet(k, S) + k[x]
    BY SumWith
  <1>2. SumFunctionOnSet(k, S) = SumFunctionOnSet(h, S)
    BY SumAgrees
  <1> QED
    BY <1>1, <1>2

LEMMA SumShrinks ==
    ASSUME NEW h, NEW k, NEW S, IsFiniteSet(S), NEW x \in S, NEW T, T = S \ {x},
           \A y \in S : h[y] \in Nat, \A y \in T : k[y] = h[y]
    PROVE  SumFunctionOnSet(h, S) = SumFunctionOnSet(k, T) + h[x]
  <1>1. IsFiniteSet(T) /\ x \notin T /\ S = T \cup {x}
    BY FS_RemoveElement
  <1>2. \A y \in T : k[y] \in Nat /\ h[y] = k[y]
    OBVIOUS
  <1>3. h[x] \in Nat
    OBVIOUS
  <1> QED
    BY <1>1, <1>2, <1>3, SumGrows
-----------------------------------------------------------------------------
Freed == [r \in Req |-> req[r].freed]

\* A post that was published shows an object, also after its deletion.
MediaInv == \A p \in Post : post[p] # "none" => media[p] \in Object

\* A request that is about to claim has a post of its own to publish; one that
\* deletes knows the object of its post, and frees all of it or nothing.
RequestOK(r) ==
    /\ pc[r] \in {"idle", "claim", "size"} => req[r].freed = 0
    /\ req[r].short => pc[r] = "floor"
    /\ pc[r] = "claim" =>
           req[r].post \in Post /\ post[req[r].post] = "none" /\ req[r].object \in Object
    /\ pc[r] \notin {"idle", "claim"} =>
           /\ req[r].post \in Post /\ post[req[r].post] # "none"
           /\ req[r].object = media[req[r].post]
           /\ req[r].freed \in {0, req[r].object}
RequestInv ==
    /\ \A r \in Req : RequestOK(r)
    /\ \A q, r \in Req : pc[q] = "claim" /\ pc[r] = "claim" /\ req[q].post = req[r].post => q = r

SpaceInv == Space!TypeOK /\ MediaInv /\ RequestInv /\ Space!RoomComesBack

LEMMA SpaceTypes ==
    /\ Object \subseteq Nat \ {0} /\ Quota \in Nat
    /\ None \notin Post /\ None \notin Object
    /\ IsFiniteSet(Post) /\ IsFiniteSet(Req)
  BY PartsAssumption, SpaceCount DEF Space!SizeAssumption, Space!NoneFresh

LEMMA SumsAreNat ==
    ASSUME Space!TypeOK, MediaInv
    PROVE  /\ IsFiniteSet(Space!Shown) /\ IsFiniteSet(Space!Returning)
           /\ \A p \in Space!Shown : media[p] \in Nat
           /\ \A r \in Req : req[r].freed \in Nat /\ Freed[r] = req[r].freed
           /\ Space!BytesShown \in Nat /\ Space!BytesReturning \in Nat
  <1>1. Space!Shown \in SUBSET Post /\ Space!Returning \in SUBSET Req
    BY DEF Space!Shown, Space!Returning
  <1>2. IsFiniteSet(Space!Shown) /\ IsFiniteSet(Space!Returning)
    BY <1>1, SpaceTypes, FS_Subset
  <1>3. \A p \in Space!Shown : media[p] \in Nat
    BY SpaceTypes DEF Space!Shown, MediaInv
  <1>4. \A r \in Req : req[r].freed \in Nat /\ Freed[r] = req[r].freed
    <2>1. ASSUME NEW r \in Req PROVE req[r].freed \in Object \cup {0}
      <3>1. req[r] \in [post : Post \cup {None}, object : Object \cup {None},
                        freed : Object \cup {0}, short : BOOLEAN]
        BY DEF Space!TypeOK
      <3> QED
        BY <3>1
    <2>2. \A r \in Req : req[r].freed \in Nat
      <3>1. Object \cup {0} \subseteq Nat
        BY SpaceTypes
      <3> QED
        BY <2>1, <3>1
    <2>3. \A r \in Req : Freed[r] = req[r].freed
      BY Zenon DEF Freed
    <2> QED
      BY <2>2, <2>3
  <1>5. Space!BytesShown \in Nat
    BY <1>2, <1>3, SumIsNat, SameSums DEF Space!BytesShown
  <1>6. \A r \in Space!Returning : Freed[r] \in Nat
    BY <1>1, <1>4
  <1>7. Space!BytesReturning \in Nat
    <2>1. Space!BytesReturning = SumFunctionOnSet(Freed, Space!Returning)
      BY SameSums, Zenon DEF Space!BytesReturning, Freed
    <2> QED
      BY <1>2, <1>6, <2>1, SumIsNat
  <1> QED
    BY <1>2, <1>3, <1>4, <1>5, <1>7

LEMMA SpaceStarts == Space!Init => SpaceInv
  <1> SUFFICES ASSUME Space!Init PROVE SpaceInv
    OBVIOUS
  <1>1. Space!TypeOK
    BY SpaceTypes DEF Space!Init, Space!TypeOK, Space!Blank, Space!Ask, Space!PC
  <1>2. MediaInv
    BY DEF Space!Init, MediaInv
  <1>3. RequestInv
    BY DEF Space!Init, RequestInv, RequestOK, Space!Blank, Space!Ask
  <1>4. Space!RoomComesBack
    BY <1>1, <1>2, SumsAreNat DEF Space!Init, Space!RoomComesBack
  <1> QED
    BY <1>1, <1>2, <1>3, <1>4 DEF SpaceInv

-----------------------------------------------------------------------------
LEMMA SumsStayNat ==
    ASSUME Space!TypeOK', MediaInv'
    PROVE  /\ IsFiniteSet(Space!Shown') /\ IsFiniteSet(Space!Returning')
           /\ \A p \in Space!Shown' : media'[p] \in Nat
           /\ \A r \in Req : req'[r].freed \in Nat /\ Freed'[r] = req'[r].freed
           /\ Space!BytesShown' \in Nat /\ Space!BytesReturning' \in Nat
  <1>1. Space!Shown' \in SUBSET Post /\ Space!Returning' \in SUBSET Req
    BY DEF Space!Shown, Space!Returning
  <1>2. IsFiniteSet(Space!Shown') /\ IsFiniteSet(Space!Returning')
    BY <1>1, SpaceTypes, FS_Subset
  <1>3. \A p \in Space!Shown' : media'[p] \in Nat
    BY SpaceTypes DEF Space!Shown, MediaInv
  <1>4. \A r \in Req : req'[r].freed \in Nat /\ Freed'[r] = req'[r].freed
    <2>1. ASSUME NEW r \in Req PROVE req'[r].freed \in Object \cup {0}
      <3>1. req'[r] \in [post : Post \cup {None}, object : Object \cup {None},
                         freed : Object \cup {0}, short : BOOLEAN]
        BY DEF Space!TypeOK
      <3> QED
        BY <3>1
    <2>2. \A r \in Req : req'[r].freed \in Nat
      <3>1. Object \cup {0} \subseteq Nat
        BY SpaceTypes
      <3> QED
        BY <2>1, <3>1
    <2>3. \A r \in Req : Freed'[r] = req'[r].freed
      BY Zenon DEF Freed
    <2> QED
      BY <2>2, <2>3
  <1>5. Space!BytesShown' \in Nat
    BY <1>2, <1>3, SumIsNat, SameSums DEF Space!BytesShown
  <1>6. \A r \in Space!Returning' : Freed'[r] \in Nat
    BY <1>1, <1>4
  <1>7. Space!BytesReturning' \in Nat
    <2>1. Space!BytesReturning' = SumFunctionOnSet(Freed', Space!Returning')
      BY SameSums, Zenon DEF Space!BytesReturning, Freed
    <2> QED
      BY <1>2, <1>6, <2>1, SumIsNat
  <1> QED
    BY <1>2, <1>3, <1>4, <1>5, <1>7

\* What a step does to the two sums, from what it does to the two sets.
LEMMA ShownSteps ==
    ASSUME Space!TypeOK, MediaInv, Space!TypeOK', MediaInv'
    PROVE  /\ Space!Shown' = Space!Shown /\ (\A p \in Space!Shown : media'[p] = media[p])
                => Space!BytesShown' = Space!BytesShown
           /\ \A x \in Post : x \notin Space!Shown /\ Space!Shown' = Space!Shown \cup {x}
                  /\ (\A p \in Space!Shown : media'[p] = media[p])
                => Space!BytesShown' = Space!BytesShown + media'[x]
           /\ \A x \in Space!Shown : Space!Shown' = Space!Shown \ {x} /\ media' = media
                => Space!BytesShown = Space!BytesShown' + media[x]
  <1>0. /\ IsFiniteSet(Space!Shown) /\ \A p \in Space!Shown : media[p] \in Nat
        /\ IsFiniteSet(Space!Shown') /\ \A p \in Space!Shown' : media'[p] \in Nat
    BY SumsAreNat, SumsStayNat
  <1> DEFINE S == Space!Shown  T == Space!Shown'  h == media  k == media'
  <1>1. Space!BytesShown = SumFunctionOnSet(h, S) /\ Space!BytesShown' = SumFunctionOnSet(k, T)
    BY SameSums DEF Space!BytesShown
  <1>2. IsFiniteSet(S) /\ (\A p \in S : h[p] \in Nat) /\ IsFiniteSet(T) /\ (\A p \in T : k[p] \in Nat)
    BY <1>0
  <1> HIDE DEF S, T, h, k
  <1>3. ASSUME T = S, \A p \in S : k[p] = h[p]
        PROVE  SumFunctionOnSet(k, T) = SumFunctionOnSet(h, S)
    BY <1>2, <1>3, SumAgrees
  <1>4. ASSUME NEW x, x \notin S, T = S \cup {x}, \A p \in S : k[p] = h[p]
        PROVE  SumFunctionOnSet(k, T) = SumFunctionOnSet(h, S) + k[x]
    <2>1. k[x] \in Nat /\ \A y \in S : h[y] \in Nat /\ k[y] = h[y]
      BY <1>2, <1>4
    <2> QED
      BY <1>2, <1>4, <2>1, SumGrows
  <1>5. ASSUME NEW x \in S, T = S \ {x}, k = h
        PROVE  SumFunctionOnSet(h, S) = SumFunctionOnSet(k, T) + h[x]
    <2>1. (\A y \in S : h[y] \in Nat) /\ \A y \in T : k[y] = h[y]
      BY <1>2, <1>5
    <2> QED
      BY <1>2, <1>5, <2>1, SumShrinks
  <1> QED
    BY <1>1, <1>3, <1>4, <1>5 DEF S, T, h, k

LEMMA ReturningSteps ==
    ASSUME Space!TypeOK, MediaInv, Space!TypeOK', MediaInv'
    PROVE  /\ Space!Returning' = Space!Returning /\ (\A r \in Space!Returning : req'[r].freed = req[r].freed)
                => Space!BytesReturning' = Space!BytesReturning
           /\ \A x \in Req : x \notin Space!Returning /\ Space!Returning' = Space!Returning \cup {x}
                  /\ (\A r \in Space!Returning : req'[r].freed = req[r].freed)
                => Space!BytesReturning' = Space!BytesReturning + req'[x].freed
           /\ \A x \in Space!Returning : Space!Returning' = Space!Returning \ {x}
                  /\ (\A r \in Space!Returning' : req'[r].freed = req[r].freed)
                => Space!BytesReturning = Space!BytesReturning' + req[x].freed
  <1>0. /\ IsFiniteSet(Space!Returning) /\ Space!Returning \subseteq Req
        /\ IsFiniteSet(Space!Returning') /\ Space!Returning' \subseteq Req
        /\ \A r \in Req : req[r].freed \in Nat /\ Freed[r] = req[r].freed
        /\ \A r \in Req : req'[r].freed \in Nat /\ Freed'[r] = req'[r].freed
    <2>1. Space!Returning \subseteq Req /\ Space!Returning' \subseteq Req
      BY DEF Space!Returning
    <2> QED
      BY <2>1, SumsAreNat, SumsStayNat
  <1> DEFINE S == Space!Returning  T == Space!Returning'  h == Freed  k == Freed'
  <1>1. Space!BytesReturning = SumFunctionOnSet(h, S) /\ Space!BytesReturning' = SumFunctionOnSet(k, T)
    BY SameSums, Zenon DEF Space!BytesReturning, Freed
  <1>2. /\ IsFiniteSet(S) /\ (\A p \in S : h[p] \in Nat)
        /\ IsFiniteSet(T) /\ (\A p \in T : k[p] \in Nat)
    BY <1>0
  <1> HIDE DEF S, T, h, k
  <1>3. ASSUME T = S, \A p \in S : k[p] = h[p]
        PROVE  SumFunctionOnSet(k, T) = SumFunctionOnSet(h, S)
    BY <1>2, <1>3, SumAgrees
  <1>4. ASSUME NEW x, x \notin S, T = S \cup {x}, \A p \in S : k[p] = h[p]
        PROVE  SumFunctionOnSet(k, T) = SumFunctionOnSet(h, S) + k[x]
    <2>1. k[x] \in Nat /\ \A y \in S : h[y] \in Nat /\ k[y] = h[y]
      BY <1>2, <1>4
    <2> QED
      BY <1>2, <1>4, <2>1, SumGrows
  <1>5. ASSUME NEW x \in S, T = S \ {x}, \A p \in T : k[p] = h[p]
        PROVE  SumFunctionOnSet(h, S) = SumFunctionOnSet(k, T) + h[x]
    <2>1. (\A y \in S : h[y] \in Nat) /\ \A y \in T : k[y] = h[y]
      BY <1>2, <1>5
    <2> QED
      BY <1>2, <1>5, <2>1, SumShrinks
  <1>6. ASSUME Space!Returning' = Space!Returning, \A r \in Space!Returning : req'[r].freed = req[r].freed
        PROVE  Space!BytesReturning' = Space!BytesReturning
    <2>1. T = S /\ \A p \in S : k[p] = h[p]
      BY <1>0, <1>6 DEF S, T, h, k
    <2> QED
      BY <1>1, <1>3, <2>1
  <1>7. ASSUME NEW x \in Req, x \notin Space!Returning, Space!Returning' = Space!Returning \cup {x},
               \A r \in Space!Returning : req'[r].freed = req[r].freed
        PROVE  Space!BytesReturning' = Space!BytesReturning + req'[x].freed
    <2>1. x \notin S /\ T = S \cup {x} /\ (\A p \in S : k[p] = h[p]) /\ k[x] = req'[x].freed
      BY <1>0, <1>7 DEF S, T, h, k
    <2> QED
      BY <1>1, <1>4, <2>1
  <1>8. ASSUME NEW x \in Space!Returning, Space!Returning' = Space!Returning \ {x},
               \A r \in Space!Returning' : req'[r].freed = req[r].freed
        PROVE  Space!BytesReturning = Space!BytesReturning' + req[x].freed
    <2>1. x \in S /\ T = S \ {x} /\ (\A p \in T : k[p] = h[p]) /\ h[x] = req[x].freed
      BY <1>0, <1>8 DEF S, T, h, k
    <2> QED
      BY <1>1, <1>5, <2>1
  <1> QED
    BY <1>6, <1>7, <1>8

-----------------------------------------------------------------------------
LEMMA AskTyped ==
    ASSUME NEW p \in Post \cup {None}, NEW o \in Object \cup {None},
           NEW n \in Object \cup {0}, NEW b \in BOOLEAN
    PROVE  Space!Ask(p, o, n, b) \in [post : Post \cup {None}, object : Object \cup {None},
                                freed : Object \cup {0}, short : BOOLEAN]
  BY Zenon DEF Space!Ask

\* A request moves on: its next step and what it knows are of their types.
LEMMA GotoTyped ==
    ASSUME Space!TypeOK, NEW r \in Req, NEW step \in Space!PC,
           NEW rec \in [post : Post \cup {None}, object : Object \cup {None},
                        freed : Object \cup {0}, short : BOOLEAN],
           Space!Goto(r, step, rec)
    PROVE  /\ pc' \in [Req -> Space!PC]
           /\ req' \in [Req -> [post : Post \cup {None}, object : Object \cup {None},
                               freed : Object \cup {0}, short : BOOLEAN]]
           /\ pc'[r] = step /\ req'[r] = rec
           /\ \A q \in Req \ {r} : pc'[q] = pc[q] /\ req'[q] = req[q]
  BY DEF Space!TypeOK, Space!Goto

LEMMA RequestTypes ==
    ASSUME Space!TypeOK, NEW r \in Req
    PROVE  /\ req[r] \in [post : Post \cup {None}, object : Object \cup {None},
                          freed : Object \cup {0}, short : BOOLEAN]
           /\ req[r].post \in Post \cup {None} /\ req[r].object \in Object \cup {None}
           /\ req[r].freed \in Object \cup {0} /\ req[r].short \in BOOLEAN
           /\ pc[r] \in Space!PC
           /\ post \in [Post -> {"none", "live", "deleted", "gone"}]
           /\ media \in [Post -> Object \cup {None}]
           /\ used \in 0..Quota /\ used \in Nat /\ lost \in Nat
  <1>1. req[r] \in [post : Post \cup {None}, object : Object \cup {None},
                    freed : Object \cup {0}, short : BOOLEAN]
    BY DEF Space!TypeOK
  <1>2. used \in 0..Quota /\ used \in Nat /\ lost \in Nat
    BY SpaceTypes DEF Space!TypeOK
  <1> QED
    BY <1>1, <1>2 DEF Space!TypeOK

LEMMA LeaveTyped ==
    ASSUME Space!TypeOK, NEW r \in Req, Space!Leave(r)
    PROVE  /\ pc' \in [Req -> Space!PC]
           /\ req' \in [Req -> [post : Post \cup {None}, object : Object \cup {None},
                               freed : Object \cup {0}, short : BOOLEAN]]
           /\ pc'[r] = "idle" /\ req'[r] = Space!Blank
           /\ req'[r].freed = 0 /\ ~ req'[r].short
           /\ \A q \in Req \ {r} : pc'[q] = pc[q] /\ req'[q] = req[q]
  <1>1. "idle" \in Space!PC
    BY DEF Space!PC
  <1>2. Space!Blank \in [post : Post \cup {None}, object : Object \cup {None},
                   freed : Object \cup {0}, short : BOOLEAN]
    BY AskTyped DEF Space!Blank
  <1>3. Space!Goto(r, "idle", Space!Blank)
    BY DEF Space!Leave
  <1>4. Space!Blank.freed = 0 /\ Space!Blank.short = FALSE
    BY DEF Space!Blank, Space!Ask
  <1> QED
    BY <1>1, <1>2, <1>3, <1>4, GotoTyped

\* What the other requests know stays true of the posts: rows only leave "none"
\* by the claim of their one request, and their objects are set by it.
LEMMA OthersKept ==
    ASSUME Space!TypeOK, MediaInv, RequestInv, NEW r \in Req,
           \A q \in Req \ {r} : pc'[q] = pc[q] /\ req'[q] = req[q],
           \A p \in Post : post[p] # "none" => post'[p] # "none" /\ media'[p] = media[p],
           \A p \in Post : post[p] = "none" /\ (pc[r] = "claim" => p # req[r].post)
                => post'[p] = "none",
           RequestOK(r)', pc'[r] # "claim"
    PROVE  RequestInv'
  <1>1. ASSUME NEW q \in Req \ {r} PROVE RequestOK(q)'
    <2>1. RequestOK(q) /\ pc'[q] = pc[q] /\ req'[q] = req[q]
      BY DEF RequestInv
    <2>2. ASSUME pc[q] = "claim"
          PROVE  req[q].post \in Post /\ post'[req[q].post] = "none" /\ req[q].object \in Object
      <3>1. req[q].post \in Post /\ post[req[q].post] = "none" /\ req[q].object \in Object
        BY <2>1, <2>2 DEF RequestOK
      <3>2. pc[r] = "claim" => req[q].post # req[r].post
        BY <2>2 DEF RequestInv
      <3> QED
        BY <3>1, <3>2
    <2>3. ASSUME pc[q] \notin {"idle", "claim"}
          PROVE  /\ req[q].post \in Post /\ post'[req[q].post] # "none"
                 /\ req[q].object = media'[req[q].post]
                 /\ req[q].freed \in {0, req[q].object}
      <3>1. /\ req[q].post \in Post /\ post[req[q].post] # "none"
            /\ req[q].object = media[req[q].post]
            /\ req[q].freed \in {0, req[q].object}
        BY <2>1, <2>3 DEF RequestOK
      <3> QED
        BY <3>1
    <2>4. pc[q] \in {"idle", "claim", "size"} => req[q].freed = 0
      BY <2>1 DEF RequestOK
    <2>5. req[q].short => pc[q] = "floor"
      BY <2>1 DEF RequestOK
    <2> QED
      BY <2>1, <2>2, <2>3, <2>4, <2>5 DEF RequestOK
  <1>2. \A q, u \in Req : pc'[q] = "claim" /\ pc'[u] = "claim" /\ req'[q].post = req'[u].post => q = u
    BY DEF RequestInv
  <1>3. \A q \in Req : RequestOK(q)'
    BY <1>1
  <1> QED
    BY <1>2, <1>3 DEF RequestInv

-----------------------------------------------------------------------------
\* A step of one request that leaves the posts, their media and the counter.
LEMMA QuietStep ==
    ASSUME SpaceInv, NEW r \in Req, NEW step \in Space!PC \ {"claim", "give"},
           NEW rec \in [post : Post \cup {None}, object : Object \cup {None},
                        freed : Object \cup {0}, short : BOOLEAN],
           Space!Goto(r, step, rec), ~ rec.short, pc[r] # "give", ~ req[r].short,
           UNCHANGED <<post, media, used, lost>>, stored' \subseteq Object,
           step \in {"idle", "size"} => rec.freed = 0,
           step # "idle" =>
              /\ rec.post \in Post /\ post[rec.post] # "none"
              /\ rec.object = media[rec.post] /\ rec.freed \in {0, rec.object}
    PROVE  SpaceInv'
  <1>0. Space!TypeOK /\ MediaInv /\ RequestInv /\ Space!RoomComesBack
    BY DEF SpaceInv
  <1>1. /\ pc' \in [Req -> Space!PC]
        /\ req' \in [Req -> [post : Post \cup {None}, object : Object \cup {None},
                            freed : Object \cup {0}, short : BOOLEAN]]
        /\ pc'[r] = step /\ req'[r] = rec
        /\ \A q \in Req \ {r} : pc'[q] = pc[q] /\ req'[q] = req[q]
    BY <1>0, GotoTyped
  <1>2. Space!TypeOK'
    BY <1>0, <1>1 DEF Space!TypeOK
  <1>3. MediaInv'
    BY <1>0 DEF MediaInv
  <1>4. RequestOK(r)'
    BY <1>1 DEF RequestOK
  <1>5. RequestInv'
    BY <1>0, <1>1, <1>4, OthersKept
  <1>6. Space!Shown' = Space!Shown /\ Space!BytesShown' = Space!BytesShown
    <2>1. Space!Shown' = Space!Shown
      BY DEF Space!Shown
    <2> QED
      BY <1>0, <1>2, <1>3, <2>1, ShownSteps
  <1>7. Space!BytesReturning' = Space!BytesReturning
    <2>1. Space!Returning' = Space!Returning /\ r \notin Space!Returning
      BY <1>1 DEF Space!Returning
    <2>2. \A q \in Space!Returning : req'[q].freed = req[q].freed
      BY <1>1, <2>1 DEF Space!Returning
    <2> QED
      BY <1>0, <1>2, <1>3, <2>1, <2>2, ReturningSteps
  <1>8. Space!RoomComesBack'
    BY <1>0, <1>6, <1>7 DEF Space!RoomComesBack
  <1> QED
    BY <1>2, <1>3, <1>5, <1>8 DEF SpaceInv

LEMMA QuietSteps ==
    ASSUME SpaceInv, NEW r \in Req,
           (\E p \in Post : Space!DeleteRead(r, p) \/ Space!TakeDown(r, p)) \/ Space!SizeOf(r) \/ Space!Purge(r)
    PROVE  SpaceInv'
  <1>0. Space!TypeOK /\ MediaInv /\ RequestInv /\ RequestOK(r) /\ stored \subseteq Object
    BY DEF SpaceInv, RequestInv, Space!TypeOK
  <1>1. ASSUME NEW p \in Post, Space!DeleteRead(r, p) PROVE SpaceInv'
    <2>1. media[p] \in Object /\ post[p] # "none"
      BY <1>0, <1>1 DEF Space!DeleteRead, MediaInv
    <2> DEFINE rec == Space!Ask(p, media[p], 0, FALSE)
    <2>2. rec \in [post : Post \cup {None}, object : Object \cup {None},
                   freed : Object \cup {0}, short : BOOLEAN]
      BY <2>1, AskTyped
    <2>3. rec.post = p /\ rec.object = media[p] /\ rec.freed = 0 /\ rec.short = FALSE
      BY DEF Space!Ask
    <2>4. ~ req[r].short /\ pc[r] = "idle" /\ Space!Goto(r, "size", rec)
      BY <1>0, <1>1 DEF Space!DeleteRead, RequestOK
    <2>5. "size" \in Space!PC \ {"claim", "give"}
      BY DEF Space!PC
    <2>6. UNCHANGED <<post, media, used, lost>> /\ stored' \subseteq Object
      BY <1>0, <1>1 DEF Space!DeleteRead
    <2> HIDE DEF rec
    <2> QED
      BY <2>1, <2>2, <2>3, <2>4, <2>5, <2>6, QuietStep
  <1>2. ASSUME NEW p \in Post, Space!TakeDown(r, p) PROVE SpaceInv'
    <2>1. media[p] \in Object /\ post[p] # "none"
      BY <1>0, <1>2 DEF Space!TakeDown, MediaInv
    <2> DEFINE rec == Space!Ask(p, media[p], 0, FALSE)
    <2>2. rec \in [post : Post \cup {None}, object : Object \cup {None},
                   freed : Object \cup {0}, short : BOOLEAN]
      BY <2>1, AskTyped
    <2>3. rec.post = p /\ rec.object = media[p] /\ rec.freed = 0 /\ rec.short = FALSE
      BY DEF Space!Ask
    <2>4. ~ req[r].short /\ pc[r] = "idle" /\ Space!Goto(r, "purge", rec)
      BY <1>0, <1>2 DEF Space!TakeDown, RequestOK
    <2>5. "purge" \in Space!PC \ {"claim", "give"}
      BY DEF Space!PC
    <2>6. UNCHANGED <<post, media, used, lost>> /\ stored' \subseteq Object
      BY <1>0, <1>2 DEF Space!TakeDown
    <2> HIDE DEF rec
    <2> QED
      BY <2>1, <2>2, <2>3, <2>4, <2>5, <2>6, QuietStep
  <1>3. ASSUME Space!SizeOf(r) PROVE SpaceInv'
    <2>1. PICK n \in {0} \cup (stored \cap {req[r].object}) :
             Space!Goto(r, "purge", [req[r] EXCEPT !.freed = n])
      BY <1>3 DEF Space!SizeOf
    <2>2. /\ req[r].post \in Post /\ post[req[r].post] # "none"
          /\ req[r].object = media[req[r].post] /\ ~ req[r].short
      BY <1>0, <1>3 DEF Space!SizeOf, RequestOK
    <2>3. n \in Object \cup {0} /\ n \in {0, req[r].object}
      BY <1>0
    <2> DEFINE rec == [req[r] EXCEPT !.freed = n]
    <2>4. /\ req[r] \in [post : Post \cup {None}, object : Object \cup {None},
                          freed : Object \cup {0}, short : BOOLEAN]
      BY <1>0, RequestTypes
    <2>5. rec \in [post : Post \cup {None}, object : Object \cup {None},
                   freed : Object \cup {0}, short : BOOLEAN]
      BY <2>3, <2>4
    <2>6. /\ rec.post = req[r].post /\ rec.object = req[r].object
          /\ rec.freed = n /\ rec.short = req[r].short
      BY <2>4
    <2>7. "purge" \in Space!PC \ {"claim", "give"} /\ pc[r] # "give" /\ Space!Goto(r, "purge", rec)
      BY <1>3, <2>1 DEF Space!PC, Space!SizeOf
    <2>8. UNCHANGED <<post, media, used, lost>> /\ stored' \subseteq Object
      BY <1>0, <1>3 DEF Space!SizeOf
    <2> HIDE DEF rec
    <2> QED
      BY <2>2, <2>3, <2>5, <2>6, <2>7, <2>8, QuietStep
  <1>4. ASSUME Space!Purge(r) PROVE SpaceInv'
    <2>1. /\ req[r].post \in Post /\ post[req[r].post] # "none"
          /\ req[r].object = media[req[r].post] /\ ~ req[r].short
          /\ req[r].freed \in {0, req[r].object}
      BY <1>0, <1>4 DEF Space!Purge, RequestOK
    <2>2. /\ req[r] \in [post : Post \cup {None}, object : Object \cup {None},
                          freed : Object \cup {0}, short : BOOLEAN]
      BY <1>0, RequestTypes
    <2>3. "hide" \in Space!PC \ {"claim", "give"} /\ pc[r] # "give" /\ Space!Goto(r, "hide", req[r])
      BY <1>4 DEF Space!PC, Space!Purge
    <2>4. UNCHANGED <<post, media, used, lost>> /\ stored' \subseteq Object
      BY <1>0, <1>4 DEF Space!Purge
    <2> QED
      BY <2>1, <2>2, <2>3, <2>4, QuietStep
  <1> QED
    BY <1>1, <1>2, <1>3, <1>4

LEMMA BindStep ==
    ASSUME SpaceInv, NEW r \in Req, NEW p \in Post, NEW o \in Object, Space!Bind(r, p, o)
    PROVE  SpaceInv'
  <1>0. Space!TypeOK /\ MediaInv /\ RequestInv /\ RequestOK(r) /\ Space!RoomComesBack
    BY DEF SpaceInv, RequestInv
  <1> DEFINE rec == Space!Ask(p, o, 0, FALSE)
  <1>1. /\ rec \in [post : Post \cup {None}, object : Object \cup {None},
                    freed : Object \cup {0}, short : BOOLEAN]
    BY AskTyped
  <1>2. rec.post = p /\ rec.object = o /\ rec.freed = 0 /\ rec.short = FALSE
    BY DEF Space!Ask
  <1>3. /\ pc[r] = "idle" /\ post[p] = "none" /\ (\A q \in Req : req[q].post # p)
        /\ Space!Goto(r, "claim", rec) /\ UNCHANGED <<post, media, stored, used, lost>>
    BY DEF Space!Bind
  <1>4. "claim" \in Space!PC
    BY DEF Space!PC
  <1> HIDE DEF rec
  <1>5. /\ pc' \in [Req -> Space!PC]
        /\ req' \in [Req -> [post : Post \cup {None}, object : Object \cup {None},
                            freed : Object \cup {0}, short : BOOLEAN]]
        /\ pc'[r] = "claim" /\ req'[r] = rec
        /\ \A q \in Req \ {r} : pc'[q] = pc[q] /\ req'[q] = req[q]
    BY <1>0, <1>1, <1>3, <1>4, GotoTyped
  <1>6. Space!TypeOK'
    BY <1>0, <1>3, <1>5 DEF Space!TypeOK
  <1>7. MediaInv'
    BY <1>0, <1>3 DEF MediaInv
  <1>8. RequestInv'
    <2>1. ASSUME NEW q \in Req PROVE RequestOK(q)'
      <3>1. CASE q = r
        BY <1>2, <1>3, <1>5, <3>1 DEF RequestOK
      <3>2. CASE q # r
        <4>1. RequestOK(q) /\ pc'[q] = pc[q] /\ req'[q] = req[q]
          BY <1>0, <1>5, <3>2 DEF RequestInv
        <4> QED
          BY <1>3, <4>1 DEF RequestOK
      <3> QED
        BY <3>1, <3>2
    <2>2. ASSUME NEW q \in Req, NEW u \in Req, pc'[q] = "claim", pc'[u] = "claim",
                 req'[q].post = req'[u].post, q # u
          PROVE  FALSE
      <3>1. CASE q = r
        BY <1>2, <1>3, <1>5, <2>2, <3>1
      <3>2. CASE u = r
        BY <1>2, <1>3, <1>5, <2>2, <3>2
      <3>3. CASE q # r /\ u # r
        BY <1>0, <1>5, <2>2, <3>3 DEF RequestInv
      <3> QED
        BY <3>1, <3>2, <3>3
    <2> QED
      BY <2>1, <2>2 DEF RequestInv
  <1>9. Space!BytesShown' = Space!BytesShown
    <2>1. Space!Shown' = Space!Shown /\ media' = media
      BY <1>3 DEF Space!Shown
    <2> QED
      BY <1>0, <1>6, <1>7, <2>1, ShownSteps
  <1>10. Space!BytesReturning' = Space!BytesReturning
    <2>1. ~ req[r].short
      BY <1>0, <1>3 DEF RequestOK
    <2>2. Space!Returning' = Space!Returning /\ r \notin Space!Returning
      BY <1>2, <1>3, <1>5, <2>1 DEF Space!Returning
    <2>3. \A q \in Space!Returning : req'[q].freed = req[q].freed
      BY <1>5, <2>2 DEF Space!Returning
    <2> QED
      BY <1>0, <1>6, <1>7, <2>2, <2>3, ReturningSteps
  <1>11. Space!RoomComesBack'
    BY <1>0, <1>3, <1>9, <1>10 DEF Space!RoomComesBack
  <1> QED
    BY <1>6, <1>7, <1>8, <1>11 DEF SpaceInv

LEMMA ClaimStep ==
    ASSUME SpaceInv, NEW r \in Req, Space!Claim(r)
    PROVE  SpaceInv'
  <1>0. Space!TypeOK /\ MediaInv /\ RequestInv /\ RequestOK(r) /\ Space!RoomComesBack
    BY DEF SpaceInv, RequestInv
  <1> DEFINE p == req[r].post  o == req[r].object
  <1>1. /\ pc[r] = "claim" /\ used + o <= Quota /\ used' = used + o
        /\ post' = [post EXCEPT ![p] = "live"] /\ media' = [media EXCEPT ![p] = o]
        /\ Space!Leave(r) /\ UNCHANGED <<stored, lost>>
    BY DEF Space!Claim
  <1>2. p \in Post /\ post[p] = "none" /\ o \in Object /\ ~ req[r].short
    BY <1>0, <1>1 DEF RequestOK
  <1> HIDE DEF p, o
  <1>3. o \in Nat \ {0} /\ used \in Nat /\ lost \in Nat /\ used' \in 0..Quota /\ o # None
    BY <1>0, <1>1, <1>2, SpaceTypes DEF Space!TypeOK
  <1>4. /\ post \in [Post -> {"none", "live", "deleted", "gone"}]
        /\ media \in [Post -> Object \cup {None}]
    BY <1>0 DEF Space!TypeOK
  <1>5. /\ post' \in [Post -> {"none", "live", "deleted", "gone"}]
        /\ media' \in [Post -> Object \cup {None}]
        /\ post'[p] = "live" /\ media'[p] = o
        /\ \A q \in Post \ {p} : post'[q] = post[q] /\ media'[q] = media[q]
    BY <1>1, <1>2, <1>4
  <1>6. /\ pc' \in [Req -> Space!PC]
        /\ req' \in [Req -> [post : Post \cup {None}, object : Object \cup {None},
                            freed : Object \cup {0}, short : BOOLEAN]]
        /\ pc'[r] = "idle" /\ req'[r].freed = 0 /\ ~ req'[r].short
        /\ \A q \in Req \ {r} : pc'[q] = pc[q] /\ req'[q] = req[q]
    BY <1>0, <1>1, LeaveTyped
  <1>7. Space!TypeOK'
    <2>1. \A q \in Post : post'[q] = "live" => media'[q] # None
      BY <1>0, <1>3, <1>5 DEF Space!TypeOK
    <2> QED
      BY <1>0, <1>1, <1>3, <1>5, <1>6, <2>1 DEF Space!TypeOK
  <1>8. MediaInv'
    BY <1>0, <1>2, <1>5 DEF MediaInv
  <1>9. RequestInv'
    <2>1. RequestOK(r)'
      BY <1>6 DEF RequestOK
    <2>2. \A q \in Post : post[q] # "none" => post'[q] # "none" /\ media'[q] = media[q]
      BY <1>2, <1>5
    <2>3. \A q \in Post : post[q] = "none" /\ (pc[r] = "claim" => q # req[r].post) => post'[q] = "none"
      BY <1>1, <1>5 DEF p
    <2> QED
      BY <1>0, <1>6, <2>1, <2>2, <2>3, OthersKept
  <1>10. Space!BytesShown' = Space!BytesShown + o
    <2>1. p \notin Space!Shown /\ Space!Shown' = Space!Shown \cup {p} /\ \A q \in Space!Shown : media'[q] = media[q]
      BY <1>2, <1>5 DEF Space!Shown
    <2> QED
      BY <1>0, <1>2, <1>5, <1>7, <1>8, <2>1, ShownSteps
  <1>11. Space!BytesReturning' = Space!BytesReturning
    <2>1. Space!Returning' = Space!Returning /\ r \notin Space!Returning
      BY <1>1, <1>2, <1>6 DEF Space!Returning
    <2>2. \A q \in Space!Returning : req'[q].freed = req[q].freed
      BY <1>6, <2>1 DEF Space!Returning
    <2> QED
      BY <1>0, <1>7, <1>8, <2>1, <2>2, ReturningSteps
  <1>12. Space!BytesShown \in Nat /\ Space!BytesReturning \in Nat
    BY <1>0, SumsAreNat
  <1>13. Space!RoomComesBack'
    BY <1>0, <1>1, <1>3, <1>10, <1>11, <1>12 DEF Space!RoomComesBack
  <1> QED
    BY <1>7, <1>8, <1>9, <1>13 DEF SpaceInv

LEMMA DeleteAuthorStep ==
    ASSUME SpaceInv, NEW p \in Post, Space!DeleteAuthor(p)
    PROVE  SpaceInv'
  <1>0. Space!TypeOK /\ MediaInv /\ RequestInv /\ Space!RoomComesBack
    BY DEF SpaceInv
  <1>1. /\ post[p] \in {"live", "deleted"} /\ post' = [post EXCEPT ![p] = "gone"]
        /\ lost' = IF post[p] = "live" THEN lost + media[p] ELSE lost
        /\ UNCHANGED <<media, stored, used, pc, req>>
    BY DEF Space!DeleteAuthor
  <1>2. /\ post \in [Post -> {"none", "live", "deleted", "gone"}] /\ used \in Nat /\ lost \in Nat
    BY <1>0, SpaceTypes DEF Space!TypeOK
  <1>3. media[p] \in Object /\ media[p] \in Nat
    BY <1>0, <1>1, SpaceTypes DEF MediaInv
  <1>4. /\ post' \in [Post -> {"none", "live", "deleted", "gone"}]
        /\ post'[p] = "gone" /\ \A q \in Post \ {p} : post'[q] = post[q]
    BY <1>1, <1>2
  <1>5. lost' \in Nat
    BY <1>1, <1>2, <1>3
  <1>6. Space!TypeOK'
    BY <1>0, <1>1, <1>4, <1>5 DEF Space!TypeOK
  <1>7. MediaInv'
    BY <1>0, <1>1, <1>3, <1>4 DEF MediaInv
  <1>8. RequestInv'
    <2>1. ASSUME NEW q \in Req PROVE RequestOK(q)'
      <3>1. RequestOK(q)
        BY <1>0 DEF RequestInv
      <3>2. \A u \in Post : (post'[u] = "none") = (post[u] = "none")
        BY <1>1, <1>4
      <3> QED
        BY <1>1, <3>1, <3>2 DEF RequestOK
    <2> QED
      BY <1>0, <1>1, <2>1 DEF RequestInv
  <1>9. Space!BytesReturning' = Space!BytesReturning
    <2>1. Space!Returning' = Space!Returning /\ req' = req
      BY <1>1 DEF Space!Returning
    <2> QED
      BY <1>0, <1>6, <1>7, <2>1, ReturningSteps
  <1>10. Space!BytesShown \in Nat /\ Space!BytesReturning \in Nat /\ Space!BytesShown' \in Nat
    BY <1>0, <1>6, <1>7, SumsAreNat, SumsStayNat
  <1>11. CASE post[p] = "live"
    <2>1. p \in Space!Shown /\ Space!Shown' = Space!Shown \ {p}
      BY <1>4, <1>11 DEF Space!Shown
    <2>2. Space!BytesShown = Space!BytesShown' + media[p]
      BY <1>0, <1>1, <1>6, <1>7, <2>1, ShownSteps
    <2>3. Space!RoomComesBack'
      BY <1>0, <1>1, <1>2, <1>3, <1>9, <1>10, <1>11, <2>2 DEF Space!RoomComesBack
    <2> QED
      BY <1>6, <1>7, <1>8, <2>3 DEF SpaceInv
  <1>12. CASE post[p] # "live"
    <2>1. Space!Shown' = Space!Shown /\ media' = media
      BY <1>1, <1>4, <1>12 DEF Space!Shown
    <2>2. Space!BytesShown' = Space!BytesShown
      BY <1>0, <1>6, <1>7, <2>1, ShownSteps
    <2>3. Space!RoomComesBack'
      BY <1>0, <1>1, <1>9, <1>12, <2>2 DEF Space!RoomComesBack
    <2> QED
      BY <1>6, <1>7, <1>8, <2>3 DEF SpaceInv
  <1> QED
    BY <1>11, <1>12

\* A request leaves: the bytes it still had to give back are no longer returning.
LEMMA LeavingReturns ==
    ASSUME SpaceInv, NEW r \in Req, Space!Leave(r), Space!TypeOK', MediaInv'
    PROVE  /\ r \in Space!Returning => Space!BytesReturning = Space!BytesReturning' + req[r].freed
           /\ r \notin Space!Returning => Space!BytesReturning' = Space!BytesReturning
  <1>0. Space!TypeOK /\ MediaInv
    BY DEF SpaceInv
  <1>1. /\ pc'[r] = "idle" /\ ~ req'[r].short
        /\ \A q \in Req \ {r} : pc'[q] = pc[q] /\ req'[q] = req[q]
    BY <1>0, LeaveTyped
  <1>2. Space!Returning' = Space!Returning \ {r}
    BY <1>1 DEF Space!Returning
  <1>3. \A q \in Space!Returning' : req'[q].freed = req[q].freed
    BY <1>1, <1>2 DEF Space!Returning
  <1>4. ASSUME r \in Space!Returning PROVE Space!BytesReturning = Space!BytesReturning' + req[r].freed
    BY <1>0, <1>2, <1>3, <1>4, ReturningSteps
  <1>5. ASSUME r \notin Space!Returning PROVE Space!BytesReturning' = Space!BytesReturning
    <2>1. Space!Returning' = Space!Returning
      BY <1>2, <1>5
    <2> QED
      BY <1>0, <1>3, <2>1, ReturningSteps
  <1> QED
    BY <1>4, <1>5

LEMMA AbortStep ==
    ASSUME SpaceInv, NEW r \in Req, Space!Abort(r)
    PROVE  SpaceInv'
  <1>0. Space!TypeOK /\ MediaInv /\ RequestInv /\ RequestOK(r) /\ Space!RoomComesBack
    BY DEF SpaceInv, RequestInv
  <1>1. /\ lost' = IF pc[r] = "give" \/ req[r].short THEN lost + req[r].freed ELSE lost
        /\ Space!Leave(r) /\ UNCHANGED <<post, media, stored, used>>
    BY DEF Space!Abort
  <1>2. /\ pc' \in [Req -> Space!PC]
        /\ req' \in [Req -> [post : Post \cup {None}, object : Object \cup {None},
                            freed : Object \cup {0}, short : BOOLEAN]]
        /\ pc'[r] = "idle" /\ req'[r].freed = 0 /\ ~ req'[r].short
        /\ \A q \in Req \ {r} : pc'[q] = pc[q] /\ req'[q] = req[q]
    BY <1>0, <1>1, LeaveTyped
  <1>3. used \in Nat /\ lost \in Nat /\ req[r].freed \in Nat
    BY <1>0, SpaceTypes, SumsAreNat DEF Space!TypeOK
  <1>4. lost' \in Nat
    BY <1>1, <1>3
  <1>5. Space!TypeOK'
    BY <1>0, <1>1, <1>2, <1>4 DEF Space!TypeOK
  <1>6. MediaInv'
    BY <1>0, <1>1 DEF MediaInv
  <1>7. RequestInv'
    <2>1. RequestOK(r)'
      BY <1>2 DEF RequestOK
    <2> QED
      BY <1>0, <1>1, <1>2, <2>1, OthersKept
  <1>8. Space!BytesShown' = Space!BytesShown
    <2>1. Space!Shown' = Space!Shown /\ media' = media
      BY <1>1 DEF Space!Shown
    <2> QED
      BY <1>0, <1>5, <1>6, <2>1, ShownSteps
  <1>9. Space!BytesShown \in Nat /\ Space!BytesReturning \in Nat /\ Space!BytesReturning' \in Nat
    BY <1>0, <1>5, <1>6, SumsAreNat, SumsStayNat
  <1>10. Space!BytesShown + Space!BytesReturning + lost = Space!BytesShown' + Space!BytesReturning' + lost'
    <2>1. CASE r \in Space!Returning
      <3>1. lost' = lost + req[r].freed
        BY <1>1, <2>1 DEF Space!Returning
      <3>2. Space!BytesReturning = Space!BytesReturning' + req[r].freed
        BY <1>1, <1>5, <1>6, <2>1, LeavingReturns
      <3> QED
        BY <1>3, <1>8, <1>9, <3>1, <3>2
    <2>2. CASE r \notin Space!Returning
      <3>1. lost' = lost
        BY <1>1, <2>2 DEF Space!Returning
      <3>2. Space!BytesReturning' = Space!BytesReturning
        BY <1>1, <1>5, <1>6, <2>2, LeavingReturns
      <3> QED
        BY <1>8, <3>1, <3>2
    <2> QED
      BY <2>1, <2>2
  <1>11. Space!RoomComesBack'
    BY <1>0, <1>1, <1>10 DEF Space!RoomComesBack
  <1> QED
    BY <1>5, <1>6, <1>7, <1>11 DEF SpaceInv

LEMMA FloorStep ==
    ASSUME SpaceInv, NEW r \in Req, Space!Floor(r)
    PROVE  SpaceInv'
  <1>0. Space!TypeOK /\ MediaInv /\ RequestInv /\ RequestOK(r) /\ Space!RoomComesBack
    BY DEF SpaceInv, RequestInv
  <1>1. /\ pc[r] = "floor"
        /\ used' = IF used < req[r].freed THEN 0 ELSE used
        /\ lost' = IF req[r].short /\ used >= req[r].freed THEN lost + req[r].freed ELSE lost
        /\ Space!Leave(r) /\ UNCHANGED <<post, media, stored>>
    BY DEF Space!Floor
  <1>2. /\ pc' \in [Req -> Space!PC]
        /\ req' \in [Req -> [post : Post \cup {None}, object : Object \cup {None},
                            freed : Object \cup {0}, short : BOOLEAN]]
        /\ pc'[r] = "idle" /\ req'[r].freed = 0 /\ ~ req'[r].short
        /\ \A q \in Req \ {r} : pc'[q] = pc[q] /\ req'[q] = req[q]
    BY <1>0, <1>1, LeaveTyped
  <1>3. used \in 0..Quota /\ used \in Nat /\ lost \in Nat /\ req[r].freed \in Nat
    BY <1>0, SpaceTypes, SumsAreNat DEF Space!TypeOK
  <1>4. lost' \in Nat /\ used' \in 0..Quota
    BY <1>1, <1>3, SpaceTypes
  <1>5. Space!TypeOK'
    BY <1>0, <1>1, <1>2, <1>4 DEF Space!TypeOK
  <1>6. MediaInv'
    BY <1>0, <1>1 DEF MediaInv
  <1>7. RequestInv'
    <2>1. RequestOK(r)'
      BY <1>2 DEF RequestOK
    <2> QED
      BY <1>0, <1>1, <1>2, <2>1, OthersKept
  <1>8. Space!BytesShown' = Space!BytesShown
    <2>1. Space!Shown' = Space!Shown /\ media' = media
      BY <1>1 DEF Space!Shown
    <2> QED
      BY <1>0, <1>5, <1>6, <2>1, ShownSteps
  <1>9. Space!BytesShown \in Nat /\ Space!BytesReturning \in Nat /\ Space!BytesReturning' \in Nat
    BY <1>0, <1>5, <1>6, SumsAreNat, SumsStayNat
  <1>10. used <= Space!BytesShown + Space!BytesReturning + lost
    BY <1>0 DEF Space!RoomComesBack
  <1>11. used' <= Space!BytesShown' + Space!BytesReturning' + lost'
    <2>1. CASE used < req[r].freed
      BY <1>1, <1>3, <1>4, <1>8, <1>9, <2>1
    <2>2. CASE used >= req[r].freed /\ req[r].short
      <3>1. r \in Space!Returning
        BY <2>2 DEF Space!Returning
      <3>2. Space!BytesReturning = Space!BytesReturning' + req[r].freed
        BY <1>1, <1>5, <1>6, <3>1, LeavingReturns
      <3>3. used' = used /\ lost' = lost + req[r].freed
        BY <1>1, <1>3, <2>2
      <3> QED
        BY <1>3, <1>8, <1>9, <1>10, <3>2, <3>3
    <2>3. CASE used >= req[r].freed /\ ~ req[r].short
      <3>1. r \notin Space!Returning
        BY <1>1, <2>3 DEF Space!Returning
      <3>2. Space!BytesReturning = Space!BytesReturning'
        BY <1>1, <1>5, <1>6, <3>1, LeavingReturns
      <3>3. used' = used /\ lost' = lost
        BY <1>1, <1>3, <2>3
      <3> QED
        BY <1>8, <1>10, <3>2, <3>3
    <2> QED
      BY <1>3, <2>1, <2>2, <2>3
  <1>12. Space!RoomComesBack'
    BY <1>11 DEF Space!RoomComesBack
  <1> QED
    BY <1>5, <1>6, <1>7, <1>12 DEF SpaceInv

LEMMA DecrementStep ==
    ASSUME SpaceInv, NEW r \in Req, Space!Decrement(r)
    PROVE  SpaceInv'
  <1>0. Space!TypeOK /\ MediaInv /\ RequestInv /\ RequestOK(r) /\ Space!RoomComesBack
    BY DEF SpaceInv, RequestInv
  <1> DEFINE rec == [req[r] EXCEPT !.short = used < req[r].freed]
  <1>1. /\ pc[r] = "give"
        /\ used' = IF used >= req[r].freed THEN used - req[r].freed ELSE used
        /\ Space!Goto(r, "floor", rec) /\ UNCHANGED <<post, media, stored, lost>>
    BY DEF Space!Decrement
  <1>2. /\ req[r] \in [post : Post \cup {None}, object : Object \cup {None},
                       freed : Object \cup {0}, short : BOOLEAN]
    BY <1>0, RequestTypes
  <1>3. used \in 0..Quota /\ used \in Nat /\ lost \in Nat /\ req[r].freed \in Nat
    BY <1>0, SpaceTypes, SumsAreNat DEF Space!TypeOK
  <1>4. /\ rec \in [post : Post \cup {None}, object : Object \cup {None},
                    freed : Object \cup {0}, short : BOOLEAN]
        /\ rec.post = req[r].post /\ rec.object = req[r].object /\ rec.freed = req[r].freed
    <2>1. (used < req[r].freed) \in BOOLEAN
      BY <1>3
    <2> QED
      BY <1>2, <2>1
  <1>5. rec.short = (used < req[r].freed)
    BY <1>2, Zenon
  <1>6. "floor" \in Space!PC
    BY DEF Space!PC
  <1> HIDE DEF rec
  <1>7. /\ pc' \in [Req -> Space!PC]
        /\ req' \in [Req -> [post : Post \cup {None}, object : Object \cup {None},
                            freed : Object \cup {0}, short : BOOLEAN]]
        /\ pc'[r] = "floor" /\ req'[r] = rec
        /\ \A q \in Req \ {r} : pc'[q] = pc[q] /\ req'[q] = req[q]
    BY <1>0, <1>1, <1>4, <1>6, GotoTyped
  <1>8. used' \in 0..Quota
    BY <1>1, <1>3, SpaceTypes
  <1>9. Space!TypeOK'
    BY <1>0, <1>1, <1>7, <1>8 DEF Space!TypeOK
  <1>10. MediaInv'
    BY <1>0, <1>1 DEF MediaInv
  <1>11. RequestInv'
    <2>1. /\ req[r].post \in Post /\ post[req[r].post] # "none"
          /\ req[r].object = media[req[r].post] /\ req[r].freed \in {0, req[r].object}
      BY <1>0, <1>1 DEF RequestOK
    <2>2. RequestOK(r)'
      BY <1>1, <1>4, <1>7, <2>1 DEF RequestOK
    <2> QED
      BY <1>0, <1>1, <1>7, <2>2, OthersKept
  <1>12. Space!BytesShown' = Space!BytesShown
    <2>1. Space!Shown' = Space!Shown /\ media' = media
      BY <1>1 DEF Space!Shown
    <2> QED
      BY <1>0, <1>9, <1>10, <2>1, ShownSteps
  <1>13. Space!BytesShown \in Nat /\ Space!BytesReturning \in Nat /\ Space!BytesReturning' \in Nat
    BY <1>0, <1>9, <1>10, SumsAreNat, SumsStayNat
  <1>14. used <= Space!BytesShown + Space!BytesReturning + lost
    BY <1>0 DEF Space!RoomComesBack
  <1>15. r \in Space!Returning
    BY <1>1 DEF Space!Returning
  <1>16. used' <= Space!BytesShown' + Space!BytesReturning' + lost'
    <2>1. CASE used >= req[r].freed
      <3>1. ~ req'[r].short
        BY <1>3, <1>5, <1>7, <2>1
      <3>2. Space!Returning' = Space!Returning \ {r}
        BY <1>7, <3>1 DEF Space!Returning
      <3>3. \A q \in Space!Returning' : req'[q].freed = req[q].freed
        BY <1>7, <3>2 DEF Space!Returning
      <3>4. Space!BytesReturning = Space!BytesReturning' + req[r].freed
        BY <1>0, <1>9, <1>10, <1>15, <3>2, <3>3, ReturningSteps
      <3>5. used' = used - req[r].freed /\ lost' = lost
        BY <1>1, <2>1
      <3> QED
        BY <1>3, <1>12, <1>13, <1>14, <3>4, <3>5
    <2>2. CASE used < req[r].freed
      <3>1. req'[r].short
        BY <1>5, <1>7, <2>2
      <3>2. Space!Returning' = Space!Returning
        BY <1>7, <1>15, <3>1 DEF Space!Returning
      <3>3. \A q \in Space!Returning : req'[q].freed = req[q].freed
        BY <1>4, <1>7 DEF Space!Returning
      <3>4. Space!BytesReturning' = Space!BytesReturning
        BY <1>0, <1>9, <1>10, <3>2, <3>3, ReturningSteps
      <3>5. used' = used /\ lost' = lost
        BY <1>1, <1>3, <2>2
      <3> QED
        BY <1>12, <1>14, <3>4, <3>5
    <2> QED
      BY <1>3, <2>1, <2>2
  <1>17. Space!RoomComesBack'
    BY <1>16 DEF Space!RoomComesBack
  <1> QED
    BY <1>9, <1>10, <1>11, <1>17 DEF SpaceInv

LEMMA HideStep ==
    ASSUME SpaceInv, NEW r \in Req, Space!Hide(r)
    PROVE  SpaceInv'
  <1>0. Space!TypeOK /\ MediaInv /\ RequestInv /\ RequestOK(r) /\ Space!RoomComesBack
    BY DEF SpaceInv, RequestInv
  <1> DEFINE p == req[r].post  o == req[r].object  n == req[r].freed
  <1>1. /\ pc[r] = "hide" /\ post[p] \in {"live", "deleted"}
        /\ post' = [post EXCEPT ![p] = "deleted"]
        /\ lost' = IF post[p] = "live" THEN lost + o - n ELSE lost
        /\ IF n > 0 THEN Space!Goto(r, "give", req[r]) ELSE Space!Leave(r)
        /\ UNCHANGED <<media, stored, used>>
    BY DEF Space!Hide
  <1>2. /\ p \in Post /\ post[p] # "none" /\ o = media[p] /\ n \in {0, o} /\ ~ req[r].short
    BY <1>0, <1>1 DEF RequestOK
  <1>3. /\ post \in [Post -> {"none", "live", "deleted", "gone"}]
        /\ used \in Nat /\ lost \in Nat /\ n \in Nat
    BY <1>0, SpaceTypes, SumsAreNat DEF Space!TypeOK
  <1>4. o \in Object /\ o \in Nat /\ n <= o
    <2> HIDE DEF p, o, n
    <2>1. o \in Object /\ o \in Nat
      BY <1>0, <1>2, SpaceTypes DEF MediaInv
    <2> QED
      BY <1>2, <1>3, <2>1
  <1>5. lost' \in Nat
    BY <1>1, <1>3, <1>4
  <1>6. /\ post' \in [Post -> {"none", "live", "deleted", "gone"}]
        /\ post'[p] = "deleted" /\ \A q \in Post \ {p} : post'[q] = post[q]
    BY <1>1, <1>2, <1>3
  <1>7. /\ pc' \in [Req -> Space!PC]
        /\ req' \in [Req -> [post : Post \cup {None}, object : Object \cup {None},
                            freed : Object \cup {0}, short : BOOLEAN]]
        /\ \A q \in Req \ {r} : pc'[q] = pc[q] /\ req'[q] = req[q]
        /\ n > 0 => pc'[r] = "give" /\ req'[r] = req[r]
        /\ n = 0 => pc'[r] = "idle" /\ req'[r].freed = 0 /\ ~ req'[r].short
    <2>1. CASE n > 0
      <3>1. "give" \in Space!PC
        BY DEF Space!PC
      <3>2. Space!Goto(r, "give", req[r])
        BY <1>1, <2>1
      <3>3. /\ req[r] \in [post : Post \cup {None}, object : Object \cup {None},
                           freed : Object \cup {0}, short : BOOLEAN]
        BY <1>0, RequestTypes
      <3>4. n # 0
        BY <2>1
      <3> QED
        BY <1>0, <2>1, <3>1, <3>2, <3>3, <3>4, GotoTyped
    <2>2. CASE n = 0
      <3>1. Space!Leave(r) /\ ~(n > 0)
        BY <1>1, <2>2
      <3> QED
        BY <1>0, <3>1, LeaveTyped
    <2> QED
      BY <1>3, <2>1, <2>2
  <1>8. Space!TypeOK'
    <2>1. \A q \in Post : post'[q] = "live" => media'[q] # None
      BY <1>0, <1>1, <1>6 DEF Space!TypeOK
    <2> HIDE DEF p, o, n
    <2> QED
      BY <1>0, <1>1, <1>3, <1>5, <1>6, <1>7, <2>1 DEF Space!TypeOK
  <1>9. MediaInv'
    BY <1>0, <1>1, <1>2, <1>6 DEF MediaInv
  <1>10. RequestInv'
    <2>1. RequestOK(r)'
      <3>1. CASE n > 0
        BY <1>1, <1>2, <1>6, <1>7, <3>1 DEF RequestOK
      <3>2. CASE n = 0
        BY <1>7, <3>2 DEF RequestOK
      <3> QED
        BY <1>3, <3>1, <3>2
    <2>2. pc'[r] # "claim"
      BY <1>3, <1>7
    <2>3. \A q \in Post : post[q] # "none" => post'[q] # "none" /\ media'[q] = media[q]
      BY <1>1, <1>6
    <2>4. \A q \in Post : post[q] = "none" => post'[q] = "none"
      BY <1>2, <1>6
    <2> QED
      BY <1>0, <1>7, <2>1, <2>2, <2>3, <2>4, OthersKept
  <1>11. /\ Space!BytesShown \in Nat /\ Space!BytesReturning \in Nat
         /\ Space!BytesShown' \in Nat /\ Space!BytesReturning' \in Nat
    BY <1>0, <1>8, <1>9, SumsAreNat, SumsStayNat
  <1>12. Space!BytesReturning' = Space!BytesReturning + n
    <2>1. r \notin Space!Returning
      BY <1>1, <1>2 DEF Space!Returning
    <2>2. \A q \in Space!Returning : req'[q].freed = req[q].freed
      BY <1>7, <2>1 DEF Space!Returning
    <2>3. CASE n > 0
      <3>1. Space!Returning' = Space!Returning \cup {r}
        BY <1>7, <2>1, <2>3 DEF Space!Returning
      <3>2. Space!BytesReturning' = Space!BytesReturning + req'[r].freed
        BY <1>0, <1>8, <1>9, <2>1, <2>2, <3>1, ReturningSteps
      <3> QED
        BY <1>7, <2>3, <3>2
    <2>4. CASE n = 0
      <3>1. Space!Returning' = Space!Returning
        BY <1>7, <2>1, <2>4 DEF Space!Returning
      <3>2. Space!BytesReturning' = Space!BytesReturning
        BY <1>0, <1>8, <1>9, <2>2, <3>1, ReturningSteps
      <3> HIDE DEF n
      <3> QED
        BY <1>11, <2>4, <3>2
    <2> QED
      BY <1>3, <2>3, <2>4
  <1>13. Space!BytesShown + lost <= Space!BytesShown' + n + lost'
    <2>1. CASE post[p] = "live"
      <3>1. p \in Space!Shown /\ Space!Shown' = Space!Shown \ {p}
        BY <1>2, <1>6, <2>1 DEF Space!Shown
      <3>2. Space!BytesShown = Space!BytesShown' + media[p]
        BY <1>0, <1>1, <1>8, <1>9, <3>1, ShownSteps
      <3>3. lost' = lost + o - n
        BY <1>1, <2>1
      <3> HIDE DEF o, n, p
      <3> QED
        BY <1>2, <1>3, <1>4, <1>11, <3>2, <3>3
    <2>2. CASE post[p] # "live"
      <3>1. Space!Shown' = Space!Shown /\ media' = media
        BY <1>1, <1>2, <1>6, <2>2 DEF Space!Shown
      <3>2. Space!BytesShown' = Space!BytesShown
        BY <1>0, <1>8, <1>9, <3>1, ShownSteps
      <3>3. lost' = lost
        BY <1>1, <2>2
      <3> HIDE DEF o, n, p
      <3> QED
        BY <1>3, <1>11, <3>2, <3>3
    <2> QED
      BY <2>1, <2>2
  <1>14. used <= Space!BytesShown + Space!BytesReturning + lost
    BY <1>0 DEF Space!RoomComesBack
  <1>15. Space!RoomComesBack'
    <2> HIDE DEF o, n, p
    <2>1. used' = used
      BY <1>1
    <2>2. ASSUME NEW u \in Nat, NEW a \in Nat, NEW b \in Nat, NEW l \in Nat, NEW m \in Nat,
                 NEW c \in Nat, NEW k \in Nat, u <= a + b + l, a + l <= c + m + k
          PROVE  u <= c + (b + m) + k
      BY <2>2
    <2>3. used <= Space!BytesShown' + (Space!BytesReturning + n) + lost'
      BY <1>3, <1>5, <1>11, <1>13, <1>14, <2>2
    <2>4. used' <= Space!BytesShown' + Space!BytesReturning' + lost'
      BY <1>12, <2>1, <2>3
    <2> QED
      BY <2>4 DEF Space!RoomComesBack
  <1> QED
    BY <1>8, <1>9, <1>10, <1>15 DEF SpaceInv

LEMMA SpaceStep == SpaceInv /\ [Space!Next]_(Space!vars) => SpaceInv'
  <1> SUFFICES ASSUME SpaceInv, [Space!Next]_(Space!vars) PROVE SpaceInv'
    OBVIOUS
  <1>1. CASE Space!Next
    BY <1>1, QuietSteps, BindStep, ClaimStep, DeleteAuthorStep, HideStep, DecrementStep,
       FloorStep, AbortStep DEF Space!Next
  <1>2. CASE UNCHANGED Space!vars
    <2>1. /\ post' = post /\ media' = media /\ stored' = stored /\ used' = used
          /\ lost' = lost /\ pc' = pc /\ req' = req
      BY <1>2 DEF Space!vars
    <2>2. Space!TypeOK' /\ MediaInv' /\ RequestInv'
      BY <2>1 DEF SpaceInv, Space!TypeOK, MediaInv, RequestInv, RequestOK
    <2>3. Space!Shown' = Space!Shown /\ Space!Returning' = Space!Returning
      BY <2>1 DEF Space!Shown, Space!Returning
    <2>4. Space!BytesShown' = Space!BytesShown /\ Space!BytesReturning' = Space!BytesReturning
      BY <2>1, <2>2, <2>3, ShownSteps, ReturningSteps DEF SpaceInv
    <2> QED
      BY <2>1, <2>2, <2>4 DEF SpaceInv, Space!RoomComesBack
  <1> QED
    BY <1>1, <1>2


-----------------------------------------------------------------------------
(* The video stories of a member.                                            *)

\* Requests that have passed the first check, both checks, and made their story.
Passed == {r \in Req : storyPc[r] \in {"uploads", "create"}}
Creating == {r \in Req : storyPc[r] = "create"}
Bumping == {r \in Req : storyPc[r] = "bump"}

DatedInv == \A v \in Video : story[v] # "none" => madeOn[v] <= day
ActiveInv == Cardinality(Stories!Active) + Cardinality(Passed) < MaxActive + Cardinality(Req)
CountedInv == Cardinality(Stories!Today) <= uploads + Cardinality(Bumping) + missed
TodayInv == Cardinality(Stories!Today) + Cardinality(Creating) < MaxUploads + Cardinality(Req) + missed

\* A story made in a day is counted, about to be counted, or missed; whoever passes
\* a check takes one of the places that the requests in flight may overrun.
StoriesInv == Stories!TypeOK /\ DatedInv /\ ActiveInv /\ CountedInv /\ TodayInv

-----------------------------------------------------------------------------
\* The sets that are counted are finite.
LEMMA CountsAreFinite ==
  ASSUME Stories!CeilingAssumption
  PROVE  /\ IsFiniteSet(Stories!Active) /\ Cardinality(Stories!Active) \in Nat
         /\ IsFiniteSet(Stories!Today) /\ Cardinality(Stories!Today) \in Nat
         /\ IsFiniteSet(Passed) /\ Cardinality(Passed) \in Nat /\ Cardinality(Passed) <= Cardinality(Req)
         /\ IsFiniteSet(Creating) /\ Cardinality(Creating) \in Nat
         /\ IsFiniteSet(Bumping) /\ Cardinality(Bumping) \in Nat
         /\ Cardinality(Req) \in Nat
<1>1. /\ Stories!Active \in SUBSET Video /\ Stories!Today \in SUBSET Video
      /\ Passed \in SUBSET Req /\ Creating \in SUBSET Req /\ Bumping \in SUBSET Req
  BY DEF Stories!Active, Stories!Today, Passed, Creating, Bumping
<1>2. IsFiniteSet(Video) /\ IsFiniteSet(Req)
  BY StoriesCount DEF Stories!CeilingAssumption
<1>3. IsFiniteSet(Stories!Active) /\ IsFiniteSet(Stories!Today)
  BY <1>1, <1>2, FS_Subset
<1>4. /\ IsFiniteSet(Passed) /\ Cardinality(Passed) <= Cardinality(Req)
      /\ IsFiniteSet(Creating) /\ IsFiniteSet(Bumping)
  BY <1>1, <1>2, FS_Subset
<1> QED
  BY <1>2, <1>3, <1>4, FS_CardinalityType

\* Requests about to create and requests about to count are different ones.
LEMMA CreatingOrBumping ==
  ASSUME Stories!CeilingAssumption
  PROVE  Cardinality(Creating) + Cardinality(Bumping) <= Cardinality(Req)
<1>1. Creating \cup Bumping \in SUBSET Req /\ Creating \cap Bumping = {}
  BY DEF Creating, Bumping
<1>2. Cardinality(Creating \cup Bumping) <= Cardinality(Req)
  BY <1>1, FS_Subset, StoriesCount DEF Stories!CeilingAssumption
<1>3. Cardinality(Creating \cup Bumping)
        = Cardinality(Creating) + Cardinality(Bumping) - Cardinality(Creating \cap Bumping)
  BY CountsAreFinite, FS_Union
<1>4. Cardinality(Creating \cap Bumping) = 0
  BY <1>1, FS_EmptySet
<1> QED
  BY <1>2, <1>3, <1>4, CountsAreFinite

\* A subset of a finite set counts no more.
LEMMA SubsetCountsLess ==
  ASSUME NEW S, NEW T, IsFiniteSet(S), T \subseteq S
  PROVE  Cardinality(T) <= Cardinality(S) /\ Cardinality(T) \in Nat /\ Cardinality(S) \in Nat
BY FS_Subset, FS_CardinalityType

\* Types first: they need nothing else.
LEMMA StoriesTyped == ASSUME Stories!CeilingAssumption PROVE Stories!Init => Stories!TypeOK
BY StoriesCount DEF Stories!Init, Stories!TypeOK, Stories!CeilingAssumption

LEMMA StoriesTypedNext == ASSUME Stories!CeilingAssumption PROVE Stories!TypeOK /\ [Stories!Next]_(Stories!vars) => Stories!TypeOK'
<1> SUFFICES ASSUME Stories!TypeOK, [Stories!Next]_(Stories!vars) PROVE Stories!TypeOK'
  OBVIOUS
<1> USE DEF Stories!TypeOK, Stories!Goto
<1>1. ASSUME NEW r \in Req, Stories!CountActive(r) PROVE Stories!TypeOK'
  BY <1>1, StoriesCount DEF Stories!CountActive
<1>2. ASSUME NEW r \in Req, Stories!ReadUploads(r) PROVE Stories!TypeOK'
  BY <1>2 DEF Stories!ReadUploads
<1>3. ASSUME NEW r \in Req, NEW v \in Video, Stories!Create(r, v) PROVE Stories!TypeOK'
  BY <1>3 DEF Stories!Create
<1>4. ASSUME NEW r \in Req, Stories!Bump(r) PROVE Stories!TypeOK'
  BY <1>4 DEF Stories!Bump
<1>5. ASSUME NEW r \in Req, Stories!Abort(r) PROVE Stories!TypeOK'
  BY <1>5 DEF Stories!Abort
<1>6. CASE Stories!NewDay
  BY <1>6, StoriesCount DEF Stories!NewDay, Stories!CeilingAssumption
<1>7. ASSUME NEW v \in Video, Stories!Expire(v) PROVE Stories!TypeOK'
  BY <1>7 DEF Stories!Expire
<1>8. CASE Stories!Sweep
  BY <1>8 DEF Stories!Sweep
<1>9. ASSUME NEW v \in Video, Stories!DeleteStory(v) PROVE Stories!TypeOK'
  BY <1>9 DEF Stories!DeleteStory
<1>10. CASE UNCHANGED Stories!vars
  BY <1>10 DEF Stories!vars
<1> QED
  BY <1>1, <1>2, <1>3, <1>4, <1>5, <1>6, <1>7, <1>8, <1>9, <1>10 DEF Stories!Next

-----------------------------------------------------------------------------
LEMMA StoriesStart == ASSUME Stories!CeilingAssumption PROVE Stories!Init => StoriesInv
<1> SUFFICES ASSUME Stories!Init PROVE StoriesInv
  OBVIOUS
<1>1. Stories!Active = {} /\ Stories!Today = {} /\ Passed = {} /\ Creating = {} /\ Bumping = {}
  BY DEF Stories!Init, Stories!Active, Stories!Today, Passed, Creating, Bumping
<1>2. /\ Cardinality(Stories!Active) = 0 /\ Cardinality(Stories!Today) = 0
      /\ Cardinality(Passed) = 0 /\ Cardinality(Creating) = 0 /\ Cardinality(Bumping) = 0
  BY <1>1, FS_EmptySet
<1>3. Stories!TypeOK
  BY StoriesTyped
<1> QED
  BY StoriesCount, <1>2, <1>3, CountsAreFinite
     DEF StoriesInv, DatedInv, ActiveInv, CountedInv, TodayInv, Stories!Init, Stories!CeilingAssumption

\* Nothing is made, and no request moves towards a creation or away from the count.
LEMMA QuietStories ==
  ASSUME Stories!CeilingAssumption, StoriesInv, Stories!TypeOK', DatedInv',
         Stories!Active' \subseteq Stories!Active, Stories!Today' = Stories!Today, Passed' \subseteq Passed,
         Creating' \subseteq Creating, Bumping' = Bumping,
         uploads' = uploads, missed' = missed
  PROVE  StoriesInv'
<1>1. Cardinality(Stories!Active') <= Cardinality(Stories!Active) /\ Cardinality(Stories!Active') \in Nat
  BY CountsAreFinite, SubsetCountsLess
<1>2. Cardinality(Passed') <= Cardinality(Passed) /\ Cardinality(Passed') \in Nat
  BY CountsAreFinite, SubsetCountsLess
<1>3. Cardinality(Creating') <= Cardinality(Creating) /\ Cardinality(Creating') \in Nat
  BY CountsAreFinite, SubsetCountsLess
<1>4. ActiveInv'
  BY <1>1, <1>2, CountsAreFinite, StoriesCount DEF StoriesInv, ActiveInv, Stories!CeilingAssumption
<1>5. CountedInv'
  BY DEF StoriesInv, CountedInv
<1>6. TodayInv'
  BY <1>3, CountsAreFinite, StoriesCount DEF StoriesInv, Stories!TypeOK, TodayInv,
     Stories!CeilingAssumption
<1> QED
  BY <1>4, <1>5, <1>6 DEF StoriesInv

LEMMA StoriesStep == ASSUME Stories!CeilingAssumption PROVE StoriesInv /\ [Stories!Next]_(Stories!vars) => StoriesInv'
<1> SUFFICES ASSUME StoriesInv, [Stories!Next]_(Stories!vars) PROVE StoriesInv'
  OBVIOUS
<1>0. Stories!TypeOK /\ Stories!TypeOK'
  BY StoriesTypedNext DEF StoriesInv
<1>1. ASSUME NEW r \in Req, Stories!CountActive(r) PROVE StoriesInv'
  <2>1. /\ Stories!Active' = Stories!Active /\ Stories!Today' = Stories!Today
        /\ Creating' = Creating /\ Bumping' = Bumping
    BY <1>0, <1>1, StoriesCount DEF Stories!CountActive, Stories!Goto, Stories!Active,
       Stories!Today, Creating, Bumping, Stories!TypeOK
  <2>2. Passed' \subseteq Req
    BY DEF Passed
  <2>3. Cardinality(Passed') <= Cardinality(Req) /\ Cardinality(Passed') \in Nat
    BY <2>2, SubsetCountsLess, StoriesCount DEF Stories!CeilingAssumption
  <2>4. ActiveInv'
    BY <1>1, <2>1, <2>3, CountsAreFinite, StoriesCount DEF Stories!CountActive, ActiveInv,
       Stories!CeilingAssumption
  <2>5. CountedInv' /\ TodayInv' /\ DatedInv'
    BY <1>1, <2>1, StoriesCount DEF Stories!CountActive, StoriesInv, CountedInv, TodayInv, DatedInv
  <2> QED
    BY <1>0, <2>4, <2>5 DEF StoriesInv
<1>2. ASSUME NEW r \in Req, Stories!ReadUploads(r) PROVE StoriesInv'
  <2>1. /\ Stories!Active' = Stories!Active /\ Stories!Today' = Stories!Today /\ Passed' = Passed
        /\ Creating' = Creating \cup {r} /\ r \notin Creating
        /\ Creating' \cup Bumping \in SUBSET Req /\ Creating' \cap Bumping = {}
        /\ Bumping' = Bumping
    BY <1>0, <1>2 DEF Stories!ReadUploads, Stories!Goto, Stories!Active, Stories!Today, Passed,
       Creating, Bumping, Stories!TypeOK
  <2>2. IsFiniteSet(Creating')
    BY <2>1, CountsAreFinite, FS_AddElement
  <2>3. Cardinality(Creating' \cup Bumping) <= Cardinality(Req)
    BY <2>1, FS_Subset, StoriesCount DEF Stories!CeilingAssumption
  <2>4. Cardinality(Creating' \cup Bumping)
          = Cardinality(Creating') + Cardinality(Bumping) - Cardinality(Creating' \cap Bumping)
    BY <2>2, CountsAreFinite, FS_Union
  <2>5. Cardinality(Creating' \cap Bumping) = 0
    BY <2>1, FS_EmptySet
  <2>6. Cardinality(Creating') \in Nat
    BY <2>2, FS_CardinalityType
  <2>7. Cardinality(Creating') + Cardinality(Bumping) <= Cardinality(Req)
    BY <2>3, <2>4, <2>5, <2>6, CountsAreFinite
  <2>8. Cardinality(Stories!Today) <= uploads + Cardinality(Bumping) + missed
    BY DEF StoriesInv, CountedInv
  <2>9. Cardinality(Stories!Today) + Cardinality(Creating') < MaxUploads + Cardinality(Req) + missed
    BY <1>0, <1>2, <2>6, <2>7, <2>8, CountsAreFinite, StoriesCount DEF Stories!ReadUploads,
       Stories!TypeOK, Stories!CeilingAssumption
  <2>10. TodayInv'
    BY <1>2, <2>1, <2>9 DEF TodayInv, Stories!ReadUploads
  <2>11. ActiveInv' /\ CountedInv' /\ DatedInv'
    BY <1>2, <2>1 DEF Stories!ReadUploads, StoriesInv, ActiveInv, CountedInv, DatedInv
  <2> QED
    BY <1>0, <2>10, <2>11 DEF StoriesInv
<1>3. ASSUME NEW r \in Req, NEW v \in Video, Stories!Create(r, v) PROVE StoriesInv'
  <2>1. /\ Stories!Active' = Stories!Active \cup {v} /\ v \notin Stories!Active
        /\ Stories!Today' = Stories!Today \cup {v} /\ v \notin Stories!Today
    BY <1>0, <1>3 DEF Stories!Create, Stories!Active, Stories!Today, Stories!TypeOK
  <2>2. /\ Passed' = Passed \ {r} /\ r \in Passed
        /\ Creating' = Creating \ {r} /\ r \in Creating
        /\ Bumping' = Bumping \cup {r} /\ r \notin Bumping
    BY <1>0, <1>3 DEF Stories!Create, Stories!Goto, Passed, Creating, Bumping, Stories!TypeOK
  <2>3. /\ Cardinality(Stories!Active') = Cardinality(Stories!Active) + 1
        /\ Cardinality(Stories!Today') = Cardinality(Stories!Today) + 1
        /\ Cardinality(Bumping') = Cardinality(Bumping) + 1
    BY <2>1, <2>2, CountsAreFinite, FS_AddElement
  <2>4. /\ Cardinality(Passed') = Cardinality(Passed) - 1
        /\ Cardinality(Creating') = Cardinality(Creating) - 1
    BY <2>2, CountsAreFinite, FS_RemoveElement
  <2>5. UNCHANGED <<uploads, missed, day>>
    BY <1>3 DEF Stories!Create
  <2>6. ActiveInv' /\ TodayInv'
    BY <1>0, <2>3, <2>4, <2>5, CountsAreFinite, StoriesCount DEF StoriesInv, ActiveInv, TodayInv,
       Stories!TypeOK, Stories!CeilingAssumption
  <2>7. CountedInv'
    BY <1>0, <2>3, <2>5, CountsAreFinite DEF StoriesInv, CountedInv, Stories!TypeOK
  <2>8. DatedInv'
    BY <1>0, <1>3 DEF Stories!Create, StoriesInv, DatedInv, Stories!TypeOK
  <2> QED
    BY <1>0, <2>6, <2>7, <2>8 DEF StoriesInv
<1>4. ASSUME NEW r \in Req, Stories!Bump(r) PROVE StoriesInv'
  <2>1. /\ Stories!Active' = Stories!Active /\ Stories!Today' = Stories!Today /\ Passed' = Passed /\ Creating' = Creating
        /\ Bumping' = Bumping \ {r} /\ r \in Bumping
    BY <1>0, <1>4 DEF Stories!Bump, Stories!Goto, Stories!Active, Stories!Today, Passed, Creating,
       Bumping, Stories!TypeOK
  <2>2. Cardinality(Bumping') = Cardinality(Bumping) - 1
    BY <2>1, CountsAreFinite, FS_RemoveElement
  <2>3. CountedInv'
    BY <1>0, <1>4, <2>1, <2>2, CountsAreFinite DEF Stories!Bump, StoriesInv, CountedInv,
       Stories!TypeOK
  <2>4. ActiveInv' /\ TodayInv' /\ DatedInv'
    BY <1>4, <2>1 DEF Stories!Bump, StoriesInv, ActiveInv, TodayInv, DatedInv
  <2> QED
    BY <1>0, <2>3, <2>4 DEF StoriesInv
<1>5. ASSUME NEW r \in Req, Stories!Abort(r) PROVE StoriesInv'
  <2>1. /\ Stories!Active' = Stories!Active /\ Stories!Today' = Stories!Today
        /\ Passed' \subseteq Passed /\ Creating' \subseteq Creating
    BY <1>0, <1>5 DEF Stories!Abort, Stories!Goto, Stories!Active, Stories!Today, Passed,
       Creating, Stories!TypeOK
  <2>2. DatedInv'
    BY <1>5 DEF Stories!Abort, StoriesInv, DatedInv
  <2>3. CASE storyPc[r] # "bump"
    <3>1. Bumping' = Bumping /\ missed' = missed /\ uploads' = uploads
      BY <1>0, <1>5, <2>3 DEF Stories!Abort, Stories!Goto, Bumping, Stories!TypeOK
    <3> QED
      BY <1>0, <2>1, <2>2, <3>1, QuietStories
  <2>4. CASE storyPc[r] = "bump"
    <3>1. /\ Bumping' = Bumping \ {r} /\ r \in Bumping
          /\ missed' = missed + 1 /\ uploads' = uploads
      BY <1>0, <1>5, <2>4 DEF Stories!Abort, Stories!Goto, Bumping, Stories!TypeOK
    <3>2. Cardinality(Bumping') = Cardinality(Bumping) - 1
      BY <3>1, CountsAreFinite, FS_RemoveElement
    <3>3. Cardinality(Passed') <= Cardinality(Passed) /\ Cardinality(Passed') \in Nat
      BY <2>1, CountsAreFinite, SubsetCountsLess
    <3>4. Cardinality(Creating') <= Cardinality(Creating) /\ Cardinality(Creating') \in Nat
      BY <2>1, CountsAreFinite, SubsetCountsLess
    <3>5. CountedInv'
      BY <1>0, <2>1, <3>1, <3>2, CountsAreFinite DEF StoriesInv, CountedInv, Stories!TypeOK
    <3>6. ActiveInv' /\ TodayInv'
      BY StoriesCount, <1>0, <2>1, <3>1, <3>3, <3>4, CountsAreFinite
         DEF StoriesInv, ActiveInv, TodayInv, Stories!TypeOK, Stories!CeilingAssumption
    <3> QED
      BY <1>0, <2>2, <3>5, <3>6 DEF StoriesInv
  <2> QED
    BY <2>3, <2>4
<1>6. CASE Stories!NewDay
  <2>1. /\ Stories!Active' = Stories!Active /\ Passed' = Passed /\ Creating' = Creating /\ Bumping' = Bumping
        /\ uploads' = 0 /\ missed' = missed
    BY <1>6 DEF Stories!NewDay, Stories!Active, Passed, Creating, Bumping
  <2>2. \A v \in Video : story[v] # "none" => madeOn[v] # day + 1
    BY <1>0 DEF StoriesInv, DatedInv, Stories!TypeOK
  <2>3. Stories!Today' = {}
    BY <1>6, <2>2 DEF Stories!NewDay, Stories!Today
  <2>4. Cardinality(Stories!Today') = 0
    BY <2>3, FS_EmptySet
  <2>5. Cardinality(Creating) <= Cardinality(Req)
    BY CreatingOrBumping, CountsAreFinite
  <2>6. CountedInv' /\ TodayInv'
    BY <1>0, <2>1, <2>4, <2>5, CountsAreFinite, StoriesCount DEF CountedInv, TodayInv,
       Stories!TypeOK, Stories!CeilingAssumption
  <2>7. DatedInv'
    BY <1>0, <1>6 DEF Stories!NewDay, StoriesInv, DatedInv, Stories!TypeOK
  <2>8. ActiveInv'
    BY <2>1 DEF StoriesInv, ActiveInv
  <2> QED
    BY <1>0, <2>6, <2>7, <2>8 DEF StoriesInv
<1>7. ASSUME NEW v \in Video, Stories!Expire(v) PROVE StoriesInv'
  <2>1. /\ Stories!Active' \subseteq Stories!Active /\ Stories!Today' = Stories!Today
        /\ Passed' = Passed /\ Creating' = Creating /\ Bumping' = Bumping
        /\ uploads' = uploads /\ missed' = missed
    BY <1>0, <1>7 DEF Stories!Expire, Stories!Active, Stories!Today, Passed, Creating, Bumping,
       Stories!TypeOK
  <2>2. DatedInv'
    BY <1>0, <1>7 DEF Stories!Expire, StoriesInv, DatedInv, Stories!TypeOK
  <2> QED
    BY <1>0, <2>1, <2>2, QuietStories
<1>8. CASE Stories!Sweep
  <2>1. /\ Stories!Active' \subseteq Stories!Active /\ Stories!Today' = Stories!Today
        /\ Passed' = Passed /\ Creating' = Creating /\ Bumping' = Bumping
        /\ uploads' = uploads /\ missed' = missed
    BY <1>0, <1>8 DEF Stories!Sweep, Stories!Active, Stories!Today, Passed, Creating, Bumping,
       Stories!TypeOK
  <2>2. DatedInv'
    BY <1>0, <1>8 DEF Stories!Sweep, StoriesInv, DatedInv, Stories!TypeOK
  <2> QED
    BY <1>0, <2>1, <2>2, QuietStories
<1>9. ASSUME NEW v \in Video, Stories!DeleteStory(v) PROVE StoriesInv'
  <2>1. /\ Stories!Active' \subseteq Stories!Active /\ Stories!Today' = Stories!Today
        /\ Passed' = Passed /\ Creating' = Creating /\ Bumping' = Bumping
        /\ uploads' = uploads /\ missed' = missed
    BY <1>0, <1>9 DEF Stories!DeleteStory, Stories!Active, Stories!Today, Passed, Creating,
       Bumping, Stories!TypeOK
  <2>2. DatedInv'
    BY <1>0, <1>9 DEF Stories!DeleteStory, StoriesInv, DatedInv, Stories!TypeOK
  <2> QED
    BY <1>0, <2>1, <2>2, QuietStories
<1>10. CASE UNCHANGED Stories!vars
  <2>1. /\ Stories!Active' = Stories!Active /\ Stories!Today' = Stories!Today
        /\ Passed' = Passed /\ Creating' = Creating /\ Bumping' = Bumping
    BY <1>10 DEF Stories!vars, Stories!Active, Stories!Today, Passed, Creating, Bumping
  <2>2. UNCHANGED <<uploads, missed>> /\ DatedInv'
    BY <1>10 DEF Stories!vars, StoriesInv, DatedInv
  <2> QED
    BY <1>0, <2>1, <2>2, QuietStories
<1> QED
  BY <1>1, <1>2, <1>3, <1>4, <1>5, <1>6, <1>7, <1>8, <1>9, <1>10 DEF Stories!Next

LEMMA StoriesPromise == ASSUME Stories!CeilingAssumption PROVE StoriesInv => Stories!CeilingHolds
<1> SUFFICES ASSUME StoriesInv PROVE Stories!CeilingHolds
  OBVIOUS
<1> QED
  BY CountsAreFinite, StoriesCount DEF StoriesInv, ActiveInv, TodayInv, Stories!TypeOK,
     Stories!CeilingHolds, Stories!CeilingAssumption

-----------------------------------------------------------------------------
(* The parts together.                                                       *)

\* The invariant of the association is inductive.
LEMMA SpaceInvariance == Space!Spec => []SpaceInv
<1>1. Space!Init => SpaceInv
  BY SpaceStarts
<1>2. SpaceInv /\ [Space!Next]_(Space!vars) => SpaceInv'
  BY SpaceStep
<1> QED
  BY <1>1, <1>2, PTL DEF Space!Spec

\* And so is that of the stories.
LEMMA StoriesInvariance == Stories!Spec => []StoriesInv
<1>1. Stories!Init => StoriesInv
  BY StoriesStart, PartsAssumption
<1>2. StoriesInv /\ [Stories!Next]_(Stories!vars) => StoriesInv'
  BY StoriesStep, PartsAssumption
<1> QED
  BY <1>1, <1>2, PTL DEF Stories!Spec

\* What the run checks is a behaviour of each part: what is proved of the parts, at
\* work side by side, holds of it.
LEMMA PartsAlone == MCSpec => Spec /\ Space!Spec /\ Stories!Spec
<1>1. MCInit => Init /\ Space!Init /\ Stories!Init
  BY DEF MCInit
<1>2. ASSUME [MCNext]_<<part, vars, space, stories>>
      PROVE  [Next]_vars /\ [Space!Next]_(Space!vars) /\ [Stories!Next]_(Stories!vars)
  <2> USE DEF space, stories
  <2>1. /\ UNCHANGED space => UNCHANGED Space!vars
        /\ UNCHANGED stories => UNCHANGED Stories!vars
    BY DEF Space!vars, Stories!vars
  <2> QED
    BY <1>2, <2>1, Zenon DEF MCNext
<1> QED
  BY <1>1, <1>2, PTL DEF MCSpec, Spec, Space!Spec, Stories!Spec

\* The posts, their media, the counter and the requests of an association, and the
\* stories, days and requests of a member, keep their types.
THEOREM StorageTyped == Space!Spec /\ Stories!Spec => [](Space!TypeOK /\ Stories!TypeOK)
<1>1. SpaceInv /\ StoriesInv => Space!TypeOK /\ Stories!TypeOK
  BY DEF SpaceInv, StoriesInv
<1> QED
  BY <1>1, SpaceInvariance, StoriesInvariance, PTL

\* The room an association has filled is shown, on its way back or lost to a failure
\* that the code accepts, however creations, double deletions, moderation and the
\* deletion of an author interleave (softDelete, releaseBytes); and the videos a
\* member shows, or makes in a day, exceed their ceilings by less than the number of
\* requests in flight, but for what a failure hid (createStory).
THEOREM CeilingsHold == Space!Spec /\ Stories!Spec => []QuotasHold
<1>1. SpaceInv /\ StoriesInv => QuotasHold
  BY StoriesPromise, PartsAssumption DEF SpaceInv, QuotasHold
<1> QED
  BY <1>1, SpaceInvariance, StoriesInvariance, PTL
====
