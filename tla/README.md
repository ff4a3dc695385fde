# Verification of the NigerConnect API

NigerConnect is a social network of the Nigerien diaspora: a NestJS API (`src/apps/api`) over PostgreSQL
(Prisma), Redis and S3-compatible object stores, with a mobile client, a web site and an administration
console. This directory holds TLA+ models of the parts of the API, and of the session the phone keeps,
whose correctness depends on the order in which concurrent requests, scheduled jobs and failing calls
interleave, the TLC configurations that check them on small instances, and TLAPS proofs of the
properties that matter most, for every value of the constants.

The models are written from the code. Two facts about it shape all of them:

- **Every `await` is a place where another request runs.** A handler of the API reads rows, tests
  them in TypeScript, and writes; only what is inside one `$transaction`, or one SQL statement, is
  atomic. Each module therefore gives a request a program counter, one step per awaited call, and
  what it remembers of its earlier reads.
- **Nothing waits for a crash to be cleaned up.** There is no write-ahead intent, no outbox: a
  restart abandons the requests in flight where they are, and a later job or request must cope with
  what they left.

`PROJECT.json` is the machine-readable companion: components, runs, the lines of source every
definition stands for, hazards, theorems, and for each checked property one plausible bug (a
`...Bug` operator beside the definition it replaces) under which TLC finds it violated.

To run, in this directory: `tlasany M.tla`, `tlc -workers 2 -config X.cfg M`, `tlapm MProofs.tla`.

---

## 1. Inventory

### 1.1 The components that are modelled

**Refresh-token sessions** (`auth/token.service.ts`, `auth/auth.service.ts`, `admin/admin.service.ts`,
`moderation/moderation.service.ts`).
*State:* the `refresh_tokens` rows (`user_id`, `used_at`, `revoked_at`, `expires_at`) and, of a user,
`status`, `email_verified`, the attached OAuth identities.
*Operations:* password and second-factor login, OAuth login and the link of an existing account
with the eviction of its sessions, `rotateRefreshToken` with reuse detection, logout, password
reset, `setUserStatus`, `forceLogout`, the moderation ban, expiry.
*Interactions:* every login ends in `issueTokens`; the administration and the moderation call into
the same table (or, for the moderation ban, do not).
*Hard:* rotation is read, mark, insert, three awaited calls without a transaction; revoke-all is one
`updateMany` over the rows that exist at that moment.
*Correct when:* a row is spent before its successor exists; a revoke-all leaves no live row of an
older family except what was in flight; the rows a token yields are bounded by the requests that
presented it together; a row never changes hands.

**Sponsorship** (`invitations/*`, the register path of `auth/auth.service.ts`).
*State:* the `invitations` rows (status, kind, inviter, target address, `accepted_by_id`,
`expires_at`), `users.invited_via_id` and `invited_by_id`, the inviter's status, abuse flags and bulk
right.
*Operations:* create (single-use, reusable, targeted, root), revoke, the expiry job, resolution by
code or by address, consumption inside the registration transaction, grant and withdrawal of the
bulk right, ban and flags, deletion of accounts on either side.
*Interactions:* registration (auth) resolves, hashes the password, then consumes; moderation flags the
inviter of a banned account and, on a ban, cuts his links in a second step.
*Hard:* the resolution is a read made long before the transaction (the hash lies between); by address,
the transaction runs a second search that may find a different row.
*Correct when:* a single-use invitation admits one account; the sponsor credited is the inviter of the
row consumed; a third party's address is stored only while its invitation is pending.

**Friendships and blocks** (`social/friends.service.ts`, `social/block.service.ts`, the encounters of
`geo/geo.service.ts`, the callers of `isBlocked`).
*State:* `friendships`, `blocks`, the Redis entry `block:a:b` of each pair, the proximity encounter of
a pair.
*Operations:* friend request, re-send of a declined one, accept, decline, remove; block, unblock, each
followed by the invalidation of the cache; `isBlocked` with its fill; ping, acceptance and refusal of
an encounter, `ensureFriendship`.
*Hard:* the cache is filled without regard to invalidations that happened since the read; the unique
index of friendships covers one direction only; an answer is written by id to a row that may have
been turned round since.
*Correct when:* nobody is a friend without having consented; a block that has taken hold stays; a wrong
cached verdict does not last.

**Identity documents and the vault** (`auth/identity-cleanup.cron.ts`,
`common/storage/identity-archiver.service.ts`, `identity-vault.service.ts`, `s3.service.ts`,
`auth/auth.service.ts`, `admin/admin.service.ts`, `profile/profile.service.ts`).
*State:* `identity_verifications`, the file in the private bucket, `users.identity_status`,
`identity_archives`, the envelope in the vault with its WORM lock.
*Operations:* submit, review, manual approval, revocation; hourly: seal and remove reviewed documents
past 30 days, destroy unreviewed ones past 90, purge archives past their term; on deletion of the
account: seal, extend the terms, delete the row, clean the files.
*Hard:* one operation spans two object stores and the database; two jobs work on the same documents and
archives; every call may fail and the API may restart between any two.
*Correct when:* an archive within its term has its envelope; the job never reverts a verdict; a document
past its days leaves the active base whatever fails.

**Secrets sent by mail, logins, second factor** (`auth/email-token.service.ts`, `auth/auth.service.ts`,
`auth/mfa.service.ts`).
*State:* the rows of `email_tokens` (link, code, attempts, term), `users.failed_login_count` and
`locked_until`, `users.mfa_enabled` and the secret, `mfa_recovery_codes`.
*Operations:* send and resend, exchange of a link, check of a code in a serialisable transaction that
locks its row; login and second step, each ending in a write of the counter; enrolment in two calls,
challenge, recovery code, disabling, reset by an administrator.
*Hard:* all but the code check is read, wait (for argon2, for a provider), write from what was read.
*Correct when:* nobody guesses past the limit, however many guesses arrive at once; the lock comes in
time; who is asked for a second factor has one to give; a recovery code serves twice only to requests
that overlap.

**Session of the phone** (`apps/mobile/services/api.ts`, `stores/authStore.ts`, `services/secureStore`
and their callers) and **account-status guard** (`auth/guards/email-verified.guard.ts`).
*State:* on the phone, the two tokens, the cached profile, the account on screen, the row that ties the
device to an account; in the API process, a positive verdict kept for a minute.
*Operations:* start with and without network, requests that meet an expired token and join one shared
refresh, sign-in, sign-out, deletion of the account; the network loses answers and the system kills the
application; a ban, a read of the status, the fill of the cache.
*Hard:* the refresh, and the edition of the profile, outlive the sign-out that happens during them; two stores
are cleared apart; the fill outlives the ban.
*Correct when:* what the phone sends goes out under the account it shows; an account signed out of is gone
from it; it never presents a spent token of its own making; who is banned is cut off in the end.

**Association governance** (`association/association.service.ts`, the deletion of accounts in
`profile/profile.service.ts`).
*State:* the rows of members (status, role), the count of members, the owner on offer, the board seats,
whether the association is live.
*Operations:* create, remove, settings, join, approve, reject, leave or remove a member, change a role,
offer, accept, decline the ownership, designate and free a seat, succession when an owner goes.
*Hard:* every handler decides on rows it read and writes by primary key, without a condition.
*Correct when:* the public count is the number of members; an association with members has somebody to run
it; a seat is held by a member; the ownership moves by an offer that stands.

**Conversations** (`chat/chat.service.ts`, `chat/chat.gateway.ts`, `chat/presence.service.ts`).
*State:* messages, the preview in the list, each member's badge, bell entries and focus marker.
*Operations:* send (read who looks, write, notify), read, edit, delete, recompute the preview, focus and
blur, take-down by the moderation.
*Hard:* a chain of single statements about one thread, of which only the write of a message is a
transaction; a marker shared by all the sockets of a member.
*Correct when:* the preview is the newest message, a deleted message stays empty, the badge counts what is
unread, the bell announces what the badge counts.

**Counters and quotas** (`feed/likes.service.ts`, `feed/comments.service.ts`, `feed/posts.service.ts`,
`rates/community-prices.service.ts`, `poll/poll.service.ts`, `review/review.service.ts`,
`association/association-storage.ts`).
*State:* a number beside the rows it counts: reactions, comments, trust score, votes, rating, bytes of
an association; the ceilings of video stories, read from the database and from Redis.
*Operations:* what adds, changes or removes a row, and the deletions and take-downs that go past the
counter.
*Hard:* counters are moved by a difference computed from an earlier read, or recounted in transactions
that do not see each other; bytes are given back by a chain of calls to two stores.
*Correct when:* the number is that of the rows, but for the drifts the module names; room is never held for
nothing; ceilings are overrun by no more than the requests in flight.

**Broadcasts** (`newsletter/newsletter.service.ts`, `digest/digest.service.ts`,
`animation/animation.service.ts`, the reminder of `profile/`).
*State:* the campaign and what it has sent, the stamp of a member, the queue of posts, the cadence of each
account and the cap of them all.
*Operations:* edit, launch, the dispatch left running in the process; list, stamp, push; deposit,
review, sweep every five minutes; restarts anywhere.
*Hard:* at most once against at least once across a restart; sweeps that overlap.
*Correct when:* nobody is written to twice; a campaign ends; the queue moves, at its pace.

### 1.2 What is not modelled

`PROJECT.json` lists every component with its reason. They are of three kinds:

| Components | Why not |
|---|---|
| Credential verifiers, object storage client, Redis, Prisma, mail, throttling, telemetry, notifications and push | clients and pure functions: what they answer, or fail to, is an input of the modelled actions |
| Map and search, diaspora policy, moderation console, administration, marketplace, pages, official account, contact, settings | queries and single-row updates; their effects on sessions, invitations, documents, messages and comments are actions of the modules concerned |
| Screens of the mobile application, web application, shared types, tests, infrastructure, migrations | clients and configuration: what a client may send is what the actions accept; constraints and cascades of the schema are part of the modules whose rows they constrain |

Components that are `partly` modelled say in their note what of them is left out: for the most part rows
without a second actor (creation of a conversation, shares, segments of a mailing, submission of a
price) and queues that the same loop treats the same way (replies and reactions of the animation
accounts, the audience of accounts of a campaign).

Most of the lines of the repository are screens, tables and forms of the two clients and of the
administration, where a state machine would restate the component tree; this is why the share of lines
the map covers is small.

### 1.3 What is hard to test here

`PROJECT.json` "hazards" lists the forty that matter most, each with the property that covers it. They
fall into a few shapes, which is why few modules can cover many of them:

1. *Read, await, unconditional write by id* (`revokeInvitation`, `rotateRefreshToken`, accept and
   decline, role changes, message edition): the write lands on a row that has become something else.
2. *Check, then act, without a constraint to decide the race* (friendships in the two directions,
   recovery codes, e-mail links, administrators who leave together, ceilings of stories).
3. *A cache filled from a read that an invalidation has overtaken* (blocks, account status; the tokens
   of the phone after a sign-out are of the same shape).
4. *A denormalised counter recomputed or incremented beside its rows* (members, votes, comments,
   likes, ratings, bytes).
5. *A chain of calls to several stores cut by a failure or a restart* (archiving, purging, deletion,
   second factor off, newsletter, animation, publications of an association).
6. *A job that races the request that changes the row it listed* (identity cleanup, animation, digest).

Further places of the same shapes, in parts that are not modelled or beside the properties of those
that are:

- `geo/geo.service.ts:1029`: `ensureFriendship` and `sendRequest` both find no row of the pair and both create one; the unique index covers one direction only.
- `auth/auth.service.ts:478`: the counter of failures is cleared as soon as the password is right, before the second factor is answered.
- `auth/auth.service.ts:649`: a failure after the OAuth link and before the eviction leaves the sessions of whoever registered the address first.
- `auth/auth.service.ts:268`: a reusable link revoked after its code was resolved still admits the registration that resolved it.
- `auth/auth.service.ts:891`: two reviewers find the same pending document and decide differently, or the document is revoked between the read and the update, which has no condition on the status.
- `invitations/invitations.service.ts:118`: the right to create reusable links is withdrawn between its read and the insert, so a link lives on without the right.
- `social/block.service.ts:60`: the call to Redis fails after the block has committed: the request answers an error, the block stands, and the old verdict lives out its term.
- `common/storage/identity-archiver.service.ts:115`: a restart, or a failed insert, after the envelope is in the vault: the next run seals the document again, and the first envelope has no row.
- `common/storage/identity-archiver.service.ts:155`: the extension of one lock fails and the archive keeps the earlier term; the deletion of the account goes on.
- `auth/identity-cleanup.cron.ts:47`: the timer starts a run every hour whether or not the last one has ended: two runs may seal one document.
- `common/storage/s3.service.ts:393`: the deletion of a file fails and is only logged, then its row, which held the key, is deleted.
- `profile/profile.service.ts:883`: a document submitted after the deletion has listed the documents goes with the cascade, unsealed and with its file left behind.
- `profile/profile.service.ts:900`: the deletion of an account cascades to reactions, comments, votes and reviews and adjusts none of their counters.
- `association/association.service.ts:636`: an offer of ownership checked before the transfer of an earlier offer is written after it: the new owner never made the offer that now stands.
- `chat/chat.service.ts:223`: two requests find no direct conversation of a pair and both create one.
- `moderation/moderation.service.ts:266`: the sanction and the closing of the report run side by side: one may fail with the other done, and a second resolution acts again.
- `moderation/moderation.service.ts:364`: two bans of one member both read a status that is not banned and both flag the inviter.
- `common/redis/redis.service.ts:40`: a counter is incremented to one and the call that sets its term fails: the counter, and the limit it feeds, never expires.
- `social/diaspora-policy.service.ts:103`: a country read before its change is cached after the invalidation and kept for five minutes.
- `animation/animation-engagement.service.ts:251`: a restart between a reaction and its mark runs the action again, and a reaction given twice is taken back.
- `official/official.service.ts:111`: two first calls both find no official account and both create one.

---

## 2. The modules

| Module | Models | Composed in |
|---|---|---|
| `RefreshTokens` | token and auth services, sanctions; three-step rotation | `MCRefreshTokens` |
| `SessionLedger` | abstract specification of the token table | instanced by `RefreshTokens` |
| `Invitations` | invitation service, expiry job, register | `MCInvitations` |
| `Admissions` | abstract specification of what an invitation admits | instanced by `Invitations` |
| `EmailTokens` | links and codes sent by mail | `MCAccountSecurity` |
| `LoginLockout` | counter of failed logins and its lock | `MCAccountSecurity` |
| `SecondFactor` | enrolment, recovery codes, disabling | `MCAccountSecurity` |
| `MobileSession` | tokens, profile and sign-ins of a phone | `MCAccountSecurity` (extends it) |
| `SocialGraph` | friends, block, encounters | `MCSocialGraph` (extends it) |
| `StatusGuard` | cached verdict on an account | `MCSocialGraph` |
| `IdentityLifecycle` | cleanup job, archiver, vault, reviews, deletion | `MCStorage` (extends it) |
| `MediaSpace` | bytes of an association, over its posts and objects | `MCStorage` |
| `StoryQuota` | ceilings of video stories | `MCStorage` |
| `AssociationGovernance` | members, roles, ownership, board | `MCAssociationGovernance` |
| `Conversations` | messages, preview, badges, bell, focus | `MCCommunity` (extends it) |
| `PostCounters`, `PriceVotes`, `PollVotes`, `ReviewAggregate` | counters beside their rows | `MCCommunity` |
| `Campaigns` | one newsletter campaign | `MCUpkeep` (extends it) |
| `AnimationQueue` | queue of posts of the animation accounts | `MCUpkeep` |
| `Nudges` | weekly digest, reminder of the profile | `MCUpkeep` |
| `RefreshTokensProofs`, `InvitationsProofs`, `AssociationGovernanceProofs` | theorems about the module they are named after | - |
| `AccountSecurityProofs`, `SocialGraphProofs`, `StorageProofs`, `UpkeepProofs`, `CommunityProofs` | theorems about the parts of the MC module they extend | - |

An MC module that composes several does not let them run together: they share no state. A variable
`part`, chosen in the initial state and never changed, says which one moves, so that state spaces add up
instead of multiplying, and one run checks them all. `PartsTyped` is the conjunction of their type
invariants and `PartsAssumption` that of their assumptions on the constants. The other bounds an MC
module adds are conditions on the next state, named and commented there (`Small`, `Mixed`, `Alone`,
`Previews`, `Badges`, `Console`). None of these bounds is in a theorem: the theorems are about the
specifications of the parts themselves, and each proof module about several parts shows that a
behaviour of the run is one of each (`PartsAlone`).

In every module, `Abort` is a request that fails or a server that stops, at any step.

### 2.1 RefreshTokens

A row is a `Token` whose `owner` is not `None`; `used`, `revoked` and `expired` are the sets of rows
with `used_at`, `revoked_at`, or a past `expires_at`. A request is in one of the steps `mark`,
`issue`, `reuse` (rotation) or `linkDrop`, `linkKeep`, `evict`, `issue` (OAuth), with the account and the
row it works on; logins go straight to `issue` because all they do before is read. `Logout`,
`CutSessions` (password reset, forced logout), `Sanction` (the console) and `ModerationSanction` are
single statements or transactions. `Abort` is any failure, at any step. Suspended and banned are one
state, since every reader of the status refuses both alike.

Three history variables change nothing the program does: `parent` (the row a row was exchanged for)
and `age`/`reqAge`, which class rows and requests by their owner's last revoke-all. *Old*: the row
existed then, or descends from one that did by exchanges begun after it. *Straddle*: it comes from a
request that was in flight then. *New*: it comes from a sign-in begun after.

`SessionLedger` states what the table promises without requests: a row is unborn, then fresh, spent,
dead; it never goes back, never changes holder; a row born of an exchange names a row of the same
holder that is no longer fresh; one step closes rows of one holder only. `LedgerSpec` is that
specification under the mapping `life <- LifeOf`, `holder <- owner`, `origin <- parent`.

### 2.2 Invitations

Accounts are named by their address, which the schema keeps unique. A registration is
`ResolveCode`, `ResolveEmail` or `ResolveOpen` (with what it read), then one transaction
(`RegisterSingleUse`, `RegisterReusable`, `RegisterByEmail`, `RegisterOpen`) that creates the account
and consumes the row; `RegisterByEmail` chooses its own row, as the code does. Creation and revocation
by a member are a read and a write. The expiry job is one `updateMany`. A moderation ban is two steps,
`Ban` and `BanLinks`. Deletion follows the schema's cascades: the inviter's rows go (`"deleted"`), the
accounts that came through them lose both references.

`Admissions` states what is promised without requests: an invitation is unborn, open, closed or gone, in
that order; a single-use one closes with the account it admits; a reusable one also admits whoever looked
it up while it was open; an account that goes does not give its place back. `AdmissionSpec` is that
specification under `life <- LifeOf`, `once <- SingleUseRows`, `pass <- via`. It says more than the
invariant `SingleUseLetsOneIn`, which only sees the accounts that exist.

### 2.3 SocialGraph

`Ask` reads the cache; on a miss `FillRead` reads the table and `FillWrite` caches what it read,
whatever happened meanwhile. A request that got past goes on (`Lookup`, then `Insert` or `Resend`), or
is a message, which leaves no trace and ends by `Abort`. `Block` and `Unblock` commit, then
`Invalidate`; an `Abort` there is the failing call to Redis. A request that remembers a row which is
deleted has its reference replaced by `None`: its update by id fails. `asked` is a history variable, the
consents given so far.

### 2.4 IdentityLifecycle

One account and its documents. `job["cron"]` and `job["account"]` are the cleanup run and the deletion;
both run `archiveDocument` (`Take`, `Fetch`, `Seal`, `Record`, `Drop`), with what each does when a call
answers "nothing" or throws. `desk` holds the reviewers' requests. `aged`, `due` and `lapsed` are the
clocks: the days since the review or submission, the date in `purge_at`, the lock of the storage. The
last two are separate because the code sets them in two calls to two stores. Every failing call spends
one of `MaxFaults`, as does `Restart`, which forgets all jobs and requests.

`ObjectLock` says whether the vault enforces its lock. The refusal of a purge under a lock is what the
comment of `purge()` describes; how a given storage treats a delete on a versioned bucket is its own
affair and not modelled.

### 2.5 The account: EmailTokens, LoginLockout, SecondFactor, MobileSession, StatusGuard

`EmailTokens` numbers the mails; `link` and `code` are the two rows of a confirmation. The statement that
invalidates earlier rows waits for a row that a code check has locked; a check that waited gets the row
only if it is as it was, and fails otherwise, as a serialisable transaction does. `compared` (wrong
codes really compared) and `author` are history.

`LoginLockout` reads, waits for the verdict and writes from what was read; `misses` counts the failures
since the counter was last cleared or a lock last ended. The three lengths of a lock are one term, and
`MaxCount` bounds the value of the counter that a login may still read.

`SecondFactor` has the two-call enrolment and the two-call disabling; `crossed` says that two requests
have changed the factor at once, `early` who had found a code unused before it was first spent.

`MobileSession` numbers pairs of tokens in the order of issue and knows of the API only what a rotation
answers. A sign-out, a deletion of the account and a refused start end in `Promise.all` of two clears:
`Erase` says that both are owed, `EraseTokens` and `EraseProfile` do them in either order, `Erased` signs the
screen out, and a `Kill` may fall anywhere between. A request of kind `save` is what a profile screen sends
(edition, avatar, completion, the check of the code followed by `me`): its `Answer` puts the account it
names on the screen, whatever the user did meanwhile, as `setUser` does. Its abstractions: of refusals only
the 401 is there, not the 403 of an unverified address; a pair is written, or the two tokens removed, in one
step except where a kill cuts it (`Halves`), and so is the profile, whose write nobody awaits; the stores
themselves do not fail; a request that times out was handled before or never is; the token is read as the
request leaves; at most `MaxFaults` faults; an account that is gone does not sign in again.

The properties leave out, by name, the cases in which the program does fail (section 4): `late`, a refresh in
flight at a sign-out or sign-in; `saving`, an edition of the profile in flight then; `torn`, a profile kept
without its tokens or beside those of another account, which a session that ended, a kill between the two
clears, or one in the middle of a sign-in leaves, until the next write of the profile; `ringing`, a device
whose detachment was not confirmed.

`StatusGuard` is the read, the fill and the expiry of one entry.

### 2.6 AssociationGovernance

A request is a read and a write; the several reads of a handler are one step since nothing is written
between them. The deletion of an account is a transaction under READ COMMITTED, which decides the heir
on what it reads. Actions that are one statement, or one transaction on what it locks, are one step
(`Create`, `Remove`, `Update`, `AcceptSeat`, `RemoveOfficer`). `crossed` says that requests on members'
rows have overlapped, `raced` on whose rows.

### 2.7 Conversations and the counters

A message is sent by `SendRead` or `SendBegin` (who looks at the thread), `SendWrite` (the transaction),
`Notify`. `SyncRead` and `SyncWrite` recompute the preview after a deletion or an edition. Reading a
thread clears the badge, then the bell. `text` keeps the version of a message and `"none"` for one that
was emptied; `raced`, `belated`, `behind` and `drifted` are history, and mark exactly the windows in
which a property does not hold.

Each counter module has the rows, the number, and the number of rows that went without it
(`lostLikes`, `lost`, ...): the deletion of an account, or a take-down, by cascade. `PollVotes` and
`ReviewAggregate` have the row locks that READ COMMITTED takes, and `stale`, which says that two
transactions met and no later one, taken alone, has recounted. In `ReviewAggregate` a review written
anew is not told from the row it replaces.

### 2.8 Campaigns, AnimationQueue, Nudges

`Launch` is the read of the draft, `Claim` its conditional update; `Dispatch` is what goes on detached:
the public is loaded, mailed address by address, then the extras, and the end written (`Finish`, `Fail`).
A `Restart` leaves a campaign `sending`, which `stranded` remembers.

The queue numbers its items by their date; `Broken` ones are refused by the feed at every attempt. The console
sets the switch and `quota` of an account (`UpdateBot`) and the `cap` of all of them (`SetCap`) at any time,
nought included for both, and whatever they are in the initial state. `Count` keeps what a sweep may still post,
by account (`room`) and in all (`overall`), from what the week has had and the cadences as they read then, as
the code keeps two counts and two limits. A cap of nought puts all accounts out, on purpose; an account at
nought that is awake keeps its due items in the list. `Stuck` has these and the broken ones: as many of
them as `Batch` (twenty) at the head of the queue hold it for ever, for the sweep always takes the oldest.
`lowered` remembers that a limit went down under what was already posted.

`Nudges` takes the members of a batch in any
order, stamps, then pushes; `crossed` has those whom two sweeps held at once, and no sweep lasts a week.

### 2.9 MediaSpace, StoryQuota

An object is named by its size; a post of an association shows one. `Bind` looks at the object, `Claim`
claims its bytes under the quota and makes the post in one transaction; a deletion asks the size, purges,
marks the row, subtracts (`Decrement`) and floors (`Floor`): the last two are the two updates the code
makes in a row. `lost` counts the bytes that a failure, a take-down or the deletion of an author does not
give back. In `StoryQuota` the active stories are counted in the database, those of the day in Redis, where
the count moves after the creation and may fail (`missed`); the counter of bytes of the day, handled in
the same way, is left out.

---

## 3. What the runs check

State counts are distinct states; times are with two workers.

| Run | Instance | Properties | Size |
|---|---|---|---|
| `tokens` | 1 account, 3 rows, 2 requests; or 2 accounts, 2 rows, 1 request at a time | `ExchangedRowIsSpent`, `CutSeversFamilies`, `ForkBound`, `LedgerSpec` | 615 k, 158 s |
| `invitations` | 1 inviter, 2 addresses, 2 requests; or 2 inviters, 1 address, 1 request at a time; 2 invitations | `SingleUseLetsOneIn`, `AddressPurged`, `CreditFollowsConsumption`, `AdmissionSpec` | 1.07 M, 139 s |
| `account_security` | 2 requests; 2 mails, 2 attempts; 3 failures; 3 secrets, 2 recovery codes; a phone with 2 accounts, 3 pairs, 1 fault | `PartsTyped`, `GuessesBounded`, `ResendsDoNotPile`, `LockedInTime`, `EnrolledCanAnswer`, `SecondUseOverlaps`, `VaultFollowsScreen`, `SignedOutStaysOut`, `NoFalseAlarm` | 4.38 M, 140 s |
| `social_graph` | 2 members, 2 rows, 2 requests; a guard with 2 requests | `Consent`, `BlockHolds`, `VerdictSettles`, `BarredIsCutOff` | 401 k, 39 s |
| `storage` | 1 document, 4 archive ids, 1 reviewer, 1 fault; 2 posts, sizes 1 and 2, quota 3, 2 requests; 4 videos, ceilings of 2, 2 days | `ArchiveIsBacked`, `VerdictStands`, `DueLeaves`, `QuotasHold` | 648 k, 69 s |
| `association` | 3 users one request at a time; 2 users two at a time | `CountMirrorsMembers`, `RunBySomebody`, `BoardSits`, `OwnershipIsClaimed` | 819 k, 142 s |
| `upkeep` | 2 addresses, 2 dispatches; 3 items, 2 accounts, with 2 sweeps, or 2 reviewers, or cadences of 0 and 1 set at any time; 2 members, batches of 1 | `PartsTyped`, `SentOnce`, `SendingEnds`, `QueueDiscipline`, `QueueMoves` | 248 k, 115 s |
| `community` | 2 members, 2 requests; 2 messages, 3 comments, 2 reactions, 2 options, ratings of 1 and 2 | `PartsTyped`, `PreviewIsNewest`, `TombstonesEmpty`, `BadgeIsExact`, `BellIsUnread`, `CountersExact` | 1.19 M, 122 s |

Between them they fire every action of every module. The other four runs are violations, section 4.
Deadlock is not checked where the system may really stop: nothing is left to do once a bounded supply
of mails, rows or secrets is spent, an association is gone, or the accounts are deleted.

Every type invariant is proved (section 5). Those of the runs `account_security`, `upkeep` and `community`
are checked as well; the others were checked while they were written and are left to the proofs.

**Sessions.** `ExchangedRowIsSpent`: the row a rotation created has a parent of the same owner that was
marked used before; a failure between the two writes can lose a session, never leave two exchangeable
rows of one family. `CutSeversFamilies`: no *old* row is live after a revoke-all, at any interleaving
with rotations. `ForkBound`: one token yields at most as many rows as there are requests at once; after
the first exchange is recorded, later presentations are reuse. `LedgerSpec`: every step is one of the
abstract ledger. *Bounds:* two requests are the smallest number that race; a third row is the smallest
at which a family has a grandchild, or two children of one parent. The second account serves only to see
that rows of one holder are closed alone, which needs no second request. Rows expire in the second case
only, since an expired row is refused like a revoked one.

**Sponsorship.** `SingleUseLetsOneIn` needs two registrations and two addresses for one invitation;
`CreditFollowsConsumption` needs two inviters of one address and one registration that finds the first
invitation and consumes the second. Neither needs what the other does, hence the two cases of `Small`.
`AdmissionSpec` is about the order of events: it breaks when a place is given back, or a revoked
invitation reopened. `Mixed` keeps one row of an administrator and one reusable row at a time. Symmetry
is over requests and invitations, which the specification treats alike.

**Account.** `GuessesBounded`: however many guesses are fired at once at the code of a mail, at most
`MaxAttempts` are compared with it, although a wrong guess writes `used_at` back to null on the row it
had read. `ResendsDoNotPile`: two mails of one type can both be used only if two requests sent them at
once. `LockedInTime`: logins that do not overlap lock at `MaxFailed`; with two at a time a fixed number
still does; of three or more at a time nothing is stated. `EnrolledCanAnswer`: no enrolment, disabling or failure half-way leaves an account asked for
a second factor it cannot give. `SecondUseOverlaps`: a recovery code passes twice only for requests that
had found it unused before it was first spent. `VaultFollowsScreen`, `SignedOutStaysOut`,
`NoFalseAlarm`: the tokens of the phone are of the account it shows, nothing of an account comes back after
its sign-out, both but for the cases that section 2.5 names, and the phone presents a spent token only after
an answer was lost. *Bounds:* two mails are one
and its resend; two attempts are a first wrong one and the last; three failures let one login overwrite
another's count below, at and above the limit, and `LockedInTime` gives the bound as a function of
`MaxFailed`; three secrets are one enrolment, one that overtakes it, and one after a disable; three
pairs are one account's, its rotation and another account's; one fault is a kill between two writes, with the
start without network that follows, which is no fault.

**Friendships, blocks, guard.** `Consent`: an accepted row has both consents behind it, even when a
declined row is turned round while an answer to it is in flight. `BlockHolds`: once a block has *taken
hold* (`Sealed`: nothing that passed before it is still in flight, the cache does not deny it, no row and
no open encounter is left), only lifting it reopens anything; in particular no unblock by one of two
blockers, no fill, no expiry does. `VerdictSettles`: if a pair stays blocked, its cache entry eventually
stops saying "0", and conversely. `BarredIsCutOff`: an account that stays barred has no cached verdict
in the end, though a fill may come after the ban. *Bounds:* two members are one pair, and nothing in the
code relates two pairs; two rows are the two directions the unique index tells apart; two requests are
the fill and the block it overtakes. *Fairness:* weak fairness of each request's steps (the server ends
every request, if only by failing), of `CacheExpires` (Redis drops the entry after its term of 300 s) and
of the guard's `Expire` (its entry is a minute old in the end).

**Storage.** `ArchiveIsBacked`: the row of an archive whose term has not come has its envelope in the
vault, through a purge that races an extension and a crash between store and database. `VerdictStands`:
no step of the job changes an approved or rejected account. `DueLeaves`: an examined document past its
thirty days leaves, or is examined again. `QuotasHold`: an association's bytes are those its posts show,
on their way back, or lost to a failure; the ceilings of stories are overrun by no more than the requests
in flight. *Bounds:* one fault shows what each single failure or restart does; four archive ids are what
two sealings and one restart in the middle of both can draw, so that `Seal` is never blocked by the
bound; `MaxElapsed = 1` lets the first archive reach the end of its term; two posts of sizes 1 and 2 fill
the room of 3 exactly; four videos pass a ceiling of two by the most that two requests can. *Fairness:* weak
fairness of the job alone: an hourly timer starts it (`identity-cleanup.cron.ts:47`), and every call it
awaits returns or throws. `DueLeaves` is checked with finitely many faults: it says that a failure
delays, and never strands, a document.

**Association.** `CountMirrorsMembers`: the count drifts only through two requests on one member's row or
the deletion of an account. `RunBySomebody`, `BoardSits`: as long as requests on members' rows do not
overlap. `OwnershipIsClaimed`: at any overlap. *Bounds:* a third user is needed for what no overlap may
break (an owner, the member who is offered, a bystander who could run it), two suffice for an overlap.

**Community.** Each property leaves out the windows the code leaves open, which the history variables of
section 2.7 name, and nothing else; an edition, deletion, send and read are cut at every statement.
`CountersExact` joins `CountsExact`, `TrustExact`, `PollExact` and `RatingExact`. *Bounds:* two members
and two requests are the two sides of each race; two messages tell the newest from an older one; three
comments are the three levels of the tree.

**Upkeep.** `SentOnce`: a campaign writes once to an address, on the list, among the extras or both, and
reports what it sent; a digest or a reminder reaches a member once in its window unless two sweeps held
that member at once. `SendingEnds`: a campaign leaves the state `sending` unless its dispatch died.
`QueueDiscipline`: a post goes out once and within the caps of a week, but for overlaps, restarts, lost marks and
limits lowered under what was posted. `QueueMoves`: once the console leaves the cadences alone, an approved post
leaves the queue in the end if its account stays awake, neither its account nor the cap is at nought, and fewer
items are stuck than a batch takes. *Bounds:* three items are a broken one, a held one and one more, of two
accounts, with batches of two; limits of 0 and 1 are nought, full and free; two sweeps overlap while the
console is quiet, and one meets two reviewers and the switches, or one reviewer and cadences set at any time
(`Queued`): a second sweep is what only the overlap needs, and the other cases add up instead of multiplying. *Fairness:*
weak fairness of each request's `Dispatch` (it goes on as long as the process lives), of "some sweep goes
on" (the timer starts one every five minutes) and of `Age` (days pass).

---

## 4. Where the code and its documents disagree

Each of these runs checks one statement of a comment and TLC returns a trace of the code that breaks it.

| Run, property | Statement | What happens |
|---|---|---|
| `space_measures_the_disk`, `MeasuresTheDisk` | `association-storage.ts:9` "this measures what sits on the disk right now" | the two updates that give bytes back (`posts.service.ts:591-598`) both apply when what is left is smaller than what was freed: three bytes less two become none |
| `comments_replies_follow`, `RepliesFollow` | `comments.service.ts:307` "otherwise live children would be orphaned" | `create` does not look at `deletedAt` of the parent (`:41`): a reply to a deleted comment is stored and counted, and never listed |
| `association_owner_kept`, `OwnerKept` | `association.service.ts:543` "NOBODY may demote the `owner` through this generic endpoint" | a role change that read its target as a member is written after that member became the owner |
| `identity_sealed_before_removed`, `SealedBeforeRemoved` | `identity-archiver.service.ts:26` "en cas d'échec on ne touche à rien" | a failing read of the private bucket is answered as an absent object, and the document is destroyed unsealed |

Met while reading, and not among the runs:

- `auth.service.ts:446` "force re-login everywhere": a rotation in flight at the revoke-all adds a live row afterwards. `CutSeversFamilies` is the complement: that is *all* that outlives a cut.
- `email-verified.guard.ts:76` says that a ban revokes the refresh tokens; that of the moderation service sets the status only, and rotation reads no status.
- `SPEC_PARRAINAGE.md:231` "409 si déjà acceptée": a revocation tests a status read earlier and updates by id.
- `FONCTIONNEL-TECHNIQUE.md:672` "pas de message vers un bloqué": a fill that read before the block caches "0" after the invalidation (`block.service.ts:34`), for up to 300 s; `VerdictSettles` is the complement.
- `identity-archiver.service.ts:12` "conservée 5 ans après la suppression du compte": the term runs from the sealing, and an archive may be purged while the account lives.
- `posts.service.ts:576-577` and `642-644` explain why the object is purged before the row is marked; a crash in between leaves a post without its object, and the bytes are then never returned, since the size of an absent object is zero.
- Moderation take-downs leave the preview of a thread and the comment count as they were, and give no bytes back to an association; deletions of accounts leave the counts of reactions, comments, votes and ratings (`lostLikes`, `lost`, ... in the models).
- `community-prices.service.ts:147-148`: the trust score is said never to drift, since row and score change in one transaction; two changes of one vote both read the same earlier vote (`:186`).
- `digest.service.ts:39` says that the stamp before the push "cannot double-send": two overlapping sweeps, or a run by hand beside the timer, both list a member before either stamps.
- `services/api.ts:124`: a refresh in flight at sign-out stores its tokens after the store was erased, or over those of the next account.
- `edit-profile.tsx:81` and `150`, `complete-profile.tsx:52`, `verify-email.tsx:66`: an answer that comes after a sign-out shows the account that was left, without its tokens or with those of the next one.
- `authStore.ts:149` "sinon le prochain démarrage hors ligne rouvrirait sur le compte qu'on vient de quitter": the profile and the tokens are cleared at once in two stores, and a kill in between leaves the profile.
- `animation.service.ts:342` "le quota par compte ne descend pas sous une publication par semaine" and `settings.service.ts:82`: the console accepts 0 (`animation.dto.ts:58`), the column too; the items of such an account, if awake, stay in the list, and twenty of them at its head hold all the others.
- `sessionCache.ts:15-17`: a session ended by the interceptor leaves the cached profile, and sign-in by Google or Apple (`googleAuth.ts:137`, `appleAuth.ts:106`) never writes it, so an offline start may show the old account with the new account's tokens; Apple sign-in registers no device.
- A device registration in flight at sign-out, or a push token not remembered across a restart, leaves the phone attached to the account that left.
- `email-token.service.ts:85` calls the consumption of a link atomic, which an update without condition is not; `admin.service.ts:863` retires the links of a member who loses the bulk right, which a creation already past its test escapes; `geo.service.ts:1009` says that a friendship is not duplicated, which the index does not ensure; `profile.service.ts:860` calls the deletion of an account total, while the deletion of a file that fails is only logged.

---

## 5. What is proved

Every theorem holds for all values of the constants that satisfy the named assumptions, and is checked
by TLAPS with the SMT, Zenon and PTL backends.

| Module | Theorem | Statement |
|---|---|---|
| `RefreshTokensProofs` | `TypeCorrect` | `Spec => []TypeOK` |
| | `ExchangeIsOrdered` | `Spec => []ExchangedRowIsSpent` |
| | `CutIsComplete` | `Spec => []CutSeversFamilies` |
| | `ForksAreBounded` | `Spec => []ForkBound` |
| | `ImplementsLedger` | `Spec => LedgerSpec` (refinement) |
| `InvitationsProofs` | `TypeCorrect`, `SingleUse`, `Credit`, `Purge` | the type invariant and the three safety properties |
| | `ImplementsAdmissions` | `Spec => AdmissionSpec` (refinement) |
| `AccountSecurityProofs` | `TypesHold`, `MailsTyped` | `PartsTyped` of the four parts; that of the mails alone |
| | `GuessesAreBounded`, `NoResendPilesUp` | `GuessesBounded`, `ResendsDoNotPile` of `EmailTokens` |
| | `LoginLocks` | `LockedInTime` of `LoginLockout`: without overlap, and with two requests |
| | `EnrolmentHolds`, `CodesAreSpentOnce` | `EnrolledCanAnswer`, `SecondUseOverlaps` of `SecondFactor` |
| | `TokensFollowTheScreen`, `SignOutIsKept`, `NoAlarmOfItsOwn` | `VaultFollowsScreen`, `SignedOutStaysOut`, `NoFalseAlarm` of `MobileSession`, with the exemptions they name |
| `SocialGraphProofs` | `TypeCorrect`, `VerdictsTyped` | the type invariant; with that of the guard, `PartsTyped` |
| | `FriendsConsent`, `BlockStands` | `Consent`, and the action property `BlockHolds` |
| `StorageProofs` | `TypeCorrect`, `EvidenceIsThere`, `CronRespectsVerdicts` | of the documents: the type invariant, `ArchiveIsBacked` if `ObjectLock`, `VerdictStands` |
| | `StorageTyped`, `CeilingsHold` | of space and stories: the type invariants, `QuotasHold` |
| `AssociationGovernanceProofs` | `TypeCorrect`, `CountExact`, `Claimed`, `AlwaysRun`, `BoardOfMembers` | the type invariant and the four properties of the run |
| `UpkeepProofs` | `JobsTyped`, `NobodyIsWrittenToTwice`, `QueueKeepsItsPace` | `PartsTyped`, `SentOnce`, `QueueDiscipline` |
| `CommunityProofs` | `TypeCorrect`, `Tombstones`, `BadgesAreExact`, `Bells`, `PreviewsAreNewest` | the type invariant of the conversation and its four properties |
| | | (`Tombstones`: of the messages deleted while no edition of them was in flight) |
| | `CommunityTyped`, `CountersAgree` | `PartsTyped`, `CountersExact` |

Every invariant and action property that a run checks is proved. Where a property joins those of several
parts, the theorem has their specifications side by side (`Space!Spec /\ Stories!Spec => []QuotasHold`).

*Assumptions.* `NoneFresh` (the null is not a user, a row, ...), `RootFresh`, `FiniteReq`, the
`...Assumption`s of the bounds (naturals, finite sets, `ObjectLock` a Boolean). `EvidenceIsThere` carries
`ObjectLock` as a hypothesis because without a lock the purge that races an extension does break the
property: with `ObjectLock = FALSE` the model checker shows it in seventeen steps. The assumptions that
some counting needs finite sets of members, requests or objects are those of any instance of the program.

*Arguments.* None of the properties is inductive alone; each proof strengthens it.

- **Sessions**: `ExchangedRowIsSpent` needs to know, of a request at `issue`, that the row it presents
  is already spent and has its owner (`RequestInv`), and that a row which does not exist carries no
  timestamp, parent or cohort (`RowInv`). `CutSeversFamilies` needs `CohortInv`, that no request is
  *old*: a rotation takes the cohort of the row it presents, and an old row is revoked, so it is
  refused. The refinement uses both, and matches each step of the table with one step of the ledger or a
  stutter. `ForkBound` counts: the children of a row and the exchanges of it in flight are together no
  more than the requests, because no new exchange of a row gets past its first mark and each child takes
  the place of one.
- **Invitations**: `SingleUseLetsOneIn` rests on `RowInv` (a pending invitation has admitted nobody, an
  absent or deleted one is named by no account) and on `RequestInv` (the kind and the inviter a request
  read by code are still those of the row while it exists). `CreditFollowsConsumption` is in
  `AccountInv`, over all addresses. `AddressPurged` belongs to the invariant because the consumption by
  address must find a single-use row. The refinement maps each registration to one admission, each way
  out of `pending` to a closing, and the deletion of a member to `Drop`; it needs that an absent row has
  no inviter, or a deletion could take one that was never open.
- **Mails**: `MailLocks` is the heart: whoever compares a code holds its row, which is unused and has
  the attempts that were read; so writing `used_at` back to null revives nothing, and the count that is
  written is the next one. `MailRows` then says that every comparison was counted and that the last one
  burned the row. `MailCleared` (between its two statements, a request has no usable mail of that type
  of its own) gives `ResendsDoNotPile`.
- **Login**: without overlap `CountFollows`, the failures since it was cleared are no more than the
  count. With two logins the invariant is a potential: `Round(x, y)` is the number of failures still
  possible up to the lock while one login holds the count `x` back and the other goes on from `y`, and
  `RoomLeft` that failures so far and still to come stay within `MaxFailed * (MaxFailed + 3) \div 2`.
  Each failure lowers the potential by at least one (`RoundsApart`).
- **Second factor**: as long as no two requests have changed it at once (`ChangedAlone`), an enrolment
  finds the factor off and the secret it matched in place (`EnrolmentStands`).
- **Phone**: `Heir` and `OneAccount` say whose pairs are on the phone, wherever they are (in the store,
  in flight, in a request that waits); `FlightKept` what is known of a refresh at each stage;
  `SpentOnlyMissed` that a spent token stays only while its successor is on the way or its answer was
  lost; `SigningOut` and `Quiet` what a sign-out has already taken away; `ErasingKept` that a store which it
  has cleared stays clear while the other one is; `EditsKept` that an edition of the profile in flight speaks for
  the account on screen as long as none outlived a change of account. `OnPhoneSteps` lists once where a token on
  the phone can come from, and the steps rest on it.
- **Friendships**: `ReqInv` says what a request in flight may be trusted with: the row it holds still
  joins its own two members, however it has been turned, since the reference to a deleted row is
  forgotten; and one that answers has the other's request behind it. `BlockHolds` is an action property:
  the lemma `SealStep` shows that each step preserves `Sealed` while the block stands, whatever the
  cache went through before.
- **Identity**: `LockInv` (an archive whose lock has run out is past its date, and recorded), `JobInv`
  (what a job at each step knows of the archives it holds: a freshly sealed envelope is in the vault
  under an id without a row; while an approved archive waits for its new date, its lock is on) and
  `Apart` (the two jobs never record the same id). The purge can then remove nothing whose date has
  been, or is about to be, pushed back. The proof has one lemma per group of actions and one that quiet
  steps preserve what they do not touch.
- **Association**: `Shape` says what the record of a request in flight holds, `CountInv` that a request
  about a member whom no other has raced with finds the status it read, so that its step moves row and
  count together. `RunInv` and `BoardInv` say the same of heads and seats as long as nothing has
  overlapped. The count is a cardinality, so these proofs rest on the library's facts about finite sets.
- **Conversations**: the invariant is `TypeInv /\ SendInv /\ TombInv /\ BadgeInv /\ BellInv /\
  PreviewInv`. `SendInv` ties a send in flight to the message it is about; `PreviewInv` says who may
  still owe a recomputation when the preview is not the newest message; `MaxFact` (the newest of some
  messages is one of them) comes from the well-foundedness of the naturals.
- **Sums**: bytes are added with `SumFunctionOnSet`, a fold over a finite set. That such a sum exists,
  is a natural number and does not depend on the order of adding is proved by minimal counterexample:
  the library's fact that every non-empty set of naturals has a least element (`WFMin`) takes a set and
  no operator, so it serves where an induction theorem would not. `SumGrows` and `SumShrinks` are what
  the rest uses.
- **Space**: `RequestInv` says that a deletion frees all of its post's object or nothing and that no two
  requests publish one post. With it each action moves the bytes shown, those on their way back, those
  lost and the counter by amounts that cancel (`ShownSteps`, `ReturningSteps`).
- **Stories**: a request that has passed a check takes one of the places that the requests in flight may
  overrun. `ActiveInv` and `TodayInv` count these requests together with the stories, and `CountedInv`
  says that a story of the day is counted, about to be counted, or missed.
- **Counters**: `FeedListed` (while no deletion has clashed, one at a time is under way and all it has
  listed is still live), `BallotsApart` (a vote in flight knows the vote it changes), `PollCounted` and
  `ReviewSummed` (a transaction that met no other has counted exactly what it will commit). The score of
  a price is a difference of two cardinalities, the sum of a rating is compared as a whole (`Totals`).
- **Campaign**: one dispatch at most exists, since only the claim of a draft starts one; what it has
  marked as seen covers whom it has mailed, and what it has still to do is disjoint from that.
- **Digest**: `MemberInv` counts, for each member, the letters received and the sweeps that carry the
  member: together no more than the sweeps there are, and one when nothing has crossed.
- **Queue**: `ItemInv` (an undisturbed item is in one hand, approved for as long as it is there, and
  posted only when marked or about to be), `MarksHaveRoom` (a sweep posts only where it found room) and
  `CadenceInv` (while no limit was lowered and no two sweeps overlapped, what the week has had and the room
  of the one at work together keep within the limits).

*Only model-checked.* The liveness properties `VerdictSettles`, `BarredIsCutOff`, `DueLeaves`,
`SendingEnds`, `QueueMoves` (fairness and `ENABLED` are out of the prover's reach), and the traces of
section 4.

---

## 6. What the models leave out

Payloads, wording, hashes, cryptography and formats are abstract values: a token is its row, an envelope
its id, a photo its size. Throttling, logging, notifications and mails have no effect on the modelled
state, but for the bell of a thread and the mails that are counted. The diaspora policy and the official
account only refuse more friend requests than the model does. In `Invitations` the abuse flags of an
inviter are one bit (three or more of them, which nothing takes back). In `IdentityLifecycle` there is one
account, whose documents are numbered in order of creation, and one API process, on which a run of the
cleanup is taken to end within the hour before the next one starts: nothing in the code keeps two runs, or
two processes, from overlapping, and no property covers that. Each module that counts has one thing
counted: one association, one conversation, one post, one price, one poll, one target of reviews. In
`Campaigns` the audience is a list of addresses; the audience of accounts is dispatched by a loop of the
same shape. All bounds are the constants of the configurations and the named conditions of the MC
modules; the theorems are proved for all values of the constants.

What section 1.2 lists as not modelled is left so for good: it has no behaviour of several steps of its
own that a model would check.

---

## 7. Plan

Every safety property of the runs is proved. What is left:

1. Refinements of further small abstract specifications, as `LedgerSpec` and `AdmissionSpec` are: one
   post per item for `AnimationQueue`, one letter per address for `Campaigns`.
2. The steps a liveness argument rests on, as action properties: that nothing but the end of a term
   leads a document of `DueLeaves`, or an item of `QueueMoves`, away from leaving.

Theorem modules are kept to eight, so that all proofs are rechecked in a few minutes; a proof about a
further module takes its place beside those of a component it is composed with.
