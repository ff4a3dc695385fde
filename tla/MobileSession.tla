---- MODULE MobileSession ----
(* The session of one phone: the pair of tokens in its secure store, the     *)
(* profile it keeps to open offline, the account its screens show, and the   *)
(* row by which the API sends it notifications. Requests of the screens, one *)
(* shared refresh of the tokens and the sign-in and sign-out of the user     *)
(* interleave at every await; the network loses answers and the system kills *)
(* the application, between two writes of its stores as well. Pairs of       *)
(* tokens are numbered in the order of issue.                                *)
EXTENDS Naturals, FiniteSets

CONSTANTS
    User,      \* accounts used on the phone
    NoOne,     \* no account
    Back,      \* requests the screens and the push service have in flight
    MaxPairs,  \* bound: pairs of tokens issued
    MaxFaults  \* bound: answers lost, applications killed, sessions revoked elsewhere

Front == "front"     \* the request the sign-in and sign-out of the user await

PhoneAssumption ==
    NoOne \notin User /\ Front \notin Back /\ MaxPairs \in Nat /\ MaxFaults \in Nat

Call == Back \cup {Front}
Pair == 1..MaxPairs
NoPair == 0

VARIABLES
    row,        \* refresh_tokens: the state of the row of each pair
    holder,     \* the account each pair was issued to
    dead,       \* pairs whose access token is refused: expired or blacklisted
    attached,   \* push_tokens: the account the phone is attached to
    vault,      \* SecureStore: the pair of the access and of the refresh token
    cached,     \* AsyncStorage: the last known profile (sessionCache)
    screen,     \* authStore.user
    remembered, \* pushService.lastRegisteredToken is set
    ui,         \* what hydrate, login, logout or deleteAccount is at
    about,      \* the sign-in or sign-out under way: account, provider, pair issued
    erasing,    \* the stores that a sign-out has still to clear
    call,       \* the requests in flight
    flight,     \* refreshPromise
    late,       \* history: a refresh was in flight when the user signed in or out
    torn,       \* history: tokens and cached profile were written or cleared apart
    saving,     \* history: an edition of the profile was in flight at that time
    left,       \* history: the account the user signed out of last
    ringing,    \* history: at that moment the detachment was not confirmed
    missed,     \* history: a pair was issued by rotation and not stored
    faults      \* the faults so far

server == <<row, holder, dead, attached>>
disk == <<vault, cached>>
memory == <<screen, remembered, ui, about, erasing, call, flight>>
history == <<late, torn, saving, left, ringing, missed>>
vars == <<row, holder, dead, attached, vault, cached, screen, remembered, ui,
          about, erasing, call, flight, late, torn, saving, left, ringing, missed, faults>>

Fault == faults < MaxFaults /\ faults' = faults + 1

Kind == {"me", "detach", "logout", "delete", "register", "read", "save"}
Stage == {"idle", "open", "sent", "served", "await", "done"}
Request == [stage : Stage, kind : Kind, token : Pair \cup {NoPair},
            body : Pair \cup {NoPair}, retried : BOOLEAN,
            reply : {"ok", "refused", "lost"}, who : User \cup {NoOne}]
Idle == [stage |-> "idle", kind |-> "me", token |-> NoPair, body |-> NoPair,
         retried |-> FALSE, reply |-> "lost", who |-> NoOne]
Done(k, r) == [Idle EXCEPT !.stage = "done", !.kind = k, !.reply = r]

Empty == [access |-> NoPair, refresh |-> NoPair]
Both(p) == [access |-> p, refresh |-> p]
Landed == [stage |-> "idle", from |-> NoPair, to |-> NoPair]
Nobody == [who |-> NoOne, way |-> "password", pair |-> NoPair]

TypeOK ==
    /\ row \in [Pair -> {"none", "live", "used", "revoked", "gone"}]
    /\ holder \in [Pair -> User \cup {NoOne}]
    /\ dead \subseteq Pair
    /\ {attached, cached, screen} \subseteq User \cup {NoOne}
    /\ vault \in [access : Pair \cup {NoPair}, refresh : Pair \cup {NoPair}]
    /\ remembered \in BOOLEAN
    /\ ui \in {"boot", "me", "ready", "signing", "detaching", "leaving", "deleting", "erasing"}
    /\ about \in [who : User \cup {NoOne}, way : {"password", "provider"},
                     pair : Pair \cup {NoPair}]
    /\ erasing \subseteq {"tokens", "profile"}
    /\ call \in [Call -> Request]
    /\ flight \in [stage : {"idle", "sent", "served", "refused"},
                   from : Pair \cup {NoPair}, to : Pair \cup {NoPair}]
    /\ {late, torn, saving, ringing, missed} \subseteq BOOLEAN
    /\ left \in User \cup {NoOne}
    /\ faults \in 0..MaxFaults

Init ==
    /\ row = [p \in Pair |-> "none"]
    /\ holder = [p \in Pair |-> NoOne]
    /\ dead = {}
    /\ attached = NoOne
    /\ vault = Empty
    /\ cached = NoOne
    /\ screen = NoOne
    /\ remembered = FALSE
    /\ ui = "boot"
    /\ about = Nobody
    /\ erasing = {}
    /\ call = [c \in Call |-> Idle]
    /\ flight = Landed
    /\ faults = 0
    /\ late = FALSE /\ torn = FALSE /\ saving = FALSE /\ left = NoOne /\ ringing = FALSE /\ missed = FALSE

-----------------------------------------------------------------------------
\* The API, as the phone's requests meet it.

\* The next pair issued, to the account u.
Issue(p, u, rows) ==
    /\ row[p] = "none" /\ \A q \in Pair : q < p => row[q] # "none"
    /\ row' = [rows EXCEPT ![p] = "live"]
    /\ holder' = [holder EXCEPT ![p] = u]

\* The row of a pair goes with its account.
Gone(p) == row[p] = "gone"
Revoked(u) == [p \in Pair |-> IF holder[p] = u /\ ~Gone(p) THEN "revoked" ELSE row[p]]

\* What a request does there under the account u: a logout revokes the refresh
\* token of its body and blacklists its own access token, a deletion takes the
\* rows of the account, a registration claims the phone from any other account.
Effect(c, u) ==
    CASE call[c].kind = "logout" ->
             /\ row' = IF Gone(call[c].body) THEN row
                       ELSE [row EXCEPT ![call[c].body] = "revoked"]
             /\ dead' = dead \cup {call[c].token}
             /\ UNCHANGED <<holder, attached>>
      [] call[c].kind = "delete" ->
             /\ row' = [p \in Pair |-> IF holder[p] = u THEN "gone" ELSE row[p]]
             /\ attached' = IF attached = u THEN NoOne ELSE attached
             /\ UNCHANGED <<holder, dead>>
      [] call[c].kind = "register" ->
             /\ attached' = u
             /\ UNCHANGED <<row, holder, dead>>
      [] call[c].kind = "detach" ->
             /\ attached' = IF attached = u THEN NoOne ELSE attached
             /\ UNCHANGED <<row, holder, dead>>
      [] OTHER -> UNCHANGED server

\* The access token of an account that is gone is still good until it runs out:
\* what needs the account fails, which is no refusal of the session.
Fails(c) == Gone(call[c].token) /\ call[c].kind \in {"me", "register", "delete", "save"}

Serve(c) ==
    /\ call[c].stage = "sent"
    /\ LET p == call[c].token
           Reply(r, u) == [call EXCEPT ![c].stage = "served", ![c].reply = r, ![c].who = u] IN
       \/ p \notin Pair \ dead /\ call' = Reply("refused", NoOne) /\ UNCHANGED server
       \/ /\ p \in Pair \ dead
          /\ IF Fails(c) THEN call' = Reply("lost", NoOne) /\ UNCHANGED server
                         ELSE call' = Reply("ok", holder[p]) /\ Effect(c, holder[p])
    /\ UNCHANGED <<disk, screen, remembered, ui, about, erasing, flight, history, faults>>

\* Rotation: a token that was used already revokes every session of its account.
Rotate ==
    /\ flight.stage = "sent"
    /\ LET p == flight.from IN
       \/ /\ row[p] = "live"
          /\ \E q \in Pair : /\ Issue(q, holder[p], [row EXCEPT ![p] = "used"])
                             /\ flight' = [flight EXCEPT !.stage = "served", !.to = q]
       \/ /\ row[p] # "live"
          /\ row' = IF row[p] = "used" THEN Revoked(holder[p]) ELSE row
          /\ flight' = [flight EXCEPT !.stage = "refused"]
          /\ UNCHANGED holder
    /\ UNCHANGED <<dead, attached, disk, screen, remembered, ui, about, erasing, call, history, faults>>

\* The access token of the store runs out.
Expire(p) ==
    /\ p = vault.access /\ p \notin dead
    /\ dead' = dead \cup {p}
    /\ UNCHANGED <<row, holder, attached, disk, memory, history, faults>>

\* Elsewhere: a password is changed, a sanction falls, the sessions run out. Of
\* a pair the phone no longer holds it would not be noticed.
InUse == ({vault.access, vault.refresh, flight.from, flight.to, about.pair}
          \cup {call[c].token : c \in Call}) \ {NoPair}
RevokeAll(u) ==
    /\ Fault
    /\ \E p \in InUse : holder[p] = u /\ row[p] = "live"
    /\ row' = Revoked(u)
    /\ UNCHANGED <<holder, dead, attached, disk, memory, history>>

-----------------------------------------------------------------------------
\* A request of the phone: the interceptors of services/api.ts.

\* The request interceptor reads the access token of the store as the request
\* leaves. A registration waits for the permission and for its push token first.
Sent(k) == [Idle EXCEPT !.stage = "sent", !.kind = k, !.token = vault.access]
Send(c) ==
    /\ call[c].stage = "open"
    /\ call' = [call EXCEPT ![c] = Sent(@.kind)]
    /\ UNCHANGED <<server, disk, screen, remembered, ui, about, erasing, flight, history, faults>>

\* What is left of a request that has ended: the user's operation reads it, the
\* push service remembers a registration.
Ended(r, c) == IF c \in Back THEN Idle
               ELSE [Done(call[c].kind, r) EXCEPT !.who = IF r = "ok" THEN call[c].who ELSE NoOne]

\* An answer that is not a 401, or the second 401, ends the request. The profile
\* that an edition answers goes on the screen, whatever the user did meanwhile.
Answer(c) ==
    /\ call[c].stage = "served"
    /\ call[c].reply # "refused" \/ call[c].retried
    /\ call' = [call EXCEPT ![c] = Ended(@.reply, c)]
    /\ remembered' = (remembered \/ (call[c].kind = "register" /\ call[c].reply = "ok"))
    /\ screen' = IF call[c].kind = "save" /\ call[c].reply = "ok" THEN call[c].who ELSE screen
    /\ UNCHANGED <<server, disk, ui, about, erasing, flight, history, faults>>

\* The first 401 joins the refresh in flight, or starts one with the refresh
\* token of the store. (Bug: every request starts its own.)
Refused(c) == call[c].stage = "served" /\ call[c].reply = "refused" /\ ~call[c].retried
Await(c) == [call EXCEPT ![c].stage = "await", ![c].retried = TRUE,
                         ![c].token = NoPair, ![c].reply = "lost"]
Refresh == [Landed EXCEPT !.stage = "sent", !.from = vault.refresh]
JoinBug(c) ==
    /\ Refused(c) /\ vault.refresh # NoPair
    /\ call' = Await(c)
    /\ flight' = Refresh
    /\ UNCHANGED <<server, disk, screen, remembered, ui, about, erasing, history, faults>>
Join(c) ==
    /\ Refused(c)
    /\ flight.stage # "idle" \/ vault.refresh # NoPair
    /\ call' = Await(c)
    /\ flight' = IF flight.stage = "idle" THEN Refresh ELSE flight
    /\ UNCHANGED <<server, disk, screen, remembered, ui, about, erasing, history, faults>>

\* No answer within the delay, or none at all, whether or not the API acted. A
\* read that is lost leaves what a read that is answered does.
Lose(c) ==
    /\ Fault
    /\ call[c].stage \in {"sent", "served"} /\ call[c].kind # "read"
    /\ call' = [call EXCEPT ![c] = Ended("lost", c)]
    /\ UNCHANGED <<server, disk, screen, remembered, ui, about, erasing, flight, history>>

\* The refresh ends: the requests that await it go on or fail together.
Waiting == {c \in Call : call[c].stage = "await"}
Retry(p) ==
    /\ flight' = Landed
    /\ call' = [c \in Call |-> IF c \in Waiting
                               THEN [call[c] EXCEPT !.stage = "sent", !.token = p] ELSE call[c]]
Fail(reply) ==
    /\ flight' = Landed
    /\ call' = [c \in Call |-> IF c \in Waiting THEN Ended(reply, c) ELSE call[c]]

\* Refused, or nothing to present: the store is cleared and the screen signed
\* out. The cached profile stays.
SessionOver ==
    /\ vault' = Empty
    /\ screen' = NoOne
    /\ torn' = (torn \/ cached # NoOne)
    /\ UNCHANGED <<server, cached, remembered, ui, about, erasing, late, saving, left, ringing, missed, faults>>
FlightRefused ==
    /\ flight.stage = "refused"
    /\ Fail("refused")
    /\ SessionOver
JoinEmpty(c) ==
    /\ Refused(c)
    /\ flight.stage = "idle" /\ vault.refresh = NoPair
    /\ call' = [call EXCEPT ![c] = Ended("refused", c)]
    /\ SessionOver
    /\ UNCHANGED flight

FlightSave ==
    /\ flight.stage = "served"
    /\ vault' = Both(flight.to)
    /\ Retry(flight.to)
    /\ missed' = FALSE
    /\ UNCHANGED <<server, cached, screen, remembered, ui, about, erasing, late, torn, saving, left, ringing, faults>>
FlightLost ==
    /\ Fault
    /\ flight.stage \in {"sent", "served", "refused"}
    /\ missed' = (missed \/ flight.stage = "served")
    /\ Fail("lost")
    /\ UNCHANGED <<server, disk, screen, remembered, ui, about, erasing, late, torn, saving, left, ringing>>

-----------------------------------------------------------------------------
\* The screens and the push service.

Open(c, k) == call' = [call EXCEPT ![c] = Sent(k)]

\* A screen asks for something, or edits the profile.
Ask(c) ==
    /\ c \in Back /\ call[c].stage = "idle"
    /\ screen # NoOne
    /\ \E k \in {"read", "save"} : Open(c, k)
    /\ UNCHANGED <<server, disk, screen, remembered, ui, about, erasing, flight, history, faults>>

\* registerForPushNotifications, in the background, where the permission was given.
Kickoff(calls) ==
    \/ call' = calls
    \/ \E c \in Back : /\ call[c].stage = "idle"
                       /\ call' = [calls EXCEPT ![c].stage = "open", ![c].kind = "register"]

-----------------------------------------------------------------------------
\* The user: stores/authStore.ts and the sign-in buttons.

FrontDone == call[Front].stage = "done"
FrontClosed == [call EXCEPT ![Front] = Idle]

\* hydrate() at the start of the application, with the network or without.
Boot ==
    /\ ui = "boot"
    /\ \/ vault.access = NoPair /\ ui' = "ready" /\ UNCHANGED call
       \/ /\ vault.access # NoPair /\ ui' = "me"
          /\ Open(Front, "me") \/ call' = [call EXCEPT ![Front] = Done("me", "lost")]
    /\ UNCHANGED <<server, disk, screen, remembered, about, erasing, flight, history, faults>>

Hydrated ==
    /\ ui = "me" /\ FrontDone /\ call[Front].reply = "ok"
    /\ screen' = call[Front].who
    /\ cached' = call[Front].who
    /\ ui' = "ready"
    /\ Kickoff(FrontClosed)
    /\ UNCHANGED <<server, vault, remembered, about, erasing, flight, history, faults>>

\* The two stores are cleared at the same time, each in its own: either may go
\* first, and the application may be killed in between.
Erase ==
    /\ ui' = "erasing" /\ erasing' = {"tokens", "profile"}
    /\ call' = FrontClosed

EraseTokens ==
    /\ "tokens" \in erasing
    /\ vault' = Empty
    /\ erasing' = erasing \ {"tokens"}
    /\ late' = (flight.stage # "idle")
    /\ UNCHANGED <<server, cached, screen, remembered, ui, about, call, flight,
                   torn, saving, left, ringing, missed, faults>>
EraseProfile ==
    /\ "profile" \in erasing
    /\ cached' = NoOne
    /\ erasing' = erasing \ {"profile"}
    /\ UNCHANGED <<server, vault, screen, remembered, ui, about, call, flight, history, faults>>

Saving == \E c \in Back : call[c].kind = "save" /\ call[c].stage # "idle"
Erased ==
    /\ ui = "erasing" /\ erasing = {}
    /\ screen' = NoOne
    /\ ui' = "ready"
    /\ torn' = FALSE /\ saving' = Saving
    /\ left' = about.who /\ about' = Nobody
    /\ UNCHANGED <<server, disk, remembered, erasing, call, flight, late, ringing, missed, faults>>

\* Refused: the tokens and the profile go. (Bug: the profile stays.)
HydrateRefusedBug ==
    /\ ui = "me" /\ FrontDone /\ call[Front].reply = "refused"
    /\ ui' = "erasing" /\ erasing' = {"tokens"} /\ call' = FrontClosed
    /\ left' = NoOne
    /\ UNCHANGED <<server, disk, screen, remembered, about, flight,
                   late, torn, saving, ringing, missed, faults>>
HydrateRefused ==
    /\ ui = "me" /\ FrontDone /\ call[Front].reply = "refused"
    /\ Erase
    /\ left' = NoOne
    /\ UNCHANGED <<server, disk, screen, remembered, about, flight,
                   late, torn, saving, ringing, missed, faults>>

\* No answer: the application opens on the last known profile, if there is one.
HydrateOffline ==
    /\ ui = "me" /\ FrontDone /\ call[Front].reply = "lost"
    /\ screen' = cached
    /\ ui' = "ready"
    /\ IF cached = NoOne THEN call' = FrontClosed ELSE Kickoff(FrontClosed)
    /\ UNCHANGED <<server, disk, remembered, about, erasing, flight, history, faults>>

SignIn(u, way, p) ==
    /\ ui = "ready" /\ screen = NoOne
    /\ \A q \in Pair : holder[q] = u => ~Gone(q)
    /\ Issue(p, u, row)
    /\ about' = [who |-> u, way |-> way, pair |-> p]
    /\ ui' = "signing"
    /\ left' = NoOne /\ ringing' = FALSE
    /\ UNCHANGED <<dead, attached, disk, screen, remembered, erasing, call, flight,
                   late, torn, saving, missed, faults>>

\* Only the password screens keep the profile; Apple's button registers no device.
SignedIn ==
    /\ ui = "signing"
    /\ vault' = Both(about.pair)
    /\ screen' = about.who
    /\ IF about.way = "password" THEN cached' = about.who /\ torn' = FALSE
                                    ELSE UNCHANGED <<cached, torn>>
    /\ Kickoff(call)
    /\ ui' = "ready" /\ about' = Nobody
    /\ late' = (flight.stage # "idle") /\ saving' = Saving
    /\ UNCHANGED <<server, remembered, erasing, flight, left, ringing, missed, faults>>

SignInLost ==
    /\ Fault
    /\ ui = "signing"
    /\ ui' = "ready" /\ about' = Nobody
    /\ UNCHANGED <<server, disk, screen, remembered, erasing, call, flight, history>>

Astray == late \/ torn \/ saving
Registering == \E c \in Back : call[c].kind = "register" /\ call[c].stage # "idle"

\* logout(): the phone is detached, the session revoked, then all is erased.
\* (Bug: the phone is registered again, as the code once did.)
LogoutBug ==
    /\ ui = "ready" /\ screen # NoOne
    /\ ui' = "detaching"
    /\ remembered' = FALSE
    /\ call' = [call EXCEPT ![Front] = IF remembered THEN Sent("register")
                                                     ELSE Done("detach", "lost")]
    /\ ringing' = (~remembered \/ Registering \/ Astray)
    /\ about' = [Nobody EXCEPT !.who = screen]
    /\ left' = NoOne
    /\ UNCHANGED <<server, disk, screen, erasing, flight, late, torn, saving, missed, faults>>
Logout ==
    /\ ui = "ready" /\ screen # NoOne
    /\ ui' = "detaching"
    /\ remembered' = FALSE
    /\ call' = [call EXCEPT ![Front] = IF remembered THEN Sent("detach")
                                                     ELSE Done("detach", "lost")]
    /\ ringing' = (~remembered \/ Registering \/ Astray)
    /\ about' = [Nobody EXCEPT !.who = screen]
    /\ left' = NoOne
    /\ UNCHANGED <<server, disk, screen, erasing, flight, late, torn, saving, missed, faults>>

LogoutSend ==
    /\ ui = "detaching" /\ FrontDone
    /\ ui' = "leaving"
    /\ ringing' = (ringing \/ call[Front].reply # "ok")
    /\ call' = [call EXCEPT ![Front] =
                    IF vault.refresh = NoPair THEN Done("logout", "lost")
                    ELSE [Sent("logout") EXCEPT !.body = vault.refresh]]
    /\ UNCHANGED <<server, disk, screen, remembered, about, erasing, flight, late, torn, saving, left, missed, faults>>

LogoutErase ==
    /\ ui = "leaving" /\ FrontDone
    /\ Erase
    /\ UNCHANGED <<server, disk, screen, remembered, about, flight, history, faults>>

DeleteAccount ==
    /\ ui = "ready" /\ screen # NoOne
    /\ ui' = "deleting"
    /\ Open(Front, "delete")
    /\ about' = [Nobody EXCEPT !.who = screen]
    /\ ringing' = (Registering \/ Astray)
    /\ left' = NoOne
    /\ UNCHANGED <<server, disk, screen, remembered, erasing, flight, late, torn, saving, missed, faults>>

Deleted ==
    /\ ui = "deleting" /\ FrontDone /\ call[Front].reply = "ok"
    /\ remembered' = FALSE
    /\ Erase
    /\ UNCHANGED <<server, disk, screen, about, flight, history, faults>>

DeleteFailed ==
    /\ ui = "deleting" /\ FrontDone /\ call[Front].reply # "ok"
    /\ ui' = "ready" /\ call' = FrontClosed /\ about' = Nobody
    /\ UNCHANGED <<server, disk, screen, remembered, erasing, flight, history, faults>>

\* The user closes the application when nothing is under way, or the system
\* stops it at any moment.
Close ==
    /\ ui = "ready" /\ flight = Landed /\ \A c \in Call : call[c] = Idle
    /\ screen' = NoOne /\ remembered' = FALSE
    /\ ui' = "boot"
    /\ saving' = FALSE
    /\ UNCHANGED <<server, disk, about, erasing, call, flight, late, torn, left, ringing,
                   missed, faults>>

\* Of a pair being stored, or cleared, either half or both may already be written.
Halves(p) == [access : {vault.access, p}, refresh : {vault.refresh, p}]
Written ==
    {vault}
    \cup (IF flight.stage = "served" THEN Halves(flight.to) ELSE {})
    \cup (IF ui = "signing" THEN Halves(about.pair) ELSE {})
    \cup (IF flight.stage = "refused" \/ "tokens" \in erasing THEN Halves(NoPair) ELSE {})
Kill ==
    /\ Fault
    /\ vault' \in Written
    /\ screen' = NoOne /\ remembered' = FALSE
    /\ ui' = "boot" /\ about' = Nobody /\ erasing' = {}
    /\ call' = [c \in Call |-> Idle]
    /\ flight' = Landed
    /\ missed' = (missed \/ (flight.stage = "served" /\ vault'.refresh # flight.to))
    /\ torn' = (torn \/ ui = "signing" \/ (cached # NoOne /\ vault'.access = NoPair))
    /\ saving' = FALSE
    /\ UNCHANGED <<server, cached, late, left, ringing>>

Next ==
    \/ \E c \in Call : Serve(c) \/ Send(c) \/ Answer(c) \/ Join(c) \/ JoinEmpty(c) \/ Lose(c) \/ Ask(c)
    \/ Rotate \/ FlightRefused \/ FlightSave \/ FlightLost
    \/ \E p \in Pair : Expire(p)
    \/ \E u \in User : RevokeAll(u)
    \/ Boot \/ Hydrated \/ HydrateRefused \/ HydrateOffline
    \/ \E u \in User, way \in {"password", "provider"}, p \in Pair : SignIn(u, way, p)
    \/ SignedIn \/ SignInLost \/ Logout \/ LogoutSend \/ LogoutErase
    \/ DeleteAccount \/ Deleted \/ DeleteFailed
    \/ EraseTokens \/ EraseProfile \/ Erased
    \/ Close \/ Kill

Spec == Init /\ [][Next]_vars

-----------------------------------------------------------------------------
(* Properties.                                                               *)

\* What the phone sends goes out under the account it shows: through late
\* answers, kills amid a write and restarts without network, the tokens are those
\* of the account on screen. Three cases are left out, where it fails: a refresh in
\* flight while the user signs out and in again (it stores the tokens of the
\* account that was left); an edition of the profile in flight meanwhile (its
\* answer puts that account on screen again); a profile kept without its tokens (a
\* session that ended, refused, or a kill between the clears of the two stores),
\* when a sign-in that does not write it is followed by a start without network.
VaultFollowsScreen ==
    ui = "ready" /\ screen # NoOne /\ ~Astray
        => \A p \in {vault.access, vault.refresh} \ {NoPair} : holder[p] = screen

\* An account that was signed out of is gone from the phone until the next
\* sign-in or sign-out, restarts and late answers included: no token and no profile
\* is there, no screen shows it, and no notification of it arrives if the
\* detachment was confirmed. Left out: a refresh in flight at the sign-out, which
\* brings the tokens back, and for what the screen shows an edition of the profile
\* in flight, which brings the account back.
SignedOutStaysOut ==
    left # NoOne /\ ~late =>
        /\ vault = Empty /\ cached = NoOne
        /\ ~saving => screen = NoOne
        /\ ~ringing => attached # left

\* The phone does not cause its own detection of reuse, which would end every
\* session of the account: it presents a spent token only after an answer of the
\* rotation was lost, however many requests meet an expired access token at once.
NoFalseAlarm ==
    flight.stage = "sent" /\ row[flight.from] = "used" => missed
====
