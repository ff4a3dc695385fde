---- MODULE SecondFactor ----
(* The second factor of one account: the enrolment in two steps, the codes   *)
(* that verifyForUser accepts, and the ways to turn it off. The requests     *)
(* that verify a code go on to open a session, to turn the factor off, or to *)
(* reveal a place on the map of the administration.                          *)
EXTENDS FiniteSets

CONSTANTS Req,       \* requests in flight at the same time
          Secret,    \* TOTP secrets that can be generated
          Recovery,  \* rows of mfa_recovery_codes; an enrolment inserts one
          None

\* What is assumed of the constants.
NoneFresh == None \notin Secret \cup Recovery

CodeState == {"absent", "unused", "used", "deleted"}
PC == {"idle", "seed", "secret", "enable", "verify", "spend", "wipe", "clear"}
Purpose == {"login", "disable"}

VARIABLES
    enabled,    \* users.mfa_enabled
    secret,     \* users.mfa_secret
    codes,      \* mfa_recovery_codes
    confirmed,  \* history: the secret a live code has confirmed last
    early,      \* history: who had found a code unused when it was first spent
    crossed,    \* history: two requests have changed the factor at the same time
    pc, req     \* next step of each request, and what it remembers

factor == <<enabled, secret, codes>>
vars == <<enabled, secret, codes, confirmed, early, crossed, pc, req>>

Ask(for, s, c) == [for |-> for, secret |-> s, code |-> c]
Blank == Ask("login", None, None)
Request == [for : Purpose, secret : Secret \cup {None}, code : Recovery \cup {None}]

TypeOK ==
    /\ enabled \in BOOLEAN
    /\ secret \in Secret \cup {None}
    /\ codes \in [Recovery -> CodeState]
    /\ confirmed \in Secret \cup {None}
    /\ early \in [Recovery -> SUBSET Req]
    /\ crossed \in BOOLEAN
    /\ pc \in [Req -> PC]
    /\ req \in [Req -> Request]

Init ==
    /\ enabled = FALSE
    /\ secret = None
    /\ codes = [c \in Recovery |-> "absent"]
    /\ confirmed = None
    /\ early = [c \in Recovery |-> {}]
    /\ crossed = FALSE
    /\ pc = [r \in Req |-> "idle"]
    /\ req = [r \in Req |-> Blank]

-----------------------------------------------------------------------------
Goto(r, step, rec) ==
    /\ pc' = [pc EXCEPT ![r] = step]
    /\ req' = [req EXCEPT ![r] = rec]

Leave(r) == Goto(r, "idle", Blank)

\* A request that may change the factor, beside another one or alone.
Changing(q) == pc[q] # "idle" /\ (pc[q] \in {"verify", "spend"} => req[q].for = "disable")
Enter(r, step, rec) ==
    /\ pc[r] = "idle"
    /\ Goto(r, step, rec)
    /\ crossed' = (crossed \/ (Changing(r)' /\ \E q \in Req \ {r} : Changing(q)))

Wiped == [c \in Recovery |-> IF codes[c] = "absent" THEN "absent" ELSE "deleted"]

-----------------------------------------------------------------------------
(* Enrolment.                                                                *)

\* beginEnrollment refuses an account that has its factor on... (Bug: it does not.)
BeginBug(r) ==
    /\ Enter(r, "seed", Blank)
    /\ UNCHANGED <<factor, confirmed, early>>
Begin(r) ==
    /\ ~enabled
    /\ Enter(r, "seed", Blank)
    /\ UNCHANGED <<factor, confirmed, early>>

\* ... then stores a fresh secret.
Seed(r, s) ==
    /\ pc[r] = "seed"
    /\ s \notin {secret, confirmed}
    /\ secret' = s
    /\ Leave(r)
    /\ UNCHANGED <<enabled, codes, confirmed, early, crossed>>

\* confirmEnrollment reads the flag, then the secret that the live code must match...
Confirm(r) ==
    /\ ~enabled
    /\ Enter(r, "secret", Blank)
    /\ UNCHANGED <<factor, confirmed, early>>

MatchSecret(r) ==
    /\ pc[r] = "secret" /\ secret # None
    /\ Goto(r, "enable", Ask("login", secret, None))
    /\ UNCHANGED <<factor, confirmed, early, crossed>>

\* ... then turns the factor on and replaces the recovery codes, in one transaction.
Enable(r, c) ==
    /\ pc[r] = "enable"
    /\ codes[c] = "absent"
    /\ enabled' = TRUE
    /\ codes' = [Wiped EXCEPT ![c] = "unused"]
    /\ confirmed' = req[r].secret
    /\ Leave(r)
    /\ UNCHANGED <<secret, early, crossed>>

-----------------------------------------------------------------------------
(* verifyForUser, for verifyMfaLogin and revealIdentity, or for disable.     *)

Verify(r, for) ==
    /\ for = "login" => enabled
    /\ Enter(r, "verify", Ask(for, None, None))
    /\ UNCHANGED <<factor, confirmed, early>>

\* What a verified request goes on with: the session, or the two writes of disable.
Pass(r) == IF req[r].for = "login" THEN Leave(r) ELSE Goto(r, "wipe", req[r])

\* A live code of the secret passes, as often as it is presented.
Totp(r) ==
    /\ pc[r] = "verify" /\ secret # None
    /\ Pass(r)
    /\ UNCHANGED <<factor, confirmed, early, crossed>>

\* A recovery code is looked for unused... (Bug: used_at is not looked at.)
FindCodeBug(r, c) ==
    /\ pc[r] = "verify" /\ codes[c] \in {"unused", "used"}
    /\ Goto(r, "spend", Ask(req[r].for, None, c))
    /\ UNCHANGED <<factor, confirmed, early, crossed>>
FindCode(r, c) ==
    /\ pc[r] = "verify" /\ codes[c] = "unused"
    /\ Goto(r, "spend", Ask(req[r].for, None, c))
    /\ UNCHANGED <<factor, confirmed, early, crossed>>

\* ... and marked used by its id; the update of a deleted row fails (Abort).
SpendCode(r) ==
    LET c == req[r].code IN
    /\ pc[r] = "spend" /\ c # None
    /\ codes[c] \in {"unused", "used"}
    /\ codes' = [codes EXCEPT ![c] = "used"]
    /\ early' = IF codes[c] = "used" THEN early
                ELSE [early EXCEPT ![c] = {q \in Req : pc[q] = "spend" /\ req[q].code = c}]
    /\ Pass(r)
    /\ UNCHANGED <<enabled, secret, confirmed, crossed>>

-----------------------------------------------------------------------------
(* Turning the factor off.                                                   *)

\* disable deletes the codes, then clears the secret and the flag.
Wipe(r) ==
    /\ pc[r] = "wipe"
    /\ codes' = Wiped
    /\ Goto(r, "clear", req[r])
    /\ UNCHANGED <<enabled, secret, confirmed, early, crossed>>

Clear(r) ==
    /\ pc[r] = "clear"
    /\ enabled' = FALSE /\ secret' = None
    /\ Leave(r)
    /\ UNCHANGED <<codes, confirmed, early, crossed>>

\* An administrator turns it off in one transaction.
ResetMfa ==
    /\ enabled' = FALSE /\ secret' = None
    /\ codes' = Wiped
    /\ crossed' = (crossed \/ \E q \in Req : Changing(q))
    /\ UNCHANGED <<confirmed, early, pc, req>>

\* A request fails or is refused at any step; what it has written stays.
Abort(r) ==
    /\ pc[r] # "idle"
    /\ Leave(r)
    /\ UNCHANGED <<factor, confirmed, early, crossed>>

-----------------------------------------------------------------------------
Next ==
    \/ ResetMfa
    \/ \E r \in Req :
        \/ Begin(r) \/ \E s \in Secret : Seed(r, s)
        \/ Confirm(r) \/ MatchSecret(r) \/ \E c \in Recovery : Enable(r, c)
        \/ \E for \in Purpose : Verify(r, for)
        \/ Totp(r) \/ \E c \in Recovery : FindCode(r, c)
        \/ SpendCode(r) \/ Wipe(r) \/ Clear(r)
        \/ Abort(r)

Spec == Init /\ [][Next]_vars

-----------------------------------------------------------------------------
\* As long as no two requests change the factor at the same time, an account
\* that is asked for a second factor can give one: its secret is the one its
\* application has confirmed, even after a disable that failed half-way.
EnrolledCanAnswer == ~crossed /\ enabled => secret # None /\ secret = confirmed

\* A recovery code is marked without a condition, so two requests may pass with
\* it: but only those that had found it unused before it was first spent.
SecondUseOverlaps ==
    \A r \in Req : pc[r] = "spend" /\ codes[req[r].code] = "used" => r \in early[req[r].code]
====
