---- MODULE StatusGuard ----
(* The global guard of authenticated requests (email-verified.guard.ts): it  *)
(* reads whether the account is verified and in good standing, and keeps a   *)
(* positive verdict in the process for a minute, during which nothing is     *)
(* read. The entry is set after the read, whatever has happened since.       *)
EXTENDS FiniteSets

CONSTANT Req   \* requests of the account in flight at the same time

VARIABLES
    verified,  \* users.email_verified
    barred,    \* users.status is banned or suspended
    cached,    \* verifiedCache has an entry younger than VERIFIED_CACHE_TTL_MS
    filling    \* requests that have read a good account and set an entry next

vars == <<verified, barred, cached, filling>>

TypeOK ==
    /\ verified \in BOOLEAN
    /\ barred \in BOOLEAN
    /\ cached \in BOOLEAN
    /\ filling \subseteq Req

Init ==
    /\ verified = FALSE
    /\ barred = FALSE
    /\ cached = FALSE
    /\ filling = {}

-----------------------------------------------------------------------------
\* Without an entry the account is read. A barred one is refused; an unverified
\* one too, or let through without an entry where the route allows it.
\* (Bug: the standing is not looked at.)
ReadBug(r) ==
    /\ ~cached /\ r \notin filling
    /\ verified
    /\ filling' = filling \cup {r}
    /\ UNCHANGED <<verified, barred, cached>>
Read(r) ==
    /\ ~cached /\ r \notin filling
    /\ verified /\ ~barred
    /\ filling' = filling \cup {r}
    /\ UNCHANGED <<verified, barred, cached>>

Fill(r) ==
    /\ r \in filling
    /\ cached' = TRUE
    /\ filling' = filling \ {r}
    /\ UNCHANGED <<verified, barred>>

Expire ==
    /\ cached
    /\ cached' = FALSE
    /\ UNCHANGED <<verified, barred, filling>>

\* The process restarts: its cache and its requests are gone.
Restart ==
    /\ cached' = FALSE
    /\ filling' = {}
    /\ UNCHANGED <<verified, barred>>

\* The address is verified; it never stops being so.
VerifyEmail ==
    /\ ~verified
    /\ verified' = TRUE
    /\ UNCHANGED <<barred, cached, filling>>

\* An account is banned or suspended, or its sanction ends.
SetStatus ==
    /\ barred' = ~barred
    /\ UNCHANGED <<verified, cached, filling>>

-----------------------------------------------------------------------------
Next ==
    \/ Expire \/ Restart \/ VerifyEmail \/ SetStatus
    \/ \E r \in Req : Read(r) \/ Fill(r)

Spec == Init /\ [][Next]_vars

\* Time passes: an entry gets a minute old. Nothing else is owed.
Fairness == WF_vars(Expire)

-----------------------------------------------------------------------------
\* An account that stays barred is cut off for good, although a verdict read
\* before the sanction may be cached after it: no request ever renews an entry.
BarredIsCutOff == <>[]barred => <>[](~cached)
====
