---- MODULE LoginLockout ----
(* The counter of failed logins of one account and the lock it sets. A login *)
(* reads the row of the user, then checks a password or a second factor for  *)
(* a while, then writes the counter from what it had read. The verdicts on   *)
(* passwords and on second factors (SecondFactor) are inputs.                *)
EXTENDS Naturals, FiniteSets

CONSTANTS Req,        \* logins in flight at the same time
          MaxFailed,  \* MAX_FAILED_LOGINS
          MaxCount    \* bound: value of the counter a login may still read

\* What is assumed of the constants.
BoundsAssumption == MaxFailed \in Nat \ {0} /\ MaxCount \in Nat /\ IsFiniteSet(Req)

PC == {"idle", "password", "factor", "stamp"}

VARIABLES
    failed,     \* users.failed_login_count
    locked,     \* users.locked_until is in the future
    barred,     \* users.status is banned or suspended
    mfa,        \* users.mfa_enabled
    challenged, \* an MFA challenge token has been issued and has not expired
    misses,     \* history: failures since the counter was cleared or the lock ended
    overlapped, \* history: a failure was written from a value no longer current
    pc, req     \* next step of each login, and the row it read

account == <<failed, locked, barred, mfa, challenged>>
vars == <<failed, locked, barred, mfa, challenged, misses, overlapped, pc, req>>

Read(count, factor) == [seen |-> count, mfa |-> factor]
Blank == Read(0, FALSE)

TypeOK ==
    /\ failed \in Nat
    /\ locked \in BOOLEAN
    /\ barred \in BOOLEAN
    /\ mfa \in BOOLEAN
    /\ challenged \in BOOLEAN
    /\ misses \in Nat
    /\ overlapped \in BOOLEAN
    /\ pc \in [Req -> PC]
    /\ req \in [Req -> [seen : Nat, mfa : BOOLEAN]]

Init ==
    /\ failed = 0
    /\ locked = FALSE
    /\ barred = FALSE
    /\ mfa = FALSE
    /\ challenged = FALSE
    /\ misses = 0
    /\ overlapped = FALSE
    /\ pc = [r \in Req |-> "idle"]
    /\ req = [r \in Req |-> Blank]

-----------------------------------------------------------------------------
Admissible == ~barred /\ ~locked /\ failed <= MaxCount

Enter(r, step) ==
    /\ pc[r] = "idle"
    /\ pc' = [pc EXCEPT ![r] = step]
    /\ req' = [req EXCEPT ![r] = Read(failed, mfa)]

Goto(r, step) ==
    /\ pc' = [pc EXCEPT ![r] = step]
    /\ UNCHANGED req

Leave(r) ==
    /\ pc' = [pc EXCEPT ![r] = "idle"]
    /\ req' = [req EXCEPT ![r] = Blank]

Clear ==
    /\ failed' = 0 /\ locked' = FALSE
    /\ misses' = 0

\* login reads the user, and refuses a barred or locked account.
Login(r) ==
    /\ Admissible
    /\ Enter(r, "password")
    /\ UNCHANGED <<account, misses, overlapped>>

\* verifyMfaLogin reads the user again, with the same refusals.
SecondStep(r) ==
    /\ Admissible /\ challenged /\ mfa
    /\ Enter(r, "factor")
    /\ UNCHANGED <<account, misses, overlapped>>

\* registerFailedLogin: both columns are written from the count that was read;
\* below the threshold the lock is written away. (Bug: the threshold is passed.)
RegisterFailedBug(r) ==
    /\ pc[r] \in {"password", "factor"}
    /\ failed' = req[r].seen + 1
    /\ locked' = (req[r].seen + 1 > MaxFailed)
    /\ misses' = misses + 1
    /\ overlapped' = (overlapped \/ failed # req[r].seen \/ locked)
    /\ Leave(r)
    /\ UNCHANGED <<barred, mfa, challenged>>
RegisterFailed(r) ==
    /\ pc[r] \in {"password", "factor"}
    /\ failed' = req[r].seen + 1
    /\ locked' = (req[r].seen + 1 >= MaxFailed)
    /\ misses' = misses + 1
    /\ overlapped' = (overlapped \/ failed # req[r].seen \/ locked)
    /\ Leave(r)
    /\ UNCHANGED <<barred, mfa, challenged>>

\* A right password clears the counter, then asks for the second factor if the
\* row that was read has one.
PasswordRight(r) ==
    /\ pc[r] = "password"
    /\ Clear
    /\ IF req[r].mfa
       THEN challenged' = TRUE /\ Leave(r)
       ELSE UNCHANGED challenged /\ Goto(r, "stamp")
    /\ UNCHANGED <<barred, mfa, overlapped>>

FactorRight(r) ==
    /\ pc[r] = "factor"
    /\ Goto(r, "stamp")
    /\ UNCHANGED <<account, misses, overlapped>>

\* stampLogin clears the counter once more; the session is then opened.
Stamp(r) ==
    /\ pc[r] = "stamp"
    /\ Clear
    /\ Leave(r)
    /\ UNCHANGED <<barred, mfa, challenged, overlapped>>

\* The transaction of resetPassword (EmailTokens) clears it too.
ResetPassword ==
    /\ Clear
    /\ UNCHANGED <<barred, mfa, challenged, overlapped, pc, req>>

\* The lock ends with time: nothing is written, the count goes on from where it is.
LockExpires ==
    /\ locked
    /\ locked' = FALSE
    /\ misses' = 0
    /\ UNCHANGED <<failed, barred, mfa, challenged, overlapped, pc, req>>

ChallengeExpires ==
    /\ challenged
    /\ challenged' = FALSE
    /\ UNCHANGED <<failed, locked, barred, mfa, misses, overlapped, pc, req>>

\* A sanction is set or lifted; the second factor is turned on or off.
SetStatus ==
    /\ barred' = ~barred
    /\ UNCHANGED <<failed, locked, mfa, challenged, misses, overlapped, pc, req>>
SetFactor ==
    /\ mfa' = ~mfa
    /\ UNCHANGED <<failed, locked, barred, challenged, misses, overlapped, pc, req>>

Abort(r) ==
    /\ pc[r] # "idle"
    /\ Leave(r)
    /\ UNCHANGED <<account, misses, overlapped>>

-----------------------------------------------------------------------------
Next ==
    \/ ResetPassword \/ LockExpires \/ ChallengeExpires \/ SetStatus \/ SetFactor
    \/ \E r \in Req :
        \/ Login(r) \/ SecondStep(r) \/ RegisterFailed(r)
        \/ PasswordRight(r) \/ FactorRight(r) \/ Stamp(r)
        \/ Abort(r)

Spec == Init /\ [][Next]_vars

-----------------------------------------------------------------------------
\* Where no two logins overlap, the account is locked after at most MaxFailed
\* failures, of passwords or of second factors. With two at a time, each may write
\* the counter back to what it had read: a fixed number of failures still locks
\* the account (20 where MaxFailed is 5). Nothing is said of three or more at a time.
LockedInTime ==
    /\ ~overlapped => misses <= MaxFailed
    /\ Cardinality(Req) = 2 => misses <= (MaxFailed * (MaxFailed + 3)) \div 2
====
