---- MODULE MCAccountSecurity ----
(* The parts of the security of one account, checked side by side: each      *)
(* behaviour is one of MobileSession, of EmailTokens, of LoginLockout or of  *)
(* SecondFactor, and the other parts stay as they began.                     *)
EXTENDS MobileSession, TLC

CONSTANTS Req, MaxMail, MaxAttempts, None, MaxFailed, MaxCount, Secret, Recovery

VARIABLES part,
          type, link, code, attempts, expired, lock, verified, compared,
          author, mailPc, mailReq,
          failed, locked, barred, mfa, challenged, misses, overlapped, loginPc, loginReq,
          enabled, secret, codes, confirmed, early, crossed, factorPc, factorReq

Mails == INSTANCE EmailTokens WITH pc <- mailPc, req <- mailReq
Logins == INSTANCE LoginLockout WITH pc <- loginPc, req <- loginReq
Factor == INSTANCE SecondFactor WITH pc <- factorPc, req <- factorReq

mails == <<type, link, code, attempts, expired, lock, verified, compared,
           author, mailPc, mailReq>>
logins == <<failed, locked, barred, mfa, challenged, misses, overlapped, loginPc, loginReq>>
factor == <<enabled, secret, codes, confirmed, early, crossed, factorPc, factorReq>>
phone == vars

ASSUME PartsAssumption ==
    /\ PhoneAssumption
    /\ Mails!BoundsAssumption /\ Mails!NoneFresh
    /\ Logins!BoundsAssumption /\ Factor!NoneFresh

\* The requests are alike, and the accounts used on the phone.
Interchangeable == Permutations(Req) \cup Permutations(User)

MCInit ==
    /\ part \in {"mails", "logins", "factor", "phone"}
    /\ Init /\ Mails!Init /\ Logins!Init /\ Factor!Init

\* Bound: no account signs in on the phone once another is gone.
Small == (\E p \in 1..MaxPairs : Gone(p)) => ui' # "signing"

MCNext ==
    /\ UNCHANGED part
    /\ \/ part = "mails" /\ Mails!Next /\ UNCHANGED <<logins, factor, phone>>
       \/ part = "logins" /\ Logins!Next /\ UNCHANGED <<mails, factor, phone>>
       \/ part = "factor" /\ Factor!Next /\ UNCHANGED <<mails, logins, phone>>
       \/ part = "phone" /\ Next /\ Small /\ UNCHANGED <<mails, logins, factor>>

MCSpec == MCInit /\ [][MCNext]_<<part, mails, logins, factor, phone>>

-----------------------------------------------------------------------------
\* The properties of the parts, stated and explained in their modules.
PartsTyped == TypeOK /\ Mails!TypeOK /\ Logins!TypeOK /\ Factor!TypeOK
GuessesBounded == Mails!GuessesBounded
ResendsDoNotPile == Mails!ResendsDoNotPile
LockedInTime == Logins!LockedInTime
EnrolledCanAnswer == Factor!EnrolledCanAnswer
SecondUseOverlaps == Factor!SecondUseOverlaps
====
