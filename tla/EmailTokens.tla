---- MODULE EmailTokens ----
(* The e-mails of one account that carry a secret: the confirmation of the   *)
(* address, with a link and a six-digit code in two rows, and the reset of   *)
(* the password, with a link only. Mail n is the n-th one whose rows were    *)
(* inserted. A code is checked in a serializable transaction that locks its  *)
(* row; everything else is a chain of single statements.                     *)
EXTENDS Naturals, FiniteSets

CONSTANTS Req,          \* requests in flight at the same time
          MaxMail,      \* bound: e-mails sent to the account
          MaxAttempts,  \* MAX_CODE_ATTEMPTS
          None

BoundsAssumption == MaxMail \in Nat /\ MaxAttempts \in Nat \ {0}
NoneFresh == None \notin Req \cup Nat

Mail == 1..MaxMail
Type == {"verify_email", "reset_password"}
RowState == {"absent", "unused", "used"}
PC == {"idle", "invalidate", "insert", "consume", "verify", "reset", "wait", "code"}

VARIABLES
    type,       \* what each mail is for
    link, code, \* its rows in email_tokens
    attempts,   \* wrong codes counted on the code row
    expired,    \* mails past their term
    lock,       \* the request whose transaction holds the code row
    verified,   \* users.email_verified
    compared,   \* history: wrong codes that were compared with each code row
    author,     \* history: the request that inserted each mail
    pc, req     \* next step of each request, and what it remembers

tokens == <<type, link, code, attempts, expired, author>>
vars == <<type, link, code, attempts, expired, lock, verified, compared,
          author, pc, req>>

Ask(t, n, guess, seen) == [type |-> t, mail |-> n, guess |-> guess, seen |-> seen]
Blank == Ask("verify_email", None, None, 0)
Request == [type : Type, mail : Mail \cup {None}, guess : Mail \cup {None}, seen : Nat]

TypeOK ==
    /\ type \in [Mail -> Type]
    /\ link \in [Mail -> RowState]
    /\ code \in [Mail -> RowState]
    /\ attempts \in [Mail -> 0..MaxAttempts]
    /\ expired \subseteq Mail
    /\ lock \in [Mail -> Req \cup {None}]
    /\ verified \in BOOLEAN
    /\ compared \in [Mail -> Nat]
    /\ author \in [Mail -> Req \cup {None}]
    /\ pc \in [Req -> PC]
    /\ req \in [Req -> Request]

Init ==
    /\ type = [n \in Mail |-> "verify_email"]
    /\ link = [n \in Mail |-> "absent"]
    /\ code = [n \in Mail |-> "absent"]
    /\ attempts = [n \in Mail |-> 0]
    /\ expired = {}
    /\ lock = [n \in Mail |-> None]
    /\ verified = FALSE
    /\ compared = [n \in Mail |-> 0]
    /\ author = [n \in Mail |-> None]
    /\ pc = [r \in Req |-> "idle"]
    /\ req = [r \in Req |-> Blank]

-----------------------------------------------------------------------------
Sent == {n \in Mail : link[n] # "absent"}

Enter(r, step, rec) ==
    /\ pc[r] = "idle"
    /\ pc' = [pc EXCEPT ![r] = step]
    /\ req' = [req EXCEPT ![r] = rec]

Goto(r, step) ==
    /\ pc' = [pc EXCEPT ![r] = step]
    /\ UNCHANGED req

Leave(r) ==
    /\ pc' = [pc EXCEPT ![r] = "idle"]
    /\ req' = [req EXCEPT ![r] = Blank]

Unlock(r) == lock' = [n \in Mail |-> IF lock[n] = r THEN None ELSE lock[n]]

-----------------------------------------------------------------------------
(* create and createWithCode.                                                *)

\* An account that is already verified is sent no confirmation.
Send(r, t) ==
    /\ t = "verify_email" => ~verified
    /\ Enter(r, "invalidate", Ask(t, None, None, 0))
    /\ UNCHANGED <<tokens, lock, verified, compared>>

\* The unused rows of the type are marked used, links and codes alike; the
\* statement waits for a row that a transaction holds. (Bug: only links are.)
InvalidateBug(r) ==
    LET S == {n \in Mail : type[n] = req[r].type} IN
    /\ pc[r] = "invalidate"
    /\ \A n \in S : lock[n] = None
    /\ link' = [n \in Mail |-> IF n \in S /\ link[n] = "unused" THEN "used" ELSE link[n]]
    /\ Goto(r, "insert")
    /\ UNCHANGED <<type, code, attempts, expired, lock, verified, compared, author>>
Invalidate(r) ==
    LET S == {n \in Mail : type[n] = req[r].type}
        Used(row) == [n \in Mail |-> IF n \in S /\ row[n] = "unused" THEN "used" ELSE row[n]]
    IN
    /\ pc[r] = "invalidate"
    /\ \A n \in S : lock[n] = None
    /\ link' = Used(link) /\ code' = Used(code)
    /\ Goto(r, "insert")
    /\ UNCHANGED <<type, attempts, expired, lock, verified, compared, author>>

Insert(r, n) ==
    /\ pc[r] = "insert"
    /\ n \notin Sent /\ \A m \in Mail : m < n => m \in Sent
    /\ type' = [type EXCEPT ![n] = req[r].type]
    /\ link' = [link EXCEPT ![n] = "unused"]
    /\ code' = [code EXCEPT ![n] = IF req[r].type = "verify_email" THEN "unused" ELSE "absent"]
    /\ author' = [author EXCEPT ![n] = r]
    /\ Leave(r)
    /\ UNCHANGED <<attempts, expired, lock, verified, compared>>

Elapse(n) ==
    /\ n \in Sent \ expired
    /\ expired' = expired \cup {n}
    /\ UNCHANGED <<type, link, code, attempts, lock, verified, compared, author,
                   pc, req>>

-----------------------------------------------------------------------------
(* The link: consume, then verifyEmail or resetPassword.                     *)

LinkRead(r, n) ==
    /\ link[n] = "unused" /\ n \notin expired
    /\ Enter(r, "consume", Ask(type[n], n, None, 0))
    /\ UNCHANGED <<tokens, lock, verified, compared>>

\* The row is updated by its id, whatever became of it since it was read.
Consume(r) ==
    /\ pc[r] = "consume" /\ req[r].mail # None
    /\ link' = [link EXCEPT ![req[r].mail] = "used"]
    /\ Goto(r, IF req[r].type = "verify_email" THEN "verify" ELSE "reset")
    /\ UNCHANGED <<type, code, attempts, expired, lock, verified, compared, author>>

\* verifyEmail and verifyEmailCode; the welcome mail is left out.
Verify(r) ==
    /\ pc[r] = "verify"
    /\ verified' = TRUE
    /\ Leave(r)
    /\ UNCHANGED <<tokens, lock, compared>>

\* The transaction of resetPassword, on the user and the refresh tokens.
ResetPassword(r) ==
    /\ pc[r] = "reset"
    /\ Leave(r)
    /\ UNCHANGED <<tokens, lock, verified, compared>>

\* A sign-in by OAuth that links the account verifies its address.
OAuthLink ==
    /\ ~verified
    /\ verified' = TRUE
    /\ UNCHANGED <<tokens, lock, compared, pc, req>>

-----------------------------------------------------------------------------
(* The code: consumeCode, in a serializable transaction.                     *)

Candidates == {n \in Mail : type[n] = "verify_email" /\ code[n] = "unused"}

\* The newest unused code row is selected FOR UPDATE. guess is the mail whose
\* code was typed, None for a code that no mail has. (Bug: the row is not locked.)
CodeReadBug(r, n, guess) ==
    /\ n \in Candidates /\ \A m \in Candidates : m <= n
    /\ n \notin expired
    /\ Enter(r, "code", Ask("verify_email", n, guess, attempts[n]))
    /\ UNCHANGED <<tokens, lock, verified, compared>>
CodeRead(r, n, guess) ==
    /\ n \in Candidates /\ \A m \in Candidates : m <= n
    /\ n \notin expired
    /\ LET rec == Ask("verify_email", n, guess, attempts[n]) IN
        IF lock[n] = None
        THEN Enter(r, "code", rec) /\ lock' = [lock EXCEPT ![n] = r]
        ELSE Enter(r, "wait", rec) /\ UNCHANGED lock
    /\ UNCHANGED <<tokens, verified, compared>>

\* A transaction that waited gets the row as it was, or a serialization failure.
Wake(r) ==
    LET n == req[r].mail IN
    /\ pc[r] = "wait" /\ n # None
    /\ lock[n] = None
    /\ IF code[n] = "unused" /\ attempts[n] = req[r].seen
       THEN Goto(r, "code") /\ lock' = [lock EXCEPT ![n] = r]
       ELSE Leave(r) /\ UNCHANGED lock
    /\ UNCHANGED <<tokens, verified, compared>>

\* A wrong code is counted and burns the row at the last one allowed, so that
\* no unused row has MaxAttempts. (Bug: the row is burned one miss too late.)
CodeWrongBug(r) ==
    LET n == req[r].mail IN
    /\ pc[r] = "code" /\ n # None
    /\ req[r].guess # n
    /\ attempts' = [attempts EXCEPT ![n] = req[r].seen + 1]
    /\ code' = [code EXCEPT ![n] = IF req[r].seen + 1 > MaxAttempts THEN "used" ELSE "unused"]
    /\ compared' = [compared EXCEPT ![n] = @ + 1]
    /\ Unlock(r)
    /\ Leave(r)
    /\ UNCHANGED <<type, link, expired, verified, author>>
CodeWrong(r) ==
    LET n == req[r].mail IN
    /\ pc[r] = "code" /\ n # None
    /\ req[r].guess # n
    /\ attempts' = [attempts EXCEPT ![n] = req[r].seen + 1]
    /\ code' = [code EXCEPT ![n] = IF req[r].seen + 1 >= MaxAttempts THEN "used" ELSE "unused"]
    /\ compared' = [compared EXCEPT ![n] = @ + 1]
    /\ Unlock(r)
    /\ Leave(r)
    /\ UNCHANGED <<type, link, expired, verified, author>>

CodeRight(r) ==
    LET n == req[r].mail IN
    /\ pc[r] = "code" /\ n # None
    /\ req[r].guess = n
    /\ code' = [code EXCEPT ![n] = "used"]
    /\ Unlock(r)
    /\ Goto(r, "verify")
    /\ UNCHANGED <<type, link, attempts, expired, verified, compared, author>>

\* A request fails, or the server stops: an open transaction is rolled back.
Abort(r) ==
    /\ pc[r] # "idle"
    /\ Unlock(r)
    /\ Leave(r)
    /\ UNCHANGED <<tokens, verified, compared>>

-----------------------------------------------------------------------------
Next ==
    \/ OAuthLink
    \/ \E n \in Mail : Elapse(n)
    \/ \E r \in Req :
        \/ \E t \in Type : Send(r, t)
        \/ Invalidate(r)
        \/ \E n \in Mail : Insert(r, n)
        \/ \E n \in Mail : LinkRead(r, n)
        \/ Consume(r)
        \/ Verify(r)
        \/ ResetPassword(r)
        \/ \E n \in Mail, guess \in Mail \cup {None} : CodeRead(r, n, guess)
        \/ Wake(r)
        \/ CodeWrong(r)
        \/ CodeRight(r)
        \/ Abort(r)

Spec == Init /\ [][Next]_vars

-----------------------------------------------------------------------------
\* However many guesses are fired at once, at most MaxAttempts wrong codes are
\* ever compared with one row, which is dead from then on, although a wrong guess
\* writes used_at back to null on the row it had read.
GuessesBounded ==
    \A n \in Mail : /\ compared[n] <= MaxAttempts
                   /\ compared[n] = MaxAttempts => code[n] = "used"

\* Two mails of one type are exchangeable together only if two requests made
\* them at the same time: nobody's resend leaves an earlier mail of theirs alive.
ResendsDoNotPile ==
    \A m, n \in Mail :
        /\ m # n /\ type[m] = type[n]
        /\ "unused" \in {link[m], code[m]} /\ "unused" \in {link[n], code[n]}
        => author[m] # author[n]
====
