---- MODULE AccountSecurityProofs ----
(* The security of one account, for any number of requests, mails, attempts, *)
(* codes and pairs of tokens: the session of the phone, the secrets sent by  *)
(* e-mail, the lock of the login and the second factor. Each part has an     *)
(* inductive invariant of its own; they meet in the last section.            *)
EXTENDS MCAccountSecurity, FiniteSetTheorems, TLAPS

\* What is assumed of the constants, by part.
LEMMA PhoneAssumed ==
  NoOne \notin User /\ Front \notin Back /\ MaxPairs \in Nat /\ MaxFaults \in Nat
  BY PartsAssumption DEF PhoneAssumption
LEMMA MailBounds == MaxMail \in Nat /\ MaxAttempts \in Nat \ {0}
  BY PartsAssumption DEF Mails!BoundsAssumption
LEMMA MailNone == None \notin Req \cup Nat
  BY PartsAssumption DEF Mails!NoneFresh
LEMMA SameFinite == \A S : Logins!IsFiniteSet(S) <=> IsFiniteSet(S)
  BY DEF Logins!IsFiniteSet, IsFiniteSet
LEMMA SameCount == \A S : Logins!Cardinality(S) = Cardinality(S)
  BY DEF Logins!Cardinality, Cardinality
LEMMA LoginAssumed == MaxFailed \in Nat \ {0} /\ MaxCount \in Nat /\ IsFiniteSet(Req)
  BY PartsAssumption, SameFinite DEF Logins!BoundsAssumption
LEMMA FactorAssumed == None \notin Secret \cup Recovery
  BY PartsAssumption DEF Factor!NoneFresh
-----------------------------------------------------------------------------
(* The phone: what the invariant says.                                       *)

\* The pairs the phone has in its store, or is exchanging.
OnPhone == {vault.access, vault.refresh, flight.from, flight.to} \ {NoPair}
Heir(u) == \A p \in OnPhone : holder[p] = u

\* The pairs that the phone or one of its requests speaks for.
Known == (OnPhone \cup {call[c].token : c \in Call}) \ {NoPair}

\* A refresh under way presents a pair that was issued, and gets another; so was
\* every pair a request goes out with, each to an account.
FlightKept ==
    /\ flight.stage = "idle" => flight = Landed
    /\ flight.stage = "sent" => flight.from \in Pair
    /\ flight.stage = "served" => flight.to \in Pair /\ row[flight.to] # "used"
    /\ \A p \in Known : row[p] # "none" /\ holder[p] # NoOne

\* A spent token is left in the store only while its successor is on the way.
SpentOnlyMissed ==
    vault.refresh # NoPair /\ row[vault.refresh] = "used" => missed \/ flight.stage = "served"

\* The pair of a sign-in is stored nowhere before the sign-in ends.
PairInHand ==
    ui = "signing" =>
        /\ about.pair \in Pair \ OnPhone
        /\ row[about.pair] \notin {"none", "used"}
        /\ holder[about.pair] = about.who /\ about.who # NoOne
        /\ left = NoOne

\* What the user waits for, and what a start of the application finds.
Awaited(state) == CASE state = "me" -> "me" [] state = "detaching" -> "detach"
                    [] state = "leaving" -> "logout" [] state = "deleting" -> "delete"
FrontKept ==
    /\ ui \in {"boot", "ready", "signing", "erasing"} => call[Front] = Idle
    /\ ui \in {"me", "detaching", "leaving", "deleting"} =>
           call[Front].kind = Awaited(ui) /\ call[Front].stage \in {"sent", "served", "await", "done"}
    /\ ui \in {"boot", "me"} => screen = NoOne
    /\ ui \in {"boot", "me"} => \A c \in Back : call[c] = Idle
    /\ ui = "boot" => flight.stage = "idle"
    /\ ui = "me" /\ flight.stage # "idle" => call[Front].stage = "await"
    /\ ui \in {"detaching", "deleting", "leaving"} => about.who # NoOne
    /\ ui \in {"boot", "me", "ready"} => about.who = NoOne

\* The profile kept for opening offline goes with the tokens.
ProfileKept ==
    /\ ~torn /\ cached # NoOne /\ ui # "erasing" => vault.access # NoPair
    /\ ~torn /\ (screen = NoOne \/ ui = "signing") /\ ui \notin {"boot", "me", "erasing"} => cached = NoOne
    /\ ui = "me" /\ (call[Front].stage = "done" => call[Front].reply # "refused") => vault.access # NoPair

\* A store that a sign-out has cleared stays clear while the other one is.
ErasingKept ==
    /\ ui # "erasing" => erasing = {}
    /\ ui = "erasing" /\ "profile" \notin erasing => cached = NoOne
    /\ ui = "erasing" /\ "tokens" \notin erasing /\ ~late => vault = Empty /\ flight.stage = "idle"

\* One account: the tokens, the profile and the start of the application are of
\* the same one, and so are the screen and the editions of the profile.
OneAccount ==
    ~late /\ ~torn =>
        /\ \A p, q \in OnPhone : holder[p] = holder[q]
        /\ cached # NoOne => Heir(cached)
        /\ ui = "me" /\ call[Front].token # NoPair => Heir(holder[call[Front].token])
        /\ ui = "me" /\ call[Front].stage \in {"served", "done"} /\ call[Front].reply = "ok" =>
               Heir(call[Front].who)
Edit(c) == call[c].kind = "save" /\ call[c].stage # "idle"
Agreed(c) == Edit(c) /\ call[c].stage = "served" /\ call[c].reply = "ok"
EditsKept ==
    /\ \A c \in Back : Agreed(c) => call[c].who # NoOne
    /\ ~Astray =>
           /\ screen # NoOne => Heir(screen)
           /\ \A c \in Back : Edit(c) /\ call[c].token # NoPair => Heir(holder[call[c].token])
           /\ \A c \in Back : Agreed(c) => Heir(call[c].who)

\* A sign-out under way speaks for the account it began with, and unless the
\* phone may ring on, nothing attaches the phone to it again.
SigningOut ==
    ui \in {"detaching", "deleting"} /\ ~ringing =>
        /\ Heir(about.who)
        /\ call[Front].token # NoPair => holder[call[Front].token] = about.who
        /\ call[Front].stage \in {"served", "done"} /\ call[Front].reply = "ok" =>
               attached # about.who
Ending == {"detaching", "deleting", "leaving", "erasing"}
Quiet ==
    /\ ui \in Ending => left = NoOne
    /\ ui \in Ending /\ ~ringing => ~Registering
    /\ ui \in {"leaving", "erasing"} /\ about.who # NoOne /\ ~ringing => attached # about.who
    /\ left # NoOne /\ ~late =>
           /\ ui \in {"boot", "ready"} /\ flight.stage = "idle"
           /\ vault = Empty /\ cached = NoOne
           /\ ~saving => screen = NoOne /\ ~Saving
           /\ ~ringing => ~Registering /\ attached # left
-----------------------------------------------------------------------------
(* The phone: types.                                                         *)

\* Records of requests, and what a step makes of one.
LEMMA RequestForms ==
  ASSUME TypeOK
  PROVE  /\ Idle \in Request
         /\ \A k \in Kind, r \in {"ok", "refused", "lost"} : Done(k, r) \in Request
         /\ \A k \in Kind : Sent(k) \in Request
         /\ \A k \in Kind, p \in Pair : [Sent(k) EXCEPT !.body = p] \in Request
<1> USE DEF Idle, Done, Sent, Request, Stage, NoPair
<1>1. Idle \in Request
  BY DEF Kind
<1>2. \A k \in Kind, r \in {"ok", "refused", "lost"} : Done(k, r) \in Request
  OBVIOUS
<1>3. vault.access \in Pair \cup {NoPair}
  BY DEF TypeOK
<1>4. \A k \in Kind : Sent(k) \in Request
  BY <1>3
<1>5. \A k \in Kind, p \in Pair : [Sent(k) EXCEPT !.body = p] \in Request
  BY <1>3
<1> QED
  BY <1>1, <1>2, <1>4, <1>5

\* What is known of the request c after a step that touches no other request.
OneCall(c, rec) == call' = [call EXCEPT ![c] = rec]

LEMMA OneCallTyped ==
  ASSUME TypeOK, NEW c \in Call, NEW rec \in Request, OneCall(c, rec)
  PROVE  /\ call' \in [Call -> Request]
         /\ call'[c] = rec
         /\ \A d \in Call \ {c} : call'[d] = call[d]
  BY DEF OneCall, TypeOK

LEMMA EndedForm ==
  ASSUME TypeOK, NEW c \in Call, NEW r \in {"ok", "refused", "lost"}
  PROVE  /\ Ended(r, c) \in Request
         /\ c \in Back => Ended(r, c) = Idle
         /\ c \notin Back =>
              /\ Ended(r, c).stage = "done" /\ Ended(r, c).kind = call[c].kind
              /\ Ended(r, c).reply = r /\ Ended(r, c).token = NoPair
              /\ r = "ok" => Ended(r, c).who = call[c].who
<1>1. call[c] \in Request
  BY DEF TypeOK
<1>2. CASE c \in Back
  BY <1>2, RequestForms DEF Ended
<1>3. CASE c \notin Back
  BY <1>1, <1>3 DEF Ended, Done, Idle, Request, Stage, NoPair
<1> QED
  BY <1>2, <1>3

\* Serve, Answer, Join, JoinEmpty, Lose, Send and Ask: one request moves on.
LEMMA ServeCall ==
  ASSUME TypeOK, NEW c \in Call, Serve(c)
  PROVE  \E r \in {"ok", "refused", "lost"}, u \in User \cup {NoOne} :
            /\ OneCall(c, [call[c] EXCEPT !.stage = "served", !.reply = r, !.who = u])
            /\ [call[c] EXCEPT !.stage = "served", !.reply = r, !.who = u] \in Request
            /\ r = "ok" => call[c].token \in Pair /\ u = holder[call[c].token]
<1>1. call[c] \in Request /\ call \in [Call -> Request]
  BY DEF TypeOK
<1>2. ASSUME NEW r \in {"ok", "refused", "lost"}, NEW u \in User \cup {NoOne}
      PROVE  /\ [call EXCEPT ![c].stage = "served", ![c].reply = r, ![c].who = u]
                = [call EXCEPT ![c] = [call[c] EXCEPT !.stage = "served", !.reply = r, !.who = u]]
             /\ [call[c] EXCEPT !.stage = "served", !.reply = r, !.who = u] \in Request
  BY <1>1 DEF Request, Stage
<1>3. \A p \in Pair : holder[p] \in User \cup {NoOne}
  BY DEF TypeOK
<1>4. CASE call' = [call EXCEPT ![c].stage = "served", ![c].reply = "refused", ![c].who = NoOne]
  BY <1>2, <1>4 DEF OneCall
<1>5. CASE call' = [call EXCEPT ![c].stage = "served", ![c].reply = "lost", ![c].who = NoOne]
  BY <1>2, <1>5 DEF OneCall
<1>6. CASE /\ call[c].token \in Pair
           /\ call' = [call EXCEPT ![c].stage = "served", ![c].reply = "ok", ![c].who = holder[call[c].token]]
  BY <1>2, <1>3, <1>6 DEF OneCall
<1> QED
  BY <1>4, <1>5, <1>6, Zenon DEF Serve

LEMMA JoinCall ==
  ASSUME TypeOK, NEW c \in Call, Join(c)
  PROVE  LET rec == [call[c] EXCEPT !.stage = "await", !.retried = TRUE,
                                    !.token = NoPair, !.reply = "lost"]
         IN  OneCall(c, rec) /\ rec \in Request
<1>1. call[c] \in Request /\ call \in [Call -> Request]
  BY DEF TypeOK
<1> QED
  BY <1>1 DEF Join, Await, OneCall, Request, Stage

LEMMA OtherCalls ==
  ASSUME TypeOK, NEW c \in Call
  PROVE  /\ Answer(c) => \E r \in {"ok", "refused", "lost"} : OneCall(c, Ended(r, c)) /\ r = call[c].reply
         /\ JoinEmpty(c) => OneCall(c, Ended("refused", c))
         /\ Lose(c) => OneCall(c, Ended("lost", c))
         /\ Send(c) => call[c].kind \in Kind /\ OneCall(c, Sent(call[c].kind))
         /\ Ask(c) => \E k \in {"read", "save"} : OneCall(c, Sent(k))
<1>1. call[c] \in Request /\ call \in [Call -> Request]
  BY DEF TypeOK
<1>2. Answer(c) => \E r \in {"ok", "refused", "lost"} : OneCall(c, Ended(r, c)) /\ r = call[c].reply
  <2>1. call[c].reply \in {"ok", "refused", "lost"}
    BY <1>1 DEF Request
  <2>2. Answer(c) => OneCall(c, Ended(call[c].reply, c))
    BY <1>1 DEF Answer, OneCall, Ended, Request
  <2> QED
    BY <2>1, <2>2
<1>3. /\ JoinEmpty(c) => OneCall(c, Ended("refused", c))
      /\ Lose(c) => OneCall(c, Ended("lost", c))
  BY DEF JoinEmpty, Lose, OneCall
<1>4. Send(c) => call[c].kind \in Kind /\ OneCall(c, Sent(call[c].kind))
  BY <1>1 DEF Send, OneCall, Request
<1>5. Ask(c) => \E k \in {"read", "save"} : OneCall(c, Sent(k))
  BY DEF Ask, Open, OneCall
<1> QED
  BY <1>2, <1>3, <1>4, <1>5

\* The end of a refresh: those who wait go on with the new pair, or end.
LEMMA FlightCalls ==
  ASSUME TypeOK
  PROVE  /\ \A p \in Pair \cup {NoPair} : Retry(p) =>
              /\ call' \in [Call -> Request]
              /\ \A c \in Call :
                   IF call[c].stage = "await"
                   THEN /\ call'[c].stage = "sent" /\ call'[c].token = p
                        /\ call'[c].kind = call[c].kind
                   ELSE call'[c] = call[c]
         /\ \A r \in {"refused", "lost"} : Fail(r) =>
              /\ call' \in [Call -> Request]
              /\ \A c \in Call : call'[c] = IF call[c].stage = "await" THEN Ended(r, c) ELSE call[c]
<1>1. \A c \in Call : call[c] \in Request
  BY DEF TypeOK
<1>2. ASSUME NEW p \in Pair \cup {NoPair}, NEW c \in Call
      PROVE  /\ [call[c] EXCEPT !.stage = "sent", !.token = p] \in Request
             /\ [call[c] EXCEPT !.stage = "sent", !.token = p].stage = "sent"
             /\ [call[c] EXCEPT !.stage = "sent", !.token = p].token = p
             /\ [call[c] EXCEPT !.stage = "sent", !.token = p].kind = call[c].kind
  BY <1>1 DEF Request, Stage
<1>3. \A r \in {"refused", "lost"}, c \in Call : Ended(r, c) \in Request
  BY EndedForm
<1>4. ASSUME NEW p \in Pair \cup {NoPair}, Retry(p)
      PROVE  /\ call' \in [Call -> Request]
             /\ \A c \in Call :
                   IF call[c].stage = "await"
                   THEN /\ call'[c].stage = "sent" /\ call'[c].token = p
                        /\ call'[c].kind = call[c].kind
                   ELSE call'[c] = call[c]
  <2> DEFINE Next1(c) == IF c \in Waiting THEN [call[c] EXCEPT !.stage = "sent", !.token = p]
                         ELSE call[c]
  <2>1. call' = [c \in Call |-> Next1(c)]
    BY <1>4 DEF Retry
  <2>2. \A c \in Call : Next1(c) \in Request
    BY <1>1, <1>2
  <2> HIDE DEF Next1
  <2>3. call' \in [Call -> Request] /\ \A c \in Call : call'[c] = Next1(c)
    BY <2>1, <2>2
  <2>4. ASSUME NEW c \in Call, call[c].stage = "await"
        PROVE  /\ call'[c].stage = "sent" /\ call'[c].token = p
               /\ call'[c].kind = call[c].kind
    <3>1. call'[c] = [call[c] EXCEPT !.stage = "sent", !.token = p]
      BY <2>3, <2>4 DEF Next1, Waiting
    <3> QED
      BY <1>1, <3>1 DEF Request, Stage
  <2>5. ASSUME NEW c \in Call, call[c].stage # "await"
        PROVE  call'[c] = call[c]
    BY <2>3, <2>5 DEF Next1, Waiting
  <2> QED
    BY <2>3, <2>4, <2>5
<1>5. ASSUME NEW r \in {"refused", "lost"}, Fail(r)
      PROVE  /\ call' \in [Call -> Request]
             /\ \A c \in Call : call'[c] = IF call[c].stage = "await" THEN Ended(r, c) ELSE call[c]
  BY <1>1, <1>3, <1>5 DEF Fail, Waiting
<1> QED
  BY <1>4, <1>5

\* Registering in the background touches one idle request of the screens.
LEMMA KickoffCalls ==
  ASSUME TypeOK, NEW calls \in [Call -> Request], Kickoff(calls),
         \A c \in Back : calls[c] = call[c]
  PROVE  /\ call' \in [Call -> Request]
         /\ call'[Front] = calls[Front]
         /\ \A c \in Back : \/ call'[c] = call[c]
                            \/ /\ call'[c].stage = "open" /\ call'[c].kind = "register"
                               /\ call'[c].token = call[c].token
<1>1. CASE call' = calls
  BY <1>1 DEF Call
<1>2. ASSUME NEW c \in Back, call' = [calls EXCEPT ![c].stage = "open", ![c].kind = "register"]
      PROVE  /\ call' \in [Call -> Request]
             /\ call'[Front] = calls[Front]
             /\ \A d \in Back : \/ call'[d] = call[d]
                                \/ /\ call'[d].stage = "open" /\ call'[d].kind = "register"
                                   /\ call'[d].token = call[d].token
  <2>1. c \in Call /\ c # Front /\ calls[c] \in Request /\ calls[c] = call[c]
    BY <1>2, PhoneAssumed DEF Call
  <2>2. call' = [calls EXCEPT ![c] = [calls[c] EXCEPT !.stage = "open", !.kind = "register"]]
    BY <1>2, <2>1 DEF Request
  <2>3. LET rec == [calls[c] EXCEPT !.stage = "open", !.kind = "register"]
        IN  /\ rec \in Request /\ rec.stage = "open" /\ rec.kind = "register"
            /\ rec.token = call[c].token
    BY <2>1 DEF Request, Stage, Kind
  <2> QED
    BY <2>1, <2>2, <2>3 DEF Call
<1> QED
  BY <1>1, <1>2 DEF Kickoff

\* The type invariant in three parts: the rows, the requests, and the rest.
RowsTyped ==
    /\ row \in [Pair -> {"none", "live", "used", "revoked", "gone"}]
    /\ holder \in [Pair -> User \cup {NoOne}]
    /\ dead \subseteq Pair
    /\ attached \in User \cup {NoOne}
StoreTyped ==
    /\ {cached, screen} \subseteq User \cup {NoOne}
    /\ vault \in [access : Pair \cup {NoPair}, refresh : Pair \cup {NoPair}]
    /\ about \in [who : User \cup {NoOne}, way : {"password", "provider"},
                     pair : Pair \cup {NoPair}]
    /\ flight \in [stage : {"idle", "sent", "served", "refused"},
                   from : Pair \cup {NoPair}, to : Pair \cup {NoPair}]
    /\ left \in User \cup {NoOne}
    /\ ui \in {"boot", "me", "ready", "signing", "detaching", "leaving", "deleting", "erasing"}
    /\ erasing \subseteq {"tokens", "profile"}
FlagsTyped ==
    /\ remembered \in BOOLEAN
    /\ {late, torn, saving, ringing, missed} \subseteq BOOLEAN
    /\ faults \in 0..MaxFaults
LEMMA TypeParts ==
  TypeOK <=> RowsTyped /\ StoreTyped /\ FlagsTyped /\ call \in [Call -> Request]
  BY DEF TypeOK, RowsTyped, StoreTyped, FlagsTyped

LEMMA SmallRecords ==
  /\ Empty \in [access : Pair \cup {NoPair}, refresh : Pair \cup {NoPair}]
  /\ Landed \in [stage : {"idle", "sent", "served", "refused"},
                 from : Pair \cup {NoPair}, to : Pair \cup {NoPair}]
  /\ Nobody \in [who : User \cup {NoOne}, way : {"password", "provider"},
                 pair : Pair \cup {NoPair}]
  BY DEF Empty, Landed, Nobody

LEMMA CallsTyped == TypeOK /\ [Next]_vars => call' \in [Call -> Request]
<1> SUFFICES ASSUME TypeOK, [Next]_vars PROVE call' \in [Call -> Request]
  OBVIOUS
<1>0. call \in [Call -> Request] /\ \A c \in Call : call[c] \in Request
  BY DEF TypeOK
<1>1. CASE UNCHANGED vars
  BY <1>0, <1>1 DEF vars
<1>2. ASSUME NEW c \in Call,
             Serve(c) \/ Send(c) \/ Answer(c) \/ Join(c) \/ JoinEmpty(c) \/ Lose(c) \/ Ask(c)
      PROVE  call' \in [Call -> Request]
  <2>1. \E rec \in Request : OneCall(c, rec)
    BY <1>2, ServeCall, JoinCall, OtherCalls, EndedForm, RequestForms DEF Kind
  <2> QED
    BY <2>1, OneCallTyped
<1>3. CASE Rotate \/ (\E p \in Pair : Expire(p)) \/ (\E u \in User : RevokeAll(u))
  BY <1>0, <1>3 DEF Rotate, Expire, RevokeAll, memory
<1>4. CASE FlightRefused \/ FlightSave \/ FlightLost
  BY <1>4, FlightCalls DEF FlightRefused, FlightSave, FlightLost, TypeOK
<1>5. Front \in Call /\ FrontClosed \in [Call -> Request]
      /\ \A c \in Back : FrontClosed[c] = call[c]
  BY <1>0, RequestForms, PhoneAssumed DEF FrontClosed, Call
<1>6. CASE Hydrated \/ HydrateOffline \/ SignedIn
  BY <1>0, <1>5, <1>6, KickoffCalls DEF Hydrated, HydrateOffline, SignedIn
<1>7. CASE Boot \/ DeleteAccount
  BY <1>0, <1>5, <1>7, RequestForms DEF Boot, DeleteAccount, Open, Kind
<1>8. CASE Logout \/ LogoutSend
  <2>1. vault.refresh # NoPair => vault.refresh \in Pair
    BY DEF TypeOK
  <2> QED
    BY <1>0, <1>5, <1>8, <2>1, RequestForms DEF Logout, LogoutSend, Kind
<1>9. CASE HydrateRefused \/ LogoutErase \/ Deleted \/ DeleteFailed
  BY <1>5, <1>9 DEF HydrateRefused, LogoutErase, Deleted, DeleteFailed, Erase
<1>10. CASE \/ \E u \in User, way \in {"password", "provider"}, p \in Pair : SignIn(u, way, p)
            \/ SignInLost \/ EraseTokens \/ EraseProfile \/ Erased \/ Close
  BY <1>0, <1>10 DEF SignIn, SignInLost, EraseTokens, EraseProfile, Erased, Close
<1>11. CASE Kill
  BY <1>11, RequestForms DEF Kill
<1> QED
  BY <1>1, <1>2, <1>3, <1>4, <1>6, <1>7, <1>8, <1>9, <1>10, <1>11 DEF Next

\* What the API does with a request.
LEMMA EffectTyped ==
  ASSUME TypeOK, NEW c \in Call, NEW u \in User \cup {NoOne},
         call[c].token \in Pair, Effect(c, u)
  PROVE  RowsTyped'
<1> USE DEF RowsTyped
<1>0. RowsTyped
  BY TypeParts
<1>1. CASE call[c].kind = "logout"
  BY <1>0, <1>1 DEF Effect
<1>2. CASE call[c].kind = "delete"
  BY <1>0, <1>2 DEF Effect
<1>3. CASE call[c].kind \in {"register", "detach"}
  BY <1>0, <1>3 DEF Effect
<1>4. CASE call[c].kind \notin {"logout", "delete", "register", "detach"}
  BY <1>0, <1>4 DEF Effect, server
<1> QED
  BY <1>1, <1>2, <1>3, <1>4

LEMMA RowsKept == TypeOK /\ FlightKept /\ [Next]_vars => RowsTyped'
<1> SUFFICES ASSUME TypeOK, FlightKept, [Next]_vars PROVE RowsTyped'
  OBVIOUS
<1>0. RowsTyped
  BY TypeParts
<1>1. ASSUME UNCHANGED server PROVE RowsTyped'
  BY <1>0, <1>1 DEF server, RowsTyped
<1>2. ASSUME NEW c \in Call, Serve(c) PROVE RowsTyped'
  <2>1. CASE UNCHANGED server
    BY <1>1, <2>1
  <2>2. CASE call[c].token \in Pair /\ Effect(c, holder[call[c].token])
    <3>1. holder[call[c].token] \in User \cup {NoOne}
      BY <1>0, <2>2 DEF RowsTyped
    <3> QED
      BY <2>2, <3>1, EffectTyped
  <2> QED
    BY <1>2, <2>1, <2>2, Zenon DEF Serve
<1>3. ASSUME NEW p \in Pair, NEW u \in User \cup {NoOne}, NEW rows, Issue(p, u, rows),
             rows \in [Pair -> {"none", "live", "used", "revoked", "gone"}],
             UNCHANGED <<dead, attached>>
      PROVE  RowsTyped'
  BY <1>0, <1>3 DEF Issue, RowsTyped
<1>4. \A u \in User \cup {NoOne} :
          Revoked(u) \in [Pair -> {"none", "live", "used", "revoked", "gone"}]
  BY <1>0 DEF Revoked, Gone, RowsTyped
<1>5. CASE Rotate
  <2> DEFINE p == flight.from
  <2>1. p \in Pair /\ holder[p] \in User \cup {NoOne}
    BY <1>0, <1>5 DEF Rotate, FlightKept, RowsTyped
  <2>2. UNCHANGED <<dead, attached>>
    BY <1>5 DEF Rotate
  <2> HIDE DEF p
  <2>3. [row EXCEPT ![p] = "used"] \in [Pair -> {"none", "live", "used", "revoked", "gone"}]
    BY <1>0 DEF RowsTyped
  <2>4. CASE \E q \in Pair : Issue(q, holder[p], [row EXCEPT ![p] = "used"])
    BY <1>3, <2>1, <2>2, <2>3, <2>4
  <2>5. CASE /\ row' = IF row[p] = "used" THEN Revoked(holder[p]) ELSE row
             /\ UNCHANGED holder
    BY <1>0, <1>4, <2>1, <2>2, <2>5 DEF RowsTyped
  <2> QED
    BY <1>5, <2>4, <2>5, Zenon DEF Rotate, p
<1>6. ASSUME NEW p \in Pair, Expire(p) PROVE RowsTyped'
  BY <1>0, <1>6 DEF Expire, RowsTyped
<1>7. ASSUME NEW u \in User, RevokeAll(u) PROVE RowsTyped'
  BY <1>0, <1>4, <1>7 DEF RevokeAll, RowsTyped
<1>8. ASSUME NEW u \in User, NEW way \in {"password", "provider"}, NEW p \in Pair, SignIn(u, way, p)
      PROVE  RowsTyped'
  BY <1>0, <1>3, <1>8 DEF SignIn, RowsTyped
<1>9. ASSUME NEW c \in Call, Send(c) \/ Answer(c) \/ Join(c) \/ JoinEmpty(c) \/ Lose(c) \/ Ask(c)
      PROVE  RowsTyped'
  BY <1>1, <1>9 DEF Send, Answer, Join, JoinEmpty, SessionOver, Lose, Ask
<1>10. CASE FlightRefused \/ FlightSave \/ FlightLost \/ Boot \/ Hydrated \/ HydrateRefused \/ HydrateOffline
  BY <1>1, <1>10 DEF FlightRefused, FlightSave, FlightLost, SessionOver, Boot, Hydrated,
     HydrateRefused, HydrateOffline
<1>11. CASE SignedIn \/ SignInLost \/ Logout \/ LogoutSend \/ LogoutErase \/ DeleteAccount
            \/ Deleted \/ DeleteFailed \/ EraseTokens \/ EraseProfile \/ Erased \/ Close \/ Kill
  BY <1>1, <1>11 DEF SignedIn, SignInLost, Logout, LogoutSend, LogoutErase, DeleteAccount, Deleted,
     DeleteFailed, EraseTokens, EraseProfile, Erased, Close, Kill, Erase
<1>12. CASE UNCHANGED vars
  BY <1>1, <1>12 DEF vars, server
<1> QED
  BY <1>2, <1>5, <1>6, <1>7, <1>8, <1>9, <1>10, <1>11, <1>12 DEF Next

LEMMA StoreKept == TypeOK /\ FlightKept /\ PairInHand /\ [Next]_vars => StoreTyped'
<1> SUFFICES ASSUME TypeOK, FlightKept, PairInHand, [Next]_vars PROVE StoreTyped'
  OBVIOUS
<1>0. StoreTyped
  BY TypeParts
<1>1. ASSUME UNCHANGED <<disk, screen, ui, about, erasing, flight, left>> PROVE StoreTyped'
  BY <1>0, <1>1 DEF disk, StoreTyped
<1>2. ASSUME NEW c \in Call, Serve(c) \/ Send(c) \/ Answer(c) \/ Lose(c) \/ Ask(c) PROVE StoreTyped'
  <2>1. CASE Serve(c) \/ Send(c) \/ Lose(c) \/ Ask(c)
    BY <1>1, <2>1 DEF Serve, Send, Lose, Ask, history
  <2>2. CASE Answer(c)
    <3>1. call[c].who \in User \cup {NoOne}
      BY DEF TypeOK, Request
    <3>2. screen' \in {screen, call[c].who} /\ UNCHANGED <<disk, ui, about, erasing, flight, left>>
      BY <2>2 DEF Answer, history
    <3> QED
      BY <1>0, <3>1, <3>2 DEF disk, StoreTyped
  <2> QED
    BY <1>2, <2>1, <2>2
<1>3. /\ Landed.stage = "idle" /\ vault.refresh \in Pair \cup {NoPair}
      /\ Refresh \in [stage : {"idle", "sent", "served", "refused"},
                      from : Pair \cup {NoPair}, to : Pair \cup {NoPair}]
      /\ call[Front].who \in User \cup {NoOne}
      /\ \A p \in Pair \cup {NoPair} :
            Both(p) \in [access : Pair \cup {NoPair}, refresh : Pair \cup {NoPair}]
  BY <1>0 DEF StoreTyped, Refresh, Landed, Both, TypeOK, Request, Call
<1>4. ASSUME NEW c \in Call, Join(c) PROVE StoreTyped'
  BY <1>0, <1>3, <1>4 DEF Join, StoreTyped, disk, history
<1>5. ASSUME SessionOver, flight' \in {flight, Landed} PROVE StoreTyped'
  BY <1>0, <1>5, SmallRecords DEF SessionOver, StoreTyped
<1>6. ASSUME NEW c \in Call, JoinEmpty(c) PROVE StoreTyped'
  BY <1>5, <1>6 DEF JoinEmpty
<1>7. CASE FlightRefused \/ FlightLost
  <2>1. CASE FlightRefused
    BY <1>5, <2>1 DEF FlightRefused, Fail
  <2>2. CASE FlightLost
    BY <1>0, <2>2, SmallRecords DEF FlightLost, Fail, disk, StoreTyped
  <2> QED
    BY <1>7, <2>1, <2>2
<1>8. CASE FlightSave
  BY <1>0, <1>3, <1>8, SmallRecords DEF FlightSave, Retry, StoreTyped
<1>9. CASE Rotate
  <2>1. flight' \in [stage : {"idle", "sent", "served", "refused"},
                    from : Pair \cup {NoPair}, to : Pair \cup {NoPair}]
    BY <1>0, <1>9 DEF Rotate, StoreTyped
  <2> QED
    BY <1>0, <1>9, <2>1 DEF Rotate, StoreTyped, disk, history
<1>10. CASE (\E p \in Pair : Expire(p)) \/ (\E u \in User : RevokeAll(u))
  BY <1>1, <1>10 DEF Expire, RevokeAll, memory, history
<1>11. CASE Boot \/ Hydrated \/ HydrateRefused \/ HydrateOffline
  <2>1. CASE Boot \/ HydrateOffline
    BY <1>0, <2>1 DEF Boot, HydrateOffline, StoreTyped, disk, history
  <2>2. CASE Hydrated
    BY <1>0, <1>3, <2>2 DEF Hydrated, StoreTyped, history
  <2>3. CASE HydrateRefused
    BY <1>0, <2>3 DEF HydrateRefused, Erase, StoreTyped, disk
  <2> QED
    BY <1>11, <2>1, <2>2, <2>3
<1>12. ASSUME NEW u \in User, NEW way \in {"password", "provider"}, NEW p \in Pair, SignIn(u, way, p)
       PROVE  StoreTyped'
  BY <1>0, <1>12 DEF SignIn, StoreTyped, disk
<1>13. CASE SignedIn \/ SignInLost \/ Close
  <2>1. CASE SignedIn
    BY <1>0, <1>3, <2>1, SmallRecords DEF SignedIn, StoreTyped
  <2>2. CASE SignInLost
    BY <1>0, <2>2, SmallRecords DEF SignInLost, StoreTyped, disk, history
  <2>3. CASE Close
    BY <1>0, <2>3 DEF Close, StoreTyped, disk
  <2> QED
    BY <1>13, <2>1, <2>2, <2>3
<1>14. [Nobody EXCEPT !.who = screen] \in
           [who : User \cup {NoOne}, way : {"password", "provider"}, pair : Pair \cup {NoPair}]
  BY <1>0, SmallRecords DEF StoreTyped
<1>15. CASE Logout \/ LogoutSend \/ DeleteAccount \/ DeleteFailed
  BY <1>0, <1>14, <1>15, SmallRecords DEF Logout, LogoutSend, DeleteAccount, DeleteFailed,
     StoreTyped, disk, history
<1>16. CASE LogoutErase \/ Deleted \/ EraseTokens \/ EraseProfile \/ Erased
  <2>1. CASE LogoutErase \/ Deleted
    BY <1>0, <2>1 DEF LogoutErase, Deleted, Erase, StoreTyped, disk, history
  <2>2. CASE EraseTokens \/ EraseProfile
    BY <1>0, <2>2, SmallRecords DEF EraseTokens, EraseProfile, StoreTyped, history
  <2>3. CASE Erased
    BY <1>0, <2>3, SmallRecords DEF Erased, StoreTyped, disk
  <2> QED
    BY <1>16, <2>1, <2>2, <2>3
<1>17. CASE Kill
  <2>1. vault' \in [access : Pair \cup {NoPair}, refresh : Pair \cup {NoPair}]
    BY <1>0, <1>17 DEF Kill, Written, Halves, StoreTyped
  <2> QED
    BY <1>0, <1>17, <2>1, SmallRecords DEF Kill, StoreTyped
<1>18. CASE UNCHANGED vars
  BY <1>1, <1>18 DEF vars, disk
<1> QED
  BY <1>2, <1>4, <1>6, <1>7, <1>8, <1>9, <1>10, <1>11, <1>12, <1>13, <1>15, <1>16, <1>17, <1>18
     DEF Next

LEMMA FlagsKept == TypeOK /\ [Next]_vars => FlagsTyped'
<1> SUFFICES ASSUME TypeOK, [Next]_vars PROVE FlagsTyped'
  OBVIOUS
<1>0. FlagsTyped
  BY TypeParts
<1>1. Fault => faults' \in 0..MaxFaults
  BY <1>0, PhoneAssumed DEF Fault, FlagsTyped
<1>2. CASE faults' = faults \/ Fault
  <2>1. faults' \in 0..MaxFaults
    BY <1>0, <1>1, <1>2 DEF FlagsTyped
  <2>2. remembered' \in BOOLEAN
    BY <1>0, Zenon DEF FlagsTyped, Next, vars, Serve, Send, Answer, Join, JoinEmpty, Lose, Ask,
       Rotate, FlightRefused,
       FlightSave, FlightLost, Expire, RevokeAll, Boot, Hydrated, HydrateRefused, HydrateOffline, SignIn,
       SignedIn, SignInLost, Logout, LogoutSend, LogoutErase, DeleteAccount, Deleted, DeleteFailed,
       EraseTokens, EraseProfile, Erased, Close, Kill,
       SessionOver, Erase, memory
  <2>3. late' \in BOOLEAN
    BY <1>0, Zenon DEF FlagsTyped, Next, vars, Serve, Send, Answer, Join, JoinEmpty, Lose, Ask,
       Rotate, FlightRefused,
       FlightSave, FlightLost, Expire, RevokeAll, Boot, Hydrated, HydrateRefused, HydrateOffline, SignIn,
       SignedIn, SignInLost, Logout, LogoutSend, LogoutErase, DeleteAccount, Deleted, DeleteFailed,
       EraseTokens, EraseProfile, Erased, Close, Kill,
       SessionOver, Erase, history
  <2>4. torn' \in BOOLEAN
    BY <1>0, Zenon DEF FlagsTyped, Next, vars, Serve, Send, Answer, Join, JoinEmpty, Lose, Ask,
       Rotate, FlightRefused,
       FlightSave, FlightLost, Expire, RevokeAll, Boot, Hydrated, HydrateRefused, HydrateOffline, SignIn,
       SignedIn, SignInLost, Logout, LogoutSend, LogoutErase, DeleteAccount, Deleted, DeleteFailed,
       EraseTokens, EraseProfile, Erased, Close, Kill,
       SessionOver, Erase, history
  <2>5. saving' \in BOOLEAN
    BY <1>0, Zenon DEF Saving, FlagsTyped, Next, vars, Serve, Send, Answer, Join, JoinEmpty, Lose, Ask,
       Rotate, FlightRefused,
       FlightSave, FlightLost, Expire, RevokeAll, Boot, Hydrated, HydrateRefused, HydrateOffline, SignIn,
       SignedIn, SignInLost, Logout, LogoutSend, LogoutErase, DeleteAccount, Deleted, DeleteFailed,
       EraseTokens, EraseProfile, Erased, Close, Kill,
       SessionOver, Erase, history
  <2>6. ringing' \in BOOLEAN
    BY <1>0, Zenon DEF FlagsTyped, Next, vars, Serve, Send, Answer, Join, JoinEmpty, Lose, Ask,
       Rotate, FlightRefused,
       FlightSave, FlightLost, Expire, RevokeAll, Boot, Hydrated, HydrateRefused, HydrateOffline, SignIn,
       SignedIn, SignInLost, Logout, LogoutSend, LogoutErase, DeleteAccount, Deleted, DeleteFailed,
       EraseTokens, EraseProfile, Erased, Close, Kill,
       SessionOver, Erase, history
  <2>7. missed' \in BOOLEAN
    BY <1>0, Zenon DEF FlagsTyped, Next, vars, Serve, Send, Answer, Join, JoinEmpty, Lose, Ask,
       Rotate, FlightRefused,
       FlightSave, FlightLost, Expire, RevokeAll, Boot, Hydrated, HydrateRefused, HydrateOffline, SignIn,
       SignedIn, SignInLost, Logout, LogoutSend, LogoutErase, DeleteAccount, Deleted, DeleteFailed,
       EraseTokens, EraseProfile, Erased, Close, Kill,
       SessionOver, Erase, history
  <2> QED
    BY <2>1, <2>2, <2>3, <2>4, <2>5, <2>6, <2>7, Zenon DEF FlagsTyped
<1> QED
  BY <1>2 DEF Next, vars, Serve, Send, Answer, Join, JoinEmpty, Lose, Ask, Rotate, FlightRefused,
       FlightSave, FlightLost, Expire, RevokeAll, Boot, Hydrated, HydrateRefused, HydrateOffline, SignIn,
       SignedIn, SignInLost, Logout, LogoutSend, LogoutErase, DeleteAccount, Deleted, DeleteFailed,
       EraseTokens, EraseProfile, Erased, Close, Kill,
       SessionOver, Erase
-----------------------------------------------------------------------------
(* The phone: what a step does to the rows and to the requests.              *)

\* Rows of issued pairs stay, with their holder; a row is spent by the refresh
\* that presents it, which is then answered.
LEMMA RowSteps ==
  ASSUME TypeOK, FlightKept, [Next]_vars, NEW p \in Pair
  PROVE  /\ row[p] # "none" => row'[p] # "none" /\ holder'[p] = holder[p]
         /\ row'[p] = "used" /\ row[p] # "used" =>
                flight.stage = "sent" /\ p = flight.from /\ flight'.stage = "served" /\ Rotate
<1> DEFINE Goal == /\ row[p] # "none" => row'[p] # "none" /\ holder'[p] = holder[p]
                   /\ row'[p] = "used" /\ row[p] # "used" =>
                        flight.stage = "sent" /\ p = flight.from /\ flight'.stage = "served" /\ Rotate
<1>0. row \in [Pair -> {"none", "live", "used", "revoked", "gone"}] /\ holder \in [Pair -> User \cup {NoOne}]
  BY DEF TypeOK
<1>1. ASSUME row' = row, holder' = holder PROVE Goal
  BY <1>1
<1>2. ASSUME NEW c \in Call, Serve(c) PROVE Goal
  <2>1. CASE UNCHANGED server
    BY <1>1, <2>1 DEF server
  <2>2. ASSUME NEW u, Effect(c, u) PROVE Goal
    <3>1. CASE call[c].kind = "logout"
      BY <1>0, <2>2, <3>1 DEF Effect, Gone
    <3>2. CASE call[c].kind = "delete"
      BY <1>0, <2>2, <3>2 DEF Effect
    <3>3. CASE call[c].kind \notin {"logout", "delete"}
      BY <1>1, <2>2, <3>3 DEF Effect, server
    <3> QED
      BY <3>1, <3>2, <3>3
  <2> QED
    BY <1>2, <2>1, <2>2, Zenon DEF Serve
<1>3. CASE Rotate
  <2>1. flight.from \in Pair /\ flight.stage = "sent"
    BY <1>3 DEF Rotate, FlightKept
  <2>2. CASE \E q \in Pair : /\ Issue(q, holder[flight.from], [row EXCEPT ![flight.from] = "used"])
                             /\ flight' = [flight EXCEPT !.stage = "served", !.to = q]
    BY <1>0, <1>3, <2>1, <2>2 DEF Issue, TypeOK
  <2>3. CASE /\ row' = IF row[flight.from] = "used" THEN Revoked(holder[flight.from]) ELSE row
             /\ UNCHANGED holder
    BY <1>0, <2>1, <2>3 DEF Revoked, Gone
  <2> QED
    BY <1>3, <2>2, <2>3, Zenon DEF Rotate
<1>4. ASSUME NEW u \in User, RevokeAll(u) PROVE Goal
  BY <1>0, <1>4 DEF RevokeAll, Revoked, Gone
<1>5. ASSUME NEW u \in User, NEW way \in {"password", "provider"}, NEW q \in Pair, SignIn(u, way, q)
      PROVE  Goal
  BY <1>0, <1>5 DEF SignIn, Issue
<1>6. CASE UNCHANGED server
  BY <1>1, <1>6 DEF server
<1>7. ASSUME NEW q \in Pair, Expire(q) PROVE Goal
  BY <1>1, <1>7 DEF Expire
<1>8. ASSUME NEW c \in Call, Send(c) \/ Answer(c) \/ Join(c) \/ JoinEmpty(c) \/ Lose(c) \/ Ask(c)
      PROVE  Goal
  BY <1>6, <1>8 DEF Send, Answer, Join, JoinEmpty, SessionOver, Lose, Ask
<1>9. CASE FlightRefused \/ FlightSave \/ FlightLost \/ Boot \/ Hydrated \/ HydrateRefused \/ HydrateOffline
  BY <1>6, <1>9 DEF FlightRefused, FlightSave, FlightLost, SessionOver, Boot, Hydrated,
     HydrateRefused, HydrateOffline
<1>10. CASE SignedIn \/ SignInLost \/ Logout \/ LogoutSend \/ LogoutErase \/ DeleteAccount
            \/ Deleted \/ DeleteFailed \/ EraseTokens \/ EraseProfile \/ Erased \/ Close \/ Kill
  BY <1>6, <1>10 DEF SignedIn, SignInLost, Logout, LogoutSend, LogoutErase, DeleteAccount, Deleted,
     DeleteFailed, EraseTokens, EraseProfile, Erased, Close, Kill, Erase
<1>11. CASE UNCHANGED vars
  BY <1>1, <1>11 DEF vars
<1>12. Goal
  BY <1>2, <1>3, <1>4, <1>5, <1>6, <1>7, <1>8, <1>9, <1>10, <1>11 DEF Next
<1> QED
  BY <1>12 DEF Goal

\* What a step makes of one request of the screens.
Asked(d) == /\ call[d].stage = "idle" /\ screen # NoOne /\ screen' = screen /\ ui' = ui
            /\ \E k \in {"read", "save"} : call'[d] = Sent(k)
Served(d) == /\ call[d].stage = "sent" /\ call'[d].stage = "served"
             /\ call'[d].kind = call[d].kind /\ call'[d].token = call[d].token
             /\ call'[d].reply = "ok" =>
                    call[d].token \in Pair /\ call'[d].who = holder[call[d].token]
Moved(d) == /\ call[d].stage # "idle" /\ call'[d].kind = call[d].kind
            /\ call'[d].stage \in {"sent", "await"}
            /\ call'[d].token \in OnPhone \cup {NoPair}
Started(d) == /\ ui \in {"me", "signing"} /\ ui' = "ready"
              /\ call'[d].stage = "open" /\ call'[d].kind = "register"
              /\ call'[d].token = call[d].token
LEMMA BackForms ==
  ASSUME TypeOK, [Next]_vars, NEW d \in Back
  PROVE  \/ call'[d] = call[d] \/ call'[d] = Idle
         \/ Asked(d) \/ Served(d) \/ Moved(d) \/ Started(d)
<1> DEFINE Goal == \/ call'[d] = call[d] \/ call'[d] = Idle
                   \/ Asked(d) \/ Served(d) \/ Moved(d) \/ Started(d)
<1>0. /\ d \in Call /\ d # Front
      /\ \A c \in Call : call[c] \in Request
      /\ \A c \in Back : c \in Call
  BY PhoneAssumed DEF Call, TypeOK
<1>1. ASSUME NEW c \in Call, NEW rec \in Request, OneCall(c, rec), c # d
      PROVE  Goal
  BY <1>0, <1>1, OneCallTyped
<1>2. ASSUME NEW c \in Call, Serve(c) PROVE Goal
  <2>1. PICK r \in {"ok", "refused", "lost"}, u \in User \cup {NoOne} :
            /\ OneCall(c, [call[c] EXCEPT !.stage = "served", !.reply = r, !.who = u])
            /\ [call[c] EXCEPT !.stage = "served", !.reply = r, !.who = u] \in Request
            /\ r = "ok" => call[c].token \in Pair /\ u = holder[call[c].token]
    BY <1>2, ServeCall
  <2>2. CASE c = d
    <3>1. call'[d] = [call[d] EXCEPT !.stage = "served", !.reply = r, !.who = u]
      BY <2>1, <2>2, OneCallTyped
    <3>2. /\ call'[d].stage = "served" /\ call'[d].kind = call[d].kind
          /\ call'[d].token = call[d].token /\ call'[d].reply = r /\ call'[d].who = u
      BY <1>0, <3>1 DEF Request
    <3>3. call[d].stage = "sent"
      BY <1>2, <2>2 DEF Serve
    <3> QED
      BY <2>1, <2>2, <3>2, <3>3 DEF Served
  <2> QED
    BY <1>1, <2>1, <2>2
<1>3. ASSUME NEW c \in Call, Join(c) PROVE Goal
  <2> DEFINE rec == [call[c] EXCEPT !.stage = "await", !.retried = TRUE,
                                    !.token = NoPair, !.reply = "lost"]
  <2>1. OneCall(c, rec) /\ rec \in Request
    BY <1>3, JoinCall
  <2>2. rec.stage = "await" /\ rec.kind = call[c].kind /\ rec.token = NoPair
    BY <1>0 DEF Request
  <2>3. call[c].stage # "idle"
    BY <1>3 DEF Join, Refused
  <2> HIDE DEF rec
  <2>4. call'[c] = rec /\ \A e \in Call \ {c} : call'[e] = call[e]
    BY <2>1, OneCallTyped
  <2> QED
    BY <1>0, <2>2, <2>3, <2>4 DEF Moved
<1>4. ASSUME NEW c \in Call, Answer(c) \/ JoinEmpty(c) \/ Lose(c) PROVE Goal
  <2>1. PICK r \in {"ok", "refused", "lost"} : OneCall(c, Ended(r, c))
    BY <1>4, OtherCalls
  <2>2. Ended(r, c) \in Request /\ (c = d => Ended(r, c) = Idle)
    BY EndedForm
  <2>3. call'[c] = Ended(r, c) /\ \A e \in Call \ {c} : call'[e] = call[e]
    BY <2>1, <2>2, OneCallTyped
  <2> QED
    BY <1>0, <2>2, <2>3
<1>5. ASSUME NEW c \in Call, Send(c) PROVE Goal
  <2>1. call[c].kind \in Kind /\ OneCall(c, Sent(call[c].kind))
    BY <1>5, OtherCalls
  <2>2. Sent(call[c].kind) \in Request
    BY <2>1, RequestForms
  <2>3. call'[c] = Sent(call[c].kind) /\ \A e \in Call \ {c} : call'[e] = call[e]
    BY <2>1, <2>2, OneCallTyped
  <2>4. /\ Sent(call[c].kind).kind = call[c].kind /\ Sent(call[c].kind).stage = "sent"
        /\ Sent(call[c].kind).token \in OnPhone \cup {NoPair}
    BY DEF Sent, Idle, OnPhone
  <2>5. call[c].stage # "idle"
    BY <1>5 DEF Send
  <2> QED
    BY <1>0, <2>3, <2>4, <2>5 DEF Moved
<1>6. ASSUME NEW c \in Call, Ask(c) PROVE Goal
  <2>1. PICK k \in {"read", "save"} : OneCall(c, Sent(k))
    BY <1>6, OtherCalls
  <2>2. Sent(k) \in Request
    BY RequestForms DEF Kind
  <2>3. call'[c] = Sent(k) /\ \A e \in Call \ {c} : call'[e] = call[e]
    BY <2>1, <2>2, OneCallTyped
  <2>4. call[c].stage = "idle" /\ screen # NoOne /\ screen' = screen /\ ui' = ui
    BY <1>6 DEF Ask
  <2> QED
    BY <1>0, <2>3, <2>4 DEF Asked
<1>7. CASE FlightRefused \/ FlightLost
  <2>1. PICK r \in {"refused", "lost"} : Fail(r)
    BY <1>7 DEF FlightRefused, FlightLost
  <2>2. call'[d] = IF call[d].stage = "await" THEN Ended(r, d) ELSE call[d]
    BY <1>0, <2>1, FlightCalls
  <2>3. Ended(r, d) = Idle
    BY DEF Ended
  <2> QED
    BY <2>2, <2>3
<1>8. CASE FlightSave
  <2>1. Retry(flight.to) /\ flight.to \in Pair \cup {NoPair}
    BY <1>8 DEF FlightSave, TypeOK
  <2>2. IF call[d].stage = "await"
        THEN call'[d].stage = "sent" /\ call'[d].token = flight.to /\ call'[d].kind = call[d].kind
        ELSE call'[d] = call[d]
    BY <1>0, <2>1, FlightCalls
  <2>3. flight.to \in OnPhone \cup {NoPair}
    BY DEF OnPhone
  <2> QED
    BY <2>2, <2>3 DEF Moved
<1>9. CASE Hydrated \/ HydrateOffline \/ SignedIn
  <2>1. /\ FrontClosed \in [Call -> Request] /\ call \in [Call -> Request]
        /\ \A c \in Back : FrontClosed[c] = call[c]
    BY <1>0, RequestForms, PhoneAssumed DEF FrontClosed, Call, TypeOK
  <2>2. ui \in {"me", "signing"} /\ ui' = "ready"
    BY <1>9 DEF Hydrated, HydrateOffline, SignedIn
  <2>3. CASE Kickoff(FrontClosed)
    BY <2>1, <2>2, <2>3, KickoffCalls DEF Started
  <2>4. CASE Kickoff(call)
    BY <2>1, <2>2, <2>4, KickoffCalls DEF Started
  <2>5. CASE call' = FrontClosed
    BY <2>1, <2>5
  <2> QED
    BY <1>9, <2>3, <2>4, <2>5 DEF Hydrated, HydrateOffline, SignedIn
<1>10. CASE Boot \/ Logout \/ LogoutSend \/ DeleteAccount \/ LogoutErase \/ Deleted \/ DeleteFailed \/ HydrateRefused
  BY <1>0, <1>10 DEF Boot, Open, Logout, LogoutSend, DeleteAccount, LogoutErase, Deleted,
     DeleteFailed, HydrateRefused, Erase, FrontClosed, TypeOK
<1>11. CASE Kill
  BY <1>0, <1>11 DEF Kill
<1>12. CASE \/ Rotate \/ (\E p \in Pair : Expire(p)) \/ (\E u \in User : RevokeAll(u))
            \/ \E u \in User, way \in {"password", "provider"}, p \in Pair : SignIn(u, way, p)
            \/ SignInLost \/ EraseTokens \/ EraseProfile \/ Erased \/ Close \/ UNCHANGED vars
  BY <1>12 DEF Rotate, Expire, RevokeAll, memory, SignIn, SignInLost, EraseTokens, EraseProfile,
     Erased, Close, vars
<1>13. Goal
  BY <1>2, <1>3, <1>4, <1>5, <1>6, <1>7, <1>8, <1>9, <1>10, <1>11, <1>12 DEF Next
<1> QED
  BY <1>13 DEF Goal

\* An idle request of the screens starts by Ask or, at the end of a start or of
\* a sign-in, as a registration; no other step makes a registration or an edition.
LEMMA BackSteps ==
  ASSUME TypeOK, [Next]_vars, NEW d \in Back
  PROVE  /\ call[d] = Idle =>
              \/ call'[d] = Idle
              \/ screen # NoOne /\ screen' = screen /\ ui' = ui
              \/ ui \in {"me", "signing"} /\ ui' = "ready"
         /\ call'[d].kind = "register" /\ call'[d].stage # "idle" =>
              \/ call[d].kind = "register" /\ call[d].stage # "idle"
              \/ ui \in {"me", "signing"} /\ ui' = "ready"
         /\ Edit(d)' => Edit(d) \/ (Asked(d) /\ call'[d] = Sent("save"))
         /\ call'[d].token \in OnPhone \cup {call[d].token, NoPair}
<1>1. /\ Idle.stage = "idle" /\ Idle.token = NoPair
      /\ \A k \in Kind : /\ Sent(k).kind = k /\ Sent(k).stage = "sent"
                         /\ Sent(k).token \in OnPhone \cup {NoPair}
  BY DEF Idle, Sent, OnPhone
<1>2. {"read", "save"} \subseteq Kind
  BY DEF Kind
<1>3. CASE call'[d] = call[d] \/ call'[d] = Idle
  BY <1>1, <1>3 DEF Edit
<1>4. CASE Asked(d)
  BY <1>1, <1>2, <1>4 DEF Asked, Edit
<1>5. CASE Served(d) \/ Moved(d)
  BY <1>1, <1>5 DEF Served, Moved, Edit
<1>6. CASE Started(d)
  BY <1>6 DEF Started, Edit
<1> QED
  BY <1>3, <1>4, <1>5, <1>6, BackForms

\* An edition under way goes out with a token of the phone, and is answered with
\* the account of its token.
LEMMA EditSteps ==
  ASSUME TypeOK, [Next]_vars, NEW d \in Back, Edit(d), Edit(d)'
  PROVE  /\ call'[d].token \in OnPhone \cup {call[d].token, NoPair}
         /\ call'[d].stage = "served" /\ call'[d].reply = "ok" =>
              \/ call[d].stage = "served" /\ call[d].reply = "ok" /\ call'[d].who = call[d].who
              \/ call[d].token \in Pair /\ call'[d].who = holder[call[d].token]
<1>1. Idle.stage = "idle"
  BY DEF Idle
<1>2. call'[d] # Idle /\ ~Asked(d) /\ ~Started(d)
  BY <1>1 DEF Edit, Asked, Started
<1>3. CASE call'[d] = call[d]
  BY <1>3
<1>4. CASE Served(d)
  BY <1>4 DEF Served
<1>5. CASE Moved(d)
  BY <1>5 DEF Moved
<1> QED
  BY <1>2, <1>3, <1>4, <1>5, BackForms

\* What a step makes of the request the user's operation awaits.
LEMMA FrontServed ==
  ASSUME TypeOK, NEW c \in Call, Serve(c)
  PROVE  \/ c # Front /\ call'[Front] = call[Front]
         \/ /\ c = Front
            /\ call[Front].stage = "sent" /\ call'[Front].stage = "served"
            /\ call'[Front].kind = call[Front].kind
            /\ call'[Front].token = call[Front].token
            /\ call'[Front].reply = "ok" =>
                 /\ call[Front].token \in Pair
                 /\ call'[Front].who = holder[call[Front].token]
                 /\ Effect(Front, holder[call[Front].token])
<1>0. Front \in Call /\ call[c] \in Request /\ call \in [Call -> Request]
  BY DEF Call, TypeOK
<1>1. call[c].stage = "sent"
  BY DEF Serve
<1>2. CASE c # Front
  <2>1. PICK r \in {"ok", "refused", "lost"}, u \in User \cup {NoOne} :
            /\ OneCall(c, [call[c] EXCEPT !.stage = "served", !.reply = r, !.who = u])
            /\ [call[c] EXCEPT !.stage = "served", !.reply = r, !.who = u] \in Request
    BY ServeCall
  <2> QED
    BY <1>0, <1>2, <2>1, OneCallTyped
<1>3. ASSUME NEW r, NEW u, c = Front,
             call' = [call EXCEPT ![c].stage = "served", ![c].reply = r, ![c].who = u]
      PROVE  /\ call'[Front].stage = "served" /\ call'[Front].kind = call[Front].kind
             /\ call'[Front].token = call[Front].token
             /\ call'[Front].reply = r /\ call'[Front].who = u
  BY <1>0, <1>3 DEF Request
<1>4. CASE c = Front /\ call' = [call EXCEPT ![c].stage = "served", ![c].reply = "refused", ![c].who = NoOne]
  BY <1>1, <1>3, <1>4
<1>5. CASE c = Front /\ call' = [call EXCEPT ![c].stage = "served", ![c].reply = "lost", ![c].who = NoOne]
  BY <1>1, <1>3, <1>5
<1>6. CASE /\ c = Front /\ call[c].token \in Pair
           /\ call' = [call EXCEPT ![c].stage = "served", ![c].reply = "ok", ![c].who = holder[call[c].token]]
           /\ Effect(c, holder[call[c].token])
  BY <1>1, <1>3, <1>6, ZenonT(30)
<1> QED
  BY <1>2, <1>4, <1>5, <1>6, Zenon DEF Serve

LEMMA FrontJoined ==
  ASSUME TypeOK, NEW c \in Call, Join(c)
  PROVE  \/ c # Front /\ call'[Front] = call[Front]
         \/ /\ c = Front
            /\ call[Front].stage = "served" /\ call'[Front].stage = "await"
            /\ call'[Front].kind = call[Front].kind
            /\ call'[Front].token = NoPair /\ call'[Front].reply = "lost"
<1>0. Front \in Call /\ call[c] \in Request /\ call \in [Call -> Request]
  BY DEF Call, TypeOK
<1> QED
  BY <1>0 DEF Join, Await, Refused, Request

\* The request of the user has ended with reply r.
FrontEnds(r) ==
    /\ call'[Front].stage = "done" /\ call'[Front].kind = call[Front].kind
    /\ call'[Front].token = NoPair /\ call'[Front].reply = r
    /\ r = "ok" => call'[Front].who = call[Front].who

LEMMA FrontEnded ==
  ASSUME TypeOK, NEW c \in Call, NEW r \in {"ok", "refused", "lost"}, OneCall(c, Ended(r, c))
  PROVE  IF c = Front THEN FrontEnds(r) ELSE call'[Front] = call[Front]
<1>0. Front \in Call /\ Front \notin Back
  BY PhoneAssumed DEF Call
<1>1. Ended(r, c) \in Request
  BY EndedForm
<1>2. call'[c] = Ended(r, c) /\ \A d \in Call \ {c} : call'[d] = call[d]
  BY <1>1, OneCallTyped
<1>3. CASE c = Front
  BY <1>0, <1>2, <1>3, EndedForm DEF FrontEnds
<1> QED
  BY <1>0, <1>2, <1>3

LEMMA FrontSteps ==
  ASSUME TypeOK, call[Front].stage # "open"
  PROVE  /\ \A c \in Call : Answer(c) =>
              \/ call'[Front] = call[Front]
              \/ call[Front].stage = "served" /\ FrontEnds(call[Front].reply)
         /\ \A c \in Call : JoinEmpty(c) =>
              \/ c # Front /\ call'[Front] = call[Front]
              \/ c = Front /\ call[Front].stage = "served" /\ FrontEnds("refused")
         /\ \A c \in Call : Lose(c) =>
              \/ call'[Front] = call[Front]
              \/ call[Front].stage \in {"sent", "served"} /\ FrontEnds("lost")
         /\ \A c \in Call : Send(c) \/ Ask(c) => call'[Front] = call[Front]
         /\ FlightRefused => IF call[Front].stage = "await" THEN FrontEnds("refused")
                                                            ELSE call'[Front] = call[Front]
         /\ FlightLost => IF call[Front].stage = "await" THEN FrontEnds("lost")
                                                         ELSE call'[Front] = call[Front]
         /\ FlightSave => IF call[Front].stage = "await"
                          THEN /\ call'[Front].stage = "sent" /\ call'[Front].token = flight.to
                               /\ call'[Front].kind = call[Front].kind
                          ELSE call'[Front] = call[Front]
<1>0. Front \in Call /\ Front \notin Back /\ call[Front] \in Request
  BY PhoneAssumed DEF Call, TypeOK
<1>1. ASSUME NEW c \in Call, Answer(c)
      PROVE  \/ call'[Front] = call[Front]
             \/ call[Front].stage = "served" /\ FrontEnds(call[Front].reply)
  <2>1. PICK r \in {"ok", "refused", "lost"} : OneCall(c, Ended(r, c)) /\ r = call[c].reply
    BY <1>1, OtherCalls
  <2> QED
    BY <1>1, <2>1, FrontEnded DEF Answer
<1>2. ASSUME NEW c \in Call, JoinEmpty(c)
      PROVE  \/ c # Front /\ call'[Front] = call[Front]
             \/ c = Front /\ call[Front].stage = "served" /\ FrontEnds("refused")
  BY <1>2, OtherCalls, FrontEnded DEF JoinEmpty, Refused
<1>3. ASSUME NEW c \in Call, Lose(c)
      PROVE  \/ call'[Front] = call[Front]
             \/ call[Front].stage \in {"sent", "served"} /\ FrontEnds("lost")
  BY <1>3, OtherCalls, FrontEnded DEF Lose
<1>4. ASSUME NEW c \in Call, Send(c) \/ Ask(c)
      PROVE  call'[Front] = call[Front]
  <2>1. c # Front
    BY <1>0, <1>4 DEF Send, Ask
  <2>2. \E rec \in Request : OneCall(c, rec)
    BY <1>4, OtherCalls, RequestForms DEF Kind
  <2> QED
    BY <1>0, <2>1, <2>2, OneCallTyped
<1>5. ASSUME NEW r \in {"refused", "lost"}, Fail(r)
      PROVE  IF call[Front].stage = "await" THEN FrontEnds(r) ELSE call'[Front] = call[Front]
  <2>1. call'[Front] = IF call[Front].stage = "await" THEN Ended(r, Front) ELSE call[Front]
    BY <1>0, <1>5, FlightCalls
  <2> QED
    BY <1>0, <2>1, EndedForm DEF FrontEnds
<1>6. FlightSave => IF call[Front].stage = "await"
                    THEN /\ call'[Front].stage = "sent" /\ call'[Front].token = flight.to
                         /\ call'[Front].kind = call[Front].kind
                    ELSE call'[Front] = call[Front]
  <2>1. flight.to \in Pair \cup {NoPair}
    BY DEF TypeOK
  <2> QED
    BY <1>0, <2>1, FlightCalls DEF FlightSave
<1> QED
  BY <1>1, <1>2, <1>3, <1>4, <1>5, <1>6 DEF FlightRefused, FlightLost

\* The user's operations write that request, and nothing else among the requests
\* but a registration in the background.
LEMMA FrontWritten ==
  ASSUME TypeOK
  PROVE  /\ Hydrated \/ HydrateOffline => call'[Front] = Idle
         /\ HydrateRefused \/ LogoutErase \/ Deleted \/ DeleteFailed => call'[Front] = Idle
         /\ SignedIn => call'[Front] = call[Front]
         /\ Kill => call'[Front] = Idle
         /\ Logout => call'[Front] \in {Sent("detach"), Done("detach", "lost")}
         /\ LogoutSend => IF vault.refresh = NoPair THEN call'[Front] = Done("logout", "lost")
                          ELSE call'[Front] = [Sent("logout") EXCEPT !.body = vault.refresh]
         /\ DeleteAccount => call'[Front] = Sent("delete")
         /\ Boot => \/ vault.access = NoPair /\ ui' = "ready" /\ call' = call
                    \/ /\ vault.access # NoPair /\ ui' = "me"
                       /\ call'[Front] \in {Sent("me"), Done("me", "lost")}
<1>0. /\ Front \in Call /\ Front \notin Back /\ call \in [Call -> Request] /\ Idle \in Request
      /\ FrontClosed \in [Call -> Request] /\ FrontClosed[Front] = Idle
      /\ \A c \in Back : FrontClosed[c] = call[c]
  BY PhoneAssumed, RequestForms DEF Call, TypeOK, FrontClosed
<1>1. Hydrated \/ HydrateOffline => call'[Front] = Idle
  BY <1>0, KickoffCalls DEF Hydrated, HydrateOffline
<1>2. SignedIn => call'[Front] = call[Front]
  BY <1>0, KickoffCalls DEF SignedIn
<1>3. HydrateRefused \/ LogoutErase \/ Deleted \/ DeleteFailed => call'[Front] = Idle
  BY <1>0 DEF HydrateRefused, LogoutErase, Deleted, DeleteFailed, Erase
<1>4. Kill => call'[Front] = Idle
  BY <1>0 DEF Kill
<1>5. Logout => call'[Front] \in {Sent("detach"), Done("detach", "lost")}
  BY <1>0 DEF Logout
<1>6. LogoutSend => IF vault.refresh = NoPair THEN call'[Front] = Done("logout", "lost")
                    ELSE call'[Front] = [Sent("logout") EXCEPT !.body = vault.refresh]
  BY <1>0 DEF LogoutSend
<1>7. DeleteAccount => call'[Front] = Sent("delete")
  BY <1>0 DEF DeleteAccount, Open
<1>8. Boot => \/ vault.access = NoPair /\ ui' = "ready" /\ call' = call
              \/ /\ vault.access # NoPair /\ ui' = "me"
                 /\ call'[Front] \in {Sent("me"), Done("me", "lost")}
  BY <1>0 DEF Boot, Open
<1> QED
  BY <1>1, <1>2, <1>3, <1>4, <1>5, <1>6, <1>7, <1>8

\* The fields of the requests a user's operation starts from.
LEMMA FreshFields ==
  /\ Idle.stage = "idle" /\ Idle.token = NoPair /\ Idle.kind = "me"
  /\ \A k \in Kind : /\ Sent(k).stage = "sent" /\ Sent(k).kind = k
                     /\ Sent(k).token = vault.access /\ Sent(k).reply = "lost"
  /\ \A k \in Kind, p \in Pair :
        /\ [Sent(k) EXCEPT !.body = p].stage = "sent" /\ [Sent(k) EXCEPT !.body = p].kind = k
        /\ [Sent(k) EXCEPT !.body = p].token = vault.access
  /\ \A k \in Kind, r \in {"ok", "refused", "lost"} :
        Done(k, r).stage = "done" /\ Done(k, r).kind = k /\ Done(k, r).token = NoPair /\ Done(k, r).reply = r
<1> USE DEF Idle, Sent, Done
<1>1. Idle.stage = "idle" /\ Idle.token = NoPair /\ Idle.kind = "me"
  OBVIOUS
<1>2. \A k \in Kind : /\ Sent(k).stage = "sent" /\ Sent(k).kind = k
                      /\ Sent(k).token = vault.access /\ Sent(k).reply = "lost"
  OBVIOUS
<1>3. \A k \in Kind, p \in Pair :
        /\ [Sent(k) EXCEPT !.body = p].stage = "sent" /\ [Sent(k) EXCEPT !.body = p].kind = k
        /\ [Sent(k) EXCEPT !.body = p].token = vault.access
  OBVIOUS
<1>4. \A k \in Kind, r \in {"ok", "refused", "lost"} :
        Done(k, r).stage = "done" /\ Done(k, r).kind = k /\ Done(k, r).token = NoPair /\ Done(k, r).reply = r
  OBVIOUS
<1> QED
  BY <1>1, <1>2, <1>3, <1>4
-----------------------------------------------------------------------------
(* The phone: the invariant.                                                 *)

PhoneInv ==
    /\ TypeOK /\ FlightKept /\ NoFalseAlarm /\ SpentOnlyMissed /\ PairInHand
    /\ FrontKept /\ ProfileKept /\ ErasingKept /\ OneAccount /\ EditsKept /\ SigningOut /\ Quiet

LEMMA OnPhonePairs ==
  TypeOK => OnPhone \subseteq Pair /\ \A c \in Call : call[c].token \in Pair \cup {NoPair}
  BY DEF TypeOK, OnPhone, Request

\* Where the tokens of the phone come from: what it held, the successor of a
\* pair presented, or the pair of the sign-in that ends. The user's request has
\* its token from the store or from the refresh.
LEMMA OnPhoneSteps ==
  ASSUME PhoneInv, [Next]_vars
  PROVE  /\ call'[Front].token \in OnPhone \cup {call[Front].token, NoPair}
         /\ \A p \in OnPhone' :
              \/ p \in OnPhone
              \/ Rotate /\ p \in Pair /\ row[p] = "none" /\ row'[p] # "none" /\ holder'[p] = holder[flight.from]
              \/ ui = "signing" /\ ui' # "signing" /\ p = about.pair
<1> DEFINE Goal ==
         /\ call'[Front].token \in OnPhone \cup {call[Front].token, NoPair}
         /\ \A p \in OnPhone' :
              \/ p \in OnPhone
              \/ Rotate /\ p \in Pair /\ row[p] = "none" /\ row'[p] # "none" /\ holder'[p] = holder[flight.from]
              \/ ui = "signing" /\ ui' # "signing" /\ p = about.pair
<1> USE DEF PhoneInv
<1>0. call[Front].stage # "open"
  BY DEF FrontKept, Idle, TypeOK
<1>1. ASSUME UNCHANGED <<vault, flight>>, call'[Front].token \in OnPhone \cup {call[Front].token, NoPair}
      PROVE  Goal
  BY <1>1 DEF OnPhone
<1>2. ASSUME NEW c \in Call, Serve(c) PROVE Goal
  BY <1>1, <1>2, FrontServed DEF Serve, disk
<1>3. ASSUME NEW c \in Call, Answer(c) \/ Lose(c) \/ Send(c) \/ Ask(c) PROVE Goal
  <2>1. call'[Front].token \in {call[Front].token, NoPair}
    BY <1>0, <1>3, FrontSteps DEF FrontEnds
  <2> QED
    BY <1>1, <1>3, <2>1 DEF Answer, Lose, Send, Ask, disk
<1>4. ASSUME NEW c \in Call, Join(c) PROVE Goal
  <2>1. call'[Front].token \in {call[Front].token, NoPair}
    BY <1>4, FrontJoined
  <2>2. vault' = vault /\ (flight' = flight \/ flight' = Refresh)
    BY <1>4 DEF Join, disk
  <2> QED
    BY <2>1, <2>2 DEF OnPhone, Refresh, Landed
<1>5. ASSUME NEW c \in Call, JoinEmpty(c) PROVE Goal
  <2>1. call'[Front].token \in {call[Front].token, NoPair}
    BY <1>0, <1>5, FrontSteps DEF FrontEnds
  <2>2. vault' = Empty /\ flight' = flight
    BY <1>5 DEF JoinEmpty, SessionOver
  <2> QED
    BY <2>1, <2>2 DEF OnPhone, Empty
<1>6. CASE FlightRefused \/ FlightLost
  <2>1. call'[Front].token \in {call[Front].token, NoPair}
    BY <1>0, <1>6, FrontSteps DEF FrontEnds
  <2>2. vault' \in {vault, Empty} /\ flight' = Landed
    BY <1>6 DEF FlightRefused, FlightLost, Fail, SessionOver, disk
  <2> QED
    BY <2>1, <2>2 DEF OnPhone, Empty, Landed
<1>7. CASE FlightSave
  <2>1. call'[Front].token \in {call[Front].token, flight.to}
    BY <1>0, <1>7, FrontSteps
  <2>2. vault' = Both(flight.to) /\ flight' = Landed
    BY <1>7 DEF FlightSave, Retry
  <2> QED
    BY <2>1, <2>2 DEF OnPhone, Both, Landed
<1>8. CASE Rotate
  <2>1. UNCHANGED <<vault, call>> /\ flight.from \in Pair
    BY <1>8 DEF Rotate, disk, FlightKept
  <2>2. CASE flight' = [flight EXCEPT !.stage = "refused"]
    BY <2>1, <2>2 DEF OnPhone, TypeOK
  <2>3. ASSUME NEW q \in Pair, Issue(q, holder[flight.from], [row EXCEPT ![flight.from] = "used"]),
               flight' = [flight EXCEPT !.stage = "served", !.to = q]
        PROVE  Goal
    <3>1. flight'.from = flight.from /\ flight'.to = q
      BY <2>3 DEF TypeOK
    <3>2. row[q] = "none" /\ row'[q] # "none" /\ holder'[q] = holder[flight.from]
      BY <2>3 DEF Issue, TypeOK
    <3> QED
      BY <1>8, <2>1, <3>1, <3>2 DEF OnPhone
  <2> QED
    BY <1>8, <2>2, <2>3 DEF Rotate
<1>9. CASE (\E p \in Pair : Expire(p)) \/ (\E u \in User : RevokeAll(u)) \/ SignInLost \/ Close
  BY <1>1, <1>9 DEF Expire, RevokeAll, SignInLost, Close, disk, memory
<1>10. ASSUME NEW u \in User, NEW way \in {"password", "provider"}, NEW p \in Pair, SignIn(u, way, p)
       PROVE  Goal
  BY <1>1, <1>10 DEF SignIn, disk
<1>11. CASE Hydrated \/ HydrateOffline \/ DeleteFailed
  <2>1. call'[Front].token = NoPair
    BY <1>11, FrontWritten, FreshFields
  <2> QED
    BY <1>1, <1>11, <2>1 DEF Hydrated, HydrateOffline, DeleteFailed, disk
<1>12. CASE HydrateRefused \/ LogoutErase \/ Deleted \/ EraseTokens \/ EraseProfile \/ Erased
  <2>1. CASE HydrateRefused \/ LogoutErase \/ Deleted
    <3>1. call'[Front].token = NoPair
      BY <2>1, FrontWritten, FreshFields
    <3> QED
      BY <1>1, <2>1, <3>1 DEF HydrateRefused, LogoutErase, Deleted, Erase, disk
  <2>2. CASE EraseTokens
    BY <2>2 DEF EraseTokens, OnPhone, Empty
  <2>3. CASE EraseProfile \/ Erased
    BY <1>1, <2>3 DEF EraseProfile, Erased, disk
  <2> QED
    BY <1>12, <2>1, <2>2, <2>3
<1>13. CASE Boot \/ Logout \/ LogoutSend \/ DeleteAccount
  <2>1. {"me", "detach", "logout", "delete"} \subseteq Kind
        /\ (vault.refresh # NoPair => vault.refresh \in Pair)
    BY DEF Kind, TypeOK
  <2>2. call'[Front].token \in {call[Front].token, NoPair, vault.access}
    <3>1. CASE Boot
      BY <2>1, <3>1, FrontWritten, FreshFields
    <3>2. CASE Logout \/ DeleteAccount
      BY <2>1, <3>2, FrontWritten, FreshFields
    <3>3. CASE LogoutSend /\ vault.refresh = NoPair
      BY <2>1, <3>3, FrontWritten, FreshFields
    <3>4. CASE LogoutSend /\ vault.refresh # NoPair
      <4>1. call'[Front] = [Sent("logout") EXCEPT !.body = vault.refresh]
        BY <3>4, FrontWritten
      <4>2. call'[Front].token = vault.access
        BY <2>1, <3>4, <4>1, FreshFields
      <4> QED
        BY <4>2
    <3> QED
      BY <1>13, <3>1, <3>2, <3>3, <3>4
  <2>3. call'[Front].token \in OnPhone \cup {call[Front].token, NoPair}
    BY <2>2 DEF OnPhone
  <2> QED
    BY <1>1, <1>13, <2>3 DEF Boot, Logout, LogoutSend, DeleteAccount, disk
<1>14. CASE SignedIn
  <2>1. call'[Front] = call[Front] /\ vault' = Both(about.pair) /\ flight' = flight /\ ui = "signing"
        /\ ui' = "ready"
    BY <1>14, FrontWritten DEF SignedIn
  <2> QED
    BY <2>1 DEF OnPhone, Both
<1>15. CASE Kill
  <2>1. call'[Front].token = NoPair /\ flight' = Landed /\ ui' = "boot"
    BY <1>15, FrontWritten, FreshFields DEF Kill
  <2>2. {vault'.access, vault'.refresh} \subseteq
            OnPhone \cup {NoPair} \cup (IF ui = "signing" THEN {about.pair} ELSE {})
    BY <1>15 DEF Kill, Written, Halves, OnPhone, NoPair
  <2> QED
    BY <2>1, <2>2 DEF OnPhone, Landed
<1>16. CASE UNCHANGED vars
  BY <1>1, <1>16 DEF vars
<1>17. Goal
  BY <1>2, <1>3, <1>4, <1>5, <1>6, <1>7, <1>8, <1>9, <1>10, <1>11, <1>12, <1>13, <1>14, <1>15, <1>16
  DEF Next
<1> QED
  BY <1>17

\* A refresh presents a pair of the phone.
LEMMA RotatedOnPhone ==
  ASSUME PhoneInv, Rotate
  PROVE  flight.from \in OnPhone /\ flight.from \in Known
<1>1. flight.from \in Pair
  BY DEF Rotate, PhoneInv, FlightKept
<1>2. \A p \in Pair : p # NoPair
  BY DEF NoPair, Pair
<1> QED
  BY <1>1, <1>2 DEF OnPhone, Known

\* Every token of the phone or of a request is of a pair that was issued.
LEMMA KnownStep ==
  ASSUME PhoneInv, [Next]_vars
  PROVE  \A p \in Known' : row'[p] # "none" /\ holder'[p] # NoOne
<1>1. ASSUME NEW p \in Known PROVE row'[p] # "none" /\ holder'[p] # NoOne
  <2>1. p \in Pair /\ row[p] # "none" /\ holder[p] # NoOne
    BY <1>1, OnPhonePairs DEF PhoneInv, FlightKept, Known
  <2> QED
    BY <2>1, RowSteps DEF PhoneInv
<1>2. ASSUME NEW p \in OnPhone', p \notin OnPhone PROVE row'[p] # "none" /\ holder'[p] # NoOne
  <2>1. CASE ui = "signing" /\ p = about.pair
    <3>1. p \in Pair /\ row[p] # "none" /\ holder[p] # NoOne
      BY <2>1 DEF PhoneInv, PairInHand
    <3> QED
      BY <3>1, RowSteps DEF PhoneInv
  <2>2. CASE Rotate /\ row'[p] # "none" /\ holder'[p] = holder[flight.from]
    BY <2>2, RotatedOnPhone DEF PhoneInv, FlightKept
  <2> QED
    BY <1>2, <2>1, <2>2, OnPhoneSteps
<1>3. ASSUME NEW c \in Call PROVE call'[c].token \in Known \cup {NoPair}
  <2>1. c = Front \/ c \in Back
    BY DEF Call
  <2>2. call'[c].token \in OnPhone \cup {call[c].token, NoPair}
    BY <2>1, OnPhoneSteps, BackSteps DEF PhoneInv
  <2> QED
    BY <2>2 DEF Known
<1>4. \A p \in OnPhone : p \in Known
  BY DEF Known, OnPhone
<1>5. \A p \in Known' : (p \in OnPhone' \/ (\E c \in Call : p = call'[c].token)) /\ p # NoPair
  BY DEF Known
<1> QED
  BY <1>1, <1>2, <1>3, <1>4, <1>5

\* The refresh under way, and the alarm it might raise.
LEMMA FlightStep ==
  ASSUME PhoneInv, [Next]_vars
  PROVE  /\ flight'.stage = "idle" => flight' = Landed
         /\ flight'.stage = "sent" => flight'.from \in Pair
         /\ flight'.stage = "served" => flight'.to \in Pair /\ row'[flight'.to] # "used"
         /\ NoFalseAlarm' /\ SpentOnlyMissed'
<1> DEFINE Goal ==
        /\ flight'.stage = "idle" => flight' = Landed
        /\ flight'.stage = "sent" => flight'.from \in Pair
        /\ flight'.stage = "served" => flight'.to \in Pair /\ row'[flight'.to] # "used"
        /\ NoFalseAlarm' /\ SpentOnlyMissed'
<1> USE DEF PhoneInv
<1>0. /\ \A p \in Pair : row'[p] = "used" /\ row[p] # "used" =>
            flight.stage = "sent" /\ p = flight.from /\ Rotate
      /\ vault.refresh # NoPair => vault.refresh \in Pair
      /\ vault.access # NoPair => vault.access \in Pair
  BY RowSteps DEF TypeOK
<1>1. ASSUME UNCHANGED <<vault, flight, missed>>, ~Rotate
      PROVE  Goal
  BY <1>0, <1>1 DEF FlightKept, NoFalseAlarm, SpentOnlyMissed
<1>2. CASE Rotate
  <2>1. UNCHANGED <<vault, missed>> /\ flight.stage = "sent" /\ flight.from \in Pair
    BY <1>2 DEF Rotate, disk, history, FlightKept
  <2>2. CASE flight' = [flight EXCEPT !.stage = "refused"] /\ \A p \in Pair : row'[p] = "used" => row[p] = "used"
    BY <1>0, <2>1, <2>2 DEF NoFalseAlarm, SpentOnlyMissed, TypeOK
  <2>3. ASSUME NEW q \in Pair, Issue(q, holder[flight.from], [row EXCEPT ![flight.from] = "used"]),
               flight' = [flight EXCEPT !.stage = "served", !.to = q]
        PROVE  Goal
    BY <1>0, <2>1, <2>3 DEF NoFalseAlarm, SpentOnlyMissed, Issue, TypeOK
  <2>4. ASSUME row' = IF row[flight.from] = "used" THEN Revoked(holder[flight.from]) ELSE row
        PROVE  \A p \in Pair : row'[p] = "used" => row[p] = "used"
    BY <2>4 DEF Revoked, TypeOK
  <2> QED
    BY <1>2, <2>2, <2>3, <2>4 DEF Rotate
<1>3. ASSUME NEW c \in Call, Join(c) PROVE Goal
  <2>1. UNCHANGED <<vault, missed, row>>
    BY <1>3 DEF Join, disk, history, server
  <2>2. CASE flight.stage = "idle"
    <3>1. flight' = Refresh /\ vault.refresh # NoPair
      BY <1>3, <2>2 DEF Join
    <3>2. flight'.stage = "sent" /\ flight'.from = vault.refresh
      BY <3>1 DEF Refresh, Landed
    <3> QED
      BY <1>0, <2>1, <2>2, <3>1, <3>2 DEF NoFalseAlarm, SpentOnlyMissed
  <2>3. CASE flight.stage # "idle"
    <3>1. flight' = flight
      BY <1>3, <2>3 DEF Join
    <3> QED
      BY <2>1, <3>1 DEF FlightKept, NoFalseAlarm, SpentOnlyMissed
  <2> QED
    BY <2>2, <2>3
<1>4. ASSUME row' = row, vault' = Empty, flight' = flight \/ flight' = Landed, missed' = missed PROVE Goal
  BY <1>4 DEF FlightKept, NoFalseAlarm, SpentOnlyMissed, Empty, Landed
<1>5. CASE (\E c \in Call : JoinEmpty(c)) \/ FlightRefused \/ EraseTokens
  BY <1>4, <1>5 DEF JoinEmpty, FlightRefused, Fail, SessionOver, EraseTokens, server
<1>6. CASE FlightSave
  <2>1. /\ flight.to \in Pair /\ row[flight.to] # "used"
        /\ row' = row /\ vault'.refresh = flight.to /\ flight' = Landed
    BY <1>6 DEF FlightSave, Retry, FlightKept, server, Both
  <2> QED
    BY <2>1 DEF NoFalseAlarm, SpentOnlyMissed, Landed
<1>7. CASE FlightLost
  <2>1. row' = row /\ vault' = vault /\ flight' = Landed /\ (missed' <=> missed \/ flight.stage = "served")
    BY <1>7 DEF FlightLost, Fail, server, disk
  <2> QED
    BY <2>1 DEF NoFalseAlarm, SpentOnlyMissed, Landed
<1>8. CASE SignedIn
  <2>1. row' = row /\ vault'.refresh = about.pair /\ flight' = flight /\ missed' = missed
    BY <1>8 DEF SignedIn, server, Both
  <2>2. row[about.pair] # "used"
    BY <1>8 DEF SignedIn, PairInHand
  <2> QED
    BY <2>1, <2>2 DEF FlightKept, NoFalseAlarm, SpentOnlyMissed
<1>9. CASE Kill
  <2>1. row' = row /\ flight' = Landed
        /\ (missed' <=> missed \/ (flight.stage = "served" /\ vault'.refresh # flight.to))
    BY <1>9 DEF Kill, server
  <2>2. \/ vault'.refresh = vault.refresh
        \/ flight.stage = "served" /\ vault'.refresh = flight.to
        \/ ui = "signing" /\ vault'.refresh = about.pair
        \/ vault'.refresh = NoPair
    BY <1>9 DEF Kill, Written, Halves
  <2> QED
    BY <2>1, <2>2 DEF NoFalseAlarm, SpentOnlyMissed, Landed, FlightKept, PairInHand
<1>10. ASSUME NEW c \in Call, Serve(c) PROVE Goal
  <2>1. UNCHANGED <<vault, flight, missed>>
    BY <1>10 DEF Serve, disk, history
  <2>2. \A p \in Pair : row'[p] = "used" => row[p] = "used"
    <3>1. CASE UNCHANGED server
      BY <3>1 DEF server
    <3>2. ASSUME NEW u, Effect(c, u) PROVE \A p \in Pair : row'[p] = "used" => row[p] = "used"
      <4>1. CASE call[c].kind = "logout"
        BY <3>2, <4>1 DEF Effect, TypeOK
      <4>2. CASE call[c].kind = "delete"
        BY <3>2, <4>2 DEF Effect, TypeOK
      <4>3. CASE call[c].kind \notin {"logout", "delete"}
        BY <3>2, <4>3 DEF Effect, server
      <4> QED
        BY <4>1, <4>2, <4>3
    <3> QED
      BY <1>10, <3>1, <3>2, Zenon DEF Serve
  <2> QED
    BY <1>0, <2>1, <2>2 DEF FlightKept, NoFalseAlarm, SpentOnlyMissed
<1>11. ASSUME UNCHANGED <<vault, flight, missed>>, \A p \in Pair : row'[p] = "used" => row[p] = "used"
       PROVE  Goal
  BY <1>0, <1>11 DEF FlightKept, NoFalseAlarm, SpentOnlyMissed
<1>12. ASSUME NEW u \in User, NEW way \in {"password", "provider"}, NEW p \in Pair, SignIn(u, way, p)
       PROVE  Goal
  BY <1>11, <1>12 DEF SignIn, Issue, disk, TypeOK
<1>13. CASE \E u \in User : RevokeAll(u)
  BY <1>11, <1>13 DEF RevokeAll, Revoked, disk, memory, history, TypeOK
<1>14. CASE (\E p \in Pair : Expire(p)) \/ SignInLost \/ Close \/ Boot \/ Logout \/ LogoutSend \/ DeleteAccount
  BY <1>11, <1>14 DEF Expire, SignInLost, Close, Boot, Logout, LogoutSend, DeleteAccount, disk,
     memory, history, server
<1>15. CASE \/ Hydrated \/ HydrateOffline \/ DeleteFailed \/ UNCHANGED vars
            \/ HydrateRefused \/ LogoutErase \/ Deleted \/ EraseProfile \/ Erased
  BY <1>11, <1>15 DEF Hydrated, HydrateOffline, DeleteFailed, HydrateRefused, LogoutErase, Deleted,
     EraseProfile, Erased, Erase, vars, disk, memory, history, server
<1>16. ASSUME NEW c \in Call, Answer(c) \/ Lose(c) \/ Send(c) \/ Ask(c) PROVE Goal
  BY <1>11, <1>16 DEF Answer, Lose, Send, Ask, disk, history, server
<1>17. Goal
  BY <1>2, <1>3, <1>5, <1>6, <1>7, <1>8, <1>9, <1>10, <1>12, <1>13, <1>14, <1>15, <1>16 DEF Next
<1> QED
  BY <1>17

\* What the user's operation is at changes with the operation only.
Still == UNCHANGED <<ui, about, erasing, left, ringing>> /\ late' = late
LEMMA UiSteps ==
  ASSUME [Next]_vars
  PROVE  \/ Still
         \/ Boot \/ Hydrated \/ HydrateRefused \/ HydrateOffline
         \/ \E u \in User, way \in {"password", "provider"}, p \in Pair : SignIn(u, way, p)
         \/ SignedIn \/ SignInLost \/ Logout \/ LogoutSend \/ LogoutErase
         \/ DeleteAccount \/ Deleted \/ DeleteFailed
         \/ EraseTokens \/ EraseProfile \/ Erased \/ Close \/ Kill
<1>1. ASSUME NEW c \in Call,
             Serve(c) \/ Send(c) \/ Answer(c) \/ Join(c) \/ JoinEmpty(c) \/ Lose(c) \/ Ask(c)
      PROVE  Still
  BY <1>1 DEF Still, Serve, Send, Answer, Join, JoinEmpty, SessionOver, Lose, Ask, history
<1>2. CASE Rotate \/ FlightRefused \/ FlightSave \/ FlightLost
  BY <1>2 DEF Still, Rotate, FlightRefused, SessionOver, FlightSave, FlightLost, history
<1>3. CASE (\E p \in Pair : Expire(p)) \/ (\E u \in User : RevokeAll(u)) \/ UNCHANGED vars
  BY <1>3 DEF Still, Expire, RevokeAll, memory, history, vars
<1> QED
  BY <1>1, <1>2, <1>3 DEF Next

\* An edition that is answered puts its account on the screen, whatever the user
\* is at; no other answer does.
Landing(c) == /\ Answer(c) /\ call[c].kind = "save"
              /\ call[c].stage = "served" /\ call[c].reply = "ok"
              /\ screen' = call[c].who
LEMMA ScreenSteps ==
  ASSUME [Next]_vars
  PROVE  \/ saving' = saving /\ (screen' = screen \/ screen' = NoOne)
         \/ saving' = saving /\ \E c \in Call : Landing(c)
         \/ Hydrated \/ HydrateOffline \/ SignedIn \/ Erased \/ Close \/ Kill
<1> DEFINE Kept == saving' = saving /\ (screen' = screen \/ screen' = NoOne)
<1>1. ASSUME NEW c \in Call, Serve(c) \/ Send(c) \/ Join(c) \/ JoinEmpty(c) \/ Lose(c) \/ Ask(c)
      PROVE  Kept
  BY <1>1 DEF Serve, Send, Join, JoinEmpty, SessionOver, Lose, Ask, history
<1>2. ASSUME NEW c \in Call, Answer(c)
      PROVE  saving' = saving /\ (screen' = screen \/ Landing(c))
  BY <1>2 DEF Answer, Landing, history
<1>3. CASE Rotate \/ FlightRefused \/ FlightSave \/ FlightLost
  BY <1>3 DEF Rotate, FlightRefused, SessionOver, FlightSave, FlightLost, history
<1>4. CASE (\E p \in Pair : Expire(p)) \/ (\E u \in User : RevokeAll(u)) \/ UNCHANGED vars
  BY <1>4 DEF Expire, RevokeAll, memory, history, vars
<1>5. CASE \/ \E u \in User, way \in {"password", "provider"}, p \in Pair : SignIn(u, way, p)
           \/ Boot \/ HydrateRefused \/ SignInLost \/ Logout \/ LogoutSend \/ LogoutErase
  BY <1>5 DEF SignIn, Boot, HydrateRefused, SignInLost, Logout, LogoutSend, LogoutErase, history
<1>6. CASE DeleteAccount \/ Deleted \/ DeleteFailed \/ EraseTokens \/ EraseProfile
  BY <1>6 DEF DeleteAccount, Deleted, DeleteFailed, EraseTokens, EraseProfile, history
<1> QED
  BY <1>1, <1>2, <1>3, <1>4, <1>5, <1>6 DEF Next

LEMMA PairStep ==
  ASSUME PhoneInv, [Next]_vars
  PROVE  PairInHand'
<1> USE DEF PhoneInv
<1>1. ASSUME NEW u \in User, NEW way \in {"password", "provider"}, NEW p \in Pair, SignIn(u, way, p)
      PROVE  PairInHand'
  <2>1. row[p] = "none" /\ row'[p] = "live" /\ holder'[p] = u /\ u # NoOne
    BY <1>1, PhoneAssumed DEF SignIn, Issue, TypeOK
  <2>2. about'.pair = p /\ about'.who = u /\ left' = NoOne
    BY <1>1 DEF SignIn
  <2>3. OnPhone' = OnPhone
    BY <1>1 DEF SignIn, disk, OnPhone
  <2>4. p \notin OnPhone
    BY <2>1 DEF FlightKept, Known, OnPhone
  <2> QED
    BY <2>1, <2>2, <2>3, <2>4 DEF PairInHand
<1>2. CASE ui = "signing" /\ ui' = "signing" /\ UNCHANGED <<about, left>>
  <2> DEFINE p == about.pair
  <2>1. /\ p \in Pair \ OnPhone /\ row[p] \notin {"none", "used"}
        /\ holder[p] = about.who /\ about.who # NoOne /\ left = NoOne
    BY <1>2 DEF PairInHand
  <2>2. call[Front].token = NoPair
    BY <1>2, FreshFields DEF FrontKept
  <2>3. p \notin OnPhone'
    BY <1>2, <2>1, <2>2, OnPhoneSteps DEF NoPair, Pair, OnPhone
  <2>4. row'[p] # "none" /\ holder'[p] = holder[p]
    BY <2>1, RowSteps
  <2>5. row'[p] # "used"
    <3>1. row'[p] = "used" => p = flight.from
      BY <2>1, RowSteps
    <3>2. flight.from = p => p \in OnPhone
      BY <2>1 DEF OnPhone, NoPair, Pair
    <3> QED
      BY <2>1, <3>1, <3>2
  <2> QED
    BY <1>2, <2>1, <2>3, <2>4, <2>5 DEF PairInHand
<1>3. CASE ui' # "signing"
  BY <1>3 DEF PairInHand
<1>4. CASE \/ Boot \/ Hydrated \/ HydrateRefused \/ HydrateOffline
           \/ SignedIn \/ SignInLost \/ Logout \/ LogoutSend \/ LogoutErase
           \/ DeleteAccount \/ Deleted \/ DeleteFailed \/ Erased \/ Close \/ Kill
  BY <1>3, <1>4 DEF Boot, Hydrated, HydrateRefused, HydrateOffline, SignedIn, SignInLost, Logout,
     LogoutSend, LogoutErase, DeleteAccount, Deleted, DeleteFailed, Erased, Close, Kill, Erase
<1>5. CASE EraseTokens \/ EraseProfile
  BY <1>3, <1>5 DEF EraseTokens, EraseProfile, ErasingKept
<1> QED
  BY <1>1, <1>2, <1>3, <1>4, <1>5, UiSteps DEF Still

LEMMA FrontStep ==
  ASSUME PhoneInv, [Next]_vars
  PROVE  FrontKept'
<1> USE DEF PhoneInv
<1> DEFINE Busy == {"me", "detaching", "leaving", "deleting"}
           Live == {"sent", "served", "await", "done"}
<1>0. /\ call[Front].stage # "open" /\ Idle.stage = "idle"
      /\ ui \in {"boot", "ready", "signing", "erasing"} \/ ui \in Busy
      /\ Front \in Call /\ \A c \in Call : c = Front \/ c \in Back
  BY FreshFields DEF FrontKept, Awaited, TypeOK, Call
<1>1. ASSUME UNCHANGED <<ui, about>>, ui \in {"boot", "me"} => screen' = screen \/ screen' = NoOne,
             \/ call'[Front] = call[Front]
             \/ /\ call[Front].stage # "idle"
                /\ call'[Front].kind = call[Front].kind /\ call'[Front].stage \in Live,
             \A c \in Back : call[c] = Idle =>
                    \/ call'[c] = Idle
                    \/ screen # NoOne
                    \/ ui \in {"me", "signing"} /\ ui' = "ready",
             ui = "boot" => flight'.stage = "idle",
             ui = "me" /\ flight'.stage # "idle" => call'[Front].stage = "await"
      PROVE  FrontKept'
  BY <1>0, <1>1 DEF FrontKept
<1>2. \A c \in Back : call[c] = Idle =>
          \/ call'[c] = Idle
          \/ screen # NoOne /\ screen' = screen /\ ui' = ui
          \/ ui \in {"me", "signing"} /\ ui' = "ready"
  BY BackSteps
<1>3. ASSUME NEW c \in Call, Serve(c) PROVE FrontKept'
  <2>1. UNCHANGED <<ui, about, screen, flight>> /\ call[c].stage = "sent"
    BY <1>3 DEF Serve
  <2>2. ui # "boot"
    BY <1>0, <2>1 DEF FrontKept
  <2>3. ui = "me" => c = Front /\ flight.stage = "idle"
    BY <1>0, <2>1 DEF FrontKept
  <2> QED
    BY <1>1, <1>2, <1>3, <2>1, <2>2, <2>3, FrontServed
<1>4. ASSUME NEW c \in Call, Join(c) PROVE FrontKept'
  <2>1. UNCHANGED <<ui, about, screen>> /\ call[c].stage = "served"
    BY <1>4 DEF Join, Refused
  <2>2. ui # "boot" /\ (ui = "me" => c = Front)
    BY <1>0, <2>1 DEF FrontKept
  <2> QED
    BY <1>1, <1>2, <1>4, <2>1, <2>2, FrontJoined
<1>5. ASSUME NEW c \in Call, Answer(c) \/ JoinEmpty(c) \/ Lose(c) PROVE FrontKept'
  <2>1. /\ UNCHANGED <<ui, about, flight>>
        /\ call[c].kind = "save" \/ screen' = screen \/ screen' = NoOne
        /\ call[c].stage \in {"sent", "served"}
    BY <1>5 DEF Answer, JoinEmpty, Refused, SessionOver, Lose
  <2>2. ui # "boot" /\ (ui = "me" => c = Front /\ call[c].kind = "me")
    BY <1>0, <2>1 DEF FrontKept, Awaited
  <2>3. ui = "me" => flight.stage = "idle"
    BY <2>1, <2>2 DEF FrontKept
  <2>4. \/ call'[Front] = call[Front]
        \/ /\ call[Front].stage # "idle"
           /\ call'[Front].kind = call[Front].kind /\ call'[Front].stage = "done"
    BY <1>0, <1>5, FrontSteps DEF FrontEnds
  <2> QED
    BY <1>1, <1>2, <2>1, <2>2, <2>3, <2>4
<1>6. ASSUME NEW c \in Call, Send(c) \/ Ask(c) PROVE FrontKept'
  <2>1. UNCHANGED <<ui, about, screen, flight>> /\ call'[Front] = call[Front]
    BY <1>0, <1>6, FrontSteps DEF Send, Ask
  <2> QED
    BY <1>1, <1>2, <2>1 DEF FrontKept
<1>7. CASE Rotate
  <2>1. UNCHANGED <<ui, about, screen, call>> /\ flight.stage = "sent"
    BY <1>7 DEF Rotate
  <2> QED
    BY <1>1, <1>2, <2>1 DEF FrontKept
<1>8. CASE FlightRefused \/ FlightLost \/ FlightSave
  <2>1. UNCHANGED <<ui, about>> /\ (screen' = screen \/ screen' = NoOne) /\ flight' = Landed
    BY <1>8 DEF FlightRefused, Fail, Retry, SessionOver, FlightLost, FlightSave
  <2>2. \/ call'[Front] = call[Front]
        \/ /\ call[Front].stage # "idle"
           /\ call'[Front].kind = call[Front].kind /\ call'[Front].stage \in {"done", "sent"}
    BY <1>0, <1>8, FrontSteps DEF FrontEnds
  <2>3. flight'.stage = "idle"
    BY <2>1 DEF Landed
  <2> QED
    BY <1>1, <1>2, <2>1, <2>2, <2>3
<1>9. CASE \/ (\E p \in Pair : Expire(p)) \/ (\E u \in User : RevokeAll(u)) \/ UNCHANGED vars
           \/ EraseTokens \/ EraseProfile
  <2>1. UNCHANGED <<ui, about, screen, call, flight>>
    BY <1>9 DEF Expire, RevokeAll, memory, vars, EraseTokens, EraseProfile
  <2> QED
    BY <1>1, <1>2, <2>1 DEF FrontKept
<1>10. CASE Boot
  <2>1. UNCHANGED <<screen, flight, about>> /\ ui = "boot" /\ "me" \in Kind
    BY <1>10 DEF Boot, Kind
  <2>2. CASE ui' = "ready" /\ call' = call
    BY <2>1, <2>2 DEF FrontKept
  <2>3. CASE ui' = "me" /\ call'[Front] \in {Sent("me"), Done("me", "lost")}
    BY <1>2, <2>1, <2>3, FreshFields DEF FrontKept, Awaited
  <2> QED
    BY <1>10, <2>2, <2>3, FrontWritten
<1>11. CASE \/ Hydrated \/ HydrateRefused \/ HydrateOffline \/ LogoutErase \/ Deleted \/ DeleteFailed
  <2>1. call'[Front] = Idle
    BY <1>11, FrontWritten
  <2>2. ui' = "erasing" \/ (ui' = "ready" /\ about'.who = NoOne)
    BY <1>11 DEF Hydrated, HydrateRefused, HydrateOffline, LogoutErase, Deleted, DeleteFailed,
       Erase, Nobody, FrontKept
  <2> QED
    BY <2>1, <2>2 DEF FrontKept
<1>12. CASE SignedIn \/ SignInLost \/ Erased
  <2>1. ui \in {"signing", "erasing"} /\ ui' = "ready" /\ about' = Nobody
    BY <1>12 DEF SignedIn, SignInLost, Erased
  <2>2. call'[Front] = call[Front]
    BY <1>12, FrontWritten DEF SignInLost, Erased
  <2> QED
    BY <2>1, <2>2 DEF FrontKept, Nobody
<1>13. CASE \E u \in User, way \in {"password", "provider"}, p \in Pair : SignIn(u, way, p)
  BY <1>13 DEF SignIn, FrontKept
<1>14. CASE Logout \/ DeleteAccount
  <2>1. /\ {"detach", "delete"} \subseteq Kind
        /\ about'.who = screen /\ screen # NoOne
    BY <1>14 DEF Kind, Logout, DeleteAccount, Nobody
  <2>2. CASE Logout
    <3>1. ui' = "detaching" /\ call'[Front].kind = "detach" /\ call'[Front].stage \in {"sent", "done"}
      <4>1. call'[Front] \in {Sent("detach"), Done("detach", "lost")} /\ ui' = "detaching"
        BY <2>2, FrontWritten DEF Logout
      <4>2. /\ Sent("detach").kind = "detach" /\ Sent("detach").stage = "sent"
            /\ Done("detach", "lost").kind = "detach" /\ Done("detach", "lost").stage = "done"
        BY <2>1, FreshFields
      <4> QED
        BY <4>1, <4>2
    <3> QED
      BY <2>1, <3>1 DEF FrontKept, Awaited
  <2>3. CASE DeleteAccount
    <3>1. ui' = "deleting" /\ call'[Front].kind = "delete" /\ call'[Front].stage = "sent"
      BY <2>1, <2>3, FrontWritten, FreshFields DEF DeleteAccount
    <3> QED
      BY <2>1, <3>1 DEF FrontKept, Awaited
  <2> QED
    BY <1>14, <2>2, <2>3
<1>15. CASE LogoutSend
  <2>1. /\ "logout" \in Kind /\ (vault.refresh # NoPair => vault.refresh \in Pair)
        /\ ui = "detaching" /\ ui' = "leaving" /\ about' = about
    BY <1>15 DEF LogoutSend, Kind, TypeOK
  <2>2. CASE vault.refresh = NoPair
    <3>1. call'[Front].kind = "logout" /\ call'[Front].stage = "done"
      BY <1>15, <2>1, <2>2, FrontWritten, FreshFields
    <3> QED
      BY <2>1, <3>1 DEF FrontKept, Awaited
  <2>3. CASE vault.refresh # NoPair
    <3>1. call'[Front] = [Sent("logout") EXCEPT !.body = vault.refresh]
      BY <1>15, <2>3, FrontWritten
    <3>2. call'[Front].kind = "logout" /\ call'[Front].stage = "sent"
      BY <2>1, <2>3, <3>1, FreshFields
    <3> QED
      BY <2>1, <3>2 DEF FrontKept, Awaited
  <2> QED
    BY <2>2, <2>3
<1>16. CASE Close
  BY <1>0, <1>16 DEF Close, FrontKept, Landed, Call
<1>17. CASE Kill
  <2>1. /\ ui' = "boot" /\ screen' = NoOne /\ flight' = Landed /\ about'.who = NoOne
        /\ \A c \in Call : call'[c] = Idle
    BY <1>17 DEF Kill, Nobody
  <2> QED
    BY <1>0, <2>1 DEF FrontKept, Landed, Call
<1> QED
  BY <1>3, <1>4, <1>5, <1>6, <1>7, <1>8, <1>9, <1>10, <1>11, <1>12, <1>13, <1>14, <1>15, <1>16,
     <1>17
  DEF Next

\* Whoever holds every token of the phone holds them after a step that does not
\* store the pair of a sign-in.
LEMMA HeirStep ==
  ASSUME PhoneInv, [Next]_vars, ui = "signing" /\ ui' # "signing" => OnPhone' = OnPhone
  PROVE  /\ \A p \in OnPhone' : \E q \in OnPhone : holder'[p] = holder[q]
         /\ \A p \in OnPhone : holder'[p] = holder[p]
         /\ \A c \in Call : call[c].token # NoPair => holder'[call[c].token] = holder[call[c].token]
         /\ \A u : Heir(u) => \A p \in OnPhone' : holder'[p] = u
<1>1. \A p \in Known : p \in Pair /\ row[p] # "none"
  BY OnPhonePairs DEF PhoneInv, FlightKept, Known
<1>2. \A p \in Known : holder'[p] = holder[p]
  BY <1>1, RowSteps DEF PhoneInv
<1>3. \A p \in OnPhone : p \in Known
  BY DEF Known, OnPhone
<1>4. \A p \in OnPhone' : \E q \in OnPhone : holder'[p] = holder[q]
  BY <1>2, <1>3, RotatedOnPhone, OnPhoneSteps
<1>5. \A c \in Call : call[c].token # NoPair => call[c].token \in Known
  BY DEF Known
<1> QED
  BY <1>2, <1>3, <1>4, <1>5 DEF Heir

\* The edition that lands on the screen is one of the screens'.
LEMMA LandingBack ==
  ASSUME PhoneInv, NEW c \in Call, Landing(c)
  PROVE  c \in Back /\ Agreed(c) /\ call[c].who # NoOne
<1>1. call[c].kind = "save" /\ call[c].stage = "served" /\ call[c].reply = "ok"
  BY DEF Landing
<1>2. c # Front
  BY <1>1, FreshFields DEF PhoneInv, FrontKept, Awaited, TypeOK
<1>3. c \in Back
  BY <1>2 DEF Call
<1> QED
  BY <1>1, <1>3 DEF PhoneInv, EditsKept, Agreed, Edit

LEMMA ProfileStep ==
  ASSUME PhoneInv, [Next]_vars
  PROVE  ProfileKept'
<1> USE DEF PhoneInv
<1>0. /\ call[Front].stage # "open" /\ Idle.stage = "idle"
      /\ Front \in Call /\ \A c \in Call : c = Front \/ c \in Back
  BY FreshFields DEF FrontKept, Awaited, TypeOK, Call
<1>1. ASSUME UNCHANGED <<vault, cached, torn, ui>>, screen' = screen,
             call'[Front] = call[Front] \/ call[Front].stage # "done"
      PROVE  ProfileKept'
  BY <1>1 DEF ProfileKept
<1>2. ASSUME NEW c \in Call, Serve(c) PROVE ProfileKept'
  BY <1>1, <1>2, FrontServed DEF Serve, disk, history
<1>3. ASSUME NEW c \in Call, Join(c) PROVE ProfileKept'
  BY <1>1, <1>3, FrontJoined DEF Join, disk, history
<1>4. ASSUME NEW c \in Call, Answer(c) \/ Lose(c) \/ Send(c) \/ Ask(c) PROVE ProfileKept'
  <2>1. call'[Front] = call[Front] \/ call[Front].stage # "done"
    BY <1>0, <1>4, FrontSteps
  <2>2. CASE Lose(c) \/ Send(c) \/ Ask(c) \/ (Answer(c) /\ screen' = screen)
    BY <1>1, <2>1, <2>2 DEF Answer, Lose, Send, Ask, disk, history
  <2>3. CASE Landing(c)
    <3>1. UNCHANGED <<vault, cached, torn, ui>> /\ screen' # NoOne
      BY <2>3, LandingBack DEF Landing, Answer, disk, history
    <3> QED
      BY <2>1, <3>1 DEF ProfileKept
  <2> QED
    BY <1>4, <2>2, <2>3 DEF Answer, Landing
<1>5. ASSUME SessionOver, ui = "me" => call'[Front].stage = "done" /\ call'[Front].reply = "refused"
      PROVE  ProfileKept'
  BY <1>5 DEF SessionOver, ProfileKept
<1>6. ASSUME NEW c \in Call, JoinEmpty(c) PROVE ProfileKept'
  <2>1. call[c].stage = "served"
    BY <1>6 DEF JoinEmpty, Refused
  <2>2. ui = "me" => c = Front
    BY <1>0, <2>1 DEF FrontKept
  <2>3. c = Front => FrontEnds("refused")
    BY <1>0, <1>6, FrontSteps
  <2> QED
    BY <1>5, <1>6, <2>2, <2>3 DEF JoinEmpty, FrontEnds
<1>7. CASE FlightRefused
  <2>1. ui = "me" => call[Front].stage = "await"
    BY <1>7 DEF FlightRefused, FrontKept
  <2>2. call[Front].stage = "await" => FrontEnds("refused")
    BY <1>0, <1>7, FrontSteps
  <2> QED
    BY <1>5, <1>7, <2>1, <2>2 DEF FlightRefused, FrontEnds
<1>8. CASE FlightSave
  <2>1. vault'.access # NoPair /\ UNCHANGED <<cached, torn, screen, ui>>
    BY <1>8 DEF FlightSave, FlightKept, Both, NoPair, Pair
  <2> QED
    BY <2>1 DEF ProfileKept
<1>9. CASE FlightLost
  <2>1. call'[Front] = call[Front] \/ call[Front].stage # "done"
    BY <1>0, <1>9, FrontSteps
  <2> QED
    BY <1>1, <1>9, <2>1 DEF FlightLost, disk
<1>10. CASE \/ Rotate \/ (\E p \in Pair : Expire(p)) \/ (\E u \in User : RevokeAll(u)) \/ UNCHANGED vars
  BY <1>1, <1>10 DEF Rotate, Expire, RevokeAll, disk, memory, history, vars
<1>11. CASE Boot
  <2>1. UNCHANGED <<vault, cached, torn, screen>> /\ ui = "boot"
    BY <1>11 DEF Boot, disk, history
  <2>2. \/ vault.access = NoPair /\ ui' = "ready"
        \/ vault.access # NoPair /\ ui' = "me"
    BY <1>11, FrontWritten
  <2> QED
    BY <2>1, <2>2 DEF ProfileKept
<1>12. CASE Hydrated
  <2>1. vault.access # NoPair
    BY <1>12 DEF Hydrated, ProfileKept
  <2> QED
    BY <1>12, <2>1 DEF Hydrated, ProfileKept
<1>13. CASE HydrateOffline
  BY <1>13 DEF HydrateOffline, ProfileKept, disk, history
<1>14. CASE HydrateRefused \/ LogoutErase \/ Deleted \/ EraseTokens \/ EraseProfile \/ Erased
  <2>1. CASE Erased
    BY <2>1 DEF Erased, ErasingKept, ProfileKept, disk
  <2>2. CASE HydrateRefused \/ LogoutErase \/ Deleted \/ EraseTokens \/ EraseProfile
    <3>1. ui' = "erasing"
      BY <2>2 DEF HydrateRefused, LogoutErase, Deleted, EraseTokens, EraseProfile, Erase, ErasingKept
    <3> QED
      BY <3>1 DEF ProfileKept
  <2> QED
    BY <1>14, <2>1, <2>2
<1>15. CASE SignedIn
  <2>1. /\ vault'.access = about.pair /\ about.pair # NoPair /\ about.who # NoOne
        /\ ui' = "ready" /\ screen' = about.who
    BY <1>15 DEF SignedIn, PairInHand, Both, NoPair, Pair
  <2>2. (cached' = about.who) \/ (cached' = cached /\ torn' = torn)
    BY <1>15 DEF SignedIn
  <2> QED
    BY <2>1, <2>2 DEF ProfileKept
<1>16. CASE SignInLost \/ DeleteFailed
  BY <1>16 DEF SignInLost, DeleteFailed, ProfileKept, disk, history
<1>17. CASE \E u \in User, way \in {"password", "provider"}, p \in Pair : SignIn(u, way, p)
  BY <1>17 DEF SignIn, ProfileKept, disk
<1>18. CASE Logout \/ LogoutSend \/ DeleteAccount
  BY <1>18 DEF Logout, LogoutSend, DeleteAccount, ProfileKept, disk
<1>19. CASE Close
  BY <1>19 DEF Close, ProfileKept, disk, history
<1>20. CASE Kill
  BY <1>20 DEF Kill, ProfileKept
<1> QED
  BY <1>2, <1>3, <1>4, <1>6, <1>7, <1>8, <1>9, <1>10, <1>11, <1>12, <1>13, <1>14, <1>15, <1>16,
     <1>17,
     <1>18, <1>19, <1>20 DEF Next

\* A phone signed out, with no refresh in flight, has no refresh to start.
LEMMA EmptyStill ==
  ASSUME PhoneInv, [Next]_vars, Still \/ EraseProfile, vault = Empty, flight.stage = "idle"
  PROVE  vault' = Empty /\ flight'.stage = "idle"
<1> USE DEF PhoneInv
<1>1. ASSUME NEW c \in Call,
             Serve(c) \/ Send(c) \/ Answer(c) \/ Join(c) \/ JoinEmpty(c) \/ Lose(c) \/ Ask(c)
      PROVE  UNCHANGED <<vault, flight>>
  BY <1>1 DEF Serve, Send, Answer, Join, JoinEmpty, SessionOver, Lose, Ask, disk, Empty
<1>2. CASE Rotate \/ FlightRefused \/ FlightSave \/ FlightLost
  BY <1>2 DEF Rotate, FlightRefused, FlightSave, FlightLost
<1>3. CASE (\E p \in Pair : Expire(p)) \/ (\E u \in User : RevokeAll(u)) \/ UNCHANGED vars
  BY <1>3 DEF Expire, RevokeAll, memory, disk, vars
<1>4. CASE EraseProfile
  BY <1>4 DEF EraseProfile
<1>5. CASE Kill /\ Still
  <2>1. ui = "boot" /\ flight' = Landed /\ vault' \in Written
    BY <1>5 DEF Kill, Still
  <2>2. Written = {vault}
    BY <2>1 DEF Written, ErasingKept
  <2> QED
    BY <2>1, <2>2 DEF Landed
<1>6. ASSUME Still,
             \/ Boot \/ Hydrated \/ HydrateRefused \/ HydrateOffline
             \/ \E u \in User, way \in {"password", "provider"}, p \in Pair : SignIn(u, way, p)
             \/ SignedIn \/ SignInLost \/ Logout \/ LogoutSend \/ LogoutErase
             \/ DeleteAccount \/ Deleted \/ DeleteFailed \/ EraseTokens \/ Erased \/ Close
      PROVE  FALSE
  BY <1>6 DEF Still, Boot, Hydrated, HydrateRefused, HydrateOffline, SignIn, SignedIn, SignInLost,
     Logout, LogoutSend, LogoutErase, DeleteAccount, Deleted, DeleteFailed, EraseTokens, Erased,
     Close, Erase
<1>7. EraseProfile => Next
  BY DEF Next
<1> QED
  BY <1>1, <1>2, <1>3, <1>4, <1>5, <1>6 DEF Next

\* What a step without an end of hydrate, sign-in or sign-out leaves of the
\* history and of the profile kept.
LEMMA HistorySteps ==
  ASSUME [Next]_vars
  PROVE  \/ late' = late /\ (torn => torn') /\ (cached' = cached \/ cached' = NoOne)
         \/ Hydrated \/ HydrateOffline \/ SignedIn \/ EraseTokens \/ Erased
<1> DEFINE Goal == late' = late /\ (torn => torn') /\ (cached' = cached \/ cached' = NoOne)
<1>1. ASSUME NEW c \in Call,
             Serve(c) \/ Send(c) \/ Answer(c) \/ Join(c) \/ JoinEmpty(c) \/ Lose(c) \/ Ask(c)
      PROVE  Goal
  <2>1. CASE JoinEmpty(c)
    BY <2>1, Zenon DEF JoinEmpty, SessionOver
  <2>2. CASE Serve(c) \/ Send(c) \/ Answer(c) \/ Join(c) \/ Lose(c) \/ Ask(c)
    BY <2>2 DEF Serve, Send, Answer, Join, Lose, Ask, history, disk
  <2> QED
    BY <1>1, <2>1, <2>2
<1>2. CASE Rotate \/ FlightRefused \/ FlightSave \/ FlightLost
  BY <1>2 DEF Rotate, FlightRefused, SessionOver, FlightSave, FlightLost, history, disk
<1>3. CASE (\E p \in Pair : Expire(p)) \/ (\E u \in User : RevokeAll(u)) \/ UNCHANGED vars
  BY <1>3 DEF Expire, RevokeAll, memory, history, disk, vars
<1>4. CASE \E u \in User, way \in {"password", "provider"}, p \in Pair : SignIn(u, way, p)
  BY <1>4 DEF SignIn, disk
<1>5. CASE \/ Boot \/ SignInLost \/ Logout \/ LogoutSend \/ DeleteAccount \/ DeleteFailed
           \/ HydrateRefused \/ LogoutErase \/ Deleted \/ EraseProfile \/ Close \/ Kill
  BY <1>5 DEF Boot, SignInLost, Logout, LogoutSend, DeleteAccount, DeleteFailed, HydrateRefused,
     LogoutErase, Deleted, EraseProfile, Close, Kill, history, disk
<1> QED
  BY <1>1, <1>2, <1>3, <1>4, <1>5 DEF Next

LEMMA ErasingStep ==
  ASSUME PhoneInv, [Next]_vars
  PROVE  ErasingKept'
<1> USE DEF PhoneInv
<1>1. CASE Still
  <2>1. UNCHANGED <<ui, erasing>> /\ late' = late
    BY <1>1 DEF Still
  <2>2. cached = NoOne /\ ui = "erasing" => cached' = NoOne
    BY <1>1, HistorySteps DEF Still, Hydrated, HydrateOffline, SignedIn, EraseTokens, Erased
  <2> QED
    BY <1>1, <2>1, <2>2, EmptyStill DEF ErasingKept
<1>2. CASE HydrateRefused \/ LogoutErase \/ Deleted
  BY <1>2 DEF HydrateRefused, LogoutErase, Deleted, Erase, ErasingKept
<1>3. CASE EraseTokens
  <2>1. /\ vault' = Empty /\ erasing' = erasing \ {"tokens"} /\ (late' <=> flight.stage # "idle")
        /\ UNCHANGED <<ui, cached, flight>>
    BY <1>3 DEF EraseTokens
  <2> QED
    BY <2>1 DEF ErasingKept
<1>4. CASE EraseProfile
  <2>1. /\ cached' = NoOne /\ erasing' = erasing \ {"profile"} /\ late' = late
        /\ UNCHANGED <<ui, vault, flight>>
    BY <1>4 DEF EraseProfile, history
  <2> QED
    BY <2>1 DEF ErasingKept
<1>5. ASSUME ui' # "erasing", erasing' = {} \/ (erasing' = erasing /\ ui # "erasing") PROVE ErasingKept'
  BY <1>5 DEF ErasingKept
<1>6. CASE Erased \/ Kill
  BY <1>5, <1>6 DEF Erased, Kill
<1>7. CASE \/ Boot \/ Hydrated \/ HydrateOffline
           \/ \E u \in User, way \in {"password", "provider"}, p \in Pair : SignIn(u, way, p)
           \/ SignedIn \/ SignInLost \/ Logout \/ LogoutSend
           \/ DeleteAccount \/ DeleteFailed \/ Close
  BY <1>5, <1>7 DEF Boot, Hydrated, HydrateOffline, SignIn, SignedIn, SignInLost, Logout, LogoutSend,
     DeleteAccount, DeleteFailed, Close
<1> QED
  BY <1>1, <1>2, <1>3, <1>4, <1>6, <1>7, UiSteps

\* While the user's operation stays at one point, a good answer of its request
\* was there before, or the API gives it now.
LEMMA FrontAnswers ==
  ASSUME PhoneInv, [Next]_vars, ui' = ui,
         call'[Front].stage \in {"served", "done"}, call'[Front].reply = "ok"
  PROVE  \/ /\ call[Front].stage \in {"served", "done"} /\ call[Front].reply = "ok"
            /\ call'[Front].who = call[Front].who
         \/ /\ call[Front].token \in Pair
            /\ call'[Front].who = holder[call[Front].token]
            /\ Effect(Front, holder[call[Front].token])
<1> USE DEF PhoneInv
<1> DEFINE Goal == \/ /\ call[Front].stage \in {"served", "done"} /\ call[Front].reply = "ok"
                      /\ call'[Front].who = call[Front].who
                   \/ /\ call[Front].token \in Pair
                      /\ call'[Front].who = holder[call[Front].token]
                      /\ Effect(Front, holder[call[Front].token])
<1>0. call[Front].stage # "open" /\ Idle.stage = "idle"
  BY FreshFields DEF FrontKept, Awaited, TypeOK
<1>1. ASSUME call'[Front] = call[Front] PROVE Goal
  BY <1>1
<1>2. ASSUME NEW c \in Call, Serve(c) PROVE Goal
  BY <1>1, <1>2, FrontServed
<1>3. ASSUME NEW c \in Call, Join(c) PROVE Goal
  BY <1>1, <1>3, FrontJoined
<1>4. ASSUME NEW r \in {"ok", "refused", "lost"}, FrontEnds(r), call[Front].stage = "served" => r = call[Front].reply \/ r # "ok",
             call[Front].stage # "served" => r # "ok"
      PROVE  Goal
  BY <1>4 DEF FrontEnds
<1>5. ASSUME NEW c \in Call, Answer(c) PROVE Goal
  <2>1. call[Front].reply \in {"ok", "refused", "lost"}
    BY DEF TypeOK, Request, Call
  <2> QED
    BY <1>0, <1>1, <1>4, <1>5, <2>1, FrontSteps
<1>6. ASSUME NEW c \in Call, JoinEmpty(c) \/ Lose(c) \/ Send(c) \/ Ask(c) PROVE Goal
  BY <1>0, <1>1, <1>4, <1>6, FrontSteps
<1>7. CASE FlightRefused \/ FlightLost \/ FlightSave
  BY <1>0, <1>1, <1>4, <1>7, FrontSteps
<1>8. CASE \/ Rotate \/ (\E p \in Pair : Expire(p)) \/ (\E u \in User : RevokeAll(u)) \/ UNCHANGED vars
  BY <1>1, <1>8 DEF Rotate, Expire, RevokeAll, memory, vars
<1>9. CASE Kill \/ EraseTokens \/ EraseProfile
  BY <1>0, <1>1, <1>9, FrontWritten DEF EraseTokens, EraseProfile
<1>10. ASSUME \/ Boot \/ Hydrated \/ HydrateRefused \/ HydrateOffline
              \/ \E u \in User, way \in {"password", "provider"}, p \in Pair : SignIn(u, way, p)
              \/ SignedIn \/ SignInLost \/ Logout \/ LogoutSend \/ LogoutErase
              \/ DeleteAccount \/ Deleted \/ DeleteFailed \/ Erased \/ Close
       PROVE  FALSE
  BY <1>10 DEF Boot, Hydrated, HydrateRefused, HydrateOffline, SignIn, SignedIn, SignInLost,
     Logout, LogoutSend, LogoutErase, DeleteAccount, Deleted, DeleteFailed, Erased, Close, Erase
<1>11. Goal
  BY <1>2, <1>3, <1>5, <1>6, <1>7, <1>8, <1>9, <1>10 DEF Next
<1> QED
  BY <1>11

\* Only a registration attaches the phone to an account.
LEMMA AttachSteps ==
  ASSUME [Next]_vars
  PROVE  \/ attached' \in {attached, NoOne}
         \/ \E c \in Call : Serve(c) /\ call[c].kind = "register" /\ call[c].stage = "sent"
<1>1. ASSUME NEW c \in Call, Serve(c), call[c].kind # "register" PROVE attached' \in {attached, NoOne}
  <2>1. ASSUME NEW u, Effect(c, u) PROVE attached' \in {attached, NoOne}
    BY <1>1, <2>1 DEF Effect, server
  <2> QED
    BY <1>1, <2>1 DEF Serve, server
<1>2. ASSUME NEW c \in Call, Serve(c) PROVE call[c].stage = "sent"
  BY <1>2 DEF Serve
<1>3. ASSUME NEW c \in Call, Send(c) \/ Answer(c) \/ Join(c) \/ JoinEmpty(c) \/ Lose(c) \/ Ask(c)
      PROVE  attached' = attached
  BY <1>3 DEF Send, Answer, Join, JoinEmpty, SessionOver, Lose, Ask, server
<1>4. CASE \/ Rotate \/ FlightRefused \/ FlightSave \/ FlightLost \/ (\E p \in Pair : Expire(p))
           \/ (\E u \in User : RevokeAll(u)) \/ UNCHANGED vars
  BY <1>4 DEF Rotate, FlightRefused, SessionOver, FlightSave, FlightLost, Expire, RevokeAll, vars,
     server
<1>5. CASE \/ Boot \/ Hydrated \/ HydrateRefused \/ HydrateOffline
           \/ \E u \in User, way \in {"password", "provider"}, p \in Pair : SignIn(u, way, p)
           \/ SignedIn \/ SignInLost \/ Logout \/ LogoutSend \/ LogoutErase
           \/ DeleteAccount \/ Deleted \/ DeleteFailed
           \/ EraseTokens \/ EraseProfile \/ Erased \/ Close \/ Kill
  BY <1>5 DEF Boot, Hydrated, HydrateRefused, HydrateOffline, SignIn, SignedIn, SignInLost,
     Logout, LogoutSend, LogoutErase, DeleteAccount, Deleted, DeleteFailed, EraseTokens,
     EraseProfile, Erased, Close, Kill, Erase, server
<1> QED
  BY <1>1, <1>2, <1>3, <1>4, <1>5 DEF Next

\* The end of a sign-in leaves the phone its pair alone, unless a refresh comes late.
LEMMA SignedPhone ==
  ASSUME PhoneInv, [Next]_vars
  PROVE  /\ ui = "signing" /\ ui' # "signing" /\ ~SignedIn => OnPhone' = OnPhone \/ Kill
         /\ Kill /\ ~torn' => ui # "signing"
         /\ SignedIn /\ ~late' => OnPhone' \subseteq {about.pair} /\ holder'[about.pair] = about.who
<1> USE DEF PhoneInv
<1>1. ASSUME ui = "signing", ui' # "signing", ~SignedIn, ~Kill PROVE OnPhone' = OnPhone
  <2>1. SignInLost
    BY <1>1, UiSteps DEF Still, Boot, Hydrated, HydrateRefused, HydrateOffline, SignIn, Logout,
       LogoutSend, LogoutErase, DeleteAccount, Deleted, DeleteFailed, EraseTokens, EraseProfile,
       Erased, Close, Erase
  <2> QED
    BY <2>1 DEF SignInLost, OnPhone, disk
<1>2. Kill /\ ~torn' => ui # "signing"
  BY DEF Kill
<1>3. ASSUME SignedIn, ~late' PROVE OnPhone' \subseteq {about.pair} /\ holder'[about.pair] = about.who
  <2>1. /\ vault' = Both(about.pair) /\ flight' = flight /\ flight.stage = "idle" /\ holder' = holder
    BY <1>3 DEF SignedIn, server
  <2>2. holder[about.pair] = about.who /\ flight = Landed
    BY <1>3, <2>1 DEF SignedIn, PairInHand, FlightKept
  <2> QED
    BY <2>1, <2>2 DEF OnPhone, Both, Landed
<1> QED
  BY <1>1, <1>2, <1>3

\* Once a sign-out has cleared the tokens, none is left, unless a refresh comes late.
LEMMA ErasedPhone ==
  ASSUME PhoneInv, EraseTokens \/ Erased, ~late'
  PROVE  OnPhone' = {}
<1> USE DEF PhoneInv
<1>1. vault' = Empty /\ flight' = flight /\ flight.stage = "idle"
  <2>1. CASE EraseTokens
    BY <2>1 DEF EraseTokens
  <2>2. CASE Erased
    BY <2>2 DEF Erased, ErasingKept, disk
  <2> QED
    BY <2>1, <2>2
<1> QED
  BY <1>1 DEF FlightKept, OnPhone, Empty, Landed

LEMMA AccountStep ==
  ASSUME PhoneInv, [Next]_vars
  PROVE  OneAccount'
<1> SUFFICES ASSUME ~late', ~torn'
             PROVE  /\ \A p, q \in OnPhone' : holder'[p] = holder'[q]
                    /\ cached' # NoOne => \A p \in OnPhone' : holder'[p] = cached'
                    /\ ui' = "me" /\ call'[Front].token # NoPair =>
                          \A p \in OnPhone' : holder'[p] = holder'[call'[Front].token]
                    /\ ui' = "me" /\ call'[Front].stage \in {"served", "done"} /\ call'[Front].reply = "ok" =>
                          \A p \in OnPhone' : holder'[p] = call'[Front].who
  BY DEF OneAccount, Heir
<1> USE DEF PhoneInv
<1> DEFINE Goal ==
       /\ \A p, q \in OnPhone' : holder'[p] = holder'[q]
       /\ cached' # NoOne => \A p \in OnPhone' : holder'[p] = cached'
       /\ ui' = "me" /\ call'[Front].token # NoPair =>
             \A p \in OnPhone' : holder'[p] = holder'[call'[Front].token]
       /\ ui' = "me" /\ call'[Front].stage \in {"served", "done"} /\ call'[Front].reply = "ok" =>
             \A p \in OnPhone' : holder'[p] = call'[Front].who
<1>1. ASSUME late' = late, torn => torn', cached' = cached \/ cached' = NoOne,
             ~SignedIn, ~EraseTokens, ~Erased
      PROVE  Goal
  <2>0. ~late /\ ~torn
    BY <1>1
  <2>1. ui = "signing" /\ ui' # "signing" => OnPhone' = OnPhone
    BY <1>1, SignedPhone
  <2>2. /\ \A p, q \in OnPhone : holder[p] = holder[q]
        /\ cached # NoOne => \A p \in OnPhone : holder[p] = cached
        /\ ui = "me" /\ call[Front].token # NoPair =>
              \A p \in OnPhone : holder[p] = holder[call[Front].token]
        /\ ui = "me" /\ call[Front].stage \in {"served", "done"} /\ call[Front].reply = "ok" =>
              \A p \in OnPhone : holder[p] = call[Front].who
    BY <2>0 DEF OneAccount, Heir
  <2>3. /\ \A p \in OnPhone' : \E q \in OnPhone : holder'[p] = holder[q]
        /\ \A p \in OnPhone : holder'[p] = holder[p]
        /\ call[Front].token # NoPair => holder'[call[Front].token] = holder[call[Front].token]
    BY <2>1, HeirStep DEF Call
  <2>4. \A p, q \in OnPhone' : holder'[p] = holder'[q]
    BY <2>2, <2>3
  <2>5. cached' # NoOne => \A p \in OnPhone' : holder'[p] = cached'
    BY <1>1, <2>2, <2>3
  <2>7. ASSUME ui' = "me", call'[Front].token # NoPair, NEW p \in OnPhone'
        PROVE  holder'[p] = holder'[call'[Front].token]
    <3>1. call'[Front].token \in OnPhone \/ call'[Front].token = call[Front].token
      BY <2>7, OnPhoneSteps
    <3>2. CASE call'[Front].token \in OnPhone
      BY <2>2, <2>3, <3>2
    <3>3. CASE call'[Front].token = call[Front].token
      <4>1. ui = "me"
        <5>1. ui' = ui \/ Boot
          BY <1>1, <2>7, UiSteps DEF Still, Hydrated, HydrateRefused, HydrateOffline, SignIn, SignedIn,
             SignInLost, Logout, LogoutSend, LogoutErase, DeleteAccount, Deleted, DeleteFailed,
             EraseProfile, Close, Kill, Erase
        <5>2. Boot => call[Front] = Idle
          BY DEF Boot, FrontKept
        <5> QED
          BY <2>7, <3>3, <5>1, <5>2, FreshFields
      <4> QED
        BY <2>2, <2>3, <2>7, <3>3, <4>1
    <3> QED
      BY <3>1, <3>2, <3>3
  <2>8. ASSUME ui' = "me", call'[Front].stage \in {"served", "done"}, call'[Front].reply = "ok",
               NEW p \in OnPhone'
        PROVE  holder'[p] = call'[Front].who
    <3>1. ui' = ui
      <4>1. ui' = ui \/ Boot
        BY <1>1, <2>8, UiSteps DEF Still, Hydrated, HydrateRefused, HydrateOffline, SignIn, SignedIn,
           SignInLost, Logout, LogoutSend, LogoutErase, DeleteAccount, Deleted, DeleteFailed,
           EraseProfile, Close, Kill, Erase
      <4>2. "me" \in Kind
        BY DEF Kind
      <4>3. ~Boot
        BY <2>8, <4>2, FrontWritten, FreshFields
      <4> QED
        BY <4>1, <4>3
    <3>2. PICK q \in OnPhone : holder'[p] = holder[q]
      BY <2>3
    <3>3. CASE /\ call[Front].stage \in {"served", "done"} /\ call[Front].reply = "ok"
               /\ call'[Front].who = call[Front].who
      BY <2>2, <2>8, <3>1, <3>2, <3>3
    <3>4. CASE call[Front].token \in Pair /\ call'[Front].who = holder[call[Front].token]
      <4>1. call[Front].token # NoPair
        BY <3>4 DEF Pair, NoPair
      <4> QED
        BY <2>2, <2>8, <3>1, <3>2, <3>4, <4>1
    <3> QED
      BY <2>8, <3>1, <3>3, <3>4, FrontAnswers
  <2> QED
    BY <2>4, <2>5, <2>7, <2>8
<1>2. CASE Hydrated \/ HydrateOffline
  <2>1. /\ OnPhone' = OnPhone /\ holder' = holder /\ ~late /\ ~torn /\ ui = "me" /\ ui' = "ready"
        /\ call[Front].stage = "done"
    BY <1>2 DEF Hydrated, HydrateOffline, FrontDone, OnPhone, disk, history, server
  <2>2. \A p, q \in OnPhone : holder[p] = holder[q]
    BY <2>1 DEF OneAccount
  <2>3. CASE Hydrated
    <3>1. call[Front].reply = "ok" /\ screen' = call[Front].who /\ cached' = call[Front].who
      BY <2>3 DEF Hydrated
    <3> QED
      BY <2>1, <2>2, <3>1 DEF OneAccount, Heir
  <2>4. CASE HydrateOffline
    <3>1. screen' = cached /\ cached' = cached
      BY <2>4 DEF HydrateOffline, disk
    <3> QED
      BY <2>1, <2>2, <3>1 DEF OneAccount, Heir
  <2> QED
    BY <1>2, <2>3, <2>4
<1>3. CASE EraseTokens \/ Erased
  <2>1. OnPhone' = {} /\ ui' # "me"
    BY <1>3, ErasedPhone DEF EraseTokens, Erased, ErasingKept
  <2> QED
    BY <2>1
<1>4. CASE SignedIn
  <2>1. OnPhone' \subseteq {about.pair} /\ holder'[about.pair] = about.who /\ ui' = "ready"
    BY <1>4, SignedPhone DEF SignedIn
  <2>2. cached' \in {about.who, NoOne}
    BY <1>4 DEF SignedIn, ProfileKept
  <2> QED
    BY <2>1, <2>2
<1>5. Goal
  BY <1>1, <1>2, <1>3, <1>4, HistorySteps
<1> QED
  BY <1>5

\* What an edition is answered with stays as long as no one signs in or out.
LEMMA EditsStep ==
  ASSUME PhoneInv, [Next]_vars
  PROVE  EditsKept'
<1> USE DEF PhoneInv
<1>0. /\ \A d \in Back : d \in Call
      /\ \A d \in Back : Agreed(d)' => Edit(d)'
      /\ Sent("save").stage = "sent" /\ Sent("save").token \in OnPhone \cup {NoPair}
      /\ Idle.stage = "idle"
  BY DEF Call, Agreed, Edit, Sent, Idle, OnPhone
<1>1. ASSUME NEW d \in Back, Agreed(d)'
      PROVE  /\ Edit(d)
             /\ \/ Agreed(d) /\ call'[d].who = call[d].who
                \/ call[d].token \in Known /\ call'[d].who = holder[call[d].token]
  <2>1. Edit(d)
    BY <1>0, <1>1, BackSteps DEF Agreed
  <2>2. call'[d].stage = "served" /\ call'[d].reply = "ok"
    BY <1>1 DEF Agreed
  <2>3. call[d].token \in Pair => call[d].token \in Known
    BY <1>0 DEF Known, Pair, NoPair
  <2> QED
    BY <1>0, <1>1, <2>1, <2>2, <2>3, EditSteps DEF Agreed
<1>2. \A d \in Back : Agreed(d)' => call'[d].who # NoOne
  BY <1>1 DEF EditsKept, FlightKept
<1> DEFINE Same(u) == \A p \in OnPhone' : holder'[p] = u
<1> DEFINE Goal == /\ screen' # NoOne => Same(screen')
                   /\ \A d \in Back : Edit(d)' /\ call'[d].token # NoPair => Same(holder'[call'[d].token])
                   /\ \A d \in Back : Agreed(d)' => Same(call'[d].who)
<1>3. SUFFICES ASSUME ~late', ~torn', ~saving' PROVE Goal
  BY <1>2 DEF EditsKept, Astray, Heir
<1>4. ASSUME saving' = saving, late' = late, torn => torn', ~SignedIn,
             screen' = screen \/ screen' = NoOne \/ \E c \in Call : Landing(c)
      PROVE  Goal
  <2>1. ~Astray /\ ~late /\ ~torn
    BY <1>3, <1>4 DEF Astray
  <2>2. /\ screen # NoOne => Heir(screen)
        /\ \A c \in Back : Edit(c) /\ call[c].token # NoPair => Heir(holder[call[c].token])
        /\ \A c \in Back : Agreed(c) => Heir(call[c].who)
        /\ \A p, q \in OnPhone : holder[p] = holder[q]
    BY <2>1 DEF EditsKept, OneAccount
  <2>3. ui = "signing" /\ ui' # "signing" => OnPhone' = OnPhone
    BY <1>3, <1>4, SignedPhone
  <2>4. /\ \A p \in OnPhone' : \E q \in OnPhone : holder'[p] = holder[q]
        /\ \A p \in OnPhone : holder'[p] = holder[p]
        /\ \A c \in Call : call[c].token # NoPair => holder'[call[c].token] = holder[call[c].token]
        /\ \A u : Heir(u) => Same(u)
    BY <2>3, HeirStep
  <2> HIDE DEF Same
  <2>5. screen' # NoOne => Same(screen')
    <3>1. ASSUME NEW c \in Call, Landing(c) PROVE Same(screen')
      BY <3>1, <2>2, <2>4, LandingBack DEF Landing
    <3> QED
      BY <1>4, <2>2, <2>4, <3>1
  <2>6. ASSUME NEW q \in OnPhone PROVE Same(holder'[q])
    BY <2>2, <2>4, <2>6 DEF Same
  <2>7. ASSUME NEW d \in Back, Edit(d)', call'[d].token # NoPair PROVE Same(holder'[call'[d].token])
    <3>1. CASE call'[d].token \in OnPhone
      BY <2>6, <3>1
    <3>2. CASE Edit(d) /\ call'[d].token = call[d].token
      BY <1>0, <2>2, <2>4, <2>7, <3>2
    <3> QED
      BY <1>0, <2>7, <3>1, <3>2, BackSteps, EditSteps
  <2>8. ASSUME NEW d \in Back, Agreed(d)' PROVE Same(call'[d].who)
    <3>1. CASE Agreed(d) /\ call'[d].who = call[d].who
      BY <2>2, <2>4, <3>1
    <3>2. CASE Edit(d) /\ call[d].token \in Known /\ call'[d].who = holder[call[d].token]
      BY <2>2, <2>4, <3>2 DEF Known
    <3> QED
      BY <1>1, <2>8, <3>1, <3>2
  <2> QED
    BY <2>5, <2>7, <2>8
<1>5. CASE EraseTokens \/ Erased
  BY <1>3, <1>5, ErasedPhone
<1>6. CASE SignedIn
  <2>1. /\ OnPhone' \subseteq {about.pair} /\ holder'[about.pair] = about.who
        /\ screen' = about.who /\ ui' # ui /\ ~Saving
    BY <1>3, <1>6, SignedPhone DEF SignedIn
  <2>2. \A d \in Back : ~Edit(d)'
    BY <2>1, BackSteps DEF Saving, Edit, Asked
  <2> QED
    BY <1>0, <2>1, <2>2
<1>7. CASE Hydrated \/ HydrateOffline
  <2>1. /\ OnPhone' = OnPhone /\ holder' = holder /\ ~late /\ ~torn /\ ui = "me" /\ ui' # ui
        /\ call[Front].stage = "done"
    BY <1>3, <1>7 DEF Hydrated, HydrateOffline, FrontDone, OnPhone, disk, history, server
  <2>2. \A d \in Back : ~Edit(d)'
    BY <1>0, <2>1, BackSteps DEF FrontKept, Edit, Asked
  <2>3. CASE Hydrated
    <3>1. call[Front].reply = "ok" /\ screen' = call[Front].who
      BY <2>3 DEF Hydrated
    <3> QED
      BY <1>0, <2>1, <2>2, <3>1 DEF OneAccount, Heir
  <2>4. CASE HydrateOffline
    <3>1. screen' = cached
      BY <2>4 DEF HydrateOffline
    <3> QED
      BY <1>0, <2>1, <2>2, <3>1 DEF OneAccount, Heir
  <2> QED
    BY <1>7, <2>3, <2>4
<1>8. CASE Close \/ Kill
  <2>1. screen' = NoOne /\ \A c \in Call : call'[c] = Idle
    BY <1>8 DEF Close, Kill
  <2>2. \A d \in Back : ~Edit(d)'
    BY <1>0, <2>1 DEF Edit
  <2> QED
    BY <1>0, <2>1, <2>2
<1>9. Goal
  BY <1>4, <1>5, <1>6, <1>7, <1>8, HistorySteps, ScreenSteps
<1> QED
  BY <1>9

LEMMA SigningOutStep ==
  ASSUME PhoneInv, [Next]_vars
  PROVE  SigningOut'
<1> SUFFICES ASSUME ui' \in {"detaching", "deleting"}, ~ringing'
             PROVE  /\ \A p \in OnPhone' : holder'[p] = about'.who
                    /\ call'[Front].token # NoPair => holder'[call'[Front].token] = about'.who
                    /\ call'[Front].stage \in {"served", "done"} /\ call'[Front].reply = "ok" =>
                          attached' # about'.who
  BY DEF SigningOut, Heir
<1> USE DEF PhoneInv
<1> DEFINE Goal ==
       /\ \A p \in OnPhone' : holder'[p] = about'.who
       /\ call'[Front].token # NoPair => holder'[call'[Front].token] = about'.who
       /\ call'[Front].stage \in {"served", "done"} /\ call'[Front].reply = "ok" =>
             attached' # about'.who
<1>1. CASE Still
  <2>0. /\ ui \in {"detaching", "deleting"} /\ ~ringing /\ about' = about /\ ui' = ui
        /\ about.who # NoOne
    BY <1>1 DEF Still, FrontKept
  <2>1. /\ \A p \in OnPhone : holder[p] = about.who
        /\ call[Front].token # NoPair => holder[call[Front].token] = about.who
        /\ call[Front].stage \in {"served", "done"} /\ call[Front].reply = "ok" =>
              attached # about.who
    BY <2>0 DEF SigningOut, Heir
  <2>2. /\ \A p \in OnPhone' : \E q \in OnPhone : holder'[p] = holder[q]
        /\ \A p \in OnPhone : holder'[p] = holder[p]
        /\ call[Front].token # NoPair => holder'[call[Front].token] = holder[call[Front].token]
    BY <2>0, HeirStep DEF Call
  <2>3. \A p \in OnPhone' : holder'[p] = about'.who
    BY <2>0, <2>1, <2>2
  <2>4. call'[Front].token # NoPair => holder'[call'[Front].token] = about'.who
    <3>1. call'[Front].token \in OnPhone \cup {call[Front].token, NoPair}
      BY OnPhoneSteps
    <3> QED
      BY <2>0, <2>1, <2>2, <3>1
  <2>5. ASSUME call'[Front].stage \in {"served", "done"}, call'[Front].reply = "ok"
        PROVE  attached' # about'.who
    <3>1. CASE call[Front].stage \in {"served", "done"} /\ call[Front].reply = "ok"
      <4>1. attached # about.who
        BY <2>1, <3>1
      <4>2. ASSUME NEW c \in Call, call[c].kind = "register", call[c].stage = "sent"
            PROVE  FALSE
        <5>1. c \in Back
          BY <2>0, <4>2 DEF FrontKept, Awaited, Call
        <5>2. Registering
          BY <4>2, <5>1 DEF Registering
        <5> QED
          BY <2>0, <5>2 DEF Quiet, Ending
      <4>3. attached' \in {attached, NoOne}
        BY <4>2, AttachSteps
      <4> QED
        BY <2>0, <4>1, <4>3
    <3>2. CASE call[Front].token \in Pair /\ Effect(Front, holder[call[Front].token])
      <4>1. call[Front].kind \in {"detach", "delete"}
        BY <2>0 DEF FrontKept, Awaited
      <4>2. attached' = IF attached = holder[call[Front].token] THEN NoOne ELSE attached
        BY <3>2, <4>1 DEF Effect
      <4>3. call[Front].token # NoPair
        BY <3>2 DEF Pair, NoPair
      <4> QED
        BY <2>0, <2>1, <4>2, <4>3
    <3> QED
      BY <2>0, <2>5, <3>1, <3>2, FrontAnswers
  <2> QED
    BY <2>3, <2>4, <2>5
<1>2. CASE Logout \/ DeleteAccount
  <2>1. /\ UNCHANGED <<vault, flight, holder>> /\ ~Astray
        /\ ui = "ready" /\ screen # NoOne /\ about'.who = screen
    BY <1>2 DEF Logout, DeleteAccount, Nobody, server, disk
  <2>2. OnPhone' = OnPhone /\ call[Front].token = NoPair
    BY <2>1, FreshFields DEF OnPhone, FrontKept
  <2>3. \A p \in OnPhone : holder[p] = screen
    BY <2>1 DEF EditsKept, Heir
  <2>4. call'[Front].token \in OnPhone \cup {NoPair}
    BY <2>2, OnPhoneSteps
  <2>5. {"detach", "delete"} \subseteq Kind
    BY DEF Kind
  <2>6. call'[Front].reply = "lost"
    BY <1>2, <2>5, FrontWritten, FreshFields
  <2> QED
    BY <2>1, <2>2, <2>3, <2>4, <2>6
<1>3. Still \/ Logout \/ DeleteAccount
  BY UiSteps DEF Still, Boot, Hydrated, HydrateRefused, HydrateOffline, SignIn, SignedIn,
     SignInLost, LogoutSend, LogoutErase, Deleted, DeleteFailed, EraseTokens, EraseProfile, Erased,
     Close, Kill, Erase, ErasingKept
<1>4. Goal
  BY <1>1, <1>2, <1>3
<1> QED
  BY <1>4

LEMMA RegisteringSteps ==
  ASSUME PhoneInv, [Next]_vars, Registering'
  PROVE  Registering \/ (ui \in {"me", "signing"} /\ ui' = "ready")
BY BackSteps DEF PhoneInv, Registering

\* Without a registration under way nothing attaches the phone.
LEMMA AttachedStill ==
  ASSUME PhoneInv, [Next]_vars, ~Registering
  PROVE  attached' \in {attached, NoOne}
<1> USE DEF PhoneInv
<1>1. ASSUME NEW c \in Call, call[c].kind = "register", call[c].stage = "sent"
      PROVE  FALSE
  <2>1. c \in Back
    BY <1>1, FreshFields DEF FrontKept, Awaited, Call, TypeOK
  <2> QED
    BY <1>1, <2>1 DEF Registering
<1> QED
  BY <1>1, AttachSteps

\* With no account on the screen no edition starts, and none lands that was not
\* under way.
LEMMA SavingSteps ==
  ASSUME PhoneInv, [Next]_vars
  PROVE  /\ Saving' => Saving \/ screen # NoOne
         /\ \A c \in Call : Landing(c) => Saving
<1>1. Saving' => Saving \/ screen # NoOne
  BY BackSteps DEF PhoneInv, Saving, Edit, Asked
<1>2. ASSUME NEW c \in Call, Landing(c) PROVE Saving
  BY <1>2, LandingBack DEF Agreed, Edit, Saving
<1> QED
  BY <1>1, <1>2

\* What is said of the phone after a sign-out, while no one signs in or out.
LEMMA OutStill ==
  ASSUME PhoneInv, [Next]_vars, Still, left # NoOne, ~late
  PROVE  /\ ui' \in {"boot", "ready"} /\ flight'.stage = "idle"
         /\ vault' = Empty /\ cached' = NoOne
         /\ ~saving' => screen' = NoOne /\ ~Saving'
         /\ ~ringing' => ~Registering' /\ attached' # left'
<1> USE DEF PhoneInv
<1>1. /\ UNCHANGED <<ui, left, ringing>>
      /\ ui \in {"boot", "ready"} /\ flight.stage = "idle"
      /\ vault = Empty /\ cached = NoOne
      /\ ~saving => screen = NoOne /\ ~Saving
      /\ ~ringing => ~Registering /\ attached # left
  BY DEF Still, Quiet
<1>2. vault' = Empty /\ flight'.stage = "idle"
  BY <1>1, EmptyStill
<1>3. cached' = NoOne
  BY <1>1, HistorySteps DEF Still, Hydrated, HydrateOffline, SignedIn, EraseTokens, Erased, ErasingKept
<1>4. ~ringing' => ~Registering' /\ attached' # left'
  BY <1>1, RegisteringSteps, AttachedStill
<1>5. ASSUME ~saving' PROVE screen' = NoOne /\ ~Saving'
  <2>1. CASE saving' = saving
    <3>1. screen = NoOne /\ ~Saving
      BY <1>1, <1>5, <2>1
    <3>2. screen' = screen \/ screen' = NoOne
      BY <1>1, <3>1, ScreenSteps, SavingSteps
             DEF Still, Hydrated, HydrateOffline, SignedIn, Erased, Close, Kill
    <3> QED
      BY <3>1, <3>2, SavingSteps
  <2>2. CASE Close \/ Kill
    <3>1. screen' = NoOne /\ \A c \in Call : call'[c] = Idle
      BY <2>2 DEF Close, Kill
    <3> QED
      BY <3>1, FreshFields DEF Saving, Call
  <2> QED
    BY <1>1, <2>1, <2>2, ScreenSteps DEF Still, Hydrated, HydrateOffline, SignedIn, Erased, ErasingKept
<1> QED
  BY <1>1, <1>2, <1>3, <1>4, <1>5

LEMMA QuietStep ==
  ASSUME PhoneInv, [Next]_vars
  PROVE  Quiet'
<1> USE DEF PhoneInv
<1>0. /\ Registering' => Registering \/ (ui \in {"me", "signing"} /\ ui' = "ready")
      /\ ~Registering => attached' \in {attached, NoOne}
  BY RegisteringSteps, AttachedStill
\* Within a sign-out.
<1>1. ASSUME ui \in Ending, ui' \in Ending, UNCHANGED <<about, left>>, ~ringing' => ~ringing,
             ~ringing' /\ ui' \in {"leaving", "erasing"} => attached # about.who \/ about.who = NoOne
      PROVE  Quiet'
  <2>1. left' = NoOne /\ (~ringing' => ~Registering)
    BY <1>1 DEF Quiet
  <2> QED
    BY <1>0, <1>1, <2>1 DEF Quiet, Ending
<1>2. CASE Still
  <2>1. UNCHANGED <<ui, about, left, ringing>> /\ late' = late
    BY <1>2 DEF Still
  <2>2. CASE ui \in Ending
    BY <1>1, <2>1, <2>2 DEF Quiet
  <2>3. CASE ui \notin Ending
    <3>1. ui' \notin Ending /\ ui' \notin {"leaving", "erasing"}
      BY <2>1, <2>3 DEF Ending
    <3> QED
      BY <1>2, <2>1, <3>1, OutStill DEF Quiet
  <2> QED
    BY <2>2, <2>3
<1>3. CASE EraseTokens \/ EraseProfile
  <2>1. ui = "erasing" /\ UNCHANGED <<ui, about, left, ringing>>
    BY <1>3 DEF EraseTokens, EraseProfile, ErasingKept, history
  <2> QED
    BY <1>1, <2>1 DEF Quiet, Ending
<1>4. CASE LogoutErase
  <2>1. ui = "leaving" /\ ui' = "erasing" /\ UNCHANGED <<about, left, ringing>>
    BY <1>4 DEF LogoutErase, Erase, history
  <2> QED
    BY <1>1, <2>1 DEF Quiet, Ending
<1>5. CASE Deleted
  <2>1. /\ ui = "deleting" /\ ui' = "erasing" /\ UNCHANGED <<about, left, ringing>>
        /\ call[Front].stage = "done" /\ call[Front].reply = "ok"
    BY <1>5 DEF Deleted, FrontDone, Erase, history
  <2> QED
    BY <1>1, <2>1 DEF SigningOut, Ending
<1>6. CASE LogoutSend
  <2>1. /\ UNCHANGED <<about, left>> /\ ui = "detaching" /\ ui' = "leaving"
        /\ ~ringing' => ~ringing /\ call[Front].reply = "ok"
        /\ call[Front].stage = "done"
    BY <1>6 DEF LogoutSend, FrontDone
  <2> QED
    BY <1>1, <2>1 DEF SigningOut, Ending
\* Into a sign-out, and out of one.
<1>7. CASE HydrateRefused
  <2>1. /\ ui = "me" /\ ui' = "erasing" /\ left' = NoOne /\ about' = about
    BY <1>7 DEF HydrateRefused, Erase
  <2>2. about.who = NoOne /\ ~Registering
    BY <2>1, FreshFields DEF FrontKept, Registering
  <2> QED
    BY <1>0, <2>1, <2>2 DEF Quiet
<1>8. CASE Logout \/ DeleteAccount
  <2>1. /\ left' = NoOne /\ ui = "ready"
        /\ ui' \in {"detaching", "deleting"} /\ (~ringing' => ~Registering)
    BY <1>8 DEF Logout, DeleteAccount
  <2> QED
    BY <1>0, <2>1 DEF Quiet
<1>9. CASE Erased
  <2>1. /\ ui = "erasing" /\ erasing = {} /\ ui' = "ready" /\ left' = about.who /\ late' = late
        /\ UNCHANGED <<vault, cached, flight, call, ringing, attached>>
        /\ screen' = NoOne /\ saving' = Saving
    BY <1>9 DEF Erased, disk, server
  <2>2. /\ cached = NoOne /\ (~late => vault = Empty /\ flight.stage = "idle")
        /\ ~ringing => ~Registering /\ (about.who # NoOne => attached # about.who)
    BY <2>1 DEF ErasingKept, Quiet, Ending
  <2>3. (Saving' <=> Saving) /\ (Registering' <=> Registering)
    BY <2>1 DEF Saving, Registering
  <2> QED
    BY <2>1, <2>2, <2>3 DEF Quiet, Ending
\* Outside of a sign-out.
<1>10. ASSUME ui' \notin Ending, left' # NoOne /\ ~late' => FALSE
       PROVE  Quiet'
  BY <1>10 DEF Quiet, Ending
<1>11. CASE Hydrated \/ HydrateOffline \/ DeleteFailed
  <2>1. ui' = "ready" /\ ui \notin {"boot", "ready"} /\ left' = left /\ late' = late
    BY <1>11 DEF Hydrated, HydrateOffline, DeleteFailed, history
  <2> QED
    BY <1>10, <2>1 DEF Quiet, Ending
<1>12. CASE \/ \E u \in User, way \in {"password", "provider"}, p \in Pair : SignIn(u, way, p)
            \/ SignedIn \/ SignInLost
  BY <1>10, <1>12 DEF SignIn, SignedIn, SignInLost, history, PairInHand, Ending
<1>13. CASE Boot
  <2>1. UNCHANGED <<vault, cached, screen, flight, left, saving, ringing, attached>> /\ late' = late
    BY <1>13 DEF Boot, disk, history, server
  <2>2. ui' \in {"ready", "me"} /\ (ui' = "me" => vault.access # NoPair) /\ ui = "boot"
    BY <1>13 DEF Boot
  <2>3. screen = NoOne => ~Saving' \/ Saving
    BY SavingSteps
  <2>4. screen = NoOne /\ ~Saving
    BY <2>2, FreshFields DEF FrontKept, Saving
  <2> QED
    BY <1>0, <2>1, <2>2, <2>3, <2>4 DEF Quiet, Empty, Ending
<1>14. CASE Close \/ Kill
  <2>1. /\ UNCHANGED <<cached, left, ringing, attached>> /\ late' = late /\ ui' = "boot"
        /\ screen' = NoOne /\ \A c \in Call : call'[c] = Idle
    BY <1>14 DEF Close, Kill, disk, history, server
  <2>2. ~Registering' /\ ~Saving'
    BY <2>1, FreshFields DEF Registering, Saving, Call
  <2>3. left # NoOne /\ ~late => vault' = Empty /\ flight'.stage = "idle"
    <3>1. CASE Close
      BY <3>1 DEF Close, disk, Landed, Quiet
    <3>2. CASE Kill
      BY <3>2 DEF Kill, Landed, Quiet, Written, ErasingKept
    <3> QED
      BY <1>14, <3>1, <3>2
  <2> QED
    BY <2>1, <2>2, <2>3 DEF Quiet, Ending
<1> QED
  BY <1>2, <1>3, <1>4, <1>5, <1>6, <1>7, <1>8, <1>9, <1>11, <1>12, <1>13, <1>14, UiSteps

LEMMA PhoneStart == Init => PhoneInv
<1> SUFFICES ASSUME Init PROVE PhoneInv
  OBVIOUS
<1>1. TypeOK
  <2>1. call \in [Call -> Request]
    BY DEF Init, Idle, Request, Stage, Kind, NoPair
  <2>2. faults \in 0..MaxFaults
    BY PhoneAssumed DEF Init
  <2> QED
    BY <2>1, <2>2 DEF Init, TypeOK, Empty, Nobody, Landed
<1>2. /\ vault = Empty /\ flight = Landed /\ ui = "boot" /\ \A c \in Call : call[c] = Idle
      /\ cached = NoOne /\ screen = NoOne /\ left = NoOne /\ about = Nobody /\ erasing = {}
  BY DEF Init
<1>3. OnPhone = {} /\ Known = {} /\ Front \in Call /\ \A c \in Back : c \in Call
  BY <1>2, FreshFields DEF OnPhone, Known, Empty, Landed, Call
<1>4. FlightKept /\ NoFalseAlarm /\ SpentOnlyMissed /\ PairInHand
  BY <1>2, <1>3, FreshFields DEF FlightKept, NoFalseAlarm, SpentOnlyMissed, PairInHand, Landed,
     Empty
<1>5. FrontKept /\ ProfileKept /\ ErasingKept
  BY <1>2, <1>3 DEF FrontKept, ProfileKept, ErasingKept, Landed, Nobody
<1>6. OneAccount /\ EditsKept /\ SigningOut /\ Quiet
  BY <1>2, <1>3, FreshFields DEF OneAccount, EditsKept, Edit, Agreed, SigningOut, Quiet, Heir, Ending
<1> QED
  BY <1>1, <1>4, <1>5, <1>6 DEF PhoneInv

LEMMA PhoneInvariance == Spec => []PhoneInv
<1>1. PhoneInv /\ [Next]_vars => PhoneInv'
  <2> SUFFICES ASSUME PhoneInv, [Next]_vars PROVE PhoneInv'
    OBVIOUS
  <2>1. TypeOK'
    <3>1. RowsTyped' /\ StoreTyped' /\ FlagsTyped' /\ call' \in [Call -> Request]
      BY RowsKept, StoreKept, FlagsKept, CallsTyped DEF PhoneInv
    <3> QED
      BY <3>1 DEF TypeOK, RowsTyped, StoreTyped, FlagsTyped
  <2>2. FlightKept' /\ NoFalseAlarm' /\ SpentOnlyMissed'
    BY FlightStep, KnownStep DEF FlightKept
  <2>3. PairInHand' /\ FrontKept' /\ ProfileKept' /\ ErasingKept'
    BY PairStep, FrontStep, ProfileStep, ErasingStep
  <2>4. OneAccount' /\ EditsKept' /\ SigningOut' /\ Quiet'
    BY AccountStep, EditsStep, SigningOutStep, QuietStep
  <2> QED
    BY <2>1, <2>2, <2>3, <2>4 DEF PhoneInv
<1> QED
  BY <1>1, PhoneStart, PTL DEF Spec

\* What the phone shows and stores follows from the invariant.
LEMMA PhonePromises ==
  PhoneInv => TypeOK /\ VaultFollowsScreen /\ SignedOutStaysOut /\ NoFalseAlarm
<1> SUFFICES ASSUME PhoneInv PROVE VaultFollowsScreen /\ SignedOutStaysOut
  BY DEF PhoneInv
<1>1. VaultFollowsScreen
  <2>1. {vault.access, vault.refresh} \ {NoPair} \subseteq OnPhone
    BY DEF OnPhone
  <2> QED
    BY <2>1 DEF VaultFollowsScreen, PhoneInv, EditsKept, Heir
<1>2. SignedOutStaysOut
  BY DEF SignedOutStaysOut, PhoneInv, Quiet
<1> QED
  BY <1>1, <1>2

-----------------------------------------------------------------------------
(* The secrets sent by e-mail.                                               *)

\* Every wrong code is counted, the last one allowed burns the row, and a row that
\* was not sent has no code.
MailRows ==
    \A n \in Mails!Mail :
        /\ compared[n] = attempts[n]
        /\ attempts[n] = MaxAttempts => code[n] = "used"
        /\ link[n] = "absent" => attempts[n] = 0 /\ code[n] = "absent"

\* Whoever compares a code holds its row, which is as it was read: this is what
\* makes it harmless to write used_at back to null.
MailLocks ==
    \A r \in Req : mailPc[r] = "code" =>
        /\ mailReq[r].mail \in Mails!Mail
        /\ lock[mailReq[r].mail] = r
        /\ code[mailReq[r].mail] = "unused"
        /\ attempts[mailReq[r].mail] = mailReq[r].seen

\* Between the invalidation and the insertion of a request, none of the mails it
\* sent before, of that type, can be used.
DeadMail(n) == link[n] # "unused" /\ code[n] # "unused"
MailCleared ==
    \A r \in Req : mailPc[r] = "insert" =>
        \A m \in Mails!Mail : author[m] = r /\ type[m] = mailReq[r].type => DeadMail(m)

MailInv == Mails!TypeOK /\ MailRows /\ MailLocks /\ MailCleared /\ Mails!ResendsDoNotPile

-----------------------------------------------------------------------------
LEMMA MailTypedStart == Mails!Init => Mails!TypeOK
<1> SUFFICES ASSUME Mails!Init PROVE Mails!TypeOK
  OBVIOUS
<1>1. Mails!Blank \in Mails!Request
  BY DEF Mails!Request, Mails!Blank, Mails!Ask, Mails!Type
<1>2. mailReq \in [Req -> Mails!Request]
  BY <1>1 DEF Mails!Init
<1>3. attempts \in [Mails!Mail -> 0..MaxAttempts] /\ compared \in [Mails!Mail -> Nat]
  BY MailBounds DEF Mails!Init
<1>4. verified \in BOOLEAN
  BY DEF Mails!Init
<1> QED
  BY <1>2, <1>3, <1>4 DEF Mails!Init, Mails!TypeOK, Mails!Type, Mails!RowState, Mails!PC

LEMMA MailTyped == Mails!TypeOK /\ MailRows /\ MailLocks /\ [Mails!Next]_(Mails!vars) => Mails!TypeOK'
<1> SUFFICES ASSUME Mails!TypeOK, MailRows, MailLocks, [Mails!Next]_(Mails!vars) PROVE Mails!TypeOK'
  OBVIOUS
<1>b. Mails!Blank \in Mails!Request
  BY DEF Mails!Request, Mails!Blank, Mails!Ask, Mails!Type
<1> USE DEF Mails!TypeOK, Mails!tokens
<1>1. CASE Mails!OAuthLink
  BY <1>1 DEF Mails!OAuthLink
<1>2. ASSUME NEW n \in Mails!Mail, Mails!Elapse(n) PROVE Mails!TypeOK'
  BY <1>2 DEF Mails!Elapse, Mails!Sent
<1>3. ASSUME NEW r \in Req, NEW t \in Mails!Type, Mails!Send(r, t) PROVE Mails!TypeOK'
  <2>1. Mails!Ask(t, None, None, 0) \in Mails!Request
    BY DEF Mails!Ask, Mails!Request
  <2> QED
    BY <1>3, <2>1 DEF Mails!Send, Mails!Enter, Mails!PC
<1>4. ASSUME NEW r \in Req, Mails!Invalidate(r) PROVE Mails!TypeOK'
  BY <1>4 DEF Mails!Invalidate, Mails!Goto, Mails!PC, Mails!RowState
<1>5. ASSUME NEW r \in Req, NEW n \in Mails!Mail, Mails!Insert(r, n) PROVE Mails!TypeOK'
  BY <1>5, <1>b DEF Mails!Insert, Mails!Leave, Mails!PC, Mails!RowState, Mails!Request
<1>6. ASSUME NEW r \in Req, NEW n \in Mails!Mail, Mails!LinkRead(r, n) PROVE Mails!TypeOK'
  <2>1. Mails!Ask(type[n], n, None, 0) \in Mails!Request
    BY DEF Mails!Ask, Mails!Request
  <2> QED
    BY <1>6, <2>1 DEF Mails!LinkRead, Mails!Enter, Mails!PC
<1>7. ASSUME NEW r \in Req, Mails!Consume(r) PROVE Mails!TypeOK'
  BY <1>7 DEF Mails!Consume, Mails!Goto, Mails!PC, Mails!RowState
<1>8. ASSUME NEW r \in Req, Mails!Verify(r) PROVE Mails!TypeOK'
  BY <1>8, <1>b DEF Mails!Verify, Mails!Leave, Mails!PC
<1>9. ASSUME NEW r \in Req, Mails!ResetPassword(r) PROVE Mails!TypeOK'
  BY <1>9, <1>b DEF Mails!ResetPassword, Mails!Leave, Mails!PC
<1>10. ASSUME NEW r \in Req, NEW n \in Mails!Mail, NEW g \in Mails!Mail \cup {None}, Mails!CodeRead(r, n, g)
       PROVE  Mails!TypeOK'
  <2>1. Mails!Ask("verify_email", n, g, attempts[n]) \in Mails!Request
    BY MailBounds DEF Mails!Ask, Mails!Request, Mails!Type
  <2>2. mailPc' \in [Req -> Mails!PC] /\ mailReq' \in [Req -> Mails!Request]
    BY <1>10, <2>1 DEF Mails!CodeRead, Mails!Enter, Mails!PC
  <2>3. lock' \in [Mails!Mail -> Req \cup {None}]
    BY <1>10 DEF Mails!CodeRead
  <2> QED
    BY <1>10, <2>2, <2>3 DEF Mails!CodeRead
<1>11. ASSUME NEW r \in Req, Mails!Wake(r) PROVE Mails!TypeOK'
  <2>1. mailPc' \in [Req -> Mails!PC]
    BY <1>11 DEF Mails!Wake, Mails!Goto, Mails!Leave, Mails!PC
  <2>2. mailReq' \in [Req -> Mails!Request]
    BY <1>11, <1>b DEF Mails!Wake, Mails!Goto, Mails!Leave
  <2>3. lock' \in [Mails!Mail -> Req \cup {None}]
    BY <1>11 DEF Mails!Wake
  <2> QED
    BY <1>11, <2>1, <2>2, <2>3 DEF Mails!Wake
<1>12. ASSUME NEW r \in Req, Mails!CodeRight(r) PROVE Mails!TypeOK'
  BY <1>12 DEF Mails!CodeRight, Mails!Goto, Mails!Unlock, Mails!PC, Mails!RowState, Mails!Request
<1>13. ASSUME NEW r \in Req, Mails!Abort(r) PROVE Mails!TypeOK'
  BY <1>13, <1>b DEF Mails!Abort, Mails!Leave, Mails!Unlock, Mails!PC
<1>14. ASSUME NEW r \in Req, Mails!CodeWrong(r) PROVE Mails!TypeOK'
  <2> DEFINE n == mailReq[r].mail
  <2>1. n \in Mails!Mail /\ code[n] = "unused" /\ attempts[n] = mailReq[r].seen
    BY <1>14 DEF Mails!CodeWrong, MailLocks
  <2>2. mailReq[r].seen + 1 \in 0..MaxAttempts
    BY <2>1, MailBounds DEF MailRows
  <2>3. attempts' \in [Mails!Mail -> 0..MaxAttempts]
    BY <1>14, <2>2 DEF Mails!CodeWrong
  <2>4. mailPc' \in [Req -> Mails!PC] /\ mailReq' \in [Req -> Mails!Request]
    BY <1>14, <1>b DEF Mails!CodeWrong, Mails!Leave, Mails!PC
  <2>5. lock' \in [Mails!Mail -> Req \cup {None}]
    BY <1>14 DEF Mails!CodeWrong, Mails!Unlock
  <2>6. code' \in [Mails!Mail -> Mails!RowState]
    BY <1>14 DEF Mails!CodeWrong, Mails!RowState
  <2>7. compared' = [compared EXCEPT ![n] = @ + 1]
    BY <1>14 DEF Mails!CodeWrong
  <2>8. compared' \in [Mails!Mail -> Nat]
    <3>1. compared \in [Mails!Mail -> Nat] /\ compared[n] + 1 \in Nat
      BY <2>1
    <3>2. compared' = [compared EXCEPT ![n] = compared[n] + 1]
      BY <2>7
    <3> HIDE DEF n, Mails!TypeOK
    <3> QED
      BY <2>1, <3>1, <3>2
  <2> QED
    BY <1>14, <2>3, <2>4, <2>5, <2>6, <2>8 DEF Mails!CodeWrong
<1>15. CASE UNCHANGED Mails!vars
  BY <1>15 DEF Mails!vars
<1> QED
  BY <1>1, <1>2, <1>3, <1>4, <1>5, <1>6, <1>7, <1>8, <1>9, <1>10, <1>11, <1>12, <1>13, <1>14,
     <1>15 DEF Mails!Next
-----------------------------------------------------------------------------
\* The parts of the invariant other than the type are kept by every step.
MailKept == MailRows' /\ MailLocks' /\ MailCleared' /\ Mails!ResendsDoNotPile'

LEMMA MailParts == MailInv /\ Mails!TypeOK' /\ [Mails!Next]_(Mails!vars) => MailKept
<1> SUFFICES ASSUME MailInv, Mails!TypeOK', [Mails!Next]_(Mails!vars) PROVE MailKept
  OBVIOUS
<1> USE MailBounds, MailNone DEF MailInv, Mails!TypeOK, Mails!tokens, Mails!Mail, Mails!Type, Mails!RowState, Mails!PC, Mails!Request, MailKept
<1>1. CASE Mails!OAuthLink
  <2>1. MailRows'
    BY <1>1 DEF Mails!OAuthLink, MailRows
  <2>2. MailLocks'
    BY <1>1 DEF Mails!OAuthLink, MailLocks
  <2>3. MailCleared'
    BY <1>1 DEF Mails!OAuthLink, MailCleared, DeadMail
  <2>4. Mails!ResendsDoNotPile'
    BY <1>1 DEF Mails!OAuthLink, Mails!ResendsDoNotPile
  <2> QED
    BY <2>1, <2>2, <2>3, <2>4
<1>2. ASSUME NEW n \in Mails!Mail, Mails!Elapse(n) PROVE MailKept
  <2>1. MailRows'
    BY <1>2 DEF Mails!Elapse, MailRows
  <2>2. MailLocks'
    BY <1>2 DEF Mails!Elapse, MailLocks
  <2>3. MailCleared'
    BY <1>2 DEF Mails!Elapse, MailCleared, DeadMail
  <2>4. Mails!ResendsDoNotPile'
    BY <1>2 DEF Mails!Elapse, Mails!ResendsDoNotPile
  <2> QED
    BY <2>1, <2>2, <2>3, <2>4
<1>3. ASSUME NEW r \in Req, NEW t \in Mails!Type, Mails!Send(r, t) PROVE MailKept
  <2>1. MailRows'
    BY <1>3 DEF Mails!Send, Mails!Enter, MailRows
  <2>2. MailLocks'
    BY <1>3 DEF Mails!Send, Mails!Enter, MailLocks
  <2>3. MailCleared'
    BY <1>3 DEF Mails!Send, Mails!Enter, MailCleared, DeadMail
  <2>4. Mails!ResendsDoNotPile'
    BY <1>3 DEF Mails!Send, Mails!Enter, Mails!ResendsDoNotPile
  <2> QED
    BY <2>1, <2>2, <2>3, <2>4
<1>4. ASSUME NEW r \in Req, Mails!Invalidate(r) PROVE MailKept
  <2>1. MailRows'
    BY <1>4 DEF Mails!Invalidate, Mails!Goto, MailRows
  <2>2. MailLocks'
    BY <1>4 DEF Mails!Invalidate, Mails!Goto, MailLocks
  <2>3. MailCleared'
    BY <1>4 DEF Mails!Invalidate, Mails!Goto, MailCleared, DeadMail
  <2>4. Mails!ResendsDoNotPile'
    BY <1>4 DEF Mails!Invalidate, Mails!Goto, Mails!ResendsDoNotPile
  <2> QED
    BY <2>1, <2>2, <2>3, <2>4
<1>5. ASSUME NEW r \in Req, NEW n \in Mails!Mail, Mails!Insert(r, n) PROVE MailKept
  <2>1. MailRows'
    BY <1>5 DEF Mails!Insert, Mails!Leave, Mails!Sent, MailRows
  <2>2. MailLocks'
    <3>1. code[n] = "absent"
      BY <1>5 DEF Mails!Insert, Mails!Sent, MailRows
    <3> QED
      BY <1>5, <3>1 DEF Mails!Insert, Mails!Leave, MailLocks
  <2>3. MailCleared'
    BY <1>5 DEF Mails!Insert, Mails!Leave, Mails!Sent, MailCleared, DeadMail
  <2>4. Mails!ResendsDoNotPile'
    <3>1. \A m \in Mails!Mail : author[m] = r /\ type[m] = mailReq[r].type => DeadMail(m)
      BY <1>5 DEF Mails!Insert, MailCleared
    <3>2. /\ type' = [type EXCEPT ![n] = mailReq[r].type]
          /\ author' = [author EXCEPT ![n] = r]
          /\ \A m \in Mails!Mail \ {n} : link'[m] = link[m] /\ code'[m] = code[m]
      BY <1>5 DEF Mails!Insert
    <3>3. \A m \in Mails!Mail \ {n} :
             /\ type'[m] = type[m] /\ author'[m] = author[m]
             /\ link'[m] = link[m] /\ code'[m] = code[m]
      BY <3>2
    <3>4. type'[n] = mailReq[r].type /\ author'[n] = r
      BY <3>2
    <3> SUFFICES ASSUME NEW a \in Mails!Mail, NEW b \in Mails!Mail, a # b, type'[a] = type'[b],
                        "unused" \in {link'[a], code'[a]}, "unused" \in {link'[b], code'[b]}
                 PROVE  author'[a] # author'[b]
      BY DEF Mails!ResendsDoNotPile
    <3>5. CASE a = n
      BY <3>1, <3>3, <3>4, <3>5 DEF DeadMail
    <3>6. CASE b = n
      BY <3>1, <3>3, <3>4, <3>6 DEF DeadMail
    <3>7. CASE a # n /\ b # n
      <4>1. /\ type[a] = type[b] /\ author'[a] = author[a] /\ author'[b] = author[b]
            /\ "unused" \in {link[a], code[a]} /\ "unused" \in {link[b], code[b]}
        BY <3>3, <3>7
      <4>2. Mails!ResendsDoNotPile
        OBVIOUS
      <4> HIDE DEF MailInv, Mails!TypeOK, MailKept
      <4> QED
        BY <4>1, <4>2, Zenon DEF Mails!ResendsDoNotPile
    <3> QED
      BY <3>5, <3>6, <3>7
  <2> QED
    BY <2>1, <2>2, <2>3, <2>4
<1>6. ASSUME NEW r \in Req, NEW n \in Mails!Mail, Mails!LinkRead(r, n) PROVE MailKept
  <2>1. MailRows'
    BY <1>6 DEF Mails!LinkRead, Mails!Enter, MailRows
  <2>2. MailLocks'
    BY <1>6 DEF Mails!LinkRead, Mails!Enter, MailLocks
  <2>3. MailCleared'
    BY <1>6 DEF Mails!LinkRead, Mails!Enter, MailCleared, DeadMail
  <2>4. Mails!ResendsDoNotPile'
    BY <1>6 DEF Mails!LinkRead, Mails!Enter, Mails!ResendsDoNotPile
  <2> QED
    BY <2>1, <2>2, <2>3, <2>4
<1>7. ASSUME NEW r \in Req, Mails!Consume(r) PROVE MailKept
  <2>1. MailRows'
    BY <1>7 DEF Mails!Consume, Mails!Goto, MailRows
  <2>2. MailLocks'
    BY <1>7 DEF Mails!Consume, Mails!Goto, MailLocks
  <2>3. MailCleared'
    BY <1>7 DEF Mails!Consume, Mails!Goto, MailCleared, DeadMail
  <2>4. Mails!ResendsDoNotPile'
    BY <1>7 DEF Mails!Consume, Mails!Goto, Mails!ResendsDoNotPile
  <2> QED
    BY <2>1, <2>2, <2>3, <2>4
<1>8. ASSUME NEW r \in Req, Mails!Verify(r) PROVE MailKept
  <2>1. MailRows'
    BY <1>8 DEF Mails!Verify, Mails!Leave, MailRows
  <2>2. MailLocks'
    BY <1>8 DEF Mails!Verify, Mails!Leave, MailLocks
  <2>3. MailCleared'
    BY <1>8 DEF Mails!Verify, Mails!Leave, MailCleared, DeadMail
  <2>4. Mails!ResendsDoNotPile'
    BY <1>8 DEF Mails!Verify, Mails!Leave, Mails!ResendsDoNotPile
  <2> QED
    BY <2>1, <2>2, <2>3, <2>4
<1>9. ASSUME NEW r \in Req, Mails!ResetPassword(r) PROVE MailKept
  <2>1. MailRows'
    BY <1>9 DEF Mails!ResetPassword, Mails!Leave, MailRows
  <2>2. MailLocks'
    BY <1>9 DEF Mails!ResetPassword, Mails!Leave, MailLocks
  <2>3. MailCleared'
    BY <1>9 DEF Mails!ResetPassword, Mails!Leave, MailCleared, DeadMail
  <2>4. Mails!ResendsDoNotPile'
    BY <1>9 DEF Mails!ResetPassword, Mails!Leave, Mails!ResendsDoNotPile
  <2> QED
    BY <2>1, <2>2, <2>3, <2>4
<1>10. ASSUME NEW r \in Req, NEW n \in Mails!Mail, NEW g \in Mails!Mail \cup {None}, Mails!CodeRead(r, n, g)
       PROVE  MailKept
  <2>1. MailRows'
    BY <1>10 DEF Mails!CodeRead, Mails!Enter, Mails!Ask, Mails!Candidates, MailRows
  <2>2. MailLocks'
    <3>1. CASE lock[n] = None
      <4>1. mailPc' = [mailPc EXCEPT ![r] = "code"] /\ lock' = [lock EXCEPT ![n] = r]
        BY <1>10, <3>1 DEF Mails!CodeRead, Mails!Enter
      <4>2. mailReq' = [mailReq EXCEPT ![r] = Mails!Ask("verify_email", n, g, attempts[n])]
        BY <1>10, <3>1 DEF Mails!CodeRead, Mails!Enter
      <4>3. code' = code /\ attempts' = attempts /\ code[n] = "unused"
        BY <1>10 DEF Mails!CodeRead, Mails!Candidates
      <4>4. mailReq'[r].mail = n /\ mailReq'[r].seen = attempts[n]
        BY <4>2 DEF Mails!Ask
      <4> SUFFICES ASSUME NEW q \in Req, mailPc'[q] = "code"
                   PROVE  /\ mailReq'[q].mail \in Mails!Mail
                          /\ lock'[mailReq'[q].mail] = q
                          /\ code'[mailReq'[q].mail] = "unused"
                          /\ attempts'[mailReq'[q].mail] = mailReq'[q].seen
        BY DEF MailLocks
      <4>5. CASE q = r
        BY <4>1, <4>3, <4>4, <4>5
      <4>6. CASE q # r
        <5>1. mailPc[q] = "code" /\ mailReq'[q] = mailReq[q]
          BY <4>1, <4>2, <4>6
        <5>2. mailReq[q].mail # n
          BY <3>1, <5>1 DEF MailLocks
        <5> QED
          BY <4>1, <4>3, <5>1, <5>2 DEF MailLocks
      <4> QED
        BY <4>5, <4>6
    <3>2. CASE lock[n] # None
      BY <1>10, <3>2, SMTT(30) DEF Mails!CodeRead, Mails!Enter, MailLocks
    <3> QED
      BY <3>1, <3>2
  <2>3. MailCleared'
    <3>1. \A q \in Req : mailPc'[q] = "insert" => mailPc[q] = "insert" /\ mailReq'[q] = mailReq[q]
      BY <1>10 DEF Mails!CodeRead, Mails!Enter
    <3>2. /\ type' = type /\ link' = link /\ code' = code /\ author' = author
      BY <1>10 DEF Mails!CodeRead
    <3> QED
      BY <3>1, <3>2 DEF MailCleared, DeadMail
  <2>4. Mails!ResendsDoNotPile'
    BY <1>10 DEF Mails!CodeRead, Mails!Enter, Mails!Ask, Mails!Candidates, Mails!ResendsDoNotPile
  <2> QED
    BY <2>1, <2>2, <2>3, <2>4
<1>11. ASSUME NEW r \in Req, Mails!Wake(r) PROVE MailKept
  <2>1. MailRows'
    BY <1>11 DEF Mails!Wake, Mails!Goto, Mails!Leave, MailRows
  <2>2. MailLocks'
    BY <1>11, SMTT(30) DEF Mails!Wake, Mails!Goto, Mails!Leave, MailLocks
  <2>3. MailCleared'
    <3>1. \A q \in Req : mailPc'[q] = "insert" => mailPc[q] = "insert" /\ mailReq'[q] = mailReq[q]
      BY <1>11 DEF Mails!Wake, Mails!Goto, Mails!Leave
    <3>2. /\ type' = type /\ link' = link /\ code' = code /\ author' = author
      BY <1>11 DEF Mails!Wake
    <3> QED
      BY <3>1, <3>2 DEF MailCleared, DeadMail
  <2>4. Mails!ResendsDoNotPile'
    BY <1>11 DEF Mails!Wake, Mails!Goto, Mails!Leave, Mails!ResendsDoNotPile
  <2> QED
    BY <2>1, <2>2, <2>3, <2>4
<1>12. ASSUME NEW r \in Req, Mails!CodeWrong(r) PROVE MailKept
  <2> DEFINE n == mailReq[r].mail
  <2>a. n \in Mails!Mail /\ code[n] = "unused" /\ attempts[n] = mailReq[r].seen
    BY <1>12 DEF Mails!CodeWrong, MailLocks
  <2>b. /\ attempts' = [attempts EXCEPT ![n] = mailReq[r].seen + 1]
        /\ code' = [code EXCEPT ![n] = IF mailReq[r].seen + 1 >= MaxAttempts THEN "used" ELSE "unused"]
        /\ compared' = [compared EXCEPT ![n] = @ + 1]
        /\ link' = link /\ type' = type /\ author' = author
    BY <1>12 DEF Mails!CodeWrong
  <2>c. \A m \in Mails!Mail : code'[m] = "unused" => code[m] = "unused"
    BY <2>a, <2>b
  <2>1. MailRows'
    <3>1. attempts'[n] = attempts[n] + 1 /\ compared'[n] = compared[n] + 1
      BY <2>a, <2>b
    <3>2. attempts'[n] = MaxAttempts => code'[n] = "used"
      BY <2>a, <2>b
    <3>3. \A m \in Mails!Mail \ {n} : /\ attempts'[m] = attempts[m]
                               /\ compared'[m] = compared[m]
                               /\ code'[m] = code[m]
      BY <2>b
    <3>4. link[n] # "absent"
      BY <2>a DEF MailRows
    <3> QED
      BY <2>b, <3>1, <3>2, <3>3, <3>4 DEF MailRows
  <2>2. MailLocks'
    BY <1>12 DEF Mails!CodeWrong, Mails!Unlock, Mails!Leave, MailLocks
  <2>3. MailCleared'
    BY <1>12, <2>b, <2>c, SMTT(30) DEF Mails!CodeWrong, Mails!Leave, MailCleared, DeadMail
  <2>4. Mails!ResendsDoNotPile'
    BY <2>b, <2>c DEF Mails!ResendsDoNotPile
  <2> QED
    BY <2>1, <2>2, <2>3, <2>4
<1>13. ASSUME NEW r \in Req, Mails!CodeRight(r) PROVE MailKept
  <2>1. MailRows'
    <3>1. mailReq[r].mail \in Mails!Mail /\ code[mailReq[r].mail] = "unused"
      BY <1>13 DEF Mails!CodeRight, MailLocks
    <3> QED
      BY <1>13, <3>1 DEF Mails!CodeRight, MailRows
  <2>2. MailLocks'
    BY <1>13 DEF Mails!CodeRight, Mails!Unlock, Mails!Goto, MailLocks
  <2>3. MailCleared'
    BY <1>13 DEF Mails!CodeRight, Mails!Unlock, Mails!Goto, MailCleared, DeadMail
  <2>4. Mails!ResendsDoNotPile'
    BY <1>13 DEF Mails!CodeRight, Mails!Unlock, Mails!Goto, Mails!ResendsDoNotPile
  <2> QED
    BY <2>1, <2>2, <2>3, <2>4
<1>14. ASSUME NEW r \in Req, Mails!Abort(r) PROVE MailKept
  <2>1. MailRows'
    BY <1>14 DEF Mails!Abort, Mails!Unlock, Mails!Leave, MailRows
  <2>2. MailLocks'
    BY <1>14 DEF Mails!Abort, Mails!Unlock, Mails!Leave, MailLocks
  <2>3. MailCleared'
    BY <1>14 DEF Mails!Abort, Mails!Unlock, Mails!Leave, MailCleared, DeadMail
  <2>4. Mails!ResendsDoNotPile'
    BY <1>14 DEF Mails!Abort, Mails!Unlock, Mails!Leave, Mails!ResendsDoNotPile
  <2> QED
    BY <2>1, <2>2, <2>3, <2>4
<1>15. CASE UNCHANGED Mails!vars
  <2>1. MailRows'
    BY <1>15 DEF Mails!vars, MailRows
  <2>2. MailLocks'
    BY <1>15 DEF Mails!vars, MailLocks
  <2>3. MailCleared'
    BY <1>15 DEF Mails!vars, MailCleared, DeadMail
  <2>4. Mails!ResendsDoNotPile'
    BY <1>15 DEF Mails!vars, Mails!ResendsDoNotPile
  <2> QED
    BY <2>1, <2>2, <2>3, <2>4
<1> QED
  BY <1>1, <1>2, <1>3, <1>4, <1>5, <1>6, <1>7, <1>8,
     <1>9, <1>10, <1>11, <1>12, <1>13, <1>14, <1>15 DEF Mails!Next

-----------------------------------------------------------------------------
LEMMA MailPartsStart == Mails!Init => MailRows /\ MailLocks /\ MailCleared /\ Mails!ResendsDoNotPile
BY MailBounds DEF Mails!Init, MailRows, MailLocks, MailCleared, Mails!ResendsDoNotPile

LEMMA MailInvariance == Mails!Spec => []MailInv
<1>1. Mails!Init => MailInv
  BY MailTypedStart, MailPartsStart DEF MailInv
<1>2. MailInv /\ [Mails!Next]_(Mails!vars) => MailInv'
  BY MailTyped, MailParts DEF MailInv, MailKept
<1> QED
  BY <1>1, <1>2, PTL DEF Mails!Spec

\* Every row, lock and request keeps its type; in particular the counter of
\* wrong codes never passes MaxAttempts (email-token.service.ts:133-145).
THEOREM MailsTyped == Mails!Spec => []Mails!TypeOK
<1>1. MailInv => Mails!TypeOK
  BY DEF MailInv
<1> QED
  BY <1>1, MailInvariance, PTL

\* However many guesses are fired at once at the codes of an account, at most
\* MaxAttempts of them are compared with one row (consumeCode).
THEOREM GuessesAreBounded == Mails!Spec => []GuessesBounded
<1>1. MailInv => GuessesBounded
  BY MailBounds DEF MailInv, Mails!TypeOK, MailRows, Mails!GuessesBounded,
         GuessesBounded
<1> QED
  BY <1>1, MailInvariance, PTL

\* Two mails of one type that can both be exchanged were sent by two requests
\* at the same time (create, createWithCode).
THEOREM NoResendPilesUp == Mails!Spec => []ResendsDoNotPile
<1>1. MailInv => ResendsDoNotPile
  BY DEF MailInv, ResendsDoNotPile
<1> QED
  BY <1>1, MailInvariance, PTL

-----------------------------------------------------------------------------
(* The lock of the login.                                                    *)

\* Failures that two logins at a time can still add from a count of k, and the
\* most there can be.
Rounds(k) == ((MaxFailed - k) * (MaxFailed + 3 - k)) \div 2
MostMisses == (MaxFailed * (MaxFailed + 3)) \div 2

\* What is left once the count x + 1 is written, failures from a count of y
\* up to the lock, and both, where one login holds x back meanwhile.
After(x) == IF x < MaxFailed THEN Rounds(x + 1) ELSE 0
Climb(y) == IF y < MaxFailed THEN MaxFailed - y ELSE 1
Round(x, y) == Climb(y) + 1 + After(x)

\* Between two counts, at least their distance.
LEMMA RoundsApart ==
  ASSUME NEW x \in Nat, NEW y \in Nat, x <= y, y <= MaxFailed
  PROVE  /\ Rounds(y) \in Nat
         /\ Rounds(x) \in Nat
         /\ Rounds(x) >= Rounds(y) + (y - x)
<1> DEFINE n == MaxFailed - y
           d == y - x
<1> USE LoginAssumed
<1>1. n \in Nat /\ d \in Nat
  OBVIOUS
<1>2. /\ (MaxFailed - y) * (MaxFailed + 3 - y) = n * (n + 3)
      /\ (MaxFailed - x) * (MaxFailed + 3 - x) = (n + d) * (n + d + 3)
  OBVIOUS
<1> HIDE DEF n, d
<1>3. (n + d) * (n + d + 3) = n * (n + 3) + 2 * d + d * (2 * n + d + 1)
  BY <1>1
<1>4. d * (2 * n + d + 1) \in Nat /\ n * (n + 3) \in Nat
  BY <1>1
<1>5. ASSUME NEW A \in Nat, NEW B \in Nat, A >= B + 2 * d
      PROVE  A \div 2 \in Nat /\ B \div 2 \in Nat /\ A \div 2 >= (B \div 2) + d
  BY <1>1, <1>5
<1>6. (n + d) * (n + d + 3) \in Nat /\ (n + d) * (n + d + 3) >= n * (n + 3) + 2 * d
  BY <1>1, <1>3, <1>4
<1>7. ((n + d) * (n + d + 3)) \div 2 \in Nat /\ (n * (n + 3)) \div 2 \in Nat
      /\ ((n + d) * (n + d + 3)) \div 2 >= ((n * (n + 3)) \div 2) + d
  BY <1>4, <1>5, <1>6
<1> QED
  BY <1>2, <1>7 DEF Rounds, d

\* One count more, one round less.
LEMMA RoundsStep ==
  ASSUME NEW x \in Nat, x < MaxFailed
  PROVE  Rounds(x) = Rounds(x + 1) + (MaxFailed - x) + 1
<1> DEFINE n == MaxFailed - x
<1> USE LoginAssumed
<1>1. n \in Nat
  OBVIOUS
<1>2. /\ (MaxFailed - x) * (MaxFailed + 3 - x) = n * (n + 3)
      /\ (MaxFailed - (x + 1)) * (MaxFailed + 3 - (x + 1)) = (n - 1) * (n + 2)
  OBVIOUS
<1> HIDE DEF n
<1>3. n * (n + 3) = (n - 1) * (n + 2) + 2 * (n + 1)
  BY <1>1
<1>4. ASSUME NEW A \in Int PROVE (A + 2 * (n + 1)) \div 2 = (A \div 2) + n + 1
  BY <1>1
<1>5. (n - 1) * (n + 2) \in Int
  BY <1>1
<1>6. (n * (n + 3)) \div 2 = (((n - 1) * (n + 2)) \div 2) + n + 1
  BY <1>3, <1>4, <1>5
<1> QED
  BY <1>2, <1>6 DEF Rounds, n

\* What counting rounds needs: how they compare, and what one more failure leaves.
LEMMA RoundFacts ==
  ASSUME NEW x \in Nat, NEW y \in Nat
  PROVE  /\ MostMisses \in Nat
         /\ After(x) \in Nat
         /\ Climb(x) \in Nat /\ Climb(x) >= 1
         /\ Round(x, y) \in Nat
         /\ Round(x, y) = Climb(y) + 1 + After(x)
         /\ Round(x, y) <= MostMisses
         /\ x <= y => After(x) >= After(y) /\ Climb(x) >= Climb(y)
         /\ x <= y => Round(y, x) <= Round(x, y)
         /\ x + 1 < MaxFailed => Round(x + 1, x + 1) = After(x) /\ Climb(x) = Climb(x + 1) + 1
<1> USE LoginAssumed
<1>1. \A k \in 0..MaxFailed : Rounds(k) \in Nat
  BY RoundsApart
<1>2. Rounds(MaxFailed) = 0
  BY DEF Rounds
<1>3. After(x) \in Nat /\ After(y) \in Nat
  BY <1>1 DEF After
<1>4. /\ Climb(x) \in Nat /\ Climb(x) >= 1 /\ Climb(x) <= MaxFailed
      /\ Climb(y) \in Nat /\ Climb(y) >= 1 /\ Climb(y) <= MaxFailed
  BY DEF Climb
<1>5. Round(x, y) \in Nat /\ Round(x, y) = Climb(y) + 1 + After(x)
  BY <1>3, <1>4 DEF Round
<1>6. MostMisses = Rounds(0)
  BY DEF MostMisses, Rounds
<1>7. After(x) <= Rounds(1)
  <2>1. CASE x < MaxFailed
    BY <2>1, RoundsApart DEF After
  <2>2. CASE ~(x < MaxFailed)
    BY <1>1, <2>2 DEF After
  <2> QED
    BY <2>1, <2>2
<1>8. Rounds(0) = Rounds(1) + MaxFailed + 1
  BY RoundsStep
<1>9. MostMisses \in Nat /\ Round(x, y) <= MostMisses
  BY <1>1, <1>3, <1>4, <1>5, <1>6, <1>7, <1>8
<1>10. ASSUME x <= y
       PROVE  /\ After(x) >= After(y) /\ Climb(x) >= Climb(y)
              /\ Climb(x) + After(y) <= Climb(y) + After(x)
  <2>1. Climb(x) >= Climb(y)
    BY <1>10 DEF Climb
  <2>2. CASE y < MaxFailed
    <3>1. Rounds(x + 1) >= Rounds(y + 1) + (y - x) /\ Rounds(x + 1) \in Nat /\ Rounds(y + 1) \in Nat
      BY <1>10, <2>2, RoundsApart
    <3> QED
      BY <1>10, <2>1, <2>2, <3>1 DEF After, Climb
  <2>3. CASE x < MaxFailed /\ ~(y < MaxFailed)
    <3>1. Rounds(x + 1) >= Rounds(MaxFailed) + (MaxFailed - (x + 1)) /\ Rounds(x + 1) \in Nat
      BY <2>3, RoundsApart
    <3> QED
      BY <1>2, <2>1, <2>3, <3>1 DEF After, Climb
  <2>4. CASE ~(x < MaxFailed)
    BY <1>10, <2>1, <2>4 DEF After, Climb
  <2> QED
    BY <2>2, <2>3, <2>4
<1>11. ASSUME x + 1 < MaxFailed
       PROVE  Round(x + 1, x + 1) = After(x) /\ Climb(x) = Climb(x + 1) + 1
  BY <1>11, <1>1, RoundsStep DEF Round, After, Climb
<1>12. x <= y => Round(y, x) <= Round(x, y)
  BY <1>3, <1>4, <1>10 DEF Round
<1> QED
  BY <1>3, <1>4, <1>5, <1>9, <1>10, <1>11, <1>12

-----------------------------------------------------------------------------
\* Logins that may still write a failure, from the count they have read.
Trying == {r \in Req : loginPc[r] \in {"password", "factor"}}

\* No overlap: the count follows the failures, and reaches the lock with them.
CountFollows ==
    ~overlapped =>
        /\ misses <= failed /\ misses <= MaxFailed
        /\ ~locked => misses = 0 \/ failed < MaxFailed

\* Two logins at a time: whatever the two may still do, from the counts they
\* hold and from the one that is stored, stays within the bound.
RoomLeft ==
    Cardinality(Req) = 2 =>
        /\ misses <= MostMisses
        /\ ~locked => misses + Round(failed, failed) <= MostMisses
        /\ \A r \in Trying :
            /\ misses + 1 + After(loginReq[r].seen) <= MostMisses
            /\ ~locked => misses + Round(loginReq[r].seen, failed) <= MostMisses
            /\ \A q \in Trying \ {r} : misses + Round(loginReq[r].seen, loginReq[q].seen) <= MostMisses

LoginInv == Logins!TypeOK /\ CountFollows /\ RoomLeft

\* A pair of logins leaves room for no third one.
LEMMA OnlyTwo ==
  ASSUME Cardinality(Req) = 2, NEW r \in Req, NEW q \in Req \ {r}
  PROVE  Req \ {r, q} = {}
<1> USE LoginAssumed
<1>1. IsFiniteSet(Req \ {r}) /\ Cardinality(Req \ {r}) = 1
  BY FS_RemoveElement
<1>2. IsFiniteSet((Req \ {r}) \ {q}) /\ Cardinality((Req \ {r}) \ {q}) = 0
  BY <1>1, FS_RemoveElement
<1>3. (Req \ {r}) \ {q} = {}
  BY <1>2, FS_EmptySet
<1> QED
  BY <1>3

LEMMA LoginTyped == Logins!TypeOK /\ [Logins!Next]_(Logins!vars) => Logins!TypeOK'
<1> SUFFICES ASSUME Logins!TypeOK, [Logins!Next]_(Logins!vars) PROVE Logins!TypeOK'
  OBVIOUS
<1>0. /\ Logins!Blank \in [seen : Nat, mfa : BOOLEAN]
      /\ Logins!Read(failed, mfa) \in [seen : Nat, mfa : BOOLEAN]
      /\ \A r \in Req : loginReq[r] \in [seen : Nat, mfa : BOOLEAN] /\ loginReq[r].seen + 1 \in Nat
  BY DEF Logins!TypeOK, Logins!Read, Logins!Blank
<1>1. CASE UNCHANGED Logins!vars
  BY <1>1 DEF Logins!vars, Logins!TypeOK
<1>2. CASE Logins!SetStatus \/ Logins!SetFactor
  <2>1. barred' \in BOOLEAN /\ mfa' \in BOOLEAN
    BY <1>2, Zenon DEF Logins!SetStatus, Logins!SetFactor, Logins!TypeOK
  <2> QED
    BY <1>2, <2>1 DEF Logins!SetStatus, Logins!SetFactor, Logins!TypeOK
<1>3. CASE Logins!ResetPassword \/ Logins!LockExpires \/ Logins!ChallengeExpires
  <2>1. {locked, barred, mfa, challenged, overlapped}' \subseteq BOOLEAN
    BY <1>3, Zenon DEF Logins!ResetPassword, Logins!Clear, Logins!LockExpires,
       Logins!ChallengeExpires, Logins!TypeOK
  <2>2. failed' \in Nat /\ misses' \in Nat /\ UNCHANGED <<loginPc, loginReq>>
    BY <1>3 DEF Logins!ResetPassword, Logins!Clear, Logins!LockExpires, Logins!ChallengeExpires,
       Logins!TypeOK
  <2> QED
    BY <2>1, <2>2, Zenon DEF Logins!TypeOK
<1>4. ASSUME NEW r \in Req, Logins!Login(r) \/ Logins!SecondStep(r) \/ Logins!FactorRight(r) \/ Logins!Abort(r)
      PROVE  Logins!TypeOK'
  <2>1. UNCHANGED <<Logins!account, misses, overlapped>>
    BY <1>4 DEF Logins!Login, Logins!SecondStep, Logins!FactorRight, Logins!Abort
  <2>2. loginPc' \in [Req -> Logins!PC] /\ loginReq' \in [Req -> [seen : Nat, mfa : BOOLEAN]]
    BY <1>0, <1>4 DEF Logins!Login, Logins!SecondStep, Logins!FactorRight, Logins!Abort,
       Logins!Enter, Logins!Goto, Logins!Leave, Logins!TypeOK, Logins!PC
  <2> QED
    BY <2>1, <2>2 DEF Logins!TypeOK, Logins!account
<1>5. ASSUME NEW r \in Req, Logins!RegisterFailed(r)
      PROVE  Logins!TypeOK'
  <2>1. locked' \in BOOLEAN /\ overlapped' \in BOOLEAN
    <3>1. (loginReq[r].seen + 1 >= MaxFailed) \in BOOLEAN
      OBVIOUS
    <3> QED
      BY <1>5, <3>1, Zenon DEF Logins!RegisterFailed
  <2>2. loginPc' \in [Req -> Logins!PC] /\ loginReq' \in [Req -> [seen : Nat, mfa : BOOLEAN]]
    BY <1>0, <1>5 DEF Logins!RegisterFailed, Logins!Leave, Logins!TypeOK, Logins!PC
  <2>3. failed' \in Nat /\ misses' \in Nat
    BY <1>0, <1>5 DEF Logins!RegisterFailed, Logins!TypeOK
  <2> QED
    BY <1>5, <2>1, <2>2, <2>3 DEF Logins!RegisterFailed, Logins!TypeOK
<1>6. ASSUME NEW r \in Req, Logins!Stamp(r) \/ Logins!PasswordRight(r)
      PROVE  Logins!TypeOK'
  <2>1. loginPc' \in [Req -> Logins!PC] /\ loginReq' \in [Req -> [seen : Nat, mfa : BOOLEAN]]
    BY <1>0, <1>6 DEF Logins!Stamp, Logins!PasswordRight, Logins!Leave, Logins!Goto,
       Logins!TypeOK, Logins!PC
  <2> QED
    <3>1. {locked, barred, mfa, challenged, overlapped}' \subseteq BOOLEAN
      BY <1>6, Zenon DEF Logins!Stamp, Logins!PasswordRight, Logins!Clear, Logins!TypeOK
    <3>2. failed' \in Nat /\ misses' \in Nat
      BY <1>6 DEF Logins!Stamp, Logins!PasswordRight, Logins!Clear
    <3> QED
      BY <2>1, <3>1, <3>2, Zenon DEF Logins!TypeOK
<1> QED
  BY <1>1, <1>2, <1>3, <1>4, <1>5, <1>6 DEF Logins!Next

\* What a written failure means for the lock and for the history of overlaps.
LEMMA FailureWrites ==
  ASSUME Logins!TypeOK, NEW r \in Req, Logins!RegisterFailed(r)
  PROVE  /\ failed' = loginReq[r].seen + 1 /\ misses' = misses + 1
         /\ loginReq[r].seen \in Nat
         /\ ~locked' => loginReq[r].seen + 1 < MaxFailed
         /\ ~overlapped' => ~overlapped /\ failed = loginReq[r].seen /\ ~locked
<1>1. ~overlapped' => ~overlapped /\ failed = loginReq[r].seen /\ ~locked
  BY Zenon DEF Logins!RegisterFailed
<1>2. failed' = loginReq[r].seen + 1 /\ misses' = misses + 1 /\ loginReq[r].seen \in Nat
  BY DEF Logins!RegisterFailed, Logins!TypeOK
<1>3. ~locked' => ~(loginReq[r].seen + 1 >= MaxFailed)
  BY Zenon DEF Logins!RegisterFailed
<1> QED
  BY <1>1, <1>2, <1>3, LoginAssumed

LEMMA LoginCounts == Logins!TypeOK /\ CountFollows /\ [Logins!Next]_(Logins!vars) => CountFollows'
<1> SUFFICES ASSUME Logins!TypeOK, CountFollows, [Logins!Next]_(Logins!vars) PROVE CountFollows'
  OBVIOUS
<1> USE LoginAssumed DEF Logins!TypeOK, CountFollows
<1>1. CASE UNCHANGED Logins!vars
  BY <1>1 DEF Logins!vars
<1>2. CASE Logins!ResetPassword \/ Logins!LockExpires \/ Logins!ChallengeExpires \/ Logins!SetStatus \/ Logins!SetFactor
  BY <1>2 DEF Logins!ResetPassword, Logins!Clear, Logins!LockExpires, Logins!ChallengeExpires,
     Logins!SetStatus, Logins!SetFactor
<1>3. ASSUME NEW r \in Req, Logins!Login(r) \/ Logins!SecondStep(r) \/ Logins!FactorRight(r) \/ Logins!Abort(r)
      PROVE  CountFollows'
  BY <1>3 DEF Logins!Login, Logins!SecondStep, Logins!FactorRight, Logins!Abort, Logins!account
<1>4. ASSUME NEW r \in Req, Logins!Stamp(r) \/ Logins!PasswordRight(r)
      PROVE  CountFollows'
  BY <1>4 DEF Logins!PasswordRight, Logins!Stamp, Logins!Clear
<1>5. ASSUME NEW r \in Req, Logins!RegisterFailed(r)
      PROVE  CountFollows'
  BY <1>5, FailureWrites
<1> QED
  BY <1>1, <1>2, <1>3, <1>4, <1>5 DEF Logins!Next

\* A step that writes no failure and lets no login in adds no room to need.
LEMMA RoomKept ==
  ASSUME Logins!TypeOK, RoomLeft, UNCHANGED <<failed, locked, misses>>,
         \A r \in Trying' : r \in Trying /\ loginReq'[r] = loginReq[r]
  PROVE  RoomLeft'
  BY DEF RoomLeft

\* All that may happen once the failures start again from none.
LEMMA RoomCleared ==
  ASSUME Logins!TypeOK', misses' = 0
  PROVE  RoomLeft'
<1> DEFINE M == MostMisses
<1>1. ASSUME NEW x \in Nat, NEW y \in Nat
      PROVE  /\ misses' <= M
             /\ misses' + Round(x, y) <= M
             /\ misses' + 1 + After(x) <= M
  <2>1. /\ M \in Nat /\ Round(x, y) \in Nat /\ Round(x, y) <= M
        /\ After(x) \in Nat /\ Round(x, y) = Climb(y) + 1 + After(x)
    BY RoundFacts
  <2>2. Climb(y) \in Nat
    BY RoundFacts
  <2> QED
    BY <2>1, <2>2
<1>2. failed' \in Nat /\ \A r \in Trying' : loginReq'[r].seen \in Nat
  BY DEF Logins!TypeOK, Trying
<1> HIDE DEF M
<1> QED
  BY <1>1, <1>2, Zenon DEF RoomLeft, M

\* A login reads the count: it may hold it back, or be the one that climbs.
LEMMA RoomAtEntry ==
  ASSUME Logins!TypeOK, RoomLeft, NEW r \in Req, NEW step \in {"password", "factor"},
         ~locked, Logins!Enter(r, step), UNCHANGED <<failed, locked, misses>>
  PROVE  RoomLeft'
<1> SUFFICES ASSUME Cardinality(Req) = 2 PROVE RoomLeft'
  BY DEF RoomLeft
<1> DEFINE M == MostMisses
           Seen(q) == loginReq[q].seen
<1>1. /\ Trying' = Trying \cup {r} /\ r \notin Trying
      /\ loginReq'[r].seen = failed
      /\ \A q \in Trying : loginReq'[q] = loginReq[q]
  BY DEF Logins!Enter, Trying, Logins!Read, Logins!TypeOK, Logins!PC
<1>2. failed \in Nat /\ misses \in Nat /\ \A q \in Trying : Seen(q) \in Nat
  BY DEF Logins!TypeOK, Trying
<1>3. M \in Nat /\ misses <= M /\ misses + Round(failed, failed) <= M
  BY <1>2, RoundFacts DEF RoomLeft
<1>4. misses + 1 + After(failed) <= M
  BY <1>2, <1>3, RoundFacts
<1>5. ASSUME NEW q \in Trying
      PROVE  /\ misses + 1 + After(Seen(q)) <= M
             /\ misses + Round(Seen(q), failed) <= M
             /\ misses + Round(failed, Seen(q)) <= M
             /\ \A p \in Trying \ {q} : misses + Round(Seen(q), Seen(p)) <= M
  <2>1. misses + 1 + After(Seen(q)) <= M /\ misses + Round(Seen(q), failed) <= M
    BY DEF RoomLeft
  <2>2. \A p \in Trying \ {q} : misses + Round(Seen(q), Seen(p)) <= M
    BY DEF RoomLeft
  <2>3. /\ Round(failed, Seen(q)) \in Nat /\ Round(Seen(q), failed) \in Nat
        /\ Round(failed, failed) \in Nat
    BY <1>2, RoundFacts
  <2>4. CASE Seen(q) <= failed
    <3>1. Round(failed, Seen(q)) <= Round(Seen(q), failed)
      BY <1>2, <2>4, RoundFacts
    <3> QED
      BY <1>2, <1>3, <2>1, <2>2, <2>3, <3>1
  <2>5. CASE failed <= Seen(q)
    <3>1. Climb(failed) >= Climb(Seen(q)) /\ Climb(failed) \in Nat /\ Climb(Seen(q)) \in Nat
      BY <1>2, <2>5, RoundFacts
    <3>2. /\ Round(failed, Seen(q)) = Climb(Seen(q)) + 1 + After(failed)
          /\ Round(failed, failed) = Climb(failed) + 1 + After(failed)
          /\ After(failed) \in Nat
      BY <1>2, RoundFacts
    <3>3. Round(failed, Seen(q)) <= Round(failed, failed)
      BY <3>1, <3>2
    <3> QED
      BY <1>2, <1>3, <2>1, <2>2, <2>3, <3>3
  <2> QED
    BY <1>2, <2>1, <2>2, <2>4, <2>5
<1>6. /\ misses' <= M
      /\ misses' + Round(failed', failed') <= M
      /\ \A q \in Trying' :
            /\ misses' + 1 + After(loginReq'[q].seen) <= M
            /\ misses' + Round(loginReq'[q].seen, failed') <= M
            /\ \A p \in Trying' \ {q} : misses' + Round(loginReq'[q].seen, loginReq'[p].seen) <= M
  BY <1>1, <1>3, <1>4, <1>5
<1> QED
  BY <1>6 DEF RoomLeft

\* A failure is written: it takes one of the failures there was room for.
LEMMA RoomAtFailure ==
  ASSUME Logins!TypeOK, RoomLeft, NEW r \in Req, Logins!RegisterFailed(r)
  PROVE  RoomLeft'
<1> SUFFICES ASSUME Cardinality(Req) = 2 PROVE RoomLeft'
  BY DEF RoomLeft
<1> DEFINE M == MostMisses
           a == loginReq[r].seen
<1>1. /\ r \in Trying /\ Trying' = Trying \ {r}
      /\ \A q \in Trying \ {r} : loginReq'[q] = loginReq[q]
  BY DEF Logins!RegisterFailed, Logins!Leave, Trying, Logins!TypeOK, Logins!PC
<1>2. /\ failed' = a + 1 /\ misses' = misses + 1
      /\ ~locked' => a + 1 < MaxFailed
      /\ MaxFailed \in Nat
  BY LoginAssumed, FailureWrites
<1>3. a \in Nat /\ misses \in Nat /\ \A q \in Trying : loginReq[q].seen \in Nat
  BY <1>1 DEF Logins!TypeOK, Trying
<1>4. M \in Nat /\ misses + 1 + After(a) <= M
  BY <1>1, <1>3, RoundFacts DEF RoomLeft
<1> HIDE DEF a, M
<1>5. misses' <= M
  BY <1>2, <1>3, <1>4, RoundFacts
<1>6. ~locked' => misses' + Round(failed', failed') <= M
  <2> SUFFICES ASSUME a + 1 < MaxFailed PROVE misses' + Round(failed', failed') <= M
    BY <1>2
  <2>1. Round(a + 1, a + 1) = After(a) /\ After(a) \in Nat
    BY <1>3, RoundFacts
  <2> QED
    BY <1>2, <1>3, <1>4, <2>1
<1>7. ASSUME NEW q \in Trying \ {r}
      PROVE  /\ misses' + 1 + After(loginReq'[q].seen) <= M
             /\ ~locked' => misses' + Round(loginReq'[q].seen, failed') <= M
  <2> DEFINE b == loginReq[q].seen
  <2>1. b \in Nat /\ loginReq'[q].seen = b
    BY <1>1, <1>3
  <2>2. misses + Round(b, a) <= M
    BY <1>1 DEF RoomLeft, M, a
  <2> HIDE DEF b
  <2>3. /\ Round(b, a) = Climb(a) + 1 + After(b) /\ After(b) \in Nat
        /\ Climb(a) \in Nat /\ Climb(a) >= 1
    BY <1>3, <2>1, RoundFacts
  <2>4. misses' + 1 + After(b) <= M
    BY <1>2, <1>3, <1>4, <2>2, <2>3
  <2>5. ASSUME ~locked'
        PROVE  misses' + Round(b, failed') <= M
    <3>1. a + 1 < MaxFailed /\ a + 1 \in Nat
      BY <1>2, <1>3, <2>5
    <3>4. Climb(a) = Climb(a + 1) + 1 /\ Climb(a + 1) \in Nat
      BY <1>3, <3>1, RoundFacts
    <3>2. Round(b, a + 1) = Climb(a + 1) + 1 + After(b)
      BY <3>1, <2>1, RoundFacts
    <3> QED
      BY <1>2, <1>3, <1>4, <2>2, <2>3, <3>4, <3>2
  <2> QED
    BY <2>1, <2>4, <2>5
<1>8. \A q \in Trying \ {r} : Trying \ {r, q} = {}
  BY OnlyTwo DEF Trying
<1> QED
  BY <1>1, <1>5, <1>6, <1>7, <1>8 DEF RoomLeft, M

LEMMA LoginRoom == Logins!TypeOK /\ RoomLeft /\ [Logins!Next]_(Logins!vars) => RoomLeft'
<1> SUFFICES ASSUME Logins!TypeOK, RoomLeft, [Logins!Next]_(Logins!vars) PROVE RoomLeft'
  OBVIOUS
<1>0. Logins!TypeOK'
  BY LoginTyped
<1>1. CASE UNCHANGED Logins!vars
  BY <1>1, RoomKept DEF Logins!vars, Trying
<1>2. CASE Logins!ChallengeExpires \/ Logins!SetStatus \/ Logins!SetFactor
  BY <1>2, RoomKept DEF Logins!ChallengeExpires, Logins!SetStatus, Logins!SetFactor, Trying
<1>3. CASE Logins!ResetPassword \/ Logins!LockExpires
  BY <1>0, <1>3, RoomCleared DEF Logins!ResetPassword, Logins!LockExpires, Logins!Clear
<1>4. ASSUME NEW r \in Req, Logins!PasswordRight(r) \/ Logins!Stamp(r)
      PROVE  RoomLeft'
  BY <1>0, <1>4, RoomCleared DEF Logins!PasswordRight, Logins!Stamp, Logins!Clear
<1>5. ASSUME NEW r \in Req, Logins!FactorRight(r) \/ Logins!Abort(r)
      PROVE  RoomLeft'
  <2>1. UNCHANGED <<failed, locked, misses>>
    BY <1>5 DEF Logins!FactorRight, Logins!Abort, Logins!account
  <2>2. \A q \in Trying' : q \in Trying /\ loginReq'[q] = loginReq[q]
    BY <1>5 DEF Logins!FactorRight, Logins!Abort, Logins!Goto, Logins!Leave, Trying, Logins!TypeOK
  <2> QED
    BY <2>1, <2>2, RoomKept
<1>6. ASSUME NEW r \in Req, Logins!Login(r) \/ Logins!SecondStep(r)
      PROVE  RoomLeft'
  BY <1>6, RoomAtEntry DEF Logins!Login, Logins!SecondStep, Logins!Admissible, Logins!account
<1>7. ASSUME NEW r \in Req, Logins!RegisterFailed(r)
      PROVE  RoomLeft'
  BY <1>7, RoomAtFailure
<1> QED
  BY <1>1, <1>2, <1>3, <1>4, <1>5, <1>6, <1>7 DEF Logins!Next

LEMMA LoginStart == Logins!Init => LoginInv
<1> SUFFICES ASSUME Logins!Init PROVE LoginInv
  OBVIOUS
<1>1. Logins!TypeOK /\ CountFollows
  <2>1. Logins!Blank \in [seen : Nat, mfa : BOOLEAN]
    BY DEF Logins!Blank, Logins!Read
  <2>2. Logins!TypeOK
    BY <2>1, Zenon DEF Logins!Init, Logins!TypeOK, Logins!PC
  <2>3. CountFollows
    BY LoginAssumed DEF Logins!Init, CountFollows
  <2> QED
    BY <2>2, <2>3
<1>2. Trying = {}
  BY DEF Logins!Init, Trying
<1>3. RoomLeft
  BY <1>2, RoundFacts DEF Logins!Init, RoomLeft
<1> QED
  BY <1>1, <1>3 DEF LoginInv

LEMMA LoginInvariance == Logins!Spec => []LoginInv
<1>1. Logins!Init => LoginInv
  BY LoginStart
<1>2. LoginInv /\ [Logins!Next]_(Logins!vars) => LoginInv'
  BY LoginTyped, LoginCounts, LoginRoom DEF LoginInv
<1> QED
  BY <1>1, <1>2, PTL DEF Logins!Spec

LEMMA LoginInvLocks == LoginInv => Logins!LockedInTime
  BY SameCount DEF LoginInv, CountFollows, RoomLeft, Logins!LockedInTime, MostMisses

-----------------------------------------------------------------------------
(* The second factor.                                                        *)

\* As long as none have crossed, one request changes the factor at a time.
ChangedAlone == ~crossed => \A q, r \in Req : Factor!Changing(q) /\ Factor!Changing(r) => q = r

\* An enrolment under way finds the factor off, and a secret that it has matched
\* is still the one stored.
EnrolmentStands ==
    ~crossed => \A r \in Req :
        /\ factorPc[r] \in {"seed", "secret", "enable"} => ~enabled
        /\ factorPc[r] = "enable" => secret # None /\ factorReq[r].secret = secret

\* A request about to spend a recovery code has one.
CodeInHand == \A r \in Req : factorPc[r] = "spend" => factorReq[r].code # None

FactorInv ==
    /\ Factor!TypeOK
    /\ ChangedAlone
    /\ EnrolmentStands
    /\ CodeInHand
    /\ Factor!EnrolledCanAnswer
    /\ Factor!SecondUseOverlaps

\* The steps of an enrolment, and of a request that turns the factor off.
FactorAct(r) ==
    \/ Factor!Begin(r) \/ \E s \in Secret : Factor!Seed(r, s)
    \/ Factor!Confirm(r) \/ Factor!MatchSecret(r) \/ \E c \in Recovery : Factor!Enable(r, c)
    \/ \E for \in Factor!Purpose : Factor!Verify(r, for)
    \/ Factor!Totp(r) \/ \E c \in Recovery : Factor!FindCode(r, c)
    \/ Factor!SpendCode(r) \/ Factor!Wipe(r) \/ Factor!Clear(r)
    \/ Factor!Abort(r)

LEMMA FactorStart == Factor!Init => FactorInv
<1> SUFFICES ASSUME Factor!Init PROVE FactorInv
  OBVIOUS
<1>1. Factor!Blank \in Factor!Request
  BY DEF Factor!Blank, Factor!Ask, Factor!Request, Factor!Purpose
<1>2. Factor!TypeOK
  BY <1>1 DEF Factor!Init, Factor!TypeOK, Factor!CodeState, Factor!PC
<1>3. ChangedAlone /\ EnrolmentStands /\ CodeInHand
  BY DEF Factor!Init, ChangedAlone, EnrolmentStands, CodeInHand, Factor!Changing
<1>4. Factor!EnrolledCanAnswer /\ Factor!SecondUseOverlaps
  BY DEF Factor!Init, Factor!EnrolledCanAnswer, Factor!SecondUseOverlaps
<1> QED
  BY <1>2, <1>3, <1>4 DEF FactorInv

\* The records the steps leave behind are requests.
LEMMA FactorRecords ==
  ASSUME Factor!TypeOK, NEW r \in Req
  PROVE  /\ Factor!Blank \in Factor!Request
         /\ \A for \in Factor!Purpose : Factor!Ask(for, None, None) \in Factor!Request
         /\ Factor!Ask("login", secret, None) \in Factor!Request
         /\ \A c \in Recovery : Factor!Ask(factorReq[r].for, None, c) \in Factor!Request
         /\ factorReq[r] \in Factor!Request
  BY DEF Factor!TypeOK, Factor!Blank, Factor!Ask, Factor!Request, Factor!Purpose

\* A request that ends, or goes on with a step and a record, keeps the types.
LEMMA FactorGoto ==
  ASSUME Factor!TypeOK, NEW r \in Req, NEW step \in Factor!PC, NEW rec \in Factor!Request, Factor!Goto(r, step, rec)
  PROVE  /\ factorPc' \in [Req -> Factor!PC]
         /\ factorReq' \in [Req -> Factor!Request]
         /\ factorPc'[r] = step /\ factorReq'[r] = rec
         /\ \A q \in Req \ {r} : factorPc'[q] = factorPc[q] /\ factorReq'[q] = factorReq[q]
  BY DEF Factor!TypeOK, Factor!Goto

\* Where a step may lead.
LEMMA FactorMoves ==
  ASSUME Factor!TypeOK, NEW r \in Req, FactorAct(r)
  PROVE  \E step \in Factor!PC, rec \in Factor!Request : Factor!Goto(r, step, rec)
<1> USE FactorRecords DEF Factor!PC
<1>1. CASE Factor!Begin(r) \/ Factor!Confirm(r) \/ \E for \in Factor!Purpose : Factor!Verify(r, for)
  BY <1>1 DEF Factor!Begin, Factor!Confirm, Factor!Verify, Factor!Enter
<1>2. CASE (\E s \in Secret : Factor!Seed(r, s)) \/ (\E c \in Recovery : Factor!Enable(r, c)) \/ Factor!Clear(r) \/ Factor!Abort(r)
  BY <1>2 DEF Factor!Seed, Factor!Enable, Factor!Clear, Factor!Abort, Factor!Leave
<1>3. CASE Factor!MatchSecret(r) \/ (\E c \in Recovery : Factor!FindCode(r, c)) \/ Factor!Wipe(r)
  BY <1>3 DEF Factor!MatchSecret, Factor!FindCode, Factor!Wipe
<1>4. CASE Factor!Totp(r) \/ Factor!SpendCode(r)
  BY <1>4 DEF Factor!Totp, Factor!SpendCode, Factor!Pass, Factor!Leave
<1> QED
  BY <1>1, <1>2, <1>3, <1>4 DEF FactorAct

LEMMA FactorTyped == Factor!TypeOK /\ [Factor!Next]_(Factor!vars) => Factor!TypeOK'
<1> SUFFICES ASSUME Factor!TypeOK, [Factor!Next]_(Factor!vars) PROVE Factor!TypeOK'
  OBVIOUS
<1>1. CASE UNCHANGED Factor!vars
  BY <1>1 DEF Factor!vars, Factor!TypeOK
<1>2. CASE Factor!ResetMfa
  BY <1>2 DEF Factor!ResetMfa, Factor!Wiped, Factor!TypeOK, Factor!CodeState
<1>3. ASSUME NEW r \in Req, FactorAct(r)
      PROVE  Factor!TypeOK'
  <2>1. factorPc' \in [Req -> Factor!PC] /\ factorReq' \in [Req -> Factor!Request]
    BY <1>3, FactorMoves, FactorGoto
  <2>2. crossed' \in BOOLEAN
    BY <1>3 DEF FactorAct, Factor!Begin, Factor!Seed, Factor!Confirm, Factor!MatchSecret,
       Factor!Enable, Factor!Verify, Factor!Totp, Factor!FindCode,
       Factor!SpendCode, Factor!Wipe, Factor!Clear, Factor!Abort, Factor!Enter, Factor!TypeOK
  <2>3. enabled' \in BOOLEAN /\ secret' \in Secret \cup {None}
    BY <1>3 DEF FactorAct, Factor!Begin, Factor!Seed, Factor!Confirm, Factor!MatchSecret,
       Factor!Enable, Factor!Verify, Factor!Totp, Factor!FindCode,
       Factor!SpendCode, Factor!Wipe, Factor!Clear, Factor!Abort, Factor!factor, Factor!TypeOK
  <2>4. confirmed' \in Secret \cup {None}
    BY <1>3 DEF FactorAct, Factor!Begin, Factor!Seed, Factor!Confirm, Factor!MatchSecret,
       Factor!Enable, Factor!Verify, Factor!Totp, Factor!FindCode,
       Factor!SpendCode, Factor!Wipe, Factor!Clear, Factor!Abort, Factor!TypeOK, Factor!Request
  <2>5. codes' \in [Recovery -> Factor!CodeState]
    BY <1>3 DEF FactorAct, Factor!Begin, Factor!Seed, Factor!Confirm, Factor!MatchSecret,
       Factor!Enable, Factor!Verify, Factor!Totp, Factor!FindCode,
       Factor!SpendCode, Factor!Wipe, Factor!Clear, Factor!Abort, Factor!factor, Factor!Wiped, Factor!TypeOK, Factor!CodeState
  <2>6. early' \in [Recovery -> SUBSET Req]
    BY <1>3 DEF FactorAct, Factor!Begin, Factor!Seed, Factor!Confirm, Factor!MatchSecret,
       Factor!Enable, Factor!Verify, Factor!Totp, Factor!FindCode,
       Factor!SpendCode, Factor!Wipe, Factor!Clear, Factor!Abort, Factor!TypeOK
  <2> QED
    BY <2>1, <2>2, <2>3, <2>4, <2>5, <2>6 DEF Factor!TypeOK
<1> QED
  BY <1>1, <1>2, <1>3 DEF Factor!Next, FactorAct

\* A step that does not start a request changes nothing more than it did; a
\* request that starts to change the factor is the only one, or crosses another.
LEMMA FactorAlone == Factor!TypeOK /\ ChangedAlone /\ [Factor!Next]_(Factor!vars) => ChangedAlone'
<1> SUFFICES ASSUME Factor!TypeOK, ChangedAlone, [Factor!Next]_(Factor!vars) PROVE ChangedAlone'
  OBVIOUS
<1> USE DEF ChangedAlone
<1>1. CASE UNCHANGED Factor!vars
  BY <1>1 DEF Factor!vars, Factor!Changing
<1>2. CASE Factor!ResetMfa
  BY <1>2 DEF Factor!ResetMfa, Factor!Changing
<1>3. ASSUME NEW r \in Req, FactorAct(r)
      PROVE  ChangedAlone'
  <2>1. \A q \in Req \ {r} : Factor!Changing(q)' = Factor!Changing(q)
    BY <1>3, FactorMoves, FactorGoto DEF Factor!Changing
  <2>2. CASE Factor!Begin(r) \/ Factor!Confirm(r) \/ \E for \in Factor!Purpose : Factor!Verify(r, for)
    BY <2>1, <2>2 DEF Factor!Begin, Factor!Confirm, Factor!Verify, Factor!Enter
  <2>3. CASE crossed' = crossed /\ (Factor!Changing(r)' => Factor!Changing(r))
    BY <2>1, <2>3
  <2>4. CASE (\E s \in Secret : Factor!Seed(r, s)) \/ (\E c \in Recovery : Factor!Enable(r, c)) \/ Factor!Clear(r) \/ Factor!Abort(r)
    BY <2>3, <2>4, FactorRecords, FactorGoto DEF Factor!Seed, Factor!Enable, Factor!Clear,
       Factor!Abort, Factor!Leave, Factor!Changing, Factor!PC
  <2>5. CASE Factor!MatchSecret(r) \/ (\E c \in Recovery : Factor!FindCode(r, c)) \/ Factor!Wipe(r)
    BY <2>3, <2>5 DEF Factor!MatchSecret, Factor!FindCode, Factor!Wipe, Factor!Goto, Factor!Ask,
       Factor!Changing, Factor!TypeOK
  <2>6. CASE Factor!Totp(r) \/ Factor!SpendCode(r)
    <3>1. crossed' = crossed /\ Factor!Pass(r) /\ factorPc[r] \in {"verify", "spend"}
      BY <2>6 DEF Factor!Totp, Factor!SpendCode
    <3>2. Factor!Changing(r)' => Factor!Changing(r)
      BY <3>1 DEF Factor!Pass, Factor!Leave, Factor!Goto, Factor!Changing, Factor!TypeOK,
         Factor!Request, Factor!Purpose
    <3> QED
      BY <2>3, <3>1, <3>2
  <2> QED
    BY <1>3, <2>2, <2>4, <2>5, <2>6 DEF FactorAct
<1> QED
  BY <1>1, <1>2, <1>3 DEF Factor!Next, FactorAct

\* What an enrolment has found stays so until it ends.
LEMMA FactorEnrolment == FactorInv /\ [Factor!Next]_(Factor!vars) => EnrolmentStands' /\ Factor!EnrolledCanAnswer'
<1> SUFFICES ASSUME FactorInv, [Factor!Next]_(Factor!vars) PROVE EnrolmentStands' /\ Factor!EnrolledCanAnswer'
  OBVIOUS
<1> USE DEF FactorInv, EnrolmentStands, Factor!EnrolledCanAnswer
<1>1. CASE UNCHANGED Factor!vars
  BY <1>1 DEF Factor!vars
<1>2. CASE Factor!ResetMfa
  BY <1>2 DEF Factor!ResetMfa, Factor!Changing
<1>3. ASSUME NEW r \in Req, FactorAct(r)
      PROVE  EnrolmentStands' /\ Factor!EnrolledCanAnswer'
  <2>1. \A q \in Req \ {r} : factorPc'[q] = factorPc[q] /\ factorReq'[q] = factorReq[q]
    BY <1>3, FactorMoves, FactorGoto
  <2>2. CASE (UNCHANGED <<enabled, secret, confirmed>>) /\ (crossed' = crossed \/ crossed')
             /\ (factorPc'[r] \in {"seed", "secret"} => ~enabled) /\ factorPc'[r] # "enable"
    BY <2>1, <2>2
  <2>3. CASE Factor!Begin(r) \/ Factor!Confirm(r) \/ \E for \in Factor!Purpose : Factor!Verify(r, for)
    BY <2>1, <2>3 DEF Factor!Begin, Factor!Confirm, Factor!Verify, Factor!Enter, Factor!Goto,
       Factor!factor, Factor!TypeOK
  <2>4. CASE (\E c \in Recovery : Factor!FindCode(r, c)) \/ Factor!Wipe(r) \/ Factor!Totp(r) \/ Factor!SpendCode(r) \/ Factor!Abort(r)
    BY <2>2, <2>4 DEF Factor!FindCode, Factor!Wipe, Factor!Totp, Factor!SpendCode, Factor!Abort,
       Factor!Pass, Factor!Leave, Factor!Goto, Factor!factor, Factor!TypeOK
  <2>5. CASE Factor!MatchSecret(r)
    BY <2>1, <2>5 DEF Factor!MatchSecret, Factor!Goto, Factor!Ask, Factor!factor, Factor!TypeOK
  <2>6. ASSUME Factor!Changing(r), factorPc'[r] = "idle", crossed' = crossed
        PROVE  ~crossed' => \A q \in Req : factorPc'[q] \notin {"seed", "secret", "enable"}
    BY <2>1, <2>6 DEF ChangedAlone, Factor!Changing
  <2>7. CASE (\E s \in Secret : Factor!Seed(r, s)) \/ Factor!Clear(r)
    <3>1. Factor!Changing(r) /\ factorPc'[r] = "idle" /\ crossed' = crossed
      BY <2>7 DEF Factor!Seed, Factor!Clear, Factor!Leave, Factor!Goto, Factor!Changing,
         Factor!TypeOK
    <3>2. ~crossed' => ~enabled'
      BY <2>7 DEF Factor!Seed, Factor!Clear
    <3> QED
      BY <2>6, <3>1, <3>2
  <2>8. CASE \E c \in Recovery : Factor!Enable(r, c)
    <3>1. Factor!Changing(r) /\ factorPc'[r] = "idle" /\ crossed' = crossed
      BY <2>8 DEF Factor!Enable, Factor!Leave, Factor!Goto, Factor!Changing, Factor!TypeOK
    <3>2. ~crossed' => secret' # None /\ secret' = confirmed'
      BY <2>8 DEF Factor!Enable
    <3> QED
      BY <2>6, <3>1, <3>2
  <2> QED
    BY <1>3, <2>3, <2>4, <2>5, <2>7, <2>8 DEF FactorAct
<1> QED
  BY <1>1, <1>2, <1>3 DEF Factor!Next, FactorAct

\* Whoever is about to spend a code has found it unused.
LEMMA FactorCodes == FactorInv /\ [Factor!Next]_(Factor!vars) => CodeInHand' /\ Factor!SecondUseOverlaps'
<1> SUFFICES ASSUME FactorInv, [Factor!Next]_(Factor!vars) PROVE CodeInHand' /\ Factor!SecondUseOverlaps'
  OBVIOUS
<1> USE FactorAssumed DEF FactorInv, CodeInHand, Factor!SecondUseOverlaps, Factor!TypeOK
<1>1. CASE UNCHANGED Factor!vars
  BY <1>1 DEF Factor!vars
<1>2. CASE Factor!ResetMfa
  BY <1>2 DEF Factor!ResetMfa, Factor!Wiped, Factor!Request
<1>3. ASSUME NEW r \in Req, FactorAct(r)
      PROVE  CodeInHand' /\ Factor!SecondUseOverlaps'
  <2>1. \A q \in Req \ {r} : factorPc'[q] = factorPc[q] /\ factorReq'[q] = factorReq[q]
    BY <1>3, FactorMoves, FactorGoto
  <2>2. \A q \in Req : factorPc[q] = "spend" => factorReq[q].code \in Recovery
    BY DEF Factor!Request
  <2>3. ASSUME NEW c \in Recovery, Factor!FindCode(r, c)
        PROVE  CodeInHand' /\ Factor!SecondUseOverlaps'
    BY <2>1, <2>3 DEF Factor!FindCode, Factor!Goto, Factor!Ask, Factor!factor
  <2>4. CASE /\ factorPc'[r] # "spend"
             /\ early' = early
             /\ \A c \in Recovery : codes'[c] = "used" => codes[c] = "used"
    BY <2>1, <2>2, <2>4
  <2>5. CASE Factor!Begin(r) \/ Factor!Confirm(r) \/ Factor!MatchSecret(r) \/ \E for \in Factor!Purpose : Factor!Verify(r, for)
    BY <2>4, <2>5 DEF Factor!Begin, Factor!Confirm, Factor!MatchSecret, Factor!Verify,
       Factor!Enter, Factor!Goto, Factor!factor
  <2>6. CASE (\E s \in Secret : Factor!Seed(r, s)) \/ Factor!Clear(r) \/ Factor!Abort(r) \/ Factor!Totp(r)
    BY <2>4, <2>6 DEF Factor!Seed, Factor!Clear, Factor!Abort, Factor!Totp, Factor!Pass,
       Factor!Leave, Factor!Goto, Factor!factor
  <2>7. CASE Factor!Wipe(r) \/ \E c \in Recovery : Factor!Enable(r, c)
    BY <2>4, <2>7, ZenonT(30) DEF Factor!Wipe, Factor!Enable, Factor!Wiped, Factor!Leave, Factor!Goto
  <2>8. CASE Factor!SpendCode(r)
    <3>1. factorPc'[r] # "spend"
      BY <2>8 DEF Factor!SpendCode, Factor!Pass, Factor!Leave, Factor!Goto
    <3>2. \A q \in Req : factorPc'[q] = "spend" => q # r /\ factorPc[q] = "spend" /\ factorReq'[q] = factorReq[q]
      BY <2>1, <3>1
    <3>3. ASSUME NEW q \in Req, factorPc'[q] = "spend", codes'[factorReq[q].code] = "used"
          PROVE  q \in early'[factorReq[q].code]
      BY <2>2, <2>8, <3>2, <3>3 DEF Factor!SpendCode
    <3> QED
      BY <3>2, <3>3
  <2> QED
    BY <1>3, <2>3, <2>5, <2>6, <2>7, <2>8 DEF FactorAct
<1> QED
  BY <1>1, <1>2, <1>3 DEF Factor!Next, FactorAct

\* The invariant of the second factor is inductive.
LEMMA FactorInvariance == Factor!Spec => []FactorInv
<1>1. Factor!Init => FactorInv
  BY FactorStart
<1>2. FactorInv /\ [Factor!Next]_(Factor!vars) => FactorInv'
  BY FactorTyped, FactorAlone, FactorEnrolment, FactorCodes DEF FactorInv
<1> QED
  BY <1>1, <1>2, PTL DEF Factor!Spec
-----------------------------------------------------------------------------
(* The parts together, and the theorems.                                     *)

\* What the run checks, under a bound of its own, is a behaviour of each part.
LEMMA PartsAlone == MCSpec => Spec /\ Mails!Spec /\ Logins!Spec /\ Factor!Spec
<1>1. MCInit => Init /\ Mails!Init /\ Logins!Init /\ Factor!Init
  BY DEF MCInit
<1>2. ASSUME [MCNext]_<<part, mails, logins, factor, phone>>
      PROVE  /\ [Next]_vars /\ [Mails!Next]_(Mails!vars)
             /\ [Logins!Next]_(Logins!vars) /\ [Factor!Next]_(Factor!vars)
  <2> USE DEF mails, logins, factor, phone
  <2>1. (UNCHANGED mails => UNCHANGED Mails!vars) /\ (UNCHANGED logins => UNCHANGED Logins!vars)
        /\ (UNCHANGED factor => UNCHANGED Factor!vars)
    BY DEF Mails!vars, Logins!vars, Factor!vars
  <2> QED
    BY <1>2, <2>1, Zenon DEF MCNext
<1> QED
  BY <1>1, <1>2, PTL DEF MCSpec, Spec, Mails!Spec, Logins!Spec, Factor!Spec

\* Rows, requests, tokens, counters and flags of every part keep their types,
\* whatever interleaves: pairs in the store of the phone and in flight are issued
\* ones, a counter of wrong codes stays inside its bound.
THEOREM TypesHold == Spec /\ Mails!Spec /\ Logins!Spec /\ Factor!Spec => []PartsTyped
<1>1. PhoneInv => TypeOK
  BY DEF PhoneInv
<1>2. MailInv => Mails!TypeOK
  BY DEF MailInv
<1>3. LoginInv => Logins!TypeOK
  BY DEF LoginInv
<1>4. FactorInv => Factor!TypeOK
  BY DEF FactorInv
<1> QED
  BY <1>1, <1>2, <1>3, <1>4, PhoneInvariance, MailInvariance, LoginInvariance,
     FactorInvariance, PTL DEF PartsTyped

\* What the phone sends goes out under the account on screen, through late answers,
\* kills amid a write and starts without network (services/api.ts,
\* stores/authStore.ts), outside the three cases its statement names: a refresh or
\* an edition of the profile in flight at a change of account, and a profile that
\* outlived its tokens.
THEOREM TokensFollowTheScreen == Spec => []VaultFollowsScreen
BY PhonePromises, PhoneInvariance, PTL

\* What the user signed out of stays out (logout, deleteAccount): unless a refresh
\* was in flight then, no token, no profile and, if the detachment was confirmed, no
\* notification comes back; nor does the screen, unless an edition of the profile
\* was in flight.
THEOREM SignOutIsKept == Spec => []SignedOutStaysOut
BY PhonePromises, PhoneInvariance, PTL

\* The phone presents a spent refresh token only after the answer of a rotation
\* was lost: its own requests never set off the detection of reuse.
THEOREM NoAlarmOfItsOwn == Spec => []NoFalseAlarm
BY PhonePromises, PhoneInvariance, PTL

\* Wrong passwords lock the account in time (registerFailedLogin): as many as
\* allowed when no two logins overlapped, and where two requests are the most in
\* flight, no more than their counts can hold back. Of three or more overlapping
\* logins it says nothing.
THEOREM LoginLocks == Logins!Spec => []LockedInTime
<1>1. LoginInv => LockedInTime
  BY LoginInvLocks DEF LockedInTime
<1> QED
  BY <1>1, LoginInvariance, PTL

\* As long as no two requests change the factor at once, whoever has it on can
\* answer it, with the secret that was confirmed (beginEnrollment, confirmEnrollment).
THEOREM EnrolmentHolds == Factor!Spec => []EnrolledCanAnswer
<1>1. FactorInv => EnrolledCanAnswer
  BY DEF FactorInv, EnrolledCanAnswer
<1> QED
  BY <1>1, FactorInvariance, PTL

\* A recovery code that was spent is about to be spent again only by requests that
\* had found it unused (verifyForUser).
THEOREM CodesAreSpentOnce == Factor!Spec => []SecondUseOverlaps
<1>1. FactorInv => SecondUseOverlaps
  BY DEF FactorInv, SecondUseOverlaps
<1> QED
  BY <1>1, FactorInvariance, PTL
====
