---- MODULE UpkeepProofs ----
(* The jobs that write to many, for any number of addresses, members, items, *)
(* sweeps and administrators: a campaign and its dispatch, the digest and    *)
(* the reminder, the queue of the animation accounts. Each part has an       *)
(* inductive invariant of its own; they meet in the last section.            *)
EXTENDS MCUpkeep, FiniteSetTheorems, WellFoundedInduction, TLAPS

\* What is assumed of the constants, by part.
LEMMA NudgeCount ==
    \A S : Nudge!Cardinality(S) = Cardinality(S) /\ (Nudge!IsFiniteSet(S) <=> IsFiniteSet(S))
  BY DEF Nudge!Cardinality, Cardinality, Nudge!IsFiniteSet, IsFiniteSet
LEMMA QueueCount == \A S : Queue!Cardinality(S) = Cardinality(S)
  BY DEF Queue!Cardinality, Cardinality
LEMMA NudgesAssumed == Nudge!BatchAssumption /\ Nudge!NoneFresh
  BY PartsAssumption
LEMMA QueueAssumed == Queue!ItemAssumption /\ Queue!CadenceAssumption
  BY PartsAssumption
-----------------------------------------------------------------------------
(* One campaign.                                                             *)

AtDispatch == {"load", "list", "extras", "fail"}
Mailed == {a \in Address : mails[a] = 1}

\* What holds between the steps of a campaign: only the claim of the draft starts a
\* dispatch, so that there is one at most, and what it has marked as seen covers
\* every address it has mailed.
CampaignInv ==
    /\ TypeOK
    /\ status \in {"draft", "sent"} => \A r \in Req : pc[r] \notin AtDispatch
    /\ \A r, s \in Req : pc[r] \in AtDispatch /\ pc[s] \in AtDispatch => r = s
    /\ status = "draft" => \A a \in Address : mails[a] = 0
    /\ status = "sent" => sentCount = Cardinality(Mailed)
    /\ \A a \in Address : mails[a] <= 1
    /\ \A r \in Req : pc[r] = "load" => \A a \in Address : mails[a] = 0
    /\ \A r \in Req : pc[r] \in {"list", "extras"} =>
           /\ \A a \in req[r].todo : a \notin req[r].seen
           /\ \A a \in Address : mails[a] = 1 => a \in req[r].seen
           /\ req[r].sent = Cardinality(Mailed)

LEMMA CampaignStarts == Init => CampaignInv
  <1> SUFFICES ASSUME Init PROVE CampaignInv
    OBVIOUS
  <1> USE DEF Init, AtDispatch
  <1>1. TypeOK
    <2>1. mails \in [Address -> 0..MaxSent]
      BY AddressAssumption
    <2>2. Blank \in [out : SUBSET Address, todo : SUBSET Address,
                     seen : SUBSET Address, sent : Nat]
      BY DEF Blank, Ctx
    <2> QED
      BY <2>1, <2>2 DEF TypeOK, Status, PC
  <1> QED
    BY <1>1 DEF CampaignInv

\* A request that does not dispatch comes and goes beside the dispatch.
LEMMA AsideKeepsCampaign ==
    ASSUME CampaignInv, NEW r \in Req, TypeOK',
           pc[r] \notin AtDispatch,
           \E ctx : \E step \in PC \ AtDispatch : Goto(r, step, ctx),
           status' = status \/ status' = "deleted",
           mails' = mails, sentCount' = sentCount
    PROVE  CampaignInv'
  <1>1. \A s \in Req : pc'[s] \in AtDispatch =>
            s # r /\ pc[s] = pc'[s] /\ req'[s] = req[s]
    BY DEF Goto, CampaignInv, TypeOK, AtDispatch
  <1>2. \A s \in Req : pc[s] \notin AtDispatch => pc'[s] \notin AtDispatch
    BY DEF Goto, CampaignInv, TypeOK, AtDispatch
  <1>3. Mailed' = Mailed
    BY DEF Mailed
  <1> QED
    BY <1>1, <1>2, <1>3 DEF CampaignInv, AtDispatch

LEMMA CampaignTyped == TypeOK /\ [Next]_vars => TypeOK'
  <1> SUFFICES ASSUME TypeOK, [Next]_vars PROVE TypeOK'
    OBVIOUS
  <1> USE DEF TypeOK, Status, PC, Blank, Ctx, Goto, Leave, campaign
  <1>1. CASE Restart
    BY <1>1 DEF Restart
  <1>2. ASSUME NEW a \in Address, Subscription(a) PROVE TypeOK'
    BY <1>2 DEF Subscription
  <1>3. ASSUME NEW r \in Req, FindDraft(r, "edit") \/ FindDraft(r, "delete") PROVE TypeOK'
    BY <1>3 DEF FindDraft
  <1>4. ASSUME NEW r \in Req, EditWrite(r) PROVE TypeOK'
    BY <1>4 DEF EditWrite
  <1>5. ASSUME NEW r \in Req, DeleteWrite(r) PROVE TypeOK'
    BY <1>5 DEF DeleteWrite
  <1>6. ASSUME NEW r \in Req, Launch(r) PROVE TypeOK'
    BY <1>6 DEF Launch, FindDraft
  <1>7. ASSUME NEW r \in Req, Claim(r) PROVE TypeOK'
    BY <1>7 DEF Claim
  <1>8. ASSUME NEW r \in Req, Abort(r) PROVE TypeOK'
    BY <1>8 DEF Abort
  <1>9. ASSUME NEW r \in Req, Load(r) PROVE TypeOK'
    <2>1. CASE status = "deleted"
      BY <1>9, <2>1, SMTT(30) DEF Load
    <2>2. CASE status # "deleted"
      <3>1. Goto(r, "list", Ctx(excluded, subscribed \ excluded, {}, 0))
        BY <1>9, <2>2 DEF Load
      <3> QED
        BY <1>9, <3>1 DEF Load
    <2> QED
      BY <2>1, <2>2
  <1>10. ASSUME NEW r \in Req, ListDone(r) PROVE TypeOK'
    BY <1>10, AddressAssumption DEF ListDone
  <1>11. ASSUME NEW r \in Req, Finish(r) PROVE TypeOK'
    BY <1>11 DEF Finish
  <1>12. ASSUME NEW r \in Req, Crash(r) PROVE TypeOK'
    BY <1>12 DEF Crash
  <1>13. ASSUME NEW r \in Req, Fail(r) PROVE TypeOK'
    BY <1>13 DEF Fail
  <1>14. ASSUME NEW r \in Req, NEW a \in Address, Mail(r, a) PROVE TypeOK'
    BY <1>14, AddressAssumption DEF Mail
  <1>15. CASE UNCHANGED vars
    BY <1>15 DEF vars
  <1> QED
    BY <1>1, <1>2, <1>3, <1>4, <1>5, <1>6, <1>7, <1>8, <1>9, <1>10, <1>11, <1>12,
       <1>13, <1>14, <1>15 DEF Next, Dispatch

LEMMA CampaignStep == CampaignInv /\ [Next]_vars => CampaignInv'
  <1> SUFFICES ASSUME CampaignInv, [Next]_vars PROVE CampaignInv'
    OBVIOUS
  <1> TypeOK'
    BY CampaignTyped DEF CampaignInv
  <1>1. CASE Restart
    BY <1>1 DEF Restart, CampaignInv, AtDispatch, campaign, Mailed
  <1>2. ASSUME NEW a \in Address, Subscription(a) PROVE CampaignInv'
    BY <1>2 DEF Subscription, CampaignInv, campaign, Mailed
  <1>3. ASSUME NEW r \in Req,
               \/ FindDraft(r, "edit") \/ FindDraft(r, "delete") \/ Launch(r)
               \/ EditWrite(r) \/ DeleteWrite(r)
               \/ (Abort(r) /\ pc[r] \notin AtDispatch)
        PROVE  CampaignInv'
    <2>1. pc[r] \notin AtDispatch
      BY <1>3 DEF FindDraft, Launch, EditWrite, DeleteWrite, AtDispatch
    <2>2. \E ctx : \E step \in PC \ AtDispatch : Goto(r, step, ctx)
      BY <1>3 DEF FindDraft, Launch, EditWrite, DeleteWrite, Abort, Leave, PC, AtDispatch
    <2>3. /\ status' = status \/ status' = "deleted"
          /\ mails' = mails /\ sentCount' = sentCount
      BY <1>3 DEF FindDraft, Launch, EditWrite, DeleteWrite, Abort, campaign
    <2> QED
      BY <2>1, <2>2, <2>3, AsideKeepsCampaign
  <1>4. ASSUME NEW r \in Req, Claim(r) PROVE CampaignInv'
    <2>1. \A s \in Req : pc'[s] \in AtDispatch => s = r
      BY <1>4 DEF Claim, Goto, CampaignInv, TypeOK, AtDispatch
    <2>2. pc'[r] = "load"
      BY <1>4 DEF Claim, Goto, CampaignInv, TypeOK
    <2> QED
      BY <1>4, <2>1, <2>2 DEF Claim, CampaignInv, AtDispatch
  <1>5. ASSUME NEW r \in Req, pc[r] \in AtDispatch,
               Load(r) \/ Crash(r) \/ Fail(r) \/ Abort(r)
        PROVE  CampaignInv'
    <2>1. \A s \in Req : s # r => pc'[s] \notin AtDispatch
      BY <1>5 DEF Load, Crash, Fail, Abort, Goto, Leave, CampaignInv, TypeOK
    <2>2. mails' = mails /\ sentCount' = sentCount /\ Mailed' = Mailed
      BY <1>5 DEF Load, Crash, Fail, Abort, campaign, Mailed
    <2>3. \/ pc'[r] \notin AtDispatch
          \/ pc'[r] = "fail"
          \/ /\ pc'[r] = "list" /\ pc[r] = "load"
             /\ req'[r].seen = {} /\ req'[r].sent = 0
      BY <1>5 DEF Load, Crash, Fail, Abort, Goto, Leave, Ctx, CampaignInv, TypeOK, AtDispatch
    <2>4. status' \notin {"draft", "sent"}
      BY <1>5 DEF Load, Crash, Fail, Abort, campaign, CampaignInv
    <2>5. pc[r] = "load" => Mailed = {}
      BY DEF CampaignInv, Mailed
    <2>6. Cardinality({}) = 0
      BY FS_EmptySet
    <2>7. CASE pc'[r] = "list"
      BY <2>1, <2>2, <2>3, <2>4, <2>5, <2>6, <2>7, TypeOK' DEF CampaignInv, AtDispatch
    <2>8. CASE pc'[r] # "list"
      BY <2>1, <2>2, <2>3, <2>4, <2>8, TypeOK' DEF CampaignInv, AtDispatch
    <2> QED
      BY <2>7, <2>8
  <1>6. ASSUME NEW r \in Req, ListDone(r) PROVE CampaignInv'
    <2>1. \A s \in Req : s # r => pc'[s] \notin AtDispatch
      BY <1>6 DEF ListDone, Goto, CampaignInv, TypeOK, AtDispatch
    <2>2. mails' = mails /\ status' = status /\ Mailed' = Mailed
      BY <1>6 DEF ListDone, Mailed
    <2>3. /\ pc[r] = "list" /\ pc'[r] = "extras"
          /\ req'[r].seen = req[r].seen /\ req'[r].sent = req[r].sent
          /\ req'[r].todo = Extra \ (req[r].out \cup req[r].seen)
      BY <1>6 DEF ListDone, Goto, CampaignInv, TypeOK
    <2>4. status \notin {"draft", "sent"}
      BY <2>3 DEF CampaignInv, AtDispatch
    <2> QED
      BY <2>1, <2>2, <2>3, <2>4, TypeOK' DEF CampaignInv, AtDispatch
  <1>7. ASSUME NEW r \in Req, Finish(r) PROVE CampaignInv'
    <2>1. \A s \in Req : pc'[s] \notin AtDispatch
      BY <1>7 DEF Finish, Leave, Goto, CampaignInv, TypeOK, AtDispatch
    <2>2. mails' = mails /\ status' = "sent" /\ sentCount' = req[r].sent /\ Mailed' = Mailed
      BY <1>7 DEF Finish, Mailed
    <2>3. req[r].sent = Cardinality(Mailed)
      BY <1>7 DEF Finish, CampaignInv
    <2> QED
      BY <2>1, <2>2, <2>3, TypeOK' DEF CampaignInv, AtDispatch
  <1>8. ASSUME NEW r \in Req, NEW a \in Address, Mail(r, a) PROVE CampaignInv'
    <2>1. PICK n \in {0, 1} :
              /\ mails' = [mails EXCEPT ![a] = @ + n]
              /\ req' = [req EXCEPT ![r] = Ctx(@.out, @.todo \ {a}, @.seen \cup {a}, @.sent + n)]
      BY <1>8 DEF Mail
    <2>2. /\ pc[r] \in {"list", "extras"} /\ a \in req[r].todo
          /\ status' = status /\ sentCount' = sentCount /\ pc' = pc
      BY <1>8 DEF Mail, campaign
    <2>3. \A s \in Req : s # r => pc[s] \notin AtDispatch
      BY <2>2 DEF CampaignInv, AtDispatch
    <2>4. status \notin {"draft", "sent"}
      BY <2>2 DEF CampaignInv, AtDispatch
    <2>5. /\ req'[r].todo = req[r].todo \ {a}
          /\ req'[r].seen = req[r].seen \cup {a}
          /\ req'[r].sent = req[r].sent + n
      BY <2>1 DEF Ctx, CampaignInv, TypeOK
    <2>6. mails[a] = 0
      <3>1. mails[a] \in Nat /\ mails[a] <= 1
        BY AddressAssumption DEF CampaignInv, TypeOK
      <3>2. mails[a] # 1
        BY <2>2 DEF CampaignInv
      <3> QED
        BY <3>1, <3>2
    <2>7. \A x \in Address : mails'[x] = IF x = a THEN n ELSE mails[x]
      BY <2>1, <2>6 DEF CampaignInv, TypeOK
    <2>8. Mailed' = IF n = 1 THEN Mailed \cup {a} ELSE Mailed
      BY <2>7, <2>6 DEF Mailed
    <2>9. a \notin Mailed /\ IsFiniteSet(Mailed)
      <3>1. Mailed \in SUBSET Address
        BY DEF Mailed
      <3> QED
        BY <2>6, <3>1, FS_Subset, AddressAssumption DEF Mailed
    <2>10. Cardinality(Mailed \cup {a}) = Cardinality(Mailed) + 1
      BY <2>9, FS_AddElement
    <2>11. req[r].sent = Cardinality(Mailed)
      BY <2>2 DEF CampaignInv
    <2>12. req'[r].sent = Cardinality(Mailed')
      <3>1. Cardinality(Mailed) \in Nat
        BY <2>9, FS_CardinalityType
      <3> QED
        BY <2>5, <2>8, <2>10, <2>11, <3>1
    <2>13. \A x \in req'[r].todo : x \notin req'[r].seen
      BY <2>5, <2>2 DEF CampaignInv
    <2>14. \A x \in Address : mails'[x] = 1 => x \in req'[r].seen
      BY <2>5, <2>7, <2>2 DEF CampaignInv
    <2>15. \A x \in Address : mails'[x] <= 1
      BY <2>7 DEF CampaignInv
    <2> QED
      BY <2>2, <2>3, <2>4, <2>12, <2>13, <2>14, <2>15, TypeOK' DEF CampaignInv, AtDispatch
  <1>9. CASE UNCHANGED vars
    BY <1>9 DEF vars, campaign, CampaignInv, Mailed
  <1> QED
    <2>1. \A r \in Req : (Load(r) \/ Crash(r) \/ Fail(r)) => pc[r] \in AtDispatch
      BY DEF Load, Crash, Fail, AtDispatch
    <2>2. ASSUME NEW r \in Req, Dispatch(r) PROVE CampaignInv'
      BY <2>1, <2>2, <1>5, <1>6, <1>7, <1>8 DEF Dispatch
    <2>3. ASSUME NEW r \in Req, Abort(r) PROVE CampaignInv'
      BY <2>3, <1>3, <1>5
    <2>4. CASE Next
      <3>1. ASSUME NEW r \in Req,
                   \/ FindDraft(r, "edit") \/ EditWrite(r)
                   \/ FindDraft(r, "delete") \/ DeleteWrite(r)
                   \/ Launch(r) \/ Claim(r) \/ Abort(r) \/ Dispatch(r)
            PROVE  CampaignInv'
        <4>1. CASE EditWrite(r) \/ DeleteWrite(r) \/ Launch(r)
          BY <4>1, <1>3
        <4>2. CASE FindDraft(r, "edit") \/ FindDraft(r, "delete")
          BY <4>2, <1>3
        <4> QED
          BY <3>1, <4>1, <4>2, <2>2, <2>3, <1>4
      <3> QED
        BY <2>4, <3>1, <1>1, <1>2 DEF Next
    <2> QED
      BY <2>4, <1>9

LEMMA CampaignPromise == CampaignInv => SentOnceAndCounted
  BY DEF CampaignInv, SentOnceAndCounted, Mailed

-----------------------------------------------------------------------------
(* The digest and the reminder.                                              *)

Carriers(m) == {s \in Sweep : m \in Nudge!Carried(s)}

\* What is true of one member: each sweep that carries it may yet write to it, it is
\* not carried again once it is written to, and it was stamped before that.
MemberInv(m) ==
    /\ got[m] + Cardinality(Carriers(m)) <= Cardinality(Sweep)
    /\ m \notin stamped => got[m] = 0
    /\ \A s \in Sweep : sending[s] = m => m \in stamped /\ m \notin held[s]
    /\ m \notin crossed =>
        /\ \A s, x \in Sweep : m \in Nudge!Carried(s) /\ m \in Nudge!Carried(x) => s = x
        /\ got[m] <= 1
        /\ got[m] = 1 => \A s \in Sweep : m \notin Nudge!Carried(s)

NudgesTyped ==
    /\ kind \in {"digest", "reminder"}
    /\ wants \subseteq Member /\ stamped \subseteq Member /\ crossed \subseteq Member
    /\ got \in [Member -> Nat]
    /\ held \in [Sweep -> SUBSET Member]
    /\ sending \in [Sweep -> Member \cup {None}]

NudgesInv == NudgesTyped /\ \A m \in Member : MemberInv(m)

LEMMA CarriersCount ==
    /\ Cardinality(Sweep) \in Nat
    /\ \A m \in Member :
        /\ IsFiniteSet(Carriers(m))
        /\ Cardinality(Carriers(m)) \in Nat
        /\ Cardinality(Carriers(m)) <= Cardinality(Sweep)
  <1>1. IsFiniteSet(Sweep)
    BY NudgesAssumed, NudgeCount DEF Nudge!BatchAssumption
  <1>2. ASSUME NEW m \in Member
        PROVE  /\ IsFiniteSet(Carriers(m))
               /\ Cardinality(Carriers(m)) <= Cardinality(Sweep)
    <2>1. Carriers(m) \in SUBSET Sweep
      BY DEF Carriers
    <2> QED
      BY <1>1, <2>1, FS_Subset
  <1> QED
    BY <1>1, <1>2, FS_CardinalityType

LEMMA NudgesStart == Nudge!Init => NudgesInv
  <1> SUFFICES ASSUME Nudge!Init PROVE NudgesInv
    OBVIOUS
  <1>1. NudgesTyped
    BY DEF Nudge!Init, NudgesTyped
  <1>2. ASSUME NEW m \in Member PROVE MemberInv(m)
    <2>1. \A s \in Sweep : m \notin Nudge!Carried(s) /\ sending[s] # m
      BY NudgesAssumed DEF Nudge!Init, Nudge!Carried, Nudge!NoneFresh
    <2>2. got[m] = 0
      BY DEF Nudge!Init
    <2> QED
      BY <2>1, <2>2, CarriersCount DEF MemberInv
  <1> QED
    BY <1>1, <1>2 DEF NudgesInv

LEMMA NudgesTypedStep == NudgesTyped /\ [Nudge!Next]_(Nudge!vars) => NudgesTyped'
  <1> SUFFICES ASSUME NudgesTyped, [Nudge!Next]_(Nudge!vars) PROVE NudgesTyped'
    OBVIOUS
  <1> USE DEF NudgesTyped
  <1>1. CASE Nudge!Restart
    BY <1>1 DEF Nudge!Restart
  <1>2. ASSUME NEW m \in Member, Nudge!Age(m) \/ Nudge!Change(m) PROVE NudgesTyped'
    BY <1>2 DEF Nudge!Age, Nudge!Change
  <1>3. ASSUME NEW s \in Sweep, Nudge!List(s) PROVE NudgesTyped'
    <2>1. PICK B \in SUBSET Nudge!Due :
              /\ held' = [held EXCEPT ![s] = B]
              /\ crossed' = crossed \cup {m \in B : \E x \in Sweep \ {s} : m \in Nudge!Carried(x)}
      BY <1>3 DEF Nudge!List
    <2>2. B \subseteq Member
      BY <2>1 DEF Nudge!Due
    <2> QED
      BY <1>3, <2>1, <2>2 DEF Nudge!List
  <1>4. ASSUME NEW s \in Sweep, Nudge!Send(s) PROVE NudgesTyped'
    BY <1>4 DEF Nudge!Send
  <1>5. ASSUME NEW s \in Sweep, Nudge!Skip(s) PROVE NudgesTyped'
    BY <1>5 DEF Nudge!Skip
  <1>6. ASSUME NEW s \in Sweep, NEW m \in Member, Nudge!Stamp(s, m) PROVE NudgesTyped'
    BY <1>6 DEF Nudge!Stamp
  <1>7. CASE UNCHANGED Nudge!vars
    BY <1>7 DEF Nudge!vars
  <1> QED
    BY <1>1, <1>2, <1>3, <1>4, <1>5, <1>6, <1>7 DEF Nudge!Next

\* A step after which nobody new carries the member, and which neither sends it
\* anything nor takes a stamp away, leaves what is true of it.
LEMMA MemberLeftAlone ==
    ASSUME NudgesInv, NEW m \in Member, got'[m] = got[m],
           \A s \in Sweep : m \in Nudge!Carried(s)' => m \in Nudge!Carried(s),
           m \in stamped => m \in stamped',
           m \notin crossed' => m \notin crossed,
           \A s \in Sweep : sending'[s] = m => m \in stamped' /\ m \notin held'[s]
    PROVE  MemberInv(m)'
  <1>1. MemberInv(m)
    BY DEF NudgesInv
  <1>2. Carriers(m)' \in SUBSET Carriers(m)
    BY DEF Carriers
  <1>3. Cardinality(Carriers(m)') \in Nat /\ Cardinality(Carriers(m)') <= Cardinality(Carriers(m))
    BY <1>2, CarriersCount, FS_Subset, FS_CardinalityType
  <1>4. got[m] + Cardinality(Carriers(m)') <= Cardinality(Sweep)
    BY <1>1, <1>3, CarriersCount DEF MemberInv, NudgesInv, NudgesTyped
  <1> QED
    BY <1>1, <1>4 DEF MemberInv

LEMMA NudgesStep == NudgesInv /\ [Nudge!Next]_(Nudge!vars) => NudgesInv'
  <1> SUFFICES ASSUME NudgesInv, [Nudge!Next]_(Nudge!vars) PROVE NudgesInv'
    OBVIOUS
  <1>0. NudgesTyped /\ NudgesTyped'
    BY NudgesTypedStep DEF NudgesInv
  <1> SUFFICES ASSUME NEW m \in Member PROVE MemberInv(m)'
    BY <1>0 DEF NudgesInv
  <1>m. MemberInv(m) /\ m # None
    BY NudgesAssumed DEF NudgesInv, Nudge!NoneFresh
  <1>1. CASE Nudge!Restart
    <2>1. \A s \in Sweep : m \notin Nudge!Carried(s)' /\ sending'[s] # m
      BY <1>1, <1>m DEF Nudge!Restart, Nudge!Carried
    <2> QED
      BY <1>1, <2>1, MemberLeftAlone DEF Nudge!Restart
  <1>2. ASSUME NEW n \in Member, Nudge!Change(n) PROVE MemberInv(m)'
    BY <1>2, <1>m, MemberLeftAlone DEF Nudge!Change, Nudge!Carried, MemberInv
  <1>3. ASSUME NEW n \in Member, Nudge!Age(n) PROVE MemberInv(m)'
    <2>1. held' = held /\ sending' = sending /\ \A s \in Sweep : Nudge!Carried(s)' = Nudge!Carried(s)
      BY <1>3 DEF Nudge!Age, Nudge!Carried
    <2>2. CASE n # m
      BY <1>3, <1>0, <1>m, <2>1, <2>2, MemberLeftAlone DEF Nudge!Age, MemberInv, NudgesTyped
    <2>3. CASE n = m
      <3>1. \A s \in Sweep : m \notin Nudge!Carried(s)' /\ sending'[s] # m
        BY <1>3, <1>m, <2>1, <2>3 DEF Nudge!Age, Nudge!Carried
      <3>2. got'[m] = 0
        BY <1>3, <1>0, <2>3 DEF Nudge!Age, NudgesTyped
      <3>3. Carriers(m)' = {}
        BY <3>1 DEF Carriers
      <3>4. got'[m] + Cardinality(Carriers(m)') <= Cardinality(Sweep)
        BY <3>2, <3>3, FS_EmptySet, CarriersCount
      <3> QED
        BY <3>1, <3>2, <3>4 DEF MemberInv
    <2> QED
      BY <2>2, <2>3
  <1>4. ASSUME NEW s \in Sweep, Nudge!List(s) PROVE MemberInv(m)'
    <2>1. PICK B \in SUBSET Nudge!Due :
              /\ held' = [held EXCEPT ![s] = B]
              /\ crossed' = crossed \cup {n \in B : \E x \in Sweep \ {s} : n \in Nudge!Carried(x)}
      BY <1>4 DEF Nudge!List
    <2>2. /\ stamped' = stamped /\ got' = got /\ sending' = sending
          /\ Nudge!Carried(s) = {}
      BY <1>4 DEF Nudge!List
    <2>3. sending[s] = None
      BY <2>2, <1>0 DEF Nudge!Carried, NudgesTyped
    <2>4. Nudge!Carried(s)' = B
      BY <2>1, <2>2, <2>3, <1>0 DEF Nudge!Carried, NudgesTyped
    <2>5. \A x \in Sweep : x # s => Nudge!Carried(x)' = Nudge!Carried(x) /\ held'[x] = held[x]
      BY <2>1, <2>2, <1>0 DEF Nudge!Carried, NudgesTyped
    <2>6. CASE m \notin B
      <3>1. \A x \in Sweep : m \in Nudge!Carried(x)' => m \in Nudge!Carried(x)
        BY <2>4, <2>5, <2>6
      <3>2. \A x \in Sweep : sending'[x] = m => m \in stamped' /\ m \notin held'[x]
        BY <2>1, <2>2, <2>3, <2>5, <1>m DEF MemberInv
      <3>3. m \notin crossed' => m \notin crossed
        BY <2>1
      <3> QED
        BY <3>1, <3>2, <3>3, <2>2, MemberLeftAlone
    <2>7. CASE m \in B
      <3>1. m \notin stamped /\ got[m] = 0
        BY <2>1, <2>7, <1>m DEF Nudge!Due, MemberInv
      <3>2. \A x \in Sweep : sending'[x] # m
        BY <3>1, <2>2, <1>m DEF MemberInv
      <3>3. Cardinality(Carriers(m)') <= Cardinality(Sweep) /\ Cardinality(Carriers(m)') \in Nat
        <4>1. Carriers(m)' \in SUBSET Sweep
          BY DEF Carriers
        <4>2. IsFiniteSet(Sweep)
          BY NudgesAssumed, NudgeCount DEF Nudge!BatchAssumption
        <4> QED
          BY <4>1, <4>2, FS_Subset, FS_CardinalityType
      <3>4. got'[m] + Cardinality(Carriers(m)') <= Cardinality(Sweep)
        BY <3>1, <2>2, <3>3, CarriersCount
      <3>5. m \notin crossed' => \A x \in Sweep : m \in Nudge!Carried(x)' => x = s
        BY <2>1, <2>5, <2>7
      <3> QED
        BY <3>1, <3>2, <3>4, <3>5, <2>2 DEF MemberInv
    <2> QED
      BY <2>6, <2>7
  <1>5. ASSUME NEW s \in Sweep, NEW n \in Member, Nudge!Stamp(s, n) PROVE MemberInv(m)'
    <2>1. /\ n \in held[s] /\ sending[s] = None
          /\ stamped' = stamped \cup {n} /\ got' = got /\ crossed' = crossed
          /\ held' = [held EXCEPT ![s] = @ \ {n}]
          /\ sending' = [sending EXCEPT ![s] = n]
      BY <1>5 DEF Nudge!Stamp
    <2>2. \A x \in Sweep : /\ x # s => held'[x] = held[x] /\ sending'[x] = sending[x]
                           /\ held'[s] = held[s] \ {n} /\ sending'[s] = n
      BY <2>1, <1>0 DEF NudgesTyped
    <2>3. \A x \in Sweep : m \in Nudge!Carried(x)' => m \in Nudge!Carried(x)
      BY <2>1, <2>2 DEF Nudge!Carried
    <2>4. \A x \in Sweep : sending'[x] = m => m \in stamped' /\ m \notin held'[x]
      BY <2>1, <2>2, <1>m DEF MemberInv
    <2> QED
      BY <2>1, <2>3, <2>4, MemberLeftAlone
  <1>6. ASSUME NEW s \in Sweep, Nudge!Skip(s) PROVE MemberInv(m)'
    <2>1. \A x \in Sweep : /\ held'[x] \subseteq held[x]
                           /\ sending'[x] = sending[x] \/ sending'[x] = None
      BY <1>6, <1>0 DEF Nudge!Skip, NudgesTyped
    <2>2. \A x \in Sweep : m \in Nudge!Carried(x)' => m \in Nudge!Carried(x)
      BY <2>1 DEF Nudge!Carried
    <2>3. \A x \in Sweep : sending'[x] = m => m \in stamped /\ m \notin held'[x]
      BY <2>1, <1>m DEF MemberInv
    <2> QED
      BY <1>6, <2>2, <2>3, MemberLeftAlone DEF Nudge!Skip
  <1>7. ASSUME NEW s \in Sweep, Nudge!Send(s) PROVE MemberInv(m)'
    <2>1. PICK n \in Member : n = sending[s]
      BY <1>7, <1>0 DEF Nudge!Send, NudgesTyped
    <2>2. /\ got' = [got EXCEPT ![n] = @ + 1]
          /\ sending' = [sending EXCEPT ![s] = None]
          /\ stamped' = stamped /\ crossed' = crossed /\ held' = held
      BY <1>7, <2>1 DEF Nudge!Send
    <2>3. \A x \in Sweep : m \in Nudge!Carried(x)' => m \in Nudge!Carried(x)
      BY <2>2, <1>0 DEF Nudge!Carried, NudgesTyped
    <2>4. \A x \in Sweep : sending'[x] = m => m \in stamped /\ m \notin held[x]
      BY <2>2, <1>m, <1>0 DEF MemberInv, NudgesTyped
    <2>5. CASE n # m
      <3>1. got'[m] = got[m]
        BY <2>2, <2>5, <1>0 DEF NudgesTyped
      <3> QED
        BY <2>2, <2>3, <2>4, <3>1, MemberLeftAlone
    <2>6. CASE n = m
      <3>1. got'[m] = got[m] + 1 /\ got[m] \in Nat
        BY <2>2, <2>6, <1>0 DEF NudgesTyped
      <3>2. m \in Nudge!Carried(s) /\ m \notin Nudge!Carried(s)' /\ m \in stamped
        BY <2>1, <2>2, <2>6, <1>m, <1>0 DEF Nudge!Carried, MemberInv, NudgesTyped
      <3>3. Carriers(m)' \in SUBSET (Carriers(m) \ {s}) /\ s \in Carriers(m)
        BY <2>3, <3>2 DEF Carriers
      <3>4. /\ IsFiniteSet(Carriers(m) \ {s})
            /\ Cardinality(Carriers(m) \ {s}) = Cardinality(Carriers(m)) - 1
        BY <3>3, CarriersCount, FS_RemoveElement
      <3>5. /\ Cardinality(Carriers(m)') <= Cardinality(Carriers(m) \ {s})
            /\ Cardinality(Carriers(m)') \in Nat
        BY <3>3, <3>4, FS_Subset, FS_CardinalityType
      <3>6. got'[m] + Cardinality(Carriers(m)') <= Cardinality(Sweep)
        BY <3>1, <3>4, <3>5, <1>m, CarriersCount DEF MemberInv
      <3>7. m \notin crossed => got[m] = 0 /\ \A x \in Sweep : m \in Nudge!Carried(x) => x = s
        BY <3>1, <3>2, <1>m DEF MemberInv
      <3>8. m \notin crossed => \A x \in Sweep : m \notin Nudge!Carried(x)'
        BY <3>7, <3>2, <2>3
      <3>9. m \notin crossed' => got'[m] <= 1 /\ \A x \in Sweep : m \notin Nudge!Carried(x)'
        BY <2>2, <3>1, <3>7, <3>8
      <3> QED
        BY <2>2, <2>4, <3>2, <3>6, <3>9 DEF MemberInv
    <2> QED
      BY <2>5, <2>6
  <1>8. CASE UNCHANGED Nudge!vars
    BY <1>8, <1>m, MemberLeftAlone DEF Nudge!vars, Nudge!Carried, MemberInv
  <1> QED
    BY <1>1, <1>2, <1>3, <1>4, <1>5, <1>6, <1>7, <1>8 DEF Nudge!Next

LEMMA NudgesPromise == NudgesInv => Nudge!TypeOK /\ Nudge!NudgedOnce
  <1> SUFFICES ASSUME NudgesInv PROVE Nudge!TypeOK /\ Nudge!NudgedOnce
    OBVIOUS
  <1>1. \A m \in Member : got[m] \in 0..Cardinality(Sweep)
    BY CarriersCount DEF NudgesInv, NudgesTyped, MemberInv
  <1>2. got \in [Member -> 0..Cardinality(Sweep)]
    BY <1>1 DEF NudgesInv, NudgesTyped
  <1>3. Nudge!TypeOK
    BY <1>2, NudgeCount DEF NudgesInv, NudgesTyped, Nudge!TypeOK
  <1> QED
    BY <1>3 DEF NudgesInv, MemberInv, Nudge!NudgedOnce

-----------------------------------------------------------------------------
(* The queue of the animation accounts.                                      *)

AtWork == {"publish", "mark"}

\* An item that nothing disturbed is in one hand at most, approved for as long as it
\* is there, and posted only once it is marked or about to be.
ItemInv(i) ==
    /\ \A s, t \in Sweep : i \in todo[s] /\ i \in todo[t] => s = t
    /\ \A s \in Sweep : i \in todo[s] => state[i] = "approved"
    /\ posts[i] <= 1
    /\ posts[i] = 1 => \/ state[i] = "published"
                       \/ \E s \in Sweep : sweepPc[s] = "mark" /\ Queue!First(s) = i

\* A sweep posts only where it sees room.
MarksHaveRoom == \A s \in Sweep : sweepPc[s] = "mark" => Queue!Allowed(s, Queue!First(s))

\* While no two sweeps overlap and no cap is lowered, the posts of the week are within
\* the caps, together with those that the sweep at work still allows.
CadenceInv ==
    /\ Cardinality(Queue!Published) <= cap
    /\ \A b \in Bot : Cardinality(Queue!Sent(b)) <= quota[b]
    /\ \A s, t \in Sweep : sweepPc[s] \in AtWork /\ sweepPc[t] \in AtWork => s = t
    /\ \A s \in Sweep : sweepPc[s] \in AtWork =>
        /\ Cardinality(Queue!Published) + overall[s] <= cap
        /\ \A b \in Bot : Cardinality(Queue!Sent(b)) + room[s][b] <= quota[b]

QueueInv ==
    /\ Queue!TypeOK /\ MarksHaveRoom
    /\ \A i \in Queue!Item \ disturbed : ItemInv(i)
    /\ overlapped \/ lowered \/ CadenceInv

LEMMA LeastExists ==
    ASSUME NEW S \in SUBSET Nat, S # {}
    PROVE  \E x \in S : \A y \in S : x <= y
  <1>1. PICK x \in S : \A y \in S : <<y, x>> \notin OpToRel(<, Nat)
    BY NatLessThanWellFounded, WFMin
  <1>2. \A y \in S : ~(y < x)
    BY <1>1 DEF OpToRel
  <1> QED
    BY <1>2

LEMMA FirstIsIn ==
    ASSUME Queue!TypeOK, NEW s \in Sweep, sweepPc[s] # "idle"
    PROVE  Queue!First(s) \in todo[s] /\ Queue!First(s) \in Queue!Item
  <1>1. todo[s] \in SUBSET Nat /\ todo[s] \subseteq Queue!Item /\ todo[s] # {}
    BY QueueAssumed DEF Queue!TypeOK, Queue!Item, Queue!ItemAssumption
  <1>2. \E x \in todo[s] : \A y \in todo[s] : x <= y
    BY <1>1, LeastExists
  <1> QED
    BY <1>1, <1>2 DEF Queue!First, Queue!Min

LEMMA FirstStays ==
    ASSUME NEW s \in Sweep, todo'[s] = todo[s]
    PROVE  Queue!First(s)' = Queue!First(s)
  BY DEF Queue!First

LEMMA SetsAreFinite ==
    /\ IsFiniteSet(Queue!Item)
    /\ \A S \in SUBSET Queue!Item : IsFiniteSet(S) /\ Cardinality(S) \in Nat
    /\ \A S \in SUBSET Queue!Item : \A T \in SUBSET S : Cardinality(T) <= Cardinality(S)
  <1>1. IsFiniteSet(Queue!Item)
    BY QueueAssumed, FS_Interval DEF Queue!Item, Queue!ItemAssumption
  <1> QED
    BY <1>1, FS_Subset, FS_CardinalityType

LEMMA CountsAreNat ==
    ASSUME Queue!TypeOK
    PROVE  /\ Queue!Published \in SUBSET Queue!Item /\ Cardinality(Queue!Published) \in Nat
           /\ \A b : Queue!Sent(b) \in SUBSET Queue!Item /\ Cardinality(Queue!Sent(b)) \in Nat
  BY SetsAreFinite DEF Queue!TypeOK, Queue!Published, Queue!Sent

\* What is left of the caps when a sweep counts.
CountedRoom == [b \in Bot |-> Queue!Left(quota[b], Cardinality(Queue!Sent(b)))]

LEMMA LeftIsRoom ==
    ASSUME Queue!TypeOK
    PROVE  /\ CountedRoom \in [Bot -> 0..MaxQuota]
           /\ Queue!Left(cap, Cardinality(Queue!Published)) \in 0..MaxCap
           /\ Cardinality(Queue!Published) <= cap =>
                Cardinality(Queue!Published) + Queue!Left(cap, Cardinality(Queue!Published)) <= cap
           /\ \A b \in Bot : Cardinality(Queue!Sent(b)) <= quota[b] =>
                Cardinality(Queue!Sent(b)) + CountedRoom[b] <= quota[b]
  <1>1. MaxCap \in Nat /\ MaxQuota \in Nat /\ cap \in 0..MaxCap /\ \A b \in Bot : quota[b] \in 0..MaxQuota
    BY QueueAssumed DEF Queue!CadenceAssumption, Queue!TypeOK
  <1>2. ASSUME NEW m \in Nat, NEW limit \in 0..m, NEW sent \in Nat
        PROVE  Queue!Left(limit, sent) \in 0..m /\ (sent <= limit => sent + Queue!Left(limit, sent) <= limit)
    BY DEF Queue!Left
  <1>3. Cardinality(Queue!Published) \in Nat /\ \A b \in Bot : Cardinality(Queue!Sent(b)) \in Nat
    BY CountsAreNat
  <1>4. ASSUME NEW b \in Bot
        PROVE  /\ Queue!Left(quota[b], Cardinality(Queue!Sent(b))) \in 0..MaxQuota
               /\ CountedRoom[b] = Queue!Left(quota[b], Cardinality(Queue!Sent(b)))
               /\ Cardinality(Queue!Sent(b)) <= quota[b] =>
                    Cardinality(Queue!Sent(b)) + CountedRoom[b] <= quota[b]
    BY <1>1, <1>2, <1>3 DEF CountedRoom
  <1>5. CountedRoom \in [Bot -> 0..MaxQuota]
    BY <1>4 DEF CountedRoom
  <1> QED
    BY <1>1, <1>2, <1>3, <1>4, <1>5

LEMMA HeadIsNotEmpty ==
    ASSUME Queue!TypeOK, Queue!Due # {}
    PROVE  Queue!Head # {} /\ Queue!Head \subseteq Queue!Due /\ Queue!Due \subseteq Queue!Item
  <1>1. Queue!Due \in SUBSET Nat /\ Queue!Due \subseteq Queue!Item
    BY QueueAssumed DEF Queue!Due, Queue!Item, Queue!ItemAssumption
  <1>2. PICK i \in Queue!Due : \A j \in Queue!Due : i <= j
    BY <1>1, LeastExists
  <1>3. {j \in Queue!Due : j < i} = {}
    <2>1. \A j \in Queue!Due : ~(j < i)
      BY <1>1, <1>2
    <2> QED
      BY <2>1
  <1>4. Cardinality({j \in Queue!Due : j < i}) = 0
    BY <1>3, FS_EmptySet
  <1>5. 0 < Batch
    BY QueueAssumed DEF Queue!CadenceAssumption
  <1>6. i \in Queue!Head
    BY <1>4, <1>5, <1>2, QueueCount DEF Queue!Head
  <1> QED
    BY <1>1, <1>6, QueueCount DEF Queue!Head

LEMMA AdvanceDoes ==
    ASSUME Queue!TypeOK, NEW s \in Sweep, sweepPc[s] # "idle",
           NEW week \in [Bot -> 0..MaxQuota], NEW all \in 0..MaxCap, Queue!Advance(s, week, all)
    PROVE  /\ todo' \in [Sweep -> SUBSET Queue!Item] /\ room' \in [Sweep -> [Bot -> 0..MaxQuota]]
           /\ overall' \in [Sweep -> 0..MaxCap]
           /\ sweepPc' \in [Sweep -> {"idle", "count", "publish", "mark"}]
           /\ \A t \in Sweep : sweepPc'[t] = "idle" <=> todo'[t] = {}
           /\ \A t \in Sweep : t # s =>
                /\ sweepPc'[t] = sweepPc[t] /\ todo'[t] = todo[t]
                /\ room'[t] = room[t] /\ overall'[t] = overall[t]
           /\ todo'[s] = todo[s] \ {Queue!First(s)}
           /\ sweepPc'[s] \in {"idle", "publish"}
           /\ sweepPc'[s] = "publish" => room'[s] = week /\ overall'[s] = all
  <1> DEFINE rest == todo[s] \ {Queue!First(s)}
             step == IF rest = {} THEN "idle" ELSE "publish"
             c == IF rest = {} THEN Queue!NoRoom ELSE week
             p == IF rest = {} THEN 0 ELSE all
  <1>1. /\ todo' = [todo EXCEPT ![s] = rest] /\ sweepPc' = [sweepPc EXCEPT ![s] = step]
        /\ room' = [room EXCEPT ![s] = c] /\ overall' = [overall EXCEPT ![s] = p]
    BY DEF Queue!Advance
  <1>2. /\ rest \in SUBSET Queue!Item /\ step \in {"idle", "publish"}
        /\ c \in [Bot -> 0..MaxQuota] /\ p \in 0..MaxCap
        /\ step = "idle" <=> rest = {}
        /\ step = "publish" => c = week /\ p = all
    BY QueueAssumed DEF Queue!TypeOK, Queue!NoRoom, Queue!CadenceAssumption
  <1> HIDE DEF rest, step, c, p
  <1>3. /\ todo'[s] = rest /\ sweepPc'[s] = step /\ room'[s] = c /\ overall'[s] = p
        /\ \A t \in Sweep : t # s =>
                /\ sweepPc'[t] = sweepPc[t] /\ todo'[t] = todo[t]
                /\ room'[t] = room[t] /\ overall'[t] = overall[t]
    BY <1>1 DEF Queue!TypeOK
  <1>4. todo' \in [Sweep -> SUBSET Queue!Item] /\ room' \in [Sweep -> [Bot -> 0..MaxQuota]]
    BY <1>1, <1>2 DEF Queue!TypeOK
  <1>5. /\ overall' \in [Sweep -> 0..MaxCap]
        /\ sweepPc' \in [Sweep -> {"idle", "count", "publish", "mark"}]
    BY <1>1, <1>2 DEF Queue!TypeOK
  <1>6. \A t \in Sweep : sweepPc'[t] = "idle" <=> todo'[t] = {}
    BY <1>2, <1>3 DEF Queue!TypeOK
  <1>7. rest = todo[s] \ {Queue!First(s)}
    BY DEF rest
  <1> QED
    BY <1>2, <1>3, <1>4, <1>5, <1>6, <1>7

\* A post that is marked is taken from what the sweep allows.
LEMMA MarkSpends ==
    ASSUME Queue!TypeOK, MarksHaveRoom, NEW s \in Sweep, sweepPc[s] = "mark"
    PROVE  LET b == MCAuthor[Queue!First(s)]
               week == [room[s] EXCEPT ![b] = @ - 1]
           IN  /\ Queue!First(s) \in Queue!Item /\ b \in Bot
               /\ week \in [Bot -> 0..MaxQuota] /\ overall[s] - 1 \in 0..MaxCap
               /\ overall[s] \in Nat /\ room[s] \in [Bot -> Nat]
               /\ week[b] = room[s][b] - 1 /\ \A c \in Bot : c # b => week[c] = room[s][c]
  <1> DEFINE b == MCAuthor[Queue!First(s)]
  <1>1. Queue!First(s) \in Queue!Item /\ b \in Bot
    BY FirstIsIn, QueueAssumed DEF Queue!ItemAssumption
  <1>2. Queue!Allowed(s, Queue!First(s))
    BY DEF MarksHaveRoom
  <1>3. room[s] \in [Bot -> 0..MaxQuota] /\ overall[s] \in 0..MaxCap /\ MaxCap \in Nat /\ MaxQuota \in Nat
    BY QueueAssumed DEF Queue!TypeOK, Queue!CadenceAssumption
  <1>4. overall[s] > 0 /\ room[s][b] > 0
    BY <1>2 DEF Queue!Allowed
  <1> HIDE DEF b
  <1>5. room[s][b] - 1 \in 0..MaxQuota /\ overall[s] - 1 \in 0..MaxCap
    BY <1>1, <1>3, <1>4
  <1>6. [room[s] EXCEPT ![b] = @ - 1] \in [Bot -> 0..MaxQuota]
    BY <1>3, <1>5
  <1>7. room[s] \in [Bot -> Nat]
    BY <1>3
  <1> QED
    BY <1>1, <1>3, <1>5, <1>6, <1>7 DEF b

LEMMA Advances ==
    ASSUME Queue!TypeOK, MarksHaveRoom, NEW s \in Sweep,
           Queue!Postpone(s) \/ Queue!Refused(s) \/ Queue!Mark(s) \/ Queue!Fail(s)
    PROVE  /\ sweepPc[s] \in {"publish", "mark"} /\ Queue!First(s) \in Queue!Item
           /\ \E week \in [Bot -> 0..MaxQuota], all \in 0..MaxCap : Queue!Advance(s, week, all)
  <1>1. sweepPc[s] \in {"publish", "mark"} /\ Queue!First(s) \in Queue!Item
    BY FirstIsIn DEF Queue!Postpone, Queue!Refused, Queue!Mark, Queue!Fail
  <1>2. room[s] \in [Bot -> 0..MaxQuota] /\ overall[s] \in 0..MaxCap
    BY DEF Queue!TypeOK
  <1>3. CASE Queue!Mark(s)
    BY <1>1, <1>3, MarkSpends DEF Queue!Mark
  <1> QED
    BY <1>1, <1>2, <1>3 DEF Queue!Postpone, Queue!Refused, Queue!Fail

\* An item that the step neither posts, marks nor hands to anyone.
LEMMA ItemLeftAlone ==
    ASSUME NEW i \in Queue!Item, ItemInv(i), state'[i] = state[i], posts'[i] = posts[i],
           \A s \in Sweep : i \in todo'[s] => i \in todo[s],
           \A s \in Sweep : sweepPc[s] = "mark" /\ Queue!First(s) = i => sweepPc'[s] = "mark" /\ Queue!First(s)' = i
    PROVE  ItemInv(i)'
  BY DEF ItemInv

\* A step that neither counts nor marks, and lowers nothing.
LEMMA CadenceLeftAlone ==
    ASSUME Queue!TypeOK, Queue!TypeOK', CadenceInv, Queue!Published' \subseteq Queue!Published,
           cap <= cap', \A b \in Bot : quota[b] <= quota'[b],
           \A s \in Sweep : sweepPc'[s] \in AtWork =>
                sweepPc[s] \in AtWork /\ room'[s] = room[s] /\ overall'[s] = overall[s]
    PROVE  CadenceInv'
  <1>1. \A b \in Bot : Queue!Sent(b)' \subseteq Queue!Sent(b)
    BY DEF Queue!Sent
  <1>2. /\ Cardinality(Queue!Published') \in Nat /\ Cardinality(Queue!Published') <= Cardinality(Queue!Published)
        /\ Cardinality(Queue!Published) \in Nat
    BY CountsAreNat, SetsAreFinite
  <1>3. \A b \in Bot : /\ Cardinality(Queue!Sent(b)') \in Nat
                       /\ Cardinality(Queue!Sent(b)') <= Cardinality(Queue!Sent(b))
                       /\ Cardinality(Queue!Sent(b)) \in Nat
    BY <1>1, CountsAreNat, SetsAreFinite
  <1>4. /\ cap \in Nat /\ cap' \in Nat
        /\ \A b \in Bot : quota[b] \in Nat /\ quota'[b] \in Nat
        /\ \A s \in Sweep : overall[s] \in Nat /\ \A b \in Bot : room[s][b] \in Nat
    BY QueueAssumed DEF Queue!TypeOK, Queue!CadenceAssumption
  <1>5. Cardinality(Queue!Published') <= cap'
    BY <1>2, <1>4 DEF CadenceInv
  <1>6. ASSUME NEW b \in Bot PROVE Cardinality(Queue!Sent(b)') <= quota'[b]
    BY <1>3, <1>4 DEF CadenceInv
  <1>7. \A s, t \in Sweep : sweepPc'[s] \in AtWork /\ sweepPc'[t] \in AtWork => s = t
    BY DEF CadenceInv
  <1>8. ASSUME NEW s \in Sweep, sweepPc'[s] \in AtWork
        PROVE  Cardinality(Queue!Published') + overall'[s] <= cap'
    <2>1. Cardinality(Queue!Published) + overall[s] <= cap /\ overall'[s] = overall[s]
      BY <1>8 DEF CadenceInv
    <2> QED
      BY <2>1, <1>2, <1>4
  <1>9. ASSUME NEW s \in Sweep, sweepPc'[s] \in AtWork, NEW b \in Bot
        PROVE  Cardinality(Queue!Sent(b)') + room'[s][b] <= quota'[b]
    <2>1. Cardinality(Queue!Sent(b)) + room[s][b] <= quota[b] /\ room'[s] = room[s]
      BY <1>9 DEF CadenceInv
    <2> QED
      BY <2>1, <1>3, <1>4
  <1> QED
    BY <1>5, <1>6, <1>7, <1>8, <1>9 DEF CadenceInv

LEMMA QueueStarts == Queue!Init => QueueInv
  <1> SUFFICES ASSUME Queue!Init PROVE QueueInv
    OBVIOUS
  <1>1. Queue!TypeOK
    <2>1. trouble \in 0..MaxTrouble
      BY QueueAssumed DEF Queue!Init, Queue!CadenceAssumption
    <2>2. room \in [Sweep -> [Bot -> 0..MaxQuota]] /\ overall \in [Sweep -> 0..MaxCap]
      BY QueueAssumed DEF Queue!Init, Queue!NoRoom, Queue!CadenceAssumption
    <2>3. \A s \in Sweep : sweepPc[s] = "idle" /\ todo[s] = {}
      BY DEF Queue!Init
    <2>4. state \in [Queue!Item -> Queue!Status] /\ posts \in [Queue!Item -> Nat]
      BY DEF Queue!Init, Queue!Status
    <2>5. /\ sweepPc \in [Sweep -> {"idle", "count", "publish", "mark"}]
          /\ todo \in [Sweep -> SUBSET Queue!Item]
          /\ reviewing \in [Reviewer -> Queue!Item \cup {None}]
      BY DEF Queue!Init
    <2> QED
      BY <2>1, <2>2, <2>3, <2>4, <2>5 DEF Queue!Init, Queue!TypeOK
  <1>2. \A i \in Queue!Item : ItemInv(i)
    BY DEF Queue!Init, ItemInv
  <1>3. MarksHaveRoom
    BY DEF Queue!Init, MarksHaveRoom
  <1>4. CadenceInv
    <2>1. Queue!Published = {} /\ \A b \in Bot : Queue!Sent(b) = {}
      BY DEF Queue!Init, Queue!Published, Queue!Sent
    <2>2. Cardinality({}) = 0
      BY FS_EmptySet
    <2>3. \A s \in Sweep : sweepPc[s] \notin AtWork /\ sweepPc[s] # "mark"
      BY DEF Queue!Init, AtWork
    <2>4. 0 <= cap /\ \A b \in Bot : 0 <= quota[b]
      BY <1>1, QueueAssumed DEF Queue!TypeOK, Queue!CadenceAssumption
    <2> QED
      BY <2>1, <2>2, <2>3, <2>4 DEF CadenceInv
  <1> QED
    BY <1>1, <1>2, <1>3, <1>4 DEF QueueInv

LEMMA QueueTyped == Queue!TypeOK /\ MarksHaveRoom /\ [Queue!Next]_(Queue!vars) => Queue!TypeOK'
  <1> SUFFICES ASSUME Queue!TypeOK, MarksHaveRoom, [Queue!Next]_(Queue!vars) PROVE Queue!TypeOK'
    OBVIOUS
  <1> USE DEF Queue!rows, Queue!cadence, Queue!history, Queue!sweeps
  <1>1. ASSUME NEW i \in Queue!Item, Queue!Enqueue(i) \/ Queue!Age(i) PROVE Queue!TypeOK'
    BY <1>1 DEF Queue!Enqueue, Queue!Age, Queue!TypeOK, Queue!Status
  <1>2. ASSUME NEW b \in Bot, Queue!UpdateBot(b) PROVE Queue!TypeOK'
    <2>1. PICK n \in 0..MaxQuota : /\ quota' = [quota EXCEPT ![b] = n]
                                   /\ lowered' = (lowered \/ n < quota[b])
      BY <1>2 DEF Queue!UpdateBot
    <2>2. lowered' \in BOOLEAN
      BY <2>1, Zenon
    <2> QED
      BY <1>2, <2>1, <2>2 DEF Queue!UpdateBot, Queue!TypeOK
  <1>11. ASSUME NEW n \in 0..MaxCap, Queue!SetCap(n) PROVE Queue!TypeOK'
    <2>1. lowered' = (lowered \/ n < cap)
      BY <1>11 DEF Queue!SetCap
    <2>2. lowered' \in BOOLEAN
      BY <2>1, Zenon
    <2> QED
      BY <1>11, <2>2 DEF Queue!SetCap, Queue!TypeOK
  <1>3. ASSUME NEW v \in Reviewer, Queue!ReviewWrite(v) PROVE Queue!TypeOK'
    <2>1. PICK st \in {"approved", "rejected"} : state' = [state EXCEPT ![reviewing[v]] = st]
      BY <1>3 DEF Queue!ReviewWrite
    <2>2. reviewing[v] \in Queue!Item
      BY <1>3 DEF Queue!ReviewWrite, Queue!TypeOK
    <2>3. /\ reviewing' = [reviewing EXCEPT ![v] = None]
          /\ disturbed' = disturbed \cup {j \in {reviewing[v]} : state[j] # "draft"}
          /\ UNCHANGED <<recent, awake, quota, cap, lowered, posts, overlapped, trouble, sweepPc, todo, room, overall>>
      BY <1>3 DEF Queue!ReviewWrite
    <2>4. state' \in [Queue!Item -> Queue!Status] /\ disturbed' \subseteq Queue!Item
      BY <2>1, <2>2, <2>3 DEF Queue!TypeOK, Queue!Status
    <2> QED
      BY <2>3, <2>4 DEF Queue!TypeOK
  <1>4. ASSUME NEW v \in Reviewer, NEW i \in Queue!Item, Queue!ReviewRead(v, i) PROVE Queue!TypeOK'
    BY <1>4 DEF Queue!ReviewRead, Queue!TypeOK
  <1>5. ASSUME NEW s \in Sweep, Queue!List(s) PROVE Queue!TypeOK'
    <2>1. Queue!Head \subseteq Queue!Item /\ Queue!Head # {}
      BY <1>5, HeadIsNotEmpty DEF Queue!List
    <2>2. /\ todo' = [todo EXCEPT ![s] = Queue!Head] /\ sweepPc' = [sweepPc EXCEPT ![s] = "count"]
          /\ disturbed' = disturbed \cup (Queue!Head \cap Queue!InHand(s))
          /\ UNCHANGED <<state, recent, awake, quota, cap, lowered, posts, overlapped, trouble, reviewing, room, overall>>
      BY <1>5 DEF Queue!List
    <2> QED
      BY <2>1, <2>2 DEF Queue!TypeOK
  <1>6. ASSUME NEW s \in Sweep, Queue!Count(s) PROVE Queue!TypeOK'
    <2>1. CountedRoom \in [Bot -> 0..MaxQuota] /\ Queue!Left(cap, Cardinality(Queue!Published)) \in 0..MaxCap
      BY LeftIsRoom
    <2>2. /\ room' = [room EXCEPT ![s] = CountedRoom]
          /\ overall' = [overall EXCEPT ![s] = Queue!Left(cap, Cardinality(Queue!Published))]
          /\ sweepPc[s] = "count" /\ sweepPc' = [sweepPc EXCEPT ![s] = "publish"]
          /\ UNCHANGED <<state, recent, awake, quota, cap, lowered, posts, disturbed, trouble, reviewing, todo>>
      BY <1>6, QueueCount DEF Queue!Count, CountedRoom
    <2>3. room' \in [Sweep -> [Bot -> 0..MaxQuota]] /\ overall' \in [Sweep -> 0..MaxCap]
      BY <2>1, <2>2 DEF Queue!TypeOK
    <2>4. overlapped' \in BOOLEAN
      <3>1. overlapped' = (overlapped \/ \E t \in Queue!Others(s) : sweepPc[t] \in {"publish", "mark"})
        BY <1>6, QueueCount DEF Queue!Count
      <3> QED
        BY <3>1, Zenon
    <2> QED
      BY <2>2, <2>3, <2>4 DEF Queue!TypeOK
  <1>7. ASSUME NEW s \in Sweep, Queue!Create(s) PROVE Queue!TypeOK'
    <2>1. Queue!First(s) \in Queue!Item
      BY <1>7, FirstIsIn DEF Queue!Create
    <2>2. /\ posts' = [posts EXCEPT ![Queue!First(s)] = @ + 1]
          /\ sweepPc[s] = "publish" /\ sweepPc' = [sweepPc EXCEPT ![s] = "mark"]
          /\ UNCHANGED <<state, recent, awake, quota, cap, lowered, disturbed, overlapped, trouble, reviewing,
                         todo, room, overall>>
      BY <1>7 DEF Queue!Create
    <2> QED
      BY <2>1, <2>2 DEF Queue!TypeOK
  <1>8. ASSUME NEW s \in Sweep, Queue!Postpone(s) \/ Queue!Refused(s) \/ Queue!Mark(s) \/ Queue!Fail(s) PROVE Queue!TypeOK'
    <2>1. sweepPc[s] # "idle" /\ Queue!First(s) \in Queue!Item
      BY <1>8, Advances
    <2>2. \E week \in [Bot -> 0..MaxQuota], all \in 0..MaxCap : Queue!Advance(s, week, all)
      BY <1>8, Advances
    <2>3. /\ todo' \in [Sweep -> SUBSET Queue!Item] /\ room' \in [Sweep -> [Bot -> 0..MaxQuota]]
          /\ overall' \in [Sweep -> 0..MaxCap]
          /\ sweepPc' \in [Sweep -> {"idle", "count", "publish", "mark"}]
          /\ \A t \in Sweep : sweepPc'[t] = "idle" <=> todo'[t] = {}
      BY <2>1, <2>2, AdvanceDoes
    <2>4. state' \in [Queue!Item -> Queue!Status] /\ recent' \subseteq Queue!Item
      BY <1>8, <2>1 DEF Queue!Postpone, Queue!Refused, Queue!Mark, Queue!Fail,
         Queue!TypeOK, Queue!Status
    <2>5. trouble' \in 0..MaxTrouble /\ disturbed' \subseteq Queue!Item
      BY <1>8, <2>1, QueueAssumed DEF Queue!Postpone, Queue!Refused, Queue!Mark, Queue!Fail,
         Queue!TypeOK, Queue!CadenceAssumption
    <2>6. UNCHANGED <<awake, quota, cap, lowered, posts, overlapped, reviewing>>
      BY <1>8 DEF Queue!Postpone, Queue!Refused, Queue!Mark, Queue!Fail
    <2> QED
      BY <2>3, <2>4, <2>5, <2>6 DEF Queue!TypeOK
  <1>9. CASE Queue!Restart
    <2>1. {Queue!First(s) : s \in {t \in Sweep : sweepPc[t] = "mark"}} \subseteq Queue!Item
      BY FirstIsIn
    <2>2. disturbed' \subseteq Queue!Item
      BY <1>9, <2>1 DEF Queue!Restart, Queue!TypeOK
    <2>3. trouble' \in 0..MaxTrouble
      BY <1>9, QueueAssumed DEF Queue!Restart, Queue!TypeOK, Queue!CadenceAssumption
    <2>4. Queue!NoRoom \in [Bot -> 0..MaxQuota] /\ 0 \in 0..MaxCap
      BY QueueAssumed DEF Queue!NoRoom, Queue!CadenceAssumption
    <2>5. /\ room' = [s \in Sweep |-> Queue!NoRoom] /\ overall' = [s \in Sweep |-> 0]
          /\ sweepPc' = [s \in Sweep |-> "idle"] /\ todo' = [s \in Sweep |-> {}]
          /\ reviewing' = [v \in Reviewer |-> None]
          /\ UNCHANGED <<state, recent, awake, quota, cap, lowered, posts, overlapped>>
      BY <1>9 DEF Queue!Restart
    <2> QED
      BY <2>2, <2>3, <2>4, <2>5 DEF Queue!TypeOK
  <1>10. CASE UNCHANGED Queue!vars
    BY <1>10 DEF Queue!vars, Queue!TypeOK
  <1> QED
    BY <1>1, <1>2, <1>3, <1>4, <1>5, <1>6, <1>7, <1>8, <1>9, <1>10, <1>11 DEF Queue!Next, Queue!Step

\* The part of the invariant that is about each item.
LEMMA ItemsStep ==
    ASSUME QueueInv, Queue!TypeOK', [Queue!Next]_(Queue!vars), NEW i \in Queue!Item, i \notin disturbed'
    PROVE  ItemInv(i)'
  <1> USE DEF Queue!rows, Queue!cadence, Queue!history, Queue!sweeps
  <1>0. Queue!TypeOK /\ MarksHaveRoom /\ (i \notin disturbed => ItemInv(i))
    BY DEF QueueInv
  <1>1. ASSUME NEW j \in Queue!Item, Queue!Enqueue(j) \/ Queue!Age(j) PROVE ItemInv(i)'
    <2>1. i \notin disturbed /\ posts' = posts /\ sweepPc' = sweepPc /\ todo' = todo
      BY <1>1 DEF Queue!Enqueue, Queue!Age
    <2>2. ItemInv(i)
      BY <1>0, <2>1
    <2>3. CASE state'[i] = state[i]
      BY <2>1, <2>2, <2>3, FirstStays, ItemLeftAlone
    <2>4. CASE state'[i] # state[i]
      <3>1. state[i] = "none"
        BY <1>0, <1>1, <2>4 DEF Queue!Enqueue, Queue!Age, Queue!TypeOK
      <3>2. \A s \in Sweep : i \notin todo[s]
        BY <2>2, <3>1 DEF ItemInv
      <3>3. \A s \in Sweep : sweepPc[s] = "mark" => Queue!First(s) # i
        BY <1>0, <3>2, FirstIsIn
      <3>4. posts[i] # 1
        BY <2>2, <3>1, <3>3 DEF ItemInv
      <3> QED
        BY <2>1, <2>2, <3>2, <3>4 DEF ItemInv
    <2> QED
      BY <2>3, <2>4
  <1>2. ASSUME (\E b \in Bot : Queue!UpdateBot(b)) \/ \E n \in 0..MaxCap : Queue!SetCap(n) PROVE ItemInv(i)'
    <2>1. UNCHANGED <<state, posts, disturbed, sweepPc, todo>>
      BY <1>2 DEF Queue!UpdateBot, Queue!SetCap
    <2> QED
      BY <1>0, <2>1, FirstStays, ItemLeftAlone
  <1>3. ASSUME NEW v \in Reviewer, Queue!ReviewWrite(v) PROVE ItemInv(i)'
    <2>1. /\ posts' = posts /\ sweepPc' = sweepPc /\ todo' = todo
          /\ disturbed' = disturbed \cup {j \in {reviewing[v]} : state[j] # "draft"}
          /\ \E st \in {"approved", "rejected"} : state' = [state EXCEPT ![reviewing[v]] = st]
      BY <1>3 DEF Queue!ReviewWrite
    <2>2. ItemInv(i)
      BY <1>0, <2>1
    <2>3. CASE i # reviewing[v]
      <3>1. state'[i] = state[i]
        BY <1>0, <2>1, <2>3 DEF Queue!TypeOK
      <3> QED
        BY <2>1, <2>2, <3>1, FirstStays, ItemLeftAlone
    <2>4. CASE i = reviewing[v]
      <3>1. state[i] = "draft"
        BY <2>1, <2>4
      <3>2. \A s \in Sweep : i \notin todo[s]
        BY <2>2, <3>1 DEF ItemInv
      <3>3. \A s \in Sweep : sweepPc[s] = "mark" => Queue!First(s) # i
        BY <1>0, <3>2, FirstIsIn
      <3>4. posts[i] # 1
        BY <2>2, <3>1, <3>3 DEF ItemInv
      <3> QED
        BY <2>1, <2>2, <3>2, <3>4 DEF ItemInv
    <2> QED
      BY <2>3, <2>4
  <1>4. ASSUME NEW v \in Reviewer, NEW j \in Queue!Item, Queue!ReviewRead(v, j) PROVE ItemInv(i)'
    BY <1>0, <1>4, FirstStays, ItemLeftAlone DEF Queue!ReviewRead
  <1>5. ASSUME NEW s \in Sweep, Queue!List(s) PROVE ItemInv(i)'
    <2>1. /\ sweepPc[s] = "idle" /\ todo' = [todo EXCEPT ![s] = Queue!Head]
          /\ disturbed' = disturbed \cup (Queue!Head \cap Queue!InHand(s))
          /\ sweepPc' = [sweepPc EXCEPT ![s] = "count"] /\ state' = state /\ posts' = posts
      BY <1>5 DEF Queue!List
    <2>2. ItemInv(i)
      BY <1>0, <2>1
    <2>3. /\ todo[s] = {} /\ todo'[s] = Queue!Head /\ sweepPc'[s] = "count"
          /\ \A t \in Sweep : t # s => todo'[t] = todo[t] /\ sweepPc'[t] = sweepPc[t]
      BY <1>0, <2>1 DEF Queue!TypeOK
    <2>4. \A t \in Sweep : sweepPc[t] = "mark" => t # s
      BY <2>1
    <2>5. CASE i \notin Queue!Head
      BY <2>1, <2>2, <2>3, <2>4, <2>5, FirstStays, ItemLeftAlone
    <2>6. CASE i \in Queue!Head
      <3>1. state[i] = "approved"
        BY <2>6, QueueCount DEF Queue!Head, Queue!Due
      <3>2. \A t \in Sweep : i \notin todo[t]
        BY <2>1, <2>3, <2>6 DEF Queue!InHand, Queue!Others
      <3>3. \A t \in Sweep : sweepPc[t] = "mark" => Queue!First(t) # i
        BY <1>0, <3>2, FirstIsIn
      <3>4. posts[i] # 1
        BY <2>2, <3>1, <3>3 DEF ItemInv
      <3>5. \A t \in Sweep : i \in todo'[t] => t = s
        BY <2>3, <3>2
      <3> QED
        BY <2>1, <2>2, <3>1, <3>4, <3>5 DEF ItemInv
    <2> QED
      BY <2>5, <2>6
  <1>6. ASSUME NEW s \in Sweep, Queue!Count(s) PROVE ItemInv(i)'
    <2>1. /\ sweepPc[s] = "count" /\ sweepPc' = [sweepPc EXCEPT ![s] = "publish"] /\ todo' = todo
          /\ disturbed' = disturbed /\ state' = state /\ posts' = posts
      BY <1>6, QueueCount DEF Queue!Count
    <2>2. \A t \in Sweep : sweepPc[t] = "mark" => sweepPc'[t] = "mark"
      BY <1>0, <2>1 DEF Queue!TypeOK
    <2> QED
      BY <1>0, <2>1, <2>2, FirstStays, ItemLeftAlone
  <1>7. ASSUME NEW s \in Sweep, Queue!Create(s) PROVE ItemInv(i)'
    <2>1. /\ sweepPc[s] = "publish" /\ sweepPc' = [sweepPc EXCEPT ![s] = "mark"] /\ todo' = todo
          /\ disturbed' = disturbed /\ state' = state
          /\ posts' = [posts EXCEPT ![Queue!First(s)] = @ + 1]
      BY <1>7 DEF Queue!Create
    <2>2. ItemInv(i)
      BY <1>0, <2>1
    <2>3. Queue!First(s) \in todo[s] /\ Queue!First(s) \in Queue!Item
      BY <1>0, <2>1, FirstIsIn
    <2>4. sweepPc'[s] = "mark" /\ \A t \in Sweep : sweepPc[t] = "mark" => sweepPc'[t] = "mark"
      BY <1>0, <2>1 DEF Queue!TypeOK
    <2>5. CASE Queue!First(s) # i
      <3>1. posts'[i] = posts[i]
        BY <1>0, <2>1, <2>5 DEF Queue!TypeOK
      <3> QED
        BY <2>1, <2>2, <2>4, <3>1, FirstStays, ItemLeftAlone
    <2>6. CASE Queue!First(s) = i
      <3>1. state[i] = "approved"
        BY <2>2, <2>3, <2>6 DEF ItemInv
      <3>2. ASSUME NEW t \in Sweep, sweepPc[t] = "mark", Queue!First(t) = i PROVE FALSE
        <4>1. i \in todo[t]
          BY <1>0, <3>2, FirstIsIn
        <4>2. t = s
          BY <2>2, <2>3, <2>6, <4>1 DEF ItemInv
        <4> QED
          BY <2>1, <3>2, <4>2
      <3>3. posts[i] # 1 /\ posts[i] <= 1 /\ posts[i] \in Nat
        BY <1>0, <2>2, <3>1, <3>2 DEF ItemInv, Queue!TypeOK
      <3>4. posts'[i] = 1
        <4>1. posts'[i] = posts[i] + 1
          BY <1>0, <2>1, <2>6 DEF Queue!TypeOK
        <4>2. posts[i] = 0
          BY <3>3
        <4> QED
          BY <4>1, <4>2
      <3>5. Queue!First(s)' = i
        BY <2>1, <2>6, FirstStays
      <3> QED
        BY <2>1, <2>2, <2>4, <3>4, <3>5 DEF ItemInv
    <2> QED
      BY <2>5, <2>6
  <1>8. ASSUME NEW s \in Sweep, Queue!Postpone(s) \/ Queue!Refused(s) \/ Queue!Mark(s) \/ Queue!Fail(s) PROVE ItemInv(i)'
    <2>1. sweepPc[s] \in {"publish", "mark"} /\ Queue!First(s) \in Queue!Item
      BY <1>0, <1>8, Advances
    <2>2. \E week \in [Bot -> 0..MaxQuota], all \in 0..MaxCap : Queue!Advance(s, week, all)
      BY <1>0, <1>8, Advances
    <2>3. /\ todo'[s] = todo[s] \ {Queue!First(s)}
          /\ \A t \in Sweep : t # s => sweepPc'[t] = sweepPc[t] /\ todo'[t] = todo[t]
      BY <1>0, <2>1, <2>2, AdvanceDoes
    <2>4. posts' = posts /\ disturbed \subseteq disturbed'
      BY <1>8 DEF Queue!Postpone, Queue!Refused, Queue!Mark, Queue!Fail
    <2>5. ItemInv(i)
      BY <1>0, <2>4
    <2>6. \A t \in Sweep : t # s => Queue!First(t)' = Queue!First(t)
      BY <2>3, FirstStays
    <2>7. CASE Queue!Mark(s) /\ Queue!First(s) = i
      <3>1. state'[i] = "published"
        BY <1>0, <2>1, <2>7 DEF Queue!Mark, Queue!TypeOK
      <3>2. i \in todo[s]
        BY <1>0, <2>1, <2>7, FirstIsIn
      <3>3. \A t \in Sweep : i \notin todo'[t]
        BY <2>3, <2>5, <2>7, <3>2 DEF ItemInv
      <3> QED
        BY <2>4, <2>5, <3>1, <3>3 DEF ItemInv
    <2>8. CASE ~(Queue!Mark(s) /\ Queue!First(s) = i)
      <3>1. state'[i] = state[i]
        BY <1>0, <1>8, <2>1, <2>8 DEF Queue!Postpone, Queue!Refused, Queue!Mark, Queue!Fail, Queue!TypeOK
      <3>2. sweepPc[s] = "mark" => Queue!First(s) # i
        BY <1>8, <2>8 DEF Queue!Postpone, Queue!Refused, Queue!Mark, Queue!Fail
      <3>3. \A t \in Sweep : i \in todo'[t] => i \in todo[t]
        BY <2>3
      <3>4. \A t \in Sweep : sweepPc[t] = "mark" /\ Queue!First(t) = i => sweepPc'[t] = "mark" /\ Queue!First(t)' = i
        BY <2>3, <2>6, <3>2
      <3> QED
        BY <2>4, <2>5, <3>1, <3>3, <3>4, ItemLeftAlone
    <2> QED
      BY <2>7, <2>8
  <1>9. CASE Queue!Restart
    <2>1. /\ disturbed' = disturbed \cup {Queue!First(s) : s \in {t \in Sweep : sweepPc[t] = "mark"}}
          /\ state' = state /\ posts' = posts /\ \A s \in Sweep : todo'[s] = {}
      BY <1>9 DEF Queue!Restart
    <2>2. ItemInv(i) /\ \A s \in Sweep : sweepPc[s] = "mark" => Queue!First(s) # i
      BY <1>0, <2>1
    <2> QED
      BY <2>1, <2>2, ItemLeftAlone
  <1>10. CASE UNCHANGED Queue!vars
    BY <1>0, <1>10, FirstStays, ItemLeftAlone DEF Queue!vars
  <1> QED
    BY <1>1, <1>2, <1>3, <1>4, <1>5, <1>6, <1>7, <1>8, <1>9, <1>10 DEF Queue!Next, Queue!Step

\* The room that a sweep saw is still there when it marks.
LEMMA MarksLeftAlone ==
    ASSUME MarksHaveRoom,
           \A s \in Sweep : sweepPc'[s] = "mark" =>
                /\ sweepPc[s] = "mark" /\ todo'[s] = todo[s]
                /\ room'[s] = room[s] /\ overall'[s] = overall[s]
    PROVE  MarksHaveRoom'
  BY FirstStays DEF MarksHaveRoom, Queue!Allowed

LEMMA MarksStep ==
    ASSUME QueueInv, Queue!TypeOK', [Queue!Next]_(Queue!vars)
    PROVE  MarksHaveRoom'
  <1> USE DEF Queue!rows, Queue!cadence, Queue!history, Queue!sweeps
  <1>0. Queue!TypeOK /\ MarksHaveRoom
    BY DEF QueueInv
  <1>1. CASE UNCHANGED <<sweepPc, todo, room, overall>>
    BY <1>0, <1>1, MarksLeftAlone
  <1>2. ASSUME NEW s \in Sweep, Queue!List(s) \/ Queue!Count(s) PROVE MarksHaveRoom'
    <2>1. \A t \in Sweep : sweepPc'[t] = "mark" =>
              /\ t # s /\ sweepPc[t] = "mark" /\ todo'[t] = todo[t]
              /\ room'[t] = room[t] /\ overall'[t] = overall[t]
      BY <1>0, <1>2 DEF Queue!List, Queue!Count, Queue!TypeOK
    <2> QED
      BY <1>0, <2>1, MarksLeftAlone
  <1>3. ASSUME NEW s \in Sweep, Queue!Create(s) PROVE MarksHaveRoom'
    <2>1. /\ sweepPc' = [sweepPc EXCEPT ![s] = "mark"] /\ Queue!Allowed(s, Queue!First(s))
          /\ UNCHANGED <<todo, room, overall>>
      BY <1>3 DEF Queue!Create
    <2>2. \A t \in Sweep : sweepPc'[t] = "mark" => Queue!Allowed(t, Queue!First(t))
      BY <1>0, <2>1 DEF MarksHaveRoom, Queue!TypeOK
    <2> QED
      BY <2>1, <2>2, FirstStays DEF MarksHaveRoom, Queue!Allowed
  <1>4. ASSUME NEW s \in Sweep, Queue!Postpone(s) \/ Queue!Refused(s) \/ Queue!Mark(s) \/ Queue!Fail(s)
        PROVE  MarksHaveRoom'
    <2>1. /\ sweepPc[s] # "idle"
          /\ \E week \in [Bot -> 0..MaxQuota], all \in 0..MaxCap : Queue!Advance(s, week, all)
      BY <1>0, <1>4, Advances
    <2>2. /\ \A t \in Sweep : t # s =>
                /\ sweepPc'[t] = sweepPc[t] /\ todo'[t] = todo[t]
                /\ room'[t] = room[t] /\ overall'[t] = overall[t]
          /\ sweepPc'[s] \in {"idle", "publish"}
      BY <1>0, <2>1, AdvanceDoes
    <2> QED
      BY <1>0, <2>2, MarksLeftAlone
  <1>5. CASE Queue!Restart
    BY <1>5 DEF Queue!Restart, MarksHaveRoom
  <1>6. \/ UNCHANGED <<sweepPc, todo, room, overall>>
        \/ Queue!Restart
        \/ \E s \in Sweep : Queue!Step(s) \/ Queue!Fail(s)
    BY DEF Queue!Next, Queue!vars, Queue!Enqueue, Queue!Age, Queue!UpdateBot, Queue!SetCap,
       Queue!ReviewRead, Queue!ReviewWrite
  <1> QED
    BY <1>1, <1>2, <1>3, <1>4, <1>5, <1>6 DEF Queue!Step

\* The part that is about the caps.
LEMMA CadenceStep ==
    ASSUME QueueInv, Queue!TypeOK', [Queue!Next]_(Queue!vars), ~overlapped', ~lowered'
    PROVE  CadenceInv'
  <1> USE DEF Queue!rows, Queue!cadence, Queue!history, Queue!sweeps
  <1>0. Queue!TypeOK /\ MarksHaveRoom /\ (~overlapped /\ ~lowered => CadenceInv)
    BY DEF QueueInv
  <1>1. /\ cap \in Nat /\ cap' \in Nat
        /\ \A b \in Bot : quota[b] \in Nat /\ quota'[b] \in Nat
    BY <1>0, QueueAssumed DEF Queue!TypeOK, Queue!CadenceAssumption
  <1>2. CASE /\ UNCHANGED <<sweepPc, room, overall, quota, cap, overlapped, lowered>>
             /\ Queue!Published' \subseteq Queue!Published
    BY <1>0, <1>1, <1>2, CadenceLeftAlone DEF AtWork
  <1>3. ASSUME NEW j \in Queue!Item, Queue!Enqueue(j) \/ Queue!Age(j) PROVE CadenceInv'
    <2>1. Queue!Published' \subseteq Queue!Published
      BY <1>0, <1>3 DEF Queue!Enqueue, Queue!Age, Queue!Published, Queue!TypeOK
    <2> QED
      BY <1>2, <1>3, <2>1 DEF Queue!Enqueue, Queue!Age
  <1>4. ASSUME NEW b \in Bot, Queue!UpdateBot(b) PROVE CadenceInv'
    <2>1. PICK n \in 0..MaxQuota : /\ quota' = [quota EXCEPT ![b] = n]
                                   /\ lowered' = (lowered \/ n < quota[b])
      BY <1>4 DEF Queue!UpdateBot
    <2>2. ~lowered /\ ~(n < quota[b])
      BY <2>1
    <2>3. \A c \in Bot : quota[c] <= quota'[c]
      BY <1>0, <1>1, <2>1, <2>2 DEF Queue!TypeOK
    <2>4. UNCHANGED <<state, recent, cap, overlapped, sweepPc, room, overall>>
      BY <1>4 DEF Queue!UpdateBot
    <2>5. Queue!Published' \subseteq Queue!Published
      BY <2>4 DEF Queue!Published
    <2> QED
      BY <1>0, <1>1, <2>2, <2>3, <2>4, <2>5, CadenceLeftAlone DEF AtWork
  <1>5. ASSUME NEW n \in 0..MaxCap, Queue!SetCap(n) PROVE CadenceInv'
    <2>1. ~lowered /\ ~(n < cap) /\ cap' = n
      BY <1>5 DEF Queue!SetCap
    <2>2. UNCHANGED <<state, recent, quota, overlapped, sweepPc, room, overall>>
      BY <1>5 DEF Queue!SetCap
    <2>3. Queue!Published' \subseteq Queue!Published
      BY <2>2 DEF Queue!Published
    <2> QED
      BY <1>0, <1>1, <2>1, <2>2, <2>3, CadenceLeftAlone DEF AtWork
  <1>6. ASSUME NEW v \in Reviewer, Queue!ReviewWrite(v) PROVE CadenceInv'
    <2>1. /\ recent' = recent
          /\ \E st \in {"approved", "rejected"} : state' = [state EXCEPT ![reviewing[v]] = st]
      BY <1>6 DEF Queue!ReviewWrite
    <2>2. Queue!Published' \subseteq Queue!Published
      BY <1>0, <2>1 DEF Queue!Published, Queue!TypeOK
    <2> QED
      BY <1>2, <1>6, <2>2 DEF Queue!ReviewWrite
  <1>7. ASSUME NEW v \in Reviewer, NEW j \in Queue!Item, Queue!ReviewRead(v, j) PROVE CadenceInv'
    BY <1>2, <1>7 DEF Queue!ReviewRead, Queue!Published
  <1>8. ASSUME NEW s \in Sweep, Queue!List(s) PROVE CadenceInv'
    <2>1. /\ sweepPc' = [sweepPc EXCEPT ![s] = "count"]
          /\ UNCHANGED <<state, recent, quota, cap, overlapped, lowered, room, overall>>
      BY <1>8 DEF Queue!List
    <2>2. \A t \in Sweep : sweepPc'[t] \in AtWork => sweepPc[t] \in AtWork
      BY <1>0, <2>1 DEF Queue!TypeOK, AtWork
    <2>3. Queue!Published' \subseteq Queue!Published
      BY <2>1 DEF Queue!Published
    <2> QED
      BY <1>0, <1>1, <2>1, <2>2, <2>3, CadenceLeftAlone
  <1>9. ASSUME NEW s \in Sweep, Queue!Count(s) PROVE CadenceInv'
    <2>1. /\ room' = [room EXCEPT ![s] = CountedRoom]
          /\ overall' = [overall EXCEPT ![s] = Queue!Left(cap, Cardinality(Queue!Published))]
          /\ sweepPc' = [sweepPc EXCEPT ![s] = "publish"]
          /\ UNCHANGED <<state, recent, quota, cap, lowered>>
      BY <1>9, QueueCount DEF Queue!Count, CountedRoom
    <2>2. ~overlapped /\ \A t \in Sweep : t # s => sweepPc[t] \notin AtWork
      BY <1>9, QueueCount DEF Queue!Count, Queue!Others, AtWork
    <2>3. CadenceInv
      BY <1>0, <2>1, <2>2
    <2>4. \A t \in Sweep : t # s => sweepPc'[t] \notin AtWork
      BY <1>0, <2>1, <2>2 DEF Queue!TypeOK
    <2>5. Queue!Published' = Queue!Published /\ \A b : Queue!Sent(b)' = Queue!Sent(b)
      BY <2>1 DEF Queue!Published, Queue!Sent
    <2>6. room'[s] = CountedRoom /\ overall'[s] = Queue!Left(cap, Cardinality(Queue!Published))
      BY <1>0, <2>1 DEF Queue!TypeOK
    <2>7. /\ Cardinality(Queue!Published) + overall'[s] <= cap
          /\ \A b \in Bot : Cardinality(Queue!Sent(b)) + room'[s][b] <= quota[b]
      BY <1>0, <2>3, <2>6, LeftIsRoom DEF CadenceInv
    <2> QED
      BY <2>1, <2>3, <2>4, <2>5, <2>7 DEF CadenceInv
  <1>10. ASSUME NEW s \in Sweep, Queue!Create(s) PROVE CadenceInv'
    <2>1. /\ sweepPc[s] = "publish" /\ sweepPc' = [sweepPc EXCEPT ![s] = "mark"]
          /\ UNCHANGED <<state, recent, quota, cap, overlapped, lowered, room, overall>>
      BY <1>10 DEF Queue!Create
    <2>2. \A t \in Sweep : sweepPc'[t] \in AtWork => sweepPc[t] \in AtWork
      BY <1>0, <2>1 DEF Queue!TypeOK, AtWork
    <2>3. Queue!Published' \subseteq Queue!Published
      BY <2>1 DEF Queue!Published
    <2> QED
      BY <1>0, <1>1, <2>1, <2>2, <2>3, CadenceLeftAlone
  <1>11. ASSUME NEW s \in Sweep, Queue!Postpone(s) \/ Queue!Refused(s) \/ Queue!Fail(s) PROVE CadenceInv'
    <2>1. /\ sweepPc[s] \in AtWork /\ Queue!Advance(s, room[s], overall[s])
          /\ UNCHANGED <<state, recent, quota, cap, overlapped, lowered>>
      BY <1>11 DEF Queue!Postpone, Queue!Refused, Queue!Fail, AtWork
    <2>2. room[s] \in [Bot -> 0..MaxQuota] /\ overall[s] \in 0..MaxCap /\ sweepPc[s] # "idle"
      BY <1>0, <2>1 DEF Queue!TypeOK, AtWork
    <2>3. /\ \A t \in Sweep : t # s =>
                sweepPc'[t] = sweepPc[t] /\ room'[t] = room[t] /\ overall'[t] = overall[t]
          /\ sweepPc'[s] \in {"idle", "publish"}
          /\ sweepPc'[s] = "publish" => room'[s] = room[s] /\ overall'[s] = overall[s]
      BY <1>0, <2>1, <2>2, AdvanceDoes
    <2>4. \A t \in Sweep : sweepPc'[t] \in AtWork =>
              sweepPc[t] \in AtWork /\ room'[t] = room[t] /\ overall'[t] = overall[t]
      BY <2>1, <2>3 DEF AtWork
    <2>5. Queue!Published' \subseteq Queue!Published
      BY <2>1 DEF Queue!Published
    <2> QED
      BY <1>0, <1>1, <2>1, <2>4, <2>5, CadenceLeftAlone
  <1>12. ASSUME NEW s \in Sweep, Queue!Mark(s) PROVE CadenceInv'
    <2> DEFINE i == Queue!First(s)
               author == MCAuthor[i]
               week == [room[s] EXCEPT ![author] = @ - 1]
    <2>1. /\ sweepPc[s] = "mark" /\ sweepPc[s] \in AtWork /\ Queue!Advance(s, week, overall[s] - 1)
          /\ state' = [state EXCEPT ![i] = "published"]
          /\ recent' = recent \cup {i}
          /\ UNCHANGED <<quota, cap, overlapped, lowered>>
      BY <1>12 DEF Queue!Mark, AtWork
    <2>2. /\ i \in Queue!Item /\ author \in Bot
          /\ week \in [Bot -> 0..MaxQuota] /\ overall[s] - 1 \in 0..MaxCap
          /\ overall[s] \in Nat /\ room[s] \in [Bot -> Nat]
          /\ week[author] = room[s][author] - 1
          /\ \A b \in Bot : b # author => week[b] = room[s][b]
      BY <1>0, <2>1, MarkSpends
    <2>3. overall[s] > 0 /\ room[s][author] > 0
      BY <1>0, <2>1 DEF MarksHaveRoom, Queue!Allowed
    <2>4. CadenceInv
      BY <1>0, <2>1
    <2>5. \A t \in Sweep : t # s => sweepPc[t] \notin AtWork
      BY <2>1, <2>4 DEF CadenceInv
    <2>6. /\ \A t \in Sweep : t # s => sweepPc'[t] = sweepPc[t]
          /\ sweepPc'[s] \in {"idle", "publish"}
          /\ sweepPc'[s] = "publish" => room'[s] = week /\ overall'[s] = overall[s] - 1
      BY <1>0, <2>1, <2>2, AdvanceDoes
    <2> HIDE DEF i, week, author
    <2>7. Queue!Published' \subseteq Queue!Published \cup {i}
      BY <1>0, <2>1, <2>2 DEF Queue!Published, Queue!TypeOK
    <2>8. /\ \A b \in Bot : b = author => Queue!Sent(b)' \subseteq Queue!Sent(b) \cup {i}
          /\ \A b \in Bot : b # author => Queue!Sent(b)' \subseteq Queue!Sent(b)
      BY <2>7 DEF Queue!Sent, author
    <2>9. ASSUME NEW S \in SUBSET Queue!Item, NEW T \in SUBSET (S \cup {i})
          PROVE  Cardinality(T) <= Cardinality(S) + 1
      <3>1. IsFiniteSet(S) /\ Cardinality(S) \in Nat
        BY SetsAreFinite
      <3>2. Cardinality(S \cup {i}) <= Cardinality(S) + 1
        <4>1. Cardinality(S \cup {i}) = IF i \in S THEN Cardinality(S) ELSE Cardinality(S) + 1
          BY <3>1, FS_AddElement
        <4> QED
          BY <3>1, <4>1
      <3>3. /\ Cardinality(T) <= Cardinality(S \cup {i})
            /\ Cardinality(T) \in Nat /\ Cardinality(S \cup {i}) \in Nat
        <4>1. S \cup {i} \in SUBSET Queue!Item /\ T \in SUBSET Queue!Item
          BY <2>2
        <4> QED
          BY <4>1, SetsAreFinite
      <3> QED
        BY <3>1, <3>2, <3>3
    <2>10. /\ Cardinality(Queue!Published) \in Nat /\ Queue!Published \in SUBSET Queue!Item
           /\ \A b \in Bot : Queue!Sent(b) \in SUBSET Queue!Item /\ Cardinality(Queue!Sent(b)) \in Nat
      BY <1>0, CountsAreNat
    <2>11. /\ Cardinality(Queue!Published') \in Nat
           /\ \A b \in Bot : Cardinality(Queue!Sent(b)') \in Nat
      <3>1. Queue!Published' \in SUBSET Queue!Item /\ \A b \in Bot : Queue!Sent(b)' \in SUBSET Queue!Item
        BY DEF Queue!TypeOK, Queue!Published, Queue!Sent
      <3> QED
        BY <3>1, SetsAreFinite
    <2>12. Cardinality(Queue!Published') + (overall[s] - 1) <= cap
      <3>1. Cardinality(Queue!Published') <= Cardinality(Queue!Published) + 1
        BY <2>7, <2>9, <2>10
      <3>2. Cardinality(Queue!Published) + overall[s] <= cap
        BY <2>1, <2>4 DEF CadenceInv
      <3> QED
        BY <3>1, <3>2, <1>1, <2>2, <2>10, <2>11
    <2>13. ASSUME NEW b \in Bot
           PROVE  /\ Cardinality(Queue!Sent(b)') + week[b] <= quota[b]
                  /\ week[b] \in Nat
      <3>1. /\ Cardinality(Queue!Sent(b)) + room[s][b] <= quota[b]
            /\ room[s][b] \in Nat
        BY <2>1, <2>2, <2>4 DEF CadenceInv
      <3>2. CASE b = author
        <4>1. Cardinality(Queue!Sent(b)') <= Cardinality(Queue!Sent(b)) + 1
          BY <2>8, <2>9, <2>10, <3>2
        <4>2. week[b] = room[s][b] - 1 /\ room[s][b] > 0
          BY <2>2, <2>3, <3>2
        <4> QED
          BY <4>1, <4>2, <3>1, <1>1, <2>10, <2>11
      <3>3. CASE b # author
        <4>1. Cardinality(Queue!Sent(b)') <= Cardinality(Queue!Sent(b))
          BY <2>8, <2>10, <3>3, SetsAreFinite
        <4>2. week[b] = room[s][b]
          BY <2>2, <3>3
        <4> QED
          BY <4>1, <4>2, <3>1, <1>1, <2>10, <2>11
      <3> QED
        BY <3>2, <3>3
    <2>14. Cardinality(Queue!Published') <= cap
      BY <1>1, <2>2, <2>3, <2>11, <2>12
    <2>15. ASSUME NEW b \in Bot PROVE Cardinality(Queue!Sent(b)') <= quota[b]
      <3>1. Cardinality(Queue!Sent(b)') + week[b] <= quota[b] /\ week[b] \in Nat
        BY <2>13
      <3> QED
        BY <3>1, <1>1, <2>11
    <2>16. \A t \in Sweep : sweepPc'[t] \in AtWork => t = s /\ sweepPc'[s] = "publish"
      BY <2>5, <2>6 DEF AtWork
    <2> QED
      BY <2>1, <2>6, <2>12, <2>13, <2>14, <2>15, <2>16 DEF CadenceInv
  <1>13. CASE Queue!Restart
    <2>1. /\ UNCHANGED <<state, recent, quota, cap, overlapped, lowered>>
          /\ \A s \in Sweep : sweepPc'[s] = "idle"
      BY <1>13 DEF Queue!Restart
    <2>2. Queue!Published' \subseteq Queue!Published
      BY <2>1 DEF Queue!Published
    <2> QED
      BY <1>0, <1>1, <2>1, <2>2, CadenceLeftAlone DEF AtWork
  <1>14. CASE UNCHANGED Queue!vars
    BY <1>2, <1>14 DEF Queue!vars, Queue!Published
  <1> QED
    BY <1>3, <1>4, <1>5, <1>6, <1>7, <1>8, <1>9, <1>10, <1>11, <1>12, <1>13, <1>14
    DEF Queue!Next, Queue!Step

LEMMA QueueStep == QueueInv /\ [Queue!Next]_(Queue!vars) => QueueInv'
  <1> SUFFICES ASSUME QueueInv, [Queue!Next]_(Queue!vars) PROVE QueueInv'
    OBVIOUS
  <1>1. Queue!TypeOK'
    BY QueueTyped DEF QueueInv
  <1>2. \A i \in Queue!Item \ disturbed' : ItemInv(i)'
    BY <1>1, ItemsStep
  <1>3. overlapped' \/ lowered' \/ CadenceInv'
    BY <1>1, CadenceStep
  <1>4. MarksHaveRoom'
    BY <1>1, MarksStep
  <1> QED
    BY <1>1, <1>2, <1>3, <1>4 DEF QueueInv

LEMMA QueuePromise == QueueInv => Queue!QueueDiscipline
  <1>1. QueueInv => Queue!PostedOnce
    <2> SUFFICES ASSUME QueueInv, NEW i \in Queue!Item, i \notin disturbed PROVE ~(posts[i] > 1)
      BY DEF Queue!PostedOnce
    <2> QED
      BY DEF QueueInv, ItemInv, Queue!TypeOK
  <1>2. QueueInv => Queue!CadenceHeld
    BY QueueCount DEF QueueInv, CadenceInv, Queue!CadenceHeld
  <1> QED
    BY <1>1, <1>2 DEF Queue!QueueDiscipline

-----------------------------------------------------------------------------
(* The parts together.                                                       *)

\* The invariant of each part is inductive.
LEMMA CampaignInvariance == Spec => []CampaignInv
<1>1. Init => CampaignInv
  BY CampaignStarts
<1>2. CampaignInv /\ [Next]_vars => CampaignInv'
  BY CampaignStep
<1> QED
  BY <1>1, <1>2, PTL DEF Spec

LEMMA QueueInvariance == Queue!Spec => []QueueInv
<1>1. Queue!Init => QueueInv
  BY QueueStarts
<1>2. QueueInv /\ [Queue!Next]_(Queue!vars) => QueueInv'
  BY QueueStep
<1> QED
  BY <1>1, <1>2, PTL DEF Queue!Spec

LEMMA NudgesInvariance == Nudge!Spec => []NudgesInv
<1>1. Nudge!Init => NudgesInv
  BY NudgesStart
<1>2. NudgesInv /\ [Nudge!Next]_(Nudge!vars) => NudgesInv'
  BY NudgesStep
<1> QED
  BY <1>1, <1>2, PTL DEF Nudge!Spec

\* What the run checks, under bounds of its own, is a behaviour of each part.
LEMMA PartsAlone == MCSpec => Spec /\ Queue!Spec /\ Nudge!Spec
<1>1. MCInit => Init /\ Queue!Init /\ Nudge!Init
  BY DEF MCInit
<1>2. ASSUME [MCNext]_<<part, mailing, queue, nudges>>
      PROVE  [Next]_vars /\ [Queue!Next]_(Queue!vars) /\ [Nudge!Next]_(Nudge!vars)
  <2> USE DEF mailing, queue, nudges
  <2>1. /\ UNCHANGED mailing => UNCHANGED vars
        /\ UNCHANGED queue => UNCHANGED Queue!vars
        /\ UNCHANGED nudges => UNCHANGED Nudge!vars
    BY DEF vars, campaign, Queue!vars, Queue!rows, Queue!cadence, Queue!history, Queue!sweeps, Nudge!vars
  <2> QED
    BY <1>2, <2>1, Zenon DEF MCNext
<1> QED
  BY <1>1, <1>2, PTL DEF MCSpec, Spec, Queue!Spec, Nudge!Spec

\* A campaign, a queue and a sweep keep the types of their rows, requests and
\* counters, whatever interleaves; a sweep without items is idle.
THEOREM JobsTyped == Spec /\ Queue!Spec /\ Nudge!Spec => []PartsTyped
<1>1. CampaignInv /\ QueueInv /\ NudgesInv => PartsTyped
  BY NudgesPromise DEF CampaignInv, QueueInv, PartsTyped
<1> QED
  BY <1>1, CampaignInvariance, QueueInvariance, NudgesInvariance, PTL

\* However many administrators launch a campaign, and whatever they edit meanwhile,
\* an address gets one mail of it and a campaign that is sent reports how many
\* (claim, dispatch); a member is written to once in a window, unless two sweeps
\* held the member at once (processBatch of the digest and of the reminder).
THEOREM NobodyIsWrittenToTwice == Spec /\ Nudge!Spec => []SentOnce
<1>1. CampaignInv /\ NudgesInv => SentOnce
  BY CampaignPromise, NudgesPromise DEF SentOnce
<1> QED
  BY <1>1, CampaignInvariance, NudgesInvariance, PTL

\* An item is posted once, and the posts of any seven days stay within the caps of
\* the account and of the platform, but for the overlaps, restarts, lost marks and
\* lowered caps that are recorded (publishDue).
THEOREM QueueKeepsItsPace == Queue!Spec => []QueueDiscipline
<1>1. QueueInv => QueueDiscipline
  BY QueuePromise DEF QueueDiscipline
<1> QED
  BY <1>1, QueueInvariance, PTL
====
