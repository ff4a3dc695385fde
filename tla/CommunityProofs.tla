---- MODULE CommunityProofs ----
(* What members say, vote and rate, for any numbers of members, requests,    *)
(* messages and comments: a conversation, the counters of a post, the score  *)
(* of a price, a poll, a rating. Each part has an inductive invariant of its *)
(* own; they meet in the last section.                                       *)
EXTENDS MCCommunity, FiniteSetTheorems, WellFoundedInduction, TLAPS

\* The parts count as this module does.
LEMMA FeedCount ==
    \A S : Feed!Cardinality(S) = Cardinality(S) /\ (Feed!IsFiniteSet(S) <=> IsFiniteSet(S))
  BY DEF Feed!Cardinality, Cardinality, Feed!IsFiniteSet, IsFiniteSet
LEMMA PriceCount ==
    \A S : Price!Cardinality(S) = Cardinality(S) /\ (Price!IsFiniteSet(S) <=> IsFiniteSet(S))
  BY DEF Price!Cardinality, Cardinality, Price!IsFiniteSet, IsFiniteSet
LEMMA PollCount ==
    \A S : Poll!Cardinality(S) = Cardinality(S) /\ (Poll!IsFiniteSet(S) <=> IsFiniteSet(S))
  BY DEF Poll!Cardinality, Cardinality, Poll!IsFiniteSet, IsFiniteSet
-----------------------------------------------------------------------------
(* A conversation.                                                           *)

\* The newest of some messages is one of them.
LEMMA MaxFact ==
  ASSUME NEW S \in SUBSET Msg, S # {}
  PROVE  Max(S) \in S /\ \A m \in S : m <= Max(S)
<1> DEFINE T == {MaxMsg - m : m \in S}
<1> DEFINE R == OpToRel(<, Nat)
<1>1. IsWellFoundedOn(R, Nat)
  BY NatLessThanWellFounded
<1>0. \A a, b \in Nat : <<a, b>> \in R <=> a < b
  BY DEF OpToRel
<1> HIDE DEF R
<1>2. PICK n \in T : \A k \in T : n <= k
  <2>1. T \in SUBSET Nat /\ T # {}
    <3>1. \A m \in S : m \in 1..MaxMsg
      BY DEF Msg
    <3>2. \A m \in S : MaxMsg - m \in Nat
      BY <3>1, BoundAssumption
    <3>3. PICK m \in S : TRUE
      OBVIOUS
    <3>4. MaxMsg - m \in T
      OBVIOUS
    <3>5. T \subseteq Nat
      BY <3>2, Zenon
    <3> QED BY <3>4, <3>5, Zenon
  <2> HIDE DEF T
  <2>2. \E x \in T : \A y \in T : ~(<<y, x>> \in R)
    BY <1>1, <2>1, WFMin
  <2>3. PICK x \in T : \A y \in T : ~(<<y, x>> \in R)
    BY <2>2
  <2>4. \A y \in T : ~(y < x)
    BY <1>0, <2>1, <2>3
  <2>5. \A y \in T : x <= y
    BY <2>1, <2>4
  <2> QED BY <2>5
<1>3. PICK x \in S : n = MaxMsg - x
  BY <1>2
<1>4. \A m \in S : x >= m
  <2>1. \A m \in S : n <= MaxMsg - m
    BY <1>2
  <2> QED BY <1>3, <2>1, BoundAssumption DEF Msg
<1>5. \E y \in S : \A m \in S : y >= m
  BY <1>4
<1>6. Max(S) \in S /\ \A m \in S : Max(S) >= m
  BY <1>5, Zenon DEF Max
<1> QED BY <1>6, BoundAssumption DEF Msg

-----------------------------------------------------------------------------
(* Types.                                                                    *)

\* What the record of a request in flight holds.
Shape(r) ==
    /\ pc[r] # "idle" => req[r].user \in User
    /\ pc[r] = "send" => req[r].msg \in Msg
    /\ pc[r] \in {"notify", "erase", "rewrite", "look", "sync"} => req[r].msg \in sent

TypeInv == TypeOK /\ \A r \in Req : Shape(r)

\* The requests, apart from what they act on.
Control == pc \in [Req -> PC] /\ req \in [Req -> Request]

LEMMA EnterFacts ==
  ASSUME Control, NEW r \in Req, NEW step \in PC, NEW rec \in Request, Enter(r, step, rec)
  PROVE  /\ pc[r] = "idle" /\ pc'[r] = step /\ req'[r] = rec
         /\ \A q \in Req : q # r => pc'[q] = pc[q] /\ req'[q] = req[q]
         /\ Control'
<1>1. pc' = [pc EXCEPT ![r] = step] /\ req' = [req EXCEPT ![r] = rec] /\ pc[r] = "idle"
  BY DEF Enter
<1>2. pc' \in [Req -> PC] /\ pc'[r] = step /\ \A q \in Req : q # r => pc'[q] = pc[q]
  BY <1>1 DEF Control
<1>3. req' \in [Req -> Request] /\ req'[r] = rec /\ \A q \in Req : q # r => req'[q] = req[q]
  BY <1>1 DEF Control
<1> QED BY <1>1, <1>2, <1>3 DEF Control

LEMMA GotoFacts ==
  ASSUME Control, NEW r \in Req, NEW step \in PC, Goto(r, step)
  PROVE  /\ pc'[r] = step /\ req' = req
         /\ \A q \in Req : q # r => pc'[q] = pc[q]
         /\ Control'
  BY DEF Goto, Control

LEMMA BlankType == Blank \in Request /\ Nothing \in Preview
<1>1. Nothing \in Preview
  BY DEF Nothing, Preview, Text
<1>2. Blank \in Request
  BY <1>1 DEF Blank, Ask, Request
<1> QED BY <1>1, <1>2

LEMMA LeaveFacts ==
  ASSUME Control, NEW r \in Req, Leave(r)
  PROVE  /\ pc'[r] = "idle"
         /\ \A q \in Req : q # r => pc'[q] = pc[q] /\ req'[q] = req[q]
         /\ Control'
<1>1. "idle" \in PC
  BY DEF PC
<1> QED BY <1>1, BlankType DEF Leave, Control

LEMMA AskType ==
  ASSUME NEW u \in User, NEW m \in Msg \cup {None}, NEW S \in SUBSET User
  PROVE  /\ Ask(u, m, S, Nothing) \in Request
         /\ Ask(u, m, S, Nothing).user = u
         /\ Ask(u, m, S, Nothing).msg = m
         /\ Ask(u, m, S, Nothing).seeing = S
<1>1. Nothing \in Preview
  BY BlankType
<1> HIDE DEF Nothing
<1> QED BY <1>1 DEF Ask, Request

LEMMA NewestType == ASSUME TypeOK PROVE Newest \in Preview
<1>1. CASE Live = {}
  BY <1>1, BlankType DEF Newest
<1>2. CASE Live # {}
  <2>1. Live \in SUBSET Msg
    BY DEF Live, TypeOK
  <2>2. Max(Live) \in Msg
    BY <1>2, <2>1, MaxFact
  <2> DEFINE m == Max(Live)
  <2> HIDE DEF m
  <2>3. m \in Msg /\ text[m] \in Text
    BY <2>2 DEF m, TypeOK
  <2>4. [msg |-> m, text |-> text[m]] \in Preview
    BY <2>3 DEF Preview
  <2> QED BY <1>2, <2>4 DEF Newest, m
<1> QED BY <1>1, <1>2

\* The rest of the type invariant.
Data ==
    /\ sender \in [Msg -> User \cup {None}] /\ text \in [Msg -> Text]
    /\ sent \subseteq Msg /\ deleted \subseteq sent /\ aged \subseteq sent
    /\ raced \subseteq Msg
    /\ preview \in Preview /\ behind \subseteq Req /\ drifted \in BOOLEAN
    /\ unread \in [User -> Nat] /\ bell \in [User -> SUBSET Msg]
    /\ live \in [Msg -> SUBSET User] /\ seen \in [User -> SUBSET Msg]
    /\ belated \in [User -> SUBSET Msg] /\ active \subseteq User

LEMMA SplitType == TypeOK <=> Control /\ Data
  BY Zenon DEF TypeOK, Control, Data

LEMMA InitType == Init => TypeInv
<1> SUFFICES ASSUME Init PROVE TypeInv
  OBVIOUS
<1>1. Control
  BY BlankType DEF Init, Control, PC
<1>2. /\ sender \in [Msg -> User \cup {None}] /\ text \in [Msg -> Text]
      /\ unread \in [User -> Nat] /\ bell \in [User -> SUBSET Msg]
      /\ live \in [Msg -> SUBSET User] /\ seen \in [User -> SUBSET Msg]
      /\ belated \in [User -> SUBSET Msg]
  BY DEF Init, Text
<1>3. /\ sent \subseteq Msg /\ deleted \subseteq sent /\ aged \subseteq sent
      /\ raced \subseteq Msg /\ behind \subseteq Req /\ active \subseteq User
      /\ preview \in Preview /\ drifted \in BOOLEAN
  BY BlankType, Zenon DEF Init
<1>4. \A r \in Req : Shape(r)
  BY DEF Init, Shape
<1> QED BY <1>1, <1>2, <1>3, <1>4, SplitType DEF TypeInv, Data

\* The requests keep their shape as long as no message is unsent.
LEMMA EnterShape ==
  ASSUME TypeInv, NEW r \in Req, NEW step \in PC, NEW u \in User, NEW m \in Msg \cup {None},
         NEW S \in SUBSET User, Enter(r, step, Ask(u, m, S, Nothing)), sent' = sent,
         step # "send",
         step \in {"notify", "erase", "rewrite", "look", "sync"} => m \in sent
  PROVE  Control' /\ \A q \in Req : Shape(q)'
<1> DEFINE rec == Ask(u, m, S, Nothing)
<1>1. rec \in Request /\ rec.user = u /\ rec.msg = m
  BY AskType
<1> HIDE DEF rec
<1>2. Enter(r, step, rec)
  BY DEF rec
<1>3. Control /\ \A q \in Req : Shape(q)
  BY SplitType DEF TypeInv
<1>4. /\ pc'[r] = step /\ req'[r] = rec
      /\ \A q \in Req : q # r => pc'[q] = pc[q] /\ req'[q] = req[q]
      /\ Control'
  BY <1>1, <1>2, <1>3, EnterFacts
<1>5. ASSUME NEW q \in Req PROVE Shape(q)'
  <2>1. CASE q = r
    BY <1>1, <1>4, <2>1 DEF Shape
  <2>2. CASE q # r
    BY <1>3, <1>4, <2>2 DEF Shape
  <2> QED BY <2>1, <2>2
<1> QED BY <1>4, <1>5

LEMMA GotoShape ==
  ASSUME TypeInv, NEW r \in Req, NEW step \in PC, Goto(r, step), sent \subseteq sent',
         req[r].user \in User, step # "send",
         step \in {"notify", "erase", "rewrite", "look", "sync"} => req[r].msg \in sent'
  PROVE  Control' /\ \A q \in Req : Shape(q)'
<1>1. Control /\ \A q \in Req : Shape(q)
  BY SplitType DEF TypeInv
<1>2. /\ pc'[r] = step /\ req' = req
      /\ \A q \in Req : q # r => pc'[q] = pc[q]
      /\ Control'
  BY <1>1, GotoFacts
<1>3. ASSUME NEW q \in Req PROVE Shape(q)'
  <2>1. CASE q = r
    BY <1>2, <2>1 DEF Shape
  <2>2. CASE q # r
    BY <1>1, <1>2, <2>2 DEF Shape
  <2> QED BY <2>1, <2>2
<1> QED BY <1>2, <1>3

LEMMA LeaveShape ==
  ASSUME TypeInv, NEW r \in Req, Leave(r), sent' = sent
  PROVE  Control' /\ \A q \in Req : Shape(q)'
<1>1. Control /\ \A q \in Req : Shape(q)
  BY SplitType DEF TypeInv
<1>2. /\ pc'[r] = "idle"
      /\ \A q \in Req : q # r => pc'[q] = pc[q] /\ req'[q] = req[q]
      /\ Control'
  BY <1>1, LeaveFacts
<1>3. ASSUME NEW q \in Req PROVE Shape(q)'
  <2>1. CASE q = r
    BY <1>2, <2>1 DEF Shape
  <2>2. CASE q # r
    BY <1>1, <1>2, <2>2 DEF Shape
  <2> QED BY <2>1, <2>2
<1> QED BY <1>2, <1>3

\* Every action keeps the types and the shape of the requests.
LEMMA NextType == TypeInv /\ [Next]_vars => TypeInv'
<1> SUFFICES ASSUME TypeInv, [Next]_vars PROVE Control' /\ Data' /\ \A r \in Req : Shape(r)'
  BY Zenon DEF TypeInv, TypeOK, Control, Data
<1> DEFINE Goal == Control' /\ Data' /\ \A r \in Req : Shape(r)'
<1>0. Control /\ Data /\ \A r \in Req : Shape(r)
  BY SplitType DEF TypeInv
<1>1. ASSUME NEW u \in User, Focus(u) \/ Blur(u) PROVE Goal
  BY <1>0, <1>1 DEF Focus, Blur, messages, counters, list, Control, Data, Shape
<1>2. ASSUME NEW m \in Msg, Age(m) PROVE Goal
  BY <1>0, <1>2 DEF Age, counters, list, Control, Data, Shape
<1>3. ASSUME NEW m \in Msg, TakeDown(m) PROVE Goal
  <2>1. /\ m \in sent /\ deleted' = deleted \cup {m}
        /\ text' = [text EXCEPT ![m] = "none"]
        /\ raced' \subseteq raced \cup {m}
        /\ behind' \subseteq behind \cup Req
        /\ UNCHANGED <<sender, sent, aged, unread, bell, live, seen, belated, preview, active,
                       pc, req>>
    BY <1>3 DEF TakeDown, Overtake, counters
  <2>2. drifted' \in BOOLEAN
    BY <1>3, Zenon DEF TakeDown
  <2>3. Data'
    BY <1>0, <2>1, <2>2 DEF Data, Text
  <2> QED BY <1>0, <2>1, <2>3 DEF Control, Shape
<1>4. ASSUME NEW r \in Req, NEW u \in User, SendRead(r, u) PROVE Goal
  <2>1. /\ Enter(r, "begin", Ask(u, None, active \ {u}, Nothing))
        /\ UNCHANGED <<messages, counters, list, active>>
    BY <1>4 DEF SendRead
  <2>2. "begin" \in PC /\ active \ {u} \in SUBSET User /\ sent' = sent
    BY <1>0, <2>1 DEF PC, Data, messages
  <2>3. Control' /\ \A q \in Req : Shape(q)'
    BY <2>1, <2>2, EnterShape
  <2>4. Data'
    BY <1>0, <2>1 DEF Data, messages, counters, list
  <2> QED BY <2>3, <2>4
<1>5. ASSUME NEW r \in Req, NEW n \in Msg, SendBegin(r, n) PROVE Goal
  <2>1. /\ pc[r] = "begin" /\ req[r].user \in User
        /\ sender' = [sender EXCEPT ![n] = req[r].user]
        /\ pc' = [pc EXCEPT ![r] = "send"]
        /\ req' = [req EXCEPT ![r].msg = n]
        /\ UNCHANGED <<sent, text, deleted, aged, raced, counters, list, active>>
    BY <1>0, <1>5 DEF SendBegin, Shape
  <2>2. Data'
    BY <1>0, <2>1 DEF Data, counters, list
  <2>3. Control'
    BY <1>0, <2>1 DEF Control, PC, Request
  <2>4. ASSUME NEW q \in Req PROVE Shape(q)'
    <3>1. CASE q = r
      <4>1. pc'[q] = "send" /\ req'[q].msg = n /\ req'[q].user = req[r].user
        BY <1>0, <2>1, <3>1 DEF Control, Request
      <4> QED BY <2>1, <4>1 DEF Shape
    <3>2. CASE q # r
      <4>1. pc'[q] = pc[q] /\ req'[q] = req[q]
        BY <1>0, <2>1, <3>2 DEF Control
      <4> QED BY <1>0, <2>1, <4>1 DEF Shape
    <3> QED BY <3>1, <3>2
  <2> QED BY <2>2, <2>3, <2>4
<1>6. ASSUME NEW r \in Req, SendWrite(r) PROVE Goal
  <2> DEFINE n == req[r].msg
  <2>1. /\ pc[r] = "send"
        /\ sent' = sent \cup {n}
        /\ text' = [text EXCEPT ![n] = "first"]
        /\ preview' = [msg |-> n, text |-> "first"]
        /\ unread' = [u \in User |-> IF u \in Others(sender[n]) \ req[r].seeing
                                     THEN unread[u] + 1 ELSE unread[u]]
        /\ live' = [live EXCEPT ![n] = req[r].seeing]
        /\ behind' \subseteq behind \cup Req
        /\ Goto(r, "notify")
        /\ UNCHANGED <<sender, deleted, aged, raced, bell, seen, belated, active>>
    BY <1>6 DEF SendWrite, Overtake
  <2>2. drifted' \in BOOLEAN
    BY <1>6, Zenon DEF SendWrite
  <2>3. n \in Msg /\ req[r].user \in User /\ req[r].seeing \in SUBSET User
    BY <1>0, <2>1 DEF Shape, Control, Request
  <2>4. preview' \in Preview
    BY <2>1, <2>3 DEF Preview, Text
  <2>5. Data'
    BY <1>0, <2>1, <2>2, <2>3, <2>4 DEF Data, Text
  <2>6. "notify" \in PC /\ req[r].msg \in sent' /\ sent \subseteq sent'
    BY <2>1 DEF PC
  <2> QED BY <2>1, <2>3, <2>5, <2>6, GotoShape
<1>7. ASSUME NEW r \in Req, Notify(r) PROVE Goal
  <2> DEFINE n == req[r].msg
  <2>1. /\ pc[r] = "notify"
        /\ bell' = [u \in User |-> IF u \in Others(sender[n]) \ req[r].seeing
                                   THEN bell[u] \cup {n} ELSE bell[u]]
        /\ Leave(r)
        /\ UNCHANGED <<messages, unread, live, seen, belated, list, active>>
    BY <1>7 DEF Notify
  <2>2. n \in Msg
    BY <1>0, <2>1 DEF Shape, Data
  <2>3. Data'
    BY <1>0, <2>1, <2>2 DEF Data, messages, list
  <2> QED BY <2>1, <2>3, LeaveShape DEF messages
<1>8. ASSUME NEW r \in Req, NEW u \in User, Read(r, u) PROVE Goal
  <2>1. /\ Enter(r, "clear", Ask(u, None, {}, Nothing))
        /\ unread' = [unread EXCEPT ![u] = 0]
        /\ seen' = [seen EXCEPT ![u] = sent]
        /\ belated' = [belated EXCEPT ![u] =
               @ \cup {m \in sent : \E q \in Req : pc[q] = "notify" /\ req[q].msg = m}]
        /\ UNCHANGED <<messages, bell, live, list, active>>
    BY <1>8 DEF Read
  <2>2. "clear" \in PC /\ {} \in SUBSET User /\ sent' = sent
    BY <2>1 DEF PC, messages
  <2>3. Control' /\ \A q \in Req : Shape(q)'
    BY <2>1, <2>2, EnterShape
  <2>4. Data'
    BY <1>0, <2>1 DEF Data, messages, list
  <2> QED BY <2>3, <2>4
<1>9. ASSUME NEW r \in Req, ClearBell(r) PROVE Goal
  <2>1. /\ pc[r] = "clear"
        /\ bell' = [bell EXCEPT ![req[r].user] = {}]
        /\ Goto(r, "focus")
        /\ UNCHANGED <<messages, unread, live, seen, belated, list, active>>
    BY <1>9 DEF ClearBell
  <2>2. "focus" \in PC /\ req[r].user \in User /\ sent \subseteq sent'
    BY <1>0, <2>1 DEF PC, Shape, messages
  <2>3. Data'
    BY <1>0, <2>1, <2>2 DEF Data, messages, list
  <2> QED BY <2>1, <2>2, <2>3, GotoShape
<1>10. ASSUME NEW r \in Req, ReadFocus(r) PROVE Goal
  <2>1. /\ pc[r] = "focus"
        /\ active' = active \cup {req[r].user}
        /\ Leave(r)
        /\ UNCHANGED <<messages, counters, list>>
    BY <1>10 DEF ReadFocus
  <2>2. req[r].user \in User
    BY <1>0, <2>1 DEF Shape
  <2>3. Data'
    BY <1>0, <2>1, <2>2 DEF Data, messages, counters, list
  <2> QED BY <2>1, <2>3, LeaveShape DEF messages
<1>11. ASSUME NEW r \in Req, NEW u \in User, NEW m \in Msg,
              DeleteRead(r, u, m) \/ EditRead(r, u, m) PROVE Goal
  <2>1. PICK step \in {"erase", "rewrite"} :
          /\ Enter(r, step, Ask(u, m, {}, Nothing))
          /\ m \in sent
          /\ UNCHANGED <<messages, counters, list, active>>
    BY <1>11 DEF DeleteRead, EditRead, Mutable, Live
  <2>2. step \in PC /\ step # "send" /\ {} \in SUBSET User /\ sent' = sent
    BY <2>1 DEF PC, messages
  <2>3. Control' /\ \A q \in Req : Shape(q)'
    BY <2>1, <2>2, EnterShape
  <2>4. Data'
    BY <1>0, <2>1 DEF Data, messages, counters, list
  <2> QED BY <2>3, <2>4
<1>12. ASSUME NEW r \in Req, Erase(r) PROVE Goal
  <2> DEFINE m == req[r].msg
  <2>1. /\ pc[r] = "erase"
        /\ deleted' = deleted \cup {m}
        /\ text' = [text EXCEPT ![m] = "none"]
        /\ raced' \subseteq raced \cup {m}
        /\ behind' \subseteq behind \cup Req
        /\ Goto(r, "look")
        /\ UNCHANGED <<sender, sent, aged, counters, preview, drifted, active>>
    BY <1>12 DEF Erase, Overtake
  <2>2. m \in sent /\ req[r].user \in User
    BY <1>0, <2>1 DEF Shape
  <2>3. Data'
    BY <1>0, <2>1, <2>2 DEF Data, Text, counters
  <2>4. "look" \in PC /\ sent \subseteq sent'
    BY <2>1 DEF PC
  <2> QED BY <2>1, <2>2, <2>3, <2>4, GotoShape
<1>13. ASSUME NEW r \in Req, Rewrite(r) PROVE Goal
  <2> DEFINE m == req[r].msg
  <2>1. /\ pc[r] = "rewrite"
        /\ text' = [text EXCEPT ![m] = "edited"]
        /\ behind' \subseteq behind \cup Req
        /\ Goto(r, "look")
        /\ UNCHANGED <<sender, sent, deleted, aged, raced, counters, preview, drifted, active>>
    BY <1>13 DEF Rewrite, Overtake
  <2>2. m \in sent /\ req[r].user \in User
    BY <1>0, <2>1 DEF Shape
  <2>3. Data'
    BY <1>0, <2>1, <2>2 DEF Data, Text, counters
  <2>4. "look" \in PC /\ sent \subseteq sent'
    BY <2>1 DEF PC
  <2> QED BY <2>1, <2>2, <2>3, <2>4, GotoShape
<1>14. ASSUME NEW r \in Req, SyncRead(r) PROVE Goal
  <2>1. /\ pc[r] = "look"
        /\ pc' = [pc EXCEPT ![r] = "sync"]
        /\ req' = [req EXCEPT ![r].preview = Newest]
        /\ behind' = behind \ {r}
        /\ UNCHANGED <<messages, counters, preview, drifted, active>>
    BY <1>14 DEF SyncRead
  <2>2. Newest \in Preview
    BY NewestType DEF TypeInv
  <2>3. Data'
    BY <1>0, <2>1 DEF Data, messages, counters
  <2>4. Control'
    BY <1>0, <2>1, <2>2 DEF Control, PC, Request
  <2>5. ASSUME NEW q \in Req PROVE Shape(q)'
    <3>1. req'[q].user = req[q].user /\ req'[q].msg = req[q].msg
      BY <1>0, <2>1 DEF Control, Request
    <3>2. pc'[q] = IF q = r THEN "sync" ELSE pc[q]
      BY <1>0, <2>1 DEF Control
    <3> QED BY <1>0, <2>1, <3>1, <3>2 DEF Shape, messages
  <2> QED BY <2>3, <2>4, <2>5
<1>15. ASSUME NEW r \in Req, SyncWrite(r) PROVE Goal
  <2>1. /\ preview' = req[r].preview
        /\ behind' = behind \ {r}
        /\ Leave(r)
        /\ UNCHANGED <<messages, counters, active>>
    BY <1>15 DEF SyncWrite
  <2>2. drifted' \in BOOLEAN
    <3>1. drifted' = (r \in behind)
      BY <1>15 DEF SyncWrite
    <3> QED BY <3>1
  <2>3. req[r].preview \in Preview
    BY <1>0 DEF Control, Request
  <2>4. Data'
    BY <1>0, <2>1, <2>2, <2>3 DEF Data, messages, counters
  <2> QED BY <2>1, <2>4, LeaveShape DEF messages
<1>16. ASSUME NEW r \in Req, Abort(r) PROVE Goal
  <2>1. /\ behind' = behind \ {r}
        /\ belated' = [u \in User |-> IF pc[r] = "clear" /\ req[r].user = u
                                      THEN belated[u] \cup bell[u] ELSE belated[u]]
        /\ Leave(r)
        /\ UNCHANGED <<messages, unread, bell, live, seen, preview, active>>
    BY <1>16 DEF Abort
  <2>2. drifted' \in BOOLEAN
    BY <1>16, Zenon DEF Abort
  <2>3. Data'
    BY <1>0, <2>1, <2>2 DEF Data, messages
  <2> QED BY <2>1, <2>3, LeaveShape DEF messages
<1>17. CASE UNCHANGED vars
  BY <1>0, <1>17 DEF vars, messages, counters, list, Control, Data, Shape
<1> QED
  BY <1>1, <1>2, <1>3, <1>4, <1>5, <1>6, <1>7, <1>8, <1>9, <1>10, <1>11, <1>12, <1>13, <1>14,
     <1>15, <1>16, <1>17 DEF Next

LEMMA TypeInvariant == Spec => []TypeInv
  BY InitType, NextType, PTL DEF Spec

\* Type correctness of the messages, the badges and the requests.
THEOREM TypeCorrect == Spec => []TypeOK
  BY TypeInvariant, PTL DEF TypeInv

-----------------------------------------------------------------------------
(* The inductive invariant.                                                  *)

\* A message is timed before it is sent, and by one request.
SendInv ==
    /\ \A m \in sent : sender[m] # None
    /\ \A r \in Req : pc[r] = "send" => sender[req[r].msg] # None /\ req[r].msg \notin sent
    /\ \A q, r \in Req : q # r /\ pc[q] = "send" /\ pc[r] = "send" => req[q].msg # req[r].msg

\* An edition under way of a message already deleted was raced by the deletion.
TombInv ==
    /\ TombstonesEmpty
    /\ \A r \in Req : pc[r] = "rewrite" /\ req[r].msg \in deleted => req[r].msg \in raced

\* Nobody has read what is not sent.
BadgeInv ==
    /\ BadgeIsExact
    /\ \A u \in User : seen[u] \subseteq sent

\* Who reads a message before its notification makes that one belated.
BellInv ==
    /\ BellIsUnread
    /\ \A r \in Req : pc[r] = "notify" =>
          /\ live[req[r].msg] = req[r].seeing
          /\ \A u \in User : req[r].msg \in seen[u] => req[r].msg \in belated[u]

\* A preview that was computed and not overtaken is still the right one.
PreviewInv ==
    /\ PreviewIsNewest
    /\ \A r \in Req : pc[r] = "sync" /\ r \notin behind => req[r].preview = Newest

IInv == TypeInv /\ SendInv /\ TombInv /\ BadgeInv /\ BellInv /\ PreviewInv

LEMMA InitInv == Init => IInv
<1> SUFFICES ASSUME Init PROVE IInv
  OBVIOUS
<1>1. \A r \in Req : pc[r] = "idle"
  BY DEF Init
<1>2. Live = {}
  BY DEF Init, Live
<1>3. \A u \in User : Unseen(u) = {} /\ unread[u] = 0 /\ bell[u] = {} /\ seen[u] = {}
  BY DEF Init, Unseen
<1>4. SendInv /\ TombInv /\ BellInv
  BY <1>1, <1>3 DEF Init, SendInv, TombInv, TombstonesEmpty, BellInv, BellIsUnread
<1>5. BadgeInv
  BY <1>3, FS_EmptySet DEF BadgeInv, BadgeIsExact
<1>6. PreviewInv
  BY <1>1, <1>2 DEF Init, PreviewInv, PreviewIsNewest, Newest
<1> QED BY InitType, <1>4, <1>5, <1>6 DEF IInv

\* No request arrives at a step, or none leaves it.
Kept(step) == \A q \in Req : pc'[q] = step => pc[q] = step /\ req'[q] = req[q]
Holds(step) == \A q \in Req : pc[q] = step => pc'[q] = step /\ req'[q] = req[q]

LEMMA SameSend ==
  ASSUME SendInv, UNCHANGED <<sender, sent>>, Kept("send")
  PROVE  SendInv'
  BY DEF SendInv, Kept

LEMMA SameTomb ==
  ASSUME TombInv, UNCHANGED <<text, deleted, raced>>, Kept("rewrite")
  PROVE  TombInv'
  BY DEF TombInv, TombstonesEmpty, Kept

LEMMA SameBadge ==
  ASSUME BadgeInv, UNCHANGED <<sender, sent, live, seen, unread>>
  PROVE  BadgeInv'
  BY DEF BadgeInv, BadgeIsExact, Unseen

LEMMA KeepBell ==
  ASSUME BellIsUnread, \A u \in User : Unseen(u) \subseteq Unseen(u)',
         UNCHANGED <<bell, belated>>, Holds("clear")
  PROVE  BellIsUnread'
<1> SUFFICES ASSUME NEW u \in User, NEW m \in bell[u]
             PROVE  \/ m \in Unseen(u)' \cup belated[u]
                    \/ \E q \in Req : pc'[q] = "clear" /\ req'[q].user = u
  BY DEF BellIsUnread
<1>1. CASE m \in Unseen(u) \cup belated[u]
  BY <1>1
<1>2. ASSUME NEW q \in Req, pc[q] = "clear", req[q].user = u
      PROVE  pc'[q] = "clear" /\ req'[q].user = u
  BY <1>2 DEF Holds
<1> QED BY <1>1, <1>2 DEF BellIsUnread

LEMMA SameBell ==
  ASSUME BellInv, UNCHANGED <<sender, sent, live, seen, bell, belated>>,
         Kept("notify"), Holds("clear")
  PROVE  BellInv'
<1>1. \A u \in User : Unseen(u)' = Unseen(u)
  BY DEF Unseen
<1>2. BellIsUnread'
  BY <1>1, KeepBell DEF BellInv
<1> QED BY <1>2 DEF BellInv, Kept

LEMMA SamePreview ==
  ASSUME PreviewInv, UNCHANGED <<sent, deleted, text, preview, drifted, behind>>,
         Kept("sync"), Holds("look"), Holds("sync")
  PROVE  PreviewInv'
<1>1. Newest' = Newest
  BY DEF Newest, Live
<1>2. Settled' => Settled
  BY DEF Settled, Holds
<1>3. PreviewIsNewest'
  BY <1>1, <1>2 DEF PreviewInv, PreviewIsNewest
<1> QED BY <1>1, <1>3 DEF PreviewInv, Kept

\* The steps that touch nothing of this.
LEMMA Calm ==
  ASSUME IInv,
         \/ \E u \in User : Focus(u) \/ Blur(u)
         \/ \E m \in Msg : Age(m)
         \/ \E r \in Req, u \in User : SendRead(r, u) \/ \E m \in Msg : DeleteRead(r, u, m)
         \/ \E r \in Req : ReadFocus(r)
         \/ UNCHANGED vars
  PROVE  SendInv' /\ TombInv' /\ BadgeInv' /\ BellInv' /\ PreviewInv'
<1>0. Control
  BY SplitType DEF IInv, TypeInv
<1> DEFINE Quiet == {"idle", "begin", "focus", "erase"}
<1>1. /\ UNCHANGED <<sender, sent, text, deleted, raced, preview, unread, bell, live, seen,
                     belated, behind, drifted>>
      /\ \A q \in Req : \/ pc'[q] = pc[q] /\ req'[q] = req[q]
                        \/ pc[q] \in Quiet /\ pc'[q] \in Quiet
  <2>1. CASE \E u \in User : Focus(u) \/ Blur(u)
    BY <2>1 DEF Focus, Blur, messages, counters, list
  <2>2. CASE \E m \in Msg : Age(m)
    BY <2>2 DEF Age, counters, list
  <2>3. ASSUME NEW r \in Req, NEW u \in User,
               SendRead(r, u) \/ \E m \in Msg : DeleteRead(r, u, m)
        PROVE <1>1!1 /\ <1>1!2
    BY <1>0, <2>3 DEF SendRead, DeleteRead, Enter, Control, messages, counters, list
  <2>4. ASSUME NEW r \in Req, ReadFocus(r) PROVE <1>1!1 /\ <1>1!2
    BY <1>0, <2>4 DEF ReadFocus, Leave, Control, messages, counters, list
  <2>5. CASE UNCHANGED vars
    BY <2>5 DEF vars, messages, counters, list
  <2> QED BY <2>1, <2>2, <2>3, <2>4, <2>5
<1>2. /\ Kept("send") /\ Kept("rewrite") /\ Kept("notify") /\ Kept("sync")
      /\ Holds("clear") /\ Holds("look") /\ Holds("sync")
  BY <1>1 DEF Kept, Holds
<1> QED
  BY <1>1, <1>2, SameSend, SameTomb, SameBadge, SameBell, SamePreview DEF IInv

\* What a request does to itself leaves the others where they are.
Alone(r) == \A q \in Req : q # r => pc'[q] = pc[q] /\ req'[q] = req[q]

LEMMA AloneFacts ==
  ASSUME NEW r \in Req, Alone(r)
  PROVE  \A step : /\ pc'[r] # step => Kept(step)
                   /\ pc[r] # step => Holds(step)
  BY DEF Alone, Kept, Holds

LEMMA BeginInv ==
  ASSUME IInv, NEW r \in Req, NEW n \in Msg, SendBegin(r, n)
  PROVE  SendInv' /\ TombInv' /\ BadgeInv' /\ BellInv' /\ PreviewInv'
<1>0. Control /\ Data /\ \A q \in Req : Shape(q)
  BY SplitType DEF IInv, TypeInv
<1>1. /\ pc[r] = "begin" /\ req[r].user \in User
      /\ sender[n] = None
      /\ sender' = [sender EXCEPT ![n] = req[r].user]
      /\ pc'[r] = "send" /\ req'[r].msg = n
      /\ Alone(r)
      /\ UNCHANGED <<sent, text, deleted, aged, raced, counters, list, active>>
  BY <1>0 DEF SendBegin, Shape, Control, Request, Alone
<1>2. \A m \in Msg : m # n => sender'[m] = sender[m]
  BY <1>0, <1>1 DEF Data
<1>3. sender'[n] # None
  BY <1>0, <1>1, NoneFresh DEF Data
<1>4. n \notin sent /\ \A q \in Req : pc[q] = "send" => req[q].msg # n /\ req[q].msg \in Msg
  BY <1>0, <1>1 DEF IInv, SendInv, Shape
<1>5. SendInv'
  <2>1. \A m \in sent' : sender'[m] # None
    BY <1>0, <1>1, <1>2, <1>4 DEF IInv, SendInv, Data
  <2>2. \A q \in Req : q # r /\ pc'[q] = "send" =>
            pc[q] = "send" /\ req'[q].msg = req[q].msg
    BY <1>1 DEF Alone
  <2>3. \A q \in Req : pc'[q] = "send" => sender'[req'[q].msg] # None /\ req'[q].msg \notin sent'
    BY <1>1, <1>2, <1>3, <1>4, <2>2 DEF IInv, SendInv
  <2>4. ASSUME NEW p \in Req, NEW q \in Req, p # q, pc'[p] = "send", pc'[q] = "send"
        PROVE req'[p].msg # req'[q].msg
    BY <1>1, <1>4, <2>2, <2>4 DEF IInv, SendInv
  <2> QED BY <2>1, <2>3, <2>4 DEF SendInv
<1>6. \A u \in User : Unseen(u)' = Unseen(u)
  <2>1. \A m \in sent : sender'[m] = sender[m]
    BY <1>0, <1>2, <1>4 DEF Data
  <2> QED BY <1>1, <2>1 DEF Unseen, counters
<1>7. /\ Kept("rewrite") /\ Kept("notify") /\ Kept("sync")
      /\ Holds("clear") /\ Holds("look") /\ Holds("sync")
  BY <1>1, AloneFacts
<1>8. TombInv' /\ PreviewInv'
  BY <1>1, <1>7, SameTomb, SamePreview DEF IInv, list
<1>9. BadgeInv'
  BY <1>1, <1>6 DEF IInv, BadgeInv, BadgeIsExact, counters
<1>10. BellInv'
  <2>1. BellIsUnread'
    BY <1>1, <1>6, <1>7, KeepBell DEF IInv, BellInv, counters
  <2> QED BY <1>1, <1>7, <2>1 DEF IInv, BellInv, Kept, counters
<1> QED BY <1>5, <1>8, <1>9, <1>10

LEMMA WriteInv ==
  ASSUME IInv, NEW r \in Req, SendWrite(r)
  PROVE  SendInv' /\ TombInv' /\ BadgeInv' /\ BellInv' /\ PreviewInv'
<1> DEFINE n == req[r].msg
<1>0. Control /\ Data /\ \A q \in Req : Shape(q)
  BY SplitType DEF IInv, TypeInv
<1>1. /\ pc[r] = "send" /\ pc'[r] = "notify" /\ req' = req /\ Alone(r)
      /\ sent' = sent \cup {n}
      /\ text' = [text EXCEPT ![n] = "first"]
      /\ preview' = [msg |-> n, text |-> "first"]
      /\ unread' = [u \in User |-> IF u \in Others(sender[n]) \ req[r].seeing
                                   THEN unread[u] + 1 ELSE unread[u]]
      /\ live' = [live EXCEPT ![n] = req[r].seeing]
      /\ UNCHANGED <<sender, deleted, raced, bell, seen, belated>>
  BY <1>0 DEF SendWrite, Goto, Control, Alone
<1>2. n \in Msg /\ n \notin sent /\ sender[n] # None /\ n \notin deleted
  BY <1>0, <1>1 DEF IInv, SendInv, Shape, Data
<1> HIDE DEF n
<1>3. /\ Kept("send") /\ Kept("rewrite") /\ Kept("sync")
      /\ Holds("clear") /\ Holds("look") /\ Holds("sync")
  BY <1>1, AloneFacts
<1>4. SendInv'
  <2>1. \A q \in Req : pc'[q] = "send" => q # r /\ pc[q] = "send" /\ req'[q].msg # n
    BY <1>1, <1>3 DEF n, Kept, IInv, SendInv
  <2> QED BY <1>1, <1>2, <2>1 DEF IInv, SendInv
<1>5. TombInv'
  BY <1>0, <1>1, <1>2, <1>3 DEF IInv, TombInv, TombstonesEmpty, Kept, Data
<1>6. \A u \in User : Unseen(u)' = IF u \in Others(sender[n]) \ req[r].seeing
                                   THEN Unseen(u) \cup {n} ELSE Unseen(u)
  <2>1. \A m \in Msg : live'[m] = IF m = n THEN req[r].seeing ELSE live[m]
    BY <1>0, <1>1, <1>2 DEF Data
  <2> QED BY <1>0, <1>1, <1>2, <2>1 DEF Unseen, Others, Data, IInv, BadgeInv
<1>7. BadgeInv'
  <2>1. ASSUME NEW u \in User PROVE unread'[u] = Cardinality(Unseen(u)')
    <3>1. unread[u] = Cardinality(Unseen(u)) /\ n \notin Unseen(u)
      BY <1>2 DEF IInv, BadgeInv, BadgeIsExact, Unseen
    <3>2. IsFiniteSet(Unseen(u))
      <4>1. IsFiniteSet(Msg)
        BY FS_Interval, BoundAssumption DEF Msg
      <4>2. Unseen(u) \in SUBSET Msg
        BY <1>0 DEF Unseen, Data
      <4> QED BY <4>1, <4>2, FS_Subset
    <3>3. Cardinality(Unseen(u) \cup {n}) = Cardinality(Unseen(u)) + 1
      BY <3>1, <3>2, FS_AddElement
    <3> QED BY <1>1, <1>6, <3>1, <3>3
  <2> QED BY <1>1, <2>1 DEF BadgeInv, BadgeIsExact, IInv
<1>8. BellInv'
  <2>1. BellIsUnread'
    <3>1. \A u \in User : Unseen(u) \subseteq Unseen(u)'
      BY <1>6
    <3> QED BY <1>1, <1>3, <3>1, KeepBell DEF IInv, BellInv
  <2>2. ASSUME NEW q \in Req, pc'[q] = "notify"
        PROVE /\ live'[req'[q].msg] = req'[q].seeing
              /\ \A u \in User : req'[q].msg \in seen'[u] => req'[q].msg \in belated'[u]
    <3>1. CASE q = r
      BY <1>0, <1>1, <1>2, <3>1 DEF n, Data, IInv, BadgeInv
    <3>2. CASE q # r
      <4>1. pc[q] = "notify" /\ req[q].msg \in sent
        BY <1>0, <1>1, <2>2, <3>2 DEF Alone, Shape
      <4>2. req[q].msg # n /\ req[q].msg \in Msg
        BY <1>0, <1>2, <4>1 DEF Data
      <4>3. live'[req[q].msg] = live[req[q].msg]
        BY <1>0, <1>1, <1>2, <4>2 DEF Data
      <4> QED BY <1>1, <4>1, <4>3 DEF IInv, BellInv
    <3> QED BY <3>1, <3>2
  <2> QED BY <2>1, <2>2 DEF BellInv
<1>9. PreviewInv'
  <2>1. ASSUME ~drifted' PROVE preview' = Newest'
    <3>1. \A m \in Live : m <= n
      <4>1. \A m \in Live : ~(m > n)
        BY <2>1 DEF SendWrite, n
      <4>2. \A m \in Live : m \in Nat
        BY <1>0 DEF Live, Data, Msg
      <4> QED BY <1>2, <4>1, <4>2 DEF Msg
    <3>2. Live' = Live \cup {n}
      BY <1>1, <1>2 DEF Live
    <3>3. Live' \in SUBSET Msg /\ Live' # {}
      BY <1>0, <1>2, <3>2 DEF Live, Data
    <3> DEFINE L == Live'
    <3> HIDE DEF L
    <3>4. L \in SUBSET Msg /\ L # {} /\ L = Live \cup {n}
      BY <3>2, <3>3 DEF L
    <3>5. Max(L) = n
      <4>1. Max(L) \in L /\ \A m \in L : m <= Max(L)
        BY <3>4, MaxFact
      <4>2. Max(L) \in Msg /\ n <= Max(L) /\ Max(L) <= n
        BY <1>2, <3>1, <3>4, <4>1 DEF Msg
      <4> QED BY <1>2, <4>2 DEF Msg
    <3>6. Newest' = [msg |-> Max(Live'), text |-> text'[Max(Live')]]
      BY <3>3 DEF Newest
    <3>7. text'[n] = "first"
      BY <1>0, <1>1, <1>2 DEF Data
    <3> QED BY <1>1, <3>5, <3>6, <3>7 DEF L
  <2>2. \A q \in Req : pc'[q] = "sync" => q \in behind'
    BY <1>3 DEF SendWrite, Overtake, Kept
  <2> QED BY <2>1, <2>2 DEF PreviewInv, PreviewIsNewest
<1> QED BY <1>4, <1>5, <1>7, <1>8, <1>9

LEMMA NotifyInv ==
  ASSUME IInv, NEW r \in Req, Notify(r)
  PROVE  SendInv' /\ TombInv' /\ BadgeInv' /\ BellInv' /\ PreviewInv'
<1> DEFINE n == req[r].msg
<1>0. Control /\ Data /\ \A q \in Req : Shape(q)
  BY SplitType DEF IInv, TypeInv
<1>1. /\ pc[r] = "notify" /\ pc'[r] = "idle" /\ Alone(r)
      /\ bell' = [u \in User |-> IF u \in Others(sender[n]) \ req[r].seeing
                                 THEN bell[u] \cup {n} ELSE bell[u]]
      /\ UNCHANGED <<messages, unread, live, seen, belated, list>>
  BY <1>0, LeaveFacts DEF Notify, Alone
<1>2. /\ Kept("send") /\ Kept("rewrite") /\ Kept("sync") /\ Kept("notify")
      /\ Holds("clear") /\ Holds("look") /\ Holds("sync")
  BY <1>1, AloneFacts
<1>3. SendInv' /\ TombInv' /\ BadgeInv' /\ PreviewInv'
  BY <1>1, <1>2, SameSend, SameTomb, SameBadge, SamePreview DEF IInv, messages, list
<1>4. \A u \in User : Unseen(u)' = Unseen(u)
  BY <1>1 DEF Unseen, messages
<1>5. ASSUME NEW u \in User, NEW m \in bell'[u]
      PROVE  \/ m \in Unseen(u)' \cup belated'[u]
             \/ \E q \in Req : pc'[q] = "clear" /\ req'[q].user = u
  <2>1. CASE m \in bell[u]
    <3>1. CASE m \in Unseen(u) \cup belated[u]
      BY <1>1, <1>4, <3>1
    <3>2. ASSUME NEW q \in Req, pc[q] = "clear", req[q].user = u
          PROVE  pc'[q] = "clear" /\ req'[q].user = u
      BY <1>2, <3>2 DEF Holds
    <3> QED BY <2>1, <3>1, <3>2 DEF IInv, BellInv, BellIsUnread
  <2>2. CASE m \notin bell[u]
    <3>1. m = n /\ u # sender[n] /\ u \notin req[r].seeing
      BY <1>1, <2>2 DEF Others
    <3>2. n \in sent /\ live[n] = req[r].seeing /\ (n \in seen[u] => n \in belated[u])
      BY <1>0, <1>1 DEF Shape, IInv, BellInv
    <3>3. n \in Unseen(u) \cup belated[u]
      BY <3>1, <3>2 DEF Unseen
    <3> QED BY <1>1, <1>4, <3>1, <3>3
  <2> QED BY <2>1, <2>2
<1>6. BellInv'
  BY <1>1, <1>2, <1>5 DEF BellInv, BellIsUnread, Kept, IInv
<1> QED BY <1>3, <1>6

LEMMA ReadInv ==
  ASSUME IInv, NEW r \in Req, NEW u \in User, Read(r, u)
  PROVE  SendInv' /\ TombInv' /\ BadgeInv' /\ BellInv' /\ PreviewInv'
<1>0. Control /\ Data /\ \A q \in Req : Shape(q)
  BY SplitType DEF IInv, TypeInv
<1> DEFINE rec == Ask(u, None, {}, Nothing)
<1>1. "clear" \in PC /\ rec \in Request /\ rec.user = u
  BY AskType DEF PC
<1> HIDE DEF rec
<1>2. /\ Enter(r, "clear", rec)
      /\ unread' = [unread EXCEPT ![u] = 0]
      /\ seen' = [seen EXCEPT ![u] = sent]
      /\ belated' = [belated EXCEPT ![u] =
             @ \cup {m \in sent : \E q \in Req : pc[q] = "notify" /\ req[q].msg = m}]
      /\ UNCHANGED <<messages, bell, live, list, active>>
  BY DEF Read, rec
<1>3. pc[r] = "idle" /\ pc'[r] = "clear" /\ req'[r].user = u /\ Alone(r)
  BY <1>0, <1>1, <1>2, EnterFacts DEF Alone
<1>4. /\ Kept("send") /\ Kept("rewrite") /\ Kept("sync") /\ Kept("notify")
      /\ Holds("clear") /\ Holds("look") /\ Holds("sync")
  BY <1>3, AloneFacts
<1>5. SendInv' /\ TombInv' /\ PreviewInv'
  BY <1>2, <1>4, SameSend, SameTomb, SamePreview DEF IInv, messages, list
<1>6. Unseen(u)' = {} /\ \A v \in User : v # u => Unseen(v)' = Unseen(v)
  BY <1>0, <1>2 DEF Unseen, messages, Data
<1>7. BadgeInv'
  <2>1. ASSUME NEW v \in User PROVE unread'[v] = Cardinality(Unseen(v)') /\ seen'[v] \subseteq sent
    <3>1. CASE v = u
      BY <1>0, <1>2, <1>6, <3>1, FS_EmptySet DEF Data
    <3>2. CASE v # u
      <4>1. unread'[v] = unread[v] /\ seen'[v] = seen[v]
        BY <1>0, <1>2, <3>2 DEF Data
      <4> QED BY <1>6, <3>2, <4>1 DEF IInv, BadgeInv, BadgeIsExact
    <3> QED BY <3>1, <3>2
  <2>2. sent' = sent
    BY <1>2 DEF messages
  <2> QED BY <2>1, <2>2 DEF BadgeInv, BadgeIsExact
<1>8. BellInv'
  <2>1. \A v \in User : v # u => belated'[v] = belated[v] /\ seen'[v] = seen[v]
    BY <1>0, <1>2 DEF Data
  <2>2. ASSUME NEW v \in User, NEW m \in bell'[v]
        PROVE  \/ m \in Unseen(v)' \cup belated'[v]
               \/ \E q \in Req : pc'[q] = "clear" /\ req'[q].user = v
    <3>1. CASE v = u
      BY <1>3, <3>1
    <3>2. CASE v # u
      <4>0. m \in bell[v]
        BY <1>2
      <4>1. CASE m \in Unseen(v) \cup belated[v]
        BY <1>6, <2>1, <3>2, <4>1
      <4>2. ASSUME NEW q \in Req, pc[q] = "clear", req[q].user = v
            PROVE  pc'[q] = "clear" /\ req'[q].user = v
        BY <1>4, <4>2 DEF Holds
      <4> QED BY <4>0, <4>1, <4>2 DEF IInv, BellInv, BellIsUnread
    <3> QED BY <3>1, <3>2
  <2>3. ASSUME NEW q \in Req, pc'[q] = "notify"
        PROVE /\ live'[req'[q].msg] = req'[q].seeing
              /\ \A v \in User : req'[q].msg \in seen'[v] => req'[q].msg \in belated'[v]
    <3>1. pc[q] = "notify" /\ req'[q] = req[q]
      BY <1>4, <2>3 DEF Kept
    <3>2. req[q].msg \in sent
      BY <1>0, <3>1 DEF Shape
    <3>3. req[q].msg \in belated'[u]
      BY <1>0, <1>2, <3>1, <3>2 DEF Data
    <3>4. live' = live
      BY <1>2
    <3> QED BY <2>1, <3>1, <3>3, <3>4 DEF IInv, BellInv
  <2> QED BY <2>2, <2>3 DEF BellInv, BellIsUnread
<1> QED BY <1>5, <1>7, <1>8

LEMMA ClearInv ==
  ASSUME IInv, NEW r \in Req, ClearBell(r)
  PROVE  SendInv' /\ TombInv' /\ BadgeInv' /\ BellInv' /\ PreviewInv'
<1> DEFINE u == req[r].user
<1>0. Control /\ Data /\ \A q \in Req : Shape(q)
  BY SplitType DEF IInv, TypeInv
<1>1. /\ pc[r] = "clear" /\ pc'[r] = "focus" /\ req' = req /\ Alone(r)
      /\ u \in User /\ bell' = [bell EXCEPT ![u] = {}]
      /\ UNCHANGED <<messages, unread, live, seen, belated, list, active>>
  BY <1>0 DEF ClearBell, Goto, Alone, Control, Shape
<1>2. /\ Kept("send") /\ Kept("rewrite") /\ Kept("sync") /\ Kept("notify")
      /\ Holds("look") /\ Holds("sync")
  BY <1>1, AloneFacts
<1>3. SendInv' /\ TombInv' /\ BadgeInv' /\ PreviewInv'
  BY <1>1, <1>2, SameSend, SameTomb, SameBadge, SamePreview DEF IInv, messages, list
<1>4. \A v \in User : Unseen(v)' = Unseen(v)
  BY <1>1 DEF Unseen, messages
<1>5. ASSUME NEW v \in User, NEW m \in bell'[v]
      PROVE  \/ m \in Unseen(v)' \cup belated'[v]
             \/ \E q \in Req : pc'[q] = "clear" /\ req'[q].user = v
  <2>1. v # u /\ m \in bell[v]
    BY <1>0, <1>1 DEF Data
  <2>2. CASE m \in Unseen(v) \cup belated[v]
    BY <1>1, <1>4, <2>2
  <2>3. ASSUME NEW q \in Req, pc[q] = "clear", req[q].user = v
        PROVE  pc'[q] = "clear" /\ req'[q].user = v
    BY <1>1, <2>1, <2>3 DEF Alone
  <2> QED BY <2>1, <2>2, <2>3 DEF IInv, BellInv, BellIsUnread
<1>6. BellInv'
  BY <1>1, <1>2, <1>5 DEF BellInv, BellIsUnread, Kept, IInv
<1> QED BY <1>3, <1>6

LEMMA AbortInv ==
  ASSUME IInv, NEW r \in Req, Abort(r)
  PROVE  SendInv' /\ TombInv' /\ BadgeInv' /\ BellInv' /\ PreviewInv'
<1>0. Control /\ Data /\ \A q \in Req : Shape(q)
  BY SplitType DEF IInv, TypeInv
<1>1. /\ pc'[r] = "idle" /\ Alone(r)
      /\ drifted' = (drifted \/ pc[r] \in {"look", "sync"})
      /\ behind' = behind \ {r}
      /\ belated' = [u \in User |-> IF pc[r] = "clear" /\ req[r].user = u
                                    THEN belated[u] \cup bell[u] ELSE belated[u]]
      /\ UNCHANGED <<messages, unread, bell, live, seen, preview>>
  BY <1>0, LeaveFacts DEF Abort, Alone
<1>2. Kept("send") /\ Kept("rewrite") /\ Kept("sync") /\ Kept("notify")
  BY <1>1, AloneFacts
<1>3. SendInv' /\ TombInv' /\ BadgeInv'
  BY <1>1, <1>2, SameSend, SameTomb, SameBadge DEF IInv, messages
<1>4. \A v \in User : Unseen(v)' = Unseen(v) /\ belated[v] \subseteq belated'[v]
  BY <1>1 DEF Unseen, messages
<1>5. ASSUME NEW v \in User, NEW m \in bell'[v]
      PROVE  \/ m \in Unseen(v)' \cup belated'[v]
             \/ \E q \in Req : pc'[q] = "clear" /\ req'[q].user = v
  <2>1. m \in bell[v]
    BY <1>1
  <2>2. CASE m \in Unseen(v) \cup belated[v]
    BY <1>4, <2>2
  <2>3. ASSUME NEW q \in Req, pc[q] = "clear", req[q].user = v
        PROVE  m \in belated'[v] \/ (pc'[q] = "clear" /\ req'[q].user = v)
    <3>1. CASE q = r
      BY <1>1, <2>1, <2>3, <3>1
    <3>2. CASE q # r
      BY <1>1, <2>3, <3>2 DEF Alone
    <3> QED BY <3>1, <3>2
  <2> QED BY <2>1, <2>2, <2>3 DEF IInv, BellInv, BellIsUnread
<1>6. BellInv'
  BY <1>1, <1>2, <1>4, <1>5 DEF BellInv, BellIsUnread, Kept, IInv
<1>7. PreviewInv'
  <2>1. Newest' = Newest
    BY <1>1 DEF Newest, Live, messages
  <2>2. Settled' /\ ~drifted' => Settled /\ ~drifted
    BY <1>1 DEF Settled, Alone
  <2>3. PreviewIsNewest'
    BY <1>1, <2>1, <2>2 DEF IInv, PreviewInv, PreviewIsNewest
  <2>4. \A q \in Req : pc'[q] = "sync" /\ q \notin behind' =>
            pc[q] = "sync" /\ q \notin behind /\ req'[q] = req[q]
    BY <1>1, <1>2 DEF Kept
  <2> QED BY <2>1, <2>3, <2>4 DEF IInv, PreviewInv
<1> QED BY <1>3, <1>6, <1>7

LEMMA TakeDownInv ==
  ASSUME IInv, NEW d \in Msg, TakeDown(d)
  PROVE  SendInv' /\ TombInv' /\ BadgeInv' /\ BellInv' /\ PreviewInv'
<1>0. Control /\ Data /\ \A q \in Req : Shape(q)
  BY SplitType DEF IInv, TypeInv
<1>1. /\ d \in sent
      /\ deleted' = deleted \cup {d}
      /\ text' = [text EXCEPT ![d] = "none"]
      /\ raced' = raced \cup {x \in {d} : \E q \in Req : pc[q] = "rewrite" /\ req[q].msg = x}
      /\ behind' = behind \cup {q \in Req : pc[q] = "sync"}
      /\ drifted' = (drifted \/ preview.msg = d)
      /\ UNCHANGED <<sender, sent, aged, counters, preview, pc, req>>
  BY DEF TakeDown, Overtake
<1>2. /\ Kept("send") /\ Kept("notify") /\ Holds("clear")
  BY <1>1 DEF Kept, Holds
<1>3. SendInv' /\ BadgeInv' /\ BellInv'
  BY <1>1, <1>2, SameSend, SameBadge, SameBell DEF IInv, counters
<1>4. TombInv'
  BY <1>0, <1>1 DEF IInv, TombInv, TombstonesEmpty, Data
<1>5. PreviewInv'
  <2>1. ASSUME Settled', ~drifted' PROVE preview' = Newest'
    <3>1. preview = Newest /\ preview.msg # d
      BY <1>1, <2>1 DEF IInv, PreviewInv, PreviewIsNewest, Settled
    <3>2. Live' = Live \ {d} /\ Live \in SUBSET Msg
      BY <1>0, <1>1 DEF Live, Data
    <3>3. CASE Live = {}
      BY <1>1, <3>1, <3>2, <3>3 DEF Newest
    <3>4. CASE Live # {}
      <4> DEFINE L == Live'  M == Max(Live)
      <4>1. M \in Live /\ \A m \in Live : m <= M
        BY <3>2, <3>4, MaxFact
      <4>2. M # d
        BY <3>1, <3>4 DEF Newest
      <4>3. L \in SUBSET Msg /\ M \in L /\ \A m \in L : m <= M
        BY <3>2, <4>1, <4>2
      <4> HIDE DEF L, M
      <4>4. Max(L) = M
        <5>1. Max(L) \in L /\ \A m \in L : m <= Max(L)
          BY <4>3, MaxFact
        <5>2. Max(L) \in Msg /\ M \in Msg /\ M <= Max(L) /\ Max(L) <= M
          BY <4>3, <5>1
        <5> QED BY <5>2 DEF Msg
      <4>5. Newest' = [msg |-> Max(L), text |-> text'[Max(L)]]
        BY <4>3 DEF Newest, L
      <4>6. M \in Msg /\ text'[M] = text[M]
        BY <1>0, <1>1, <4>2, <4>3 DEF Data
      <4>7. Newest = [msg |-> M, text |-> text[M]]
        BY <3>4 DEF Newest, M
      <4> QED BY <1>1, <3>1, <4>4, <4>5, <4>6, <4>7
    <3> QED BY <3>3, <3>4
  <2>2. \A q \in Req : pc'[q] = "sync" => q \in behind'
    BY <1>1
  <2> QED BY <2>1, <2>2 DEF PreviewInv, PreviewIsNewest
<1> QED BY <1>3, <1>4, <1>5

LEMMA EditInv ==
  ASSUME IInv, NEW r \in Req, NEW u \in User, NEW m \in Msg, EditRead(r, u, m)
  PROVE  SendInv' /\ TombInv' /\ BadgeInv' /\ BellInv' /\ PreviewInv'
<1>0. Control
  BY SplitType DEF IInv, TypeInv
<1> DEFINE rec == Ask(u, m, {}, Nothing)
<1>1. "rewrite" \in PC /\ rec \in Request /\ rec.msg = m
  BY AskType DEF PC
<1> HIDE DEF rec
<1>2. m \notin deleted /\ Enter(r, "rewrite", rec) /\ UNCHANGED <<messages, counters, list>>
  BY DEF EditRead, Mutable, Live, rec
<1>3. pc[r] = "idle" /\ pc'[r] = "rewrite" /\ req'[r].msg = m /\ Alone(r)
  BY <1>0, <1>1, <1>2, EnterFacts DEF Alone
<1>4. /\ Kept("send") /\ Kept("sync") /\ Kept("notify")
      /\ Holds("clear") /\ Holds("look") /\ Holds("sync")
  BY <1>3, AloneFacts
<1>5. SendInv' /\ BadgeInv' /\ BellInv' /\ PreviewInv'
  BY <1>2, <1>4, SameSend, SameBadge, SameBell, SamePreview DEF IInv, messages, counters, list
<1>6. TombInv'
  BY <1>2, <1>3 DEF IInv, TombInv, TombstonesEmpty, Alone, messages
<1> QED BY <1>5, <1>6

LEMMA EraseInv ==
  ASSUME IInv, NEW r \in Req, Erase(r)
  PROVE  SendInv' /\ TombInv' /\ BadgeInv' /\ BellInv' /\ PreviewInv'
<1> DEFINE d == req[r].msg
<1>0. Control /\ Data /\ \A q \in Req : Shape(q)
  BY SplitType DEF IInv, TypeInv
<1>1. /\ pc[r] = "erase" /\ pc'[r] = "look" /\ req' = req /\ Alone(r) /\ d \in sent
      /\ deleted' = deleted \cup {d}
      /\ text' = [text EXCEPT ![d] = "none"]
      /\ raced' = raced \cup {x \in {d} : \E q \in Req : pc[q] = "rewrite" /\ req[q].msg = x}
      /\ behind' = behind \cup {q \in Req : pc[q] = "sync"}
      /\ UNCHANGED <<sender, sent, counters>>
  BY <1>0 DEF Erase, Overtake, Goto, Control, Shape, Alone
<1>2. /\ Kept("send") /\ Kept("notify") /\ Kept("sync") /\ Kept("rewrite") /\ Holds("clear")
  BY <1>1, AloneFacts
<1>3. SendInv' /\ BadgeInv' /\ BellInv'
  BY <1>1, <1>2, SameSend, SameBadge, SameBell DEF IInv, counters
<1>4. TombInv'
  BY <1>0, <1>1, <1>2 DEF IInv, TombInv, TombstonesEmpty, Data, Kept
<1>5. PreviewInv'
  BY <1>1, <1>2 DEF PreviewInv, PreviewIsNewest, Settled, Kept
<1> QED BY <1>3, <1>4, <1>5

LEMMA RewriteInv ==
  ASSUME IInv, NEW r \in Req, Rewrite(r)
  PROVE  SendInv' /\ TombInv' /\ BadgeInv' /\ BellInv' /\ PreviewInv'
<1> DEFINE m == req[r].msg
<1>0. Control /\ Data /\ \A q \in Req : Shape(q)
  BY SplitType DEF IInv, TypeInv
<1>1. /\ pc[r] = "rewrite" /\ pc'[r] = "look" /\ req' = req /\ Alone(r) /\ m \in Msg
      /\ text' = [text EXCEPT ![m] = "edited"]
      /\ behind' = behind \cup {q \in Req : pc[q] = "sync"}
      /\ UNCHANGED <<sender, sent, deleted, raced, counters>>
  BY <1>0 DEF Rewrite, Overtake, Goto, Control, Shape, Data, Alone
<1>2. /\ Kept("send") /\ Kept("notify") /\ Kept("sync") /\ Kept("rewrite") /\ Holds("clear")
  BY <1>1, AloneFacts
<1>3. SendInv' /\ BadgeInv' /\ BellInv'
  BY <1>1, <1>2, SameSend, SameBadge, SameBell DEF IInv, counters
<1>4. TombInv'
  <2>1. m \in deleted => m \in raced
    BY <1>1 DEF IInv, TombInv
  <2> QED BY <1>0, <1>1, <1>2, <2>1 DEF IInv, TombInv, TombstonesEmpty, Data, Kept
<1>5. PreviewInv'
  BY <1>1, <1>2 DEF PreviewInv, PreviewIsNewest, Settled, Kept
<1> QED BY <1>3, <1>4, <1>5

LEMMA SyncReadInv ==
  ASSUME IInv, NEW r \in Req, SyncRead(r)
  PROVE  SendInv' /\ TombInv' /\ BadgeInv' /\ BellInv' /\ PreviewInv'
<1>0. Control
  BY SplitType DEF IInv, TypeInv
<1>1. /\ pc[r] = "look" /\ pc'[r] = "sync" /\ req'[r].preview = Newest /\ Alone(r)
      /\ behind' = behind \ {r}
      /\ UNCHANGED <<messages, counters>>
  BY <1>0 DEF SyncRead, Control, Request, Alone
<1>2. /\ Kept("send") /\ Kept("notify") /\ Kept("rewrite") /\ Holds("clear")
  BY <1>1, AloneFacts
<1>3. SendInv' /\ TombInv' /\ BadgeInv' /\ BellInv'
  BY <1>1, <1>2, SameSend, SameTomb, SameBadge, SameBell DEF IInv, messages, counters
<1>4. Newest' = Newest
  BY <1>1 DEF Newest, Live, messages
<1>5. PreviewInv'
  <2>1. \A q \in Req : pc'[q] = "sync" /\ q \notin behind' => req'[q].preview = Newest
    BY <1>1 DEF IInv, PreviewInv, Alone
  <2> QED BY <1>1, <1>4, <2>1 DEF PreviewInv, PreviewIsNewest, Settled
<1> QED BY <1>3, <1>5

LEMMA SyncWriteInv ==
  ASSUME IInv, NEW r \in Req, SyncWrite(r)
  PROVE  SendInv' /\ TombInv' /\ BadgeInv' /\ BellInv' /\ PreviewInv'
<1>0. Control
  BY SplitType DEF IInv, TypeInv
<1>1. /\ pc[r] = "sync" /\ pc'[r] = "idle" /\ Alone(r)
      /\ preview' = req[r].preview
      /\ drifted' = (r \in behind)
      /\ behind' = behind \ {r}
      /\ UNCHANGED <<messages, counters>>
  BY <1>0, LeaveFacts DEF SyncWrite, Alone
<1>2. Kept("send") /\ Kept("notify") /\ Kept("rewrite") /\ Kept("sync") /\ Holds("clear")
  BY <1>1, AloneFacts
<1>3. SendInv' /\ TombInv' /\ BadgeInv' /\ BellInv'
  BY <1>1, <1>2, SameSend, SameTomb, SameBadge, SameBell DEF IInv, messages, counters
<1>4. Newest' = Newest
  BY <1>1 DEF Newest, Live, messages
<1>5. PreviewInv'
  <2>1. ~drifted' => preview' = Newest
    BY <1>1 DEF IInv, PreviewInv
  <2>2. \A q \in Req : pc'[q] = "sync" /\ q \notin behind' => req'[q].preview = Newest
    BY <1>1, <1>2 DEF IInv, PreviewInv, Kept
  <2> QED BY <1>4, <2>1, <2>2 DEF PreviewInv, PreviewIsNewest
<1> QED BY <1>3, <1>5

LEMMA NextInv == IInv /\ [Next]_vars => IInv'
<1> SUFFICES ASSUME IInv, [Next]_vars
             PROVE  SendInv' /\ TombInv' /\ BadgeInv' /\ BellInv' /\ PreviewInv'
  BY NextType DEF IInv
<1>1. ASSUME NEW r \in Req, NEW n \in Msg, SendBegin(r, n)
      PROVE  SendInv' /\ TombInv' /\ BadgeInv' /\ BellInv' /\ PreviewInv'
  BY <1>1, BeginInv
<1>2. ASSUME NEW r \in Req, NEW u \in User, Read(r, u)
      PROVE  SendInv' /\ TombInv' /\ BadgeInv' /\ BellInv' /\ PreviewInv'
  BY <1>2, ReadInv
<1>3. ASSUME NEW r \in Req, NEW u \in User, NEW m \in Msg, EditRead(r, u, m)
      PROVE  SendInv' /\ TombInv' /\ BadgeInv' /\ BellInv' /\ PreviewInv'
  BY <1>3, EditInv
<1>4. ASSUME NEW m \in Msg, TakeDown(m)
      PROVE  SendInv' /\ TombInv' /\ BadgeInv' /\ BellInv' /\ PreviewInv'
  BY <1>4, TakeDownInv
<1>5. ASSUME NEW r \in Req, \/ SendWrite(r) \/ Notify(r) \/ ClearBell(r) \/ Abort(r)
                            \/ Erase(r) \/ Rewrite(r) \/ SyncRead(r) \/ SyncWrite(r)
      PROVE  SendInv' /\ TombInv' /\ BadgeInv' /\ BellInv' /\ PreviewInv'
  BY <1>5, WriteInv, NotifyInv, ClearInv, AbortInv, EraseInv, RewriteInv, SyncReadInv,
     SyncWriteInv
<1> QED BY <1>1, <1>2, <1>3, <1>4, <1>5, Calm DEF Next

LEMMA Invariant == Spec => []IInv
  BY InitInv, NextInv, PTL DEF Spec

-----------------------------------------------------------------------------
\* A message deleted for everybody while no edition of it was in flight is empty
\* and stays so, whatever is sent, edited or taken down afterwards (softDeleteMessage,
\* editMessage). Of one deleted during an edition it says nothing.
THEOREM Tombstones == Spec => []TombstonesEmpty
<1>1. IInv => TombstonesEmpty
  BY DEF IInv, TombInv
<1> QED BY <1>1, Invariant, PTL

\* The badge of every member is the number of messages that they have not read
\* and were not looking at.
THEOREM BadgesAreExact == Spec => []BadgeIsExact
<1>1. IInv => BadgeIsExact
  BY DEF IInv, BadgeInv
<1> QED BY <1>1, Invariant, PTL

\* The bell announces nothing that was read, but for what was notified late.
THEOREM Bells == Spec => []BellIsUnread
<1>1. IInv => BellIsUnread
  BY DEF IInv, BellInv
<1> QED BY <1>1, Invariant, PTL

\* The preview is the newest live message, but for overtaken writers.
THEOREM PreviewsAreNewest == Spec => []PreviewIsNewest
<1>1. IInv => PreviewIsNewest
  BY DEF IInv, PreviewInv
<1> QED BY <1>1, Invariant, PTL

-----------------------------------------------------------------------------
(* The counters of a post.                                                   *)

\* A tap under way is that of a member, with an emoji; while nothing has crossed a
\* deletion, one deletion is under way at most, and all it has listed is still live.
FeedShape == \A r \in Req : postPc[r] = "like" => postReq[r].emoji \in Emoji
FeedListed ==
    ~clashed =>
        /\ \A q, r \in Req : q \in Feed!Deleting /\ r \in Feed!Deleting => q = r
        /\ \A r \in Feed!Deleting : postReq[r].ids \subseteq kept
FeedInv == Feed!TypeOK /\ FeedShape /\ FeedListed /\ Feed!CountsExact

FeedRequest == [user : User \cup {None}, emoji : Emoji \cup {None}, seen : Emoji \cup {None},
                comment : Feed!Comment \cup {None}, ids : SUBSET Feed!Comment]
Reacting == {u \in User : reaction[u] # None}

LEMMA FeedTypes ==
    /\ MaxComment \in Nat /\ IsFiniteSet(User) /\ IsFiniteSet(Feed!Comment)
    /\ Feed!Comment \subseteq Nat /\ None \notin User /\ None \notin Emoji /\ None \notin Feed!Comment
  <1>1. MaxComment \in Nat /\ IsFiniteSet(User)
    BY PartsAssumption, FeedCount DEF Feed!CommentAssumption
  <1>2. IsFiniteSet(Feed!Comment) /\ Feed!Comment \subseteq Nat
    BY <1>1, FS_Interval DEF Feed!Comment
  <1> QED
    BY <1>1, <1>2, PartsAssumption DEF Feed!NoneFresh

LEMMA AskFeed ==
    ASSUME NEW u \in User \cup {None}, NEW e \in Emoji \cup {None}, NEW s \in Emoji \cup {None},
           NEW c \in Feed!Comment \cup {None}, NEW i \in SUBSET Feed!Comment
    PROVE  Feed!Ask(u, e, s, c, i) \in FeedRequest
  BY Zenon DEF Feed!Ask, FeedRequest

\* One request moves on: the others are where they were.
LEMMA FeedGoto ==
    ASSUME Feed!TypeOK, NEW r \in Req, NEW step \in Feed!PC, NEW rec \in FeedRequest, Feed!Goto(r, step, rec)
    PROVE  /\ postPc' \in [Req -> Feed!PC] /\ postReq' \in [Req -> FeedRequest]
           /\ postPc'[r] = step /\ postReq'[r] = rec
           /\ \A q \in Req \ {r} : postPc'[q] = postPc[q] /\ postReq'[q] = postReq[q]
  BY DEF Feed!TypeOK, Feed!Goto, FeedRequest

LEMMA FeedLeave ==
    ASSUME Feed!TypeOK, NEW r \in Req, Feed!Leave(r)
    PROVE  /\ postPc' \in [Req -> Feed!PC] /\ postReq' \in [Req -> FeedRequest] /\ postPc'[r] = "idle"
           /\ \A q \in Req \ {r} : postPc'[q] = postPc[q] /\ postReq'[q] = postReq[q]
           /\ Feed!Deleting' = Feed!Deleting \ {r}
  <1>1. Feed!Blank \in FeedRequest /\ "idle" \in Feed!PC
    BY AskFeed DEF Feed!Blank, Feed!PC
  <1>2. Feed!Goto(r, "idle", Feed!Blank)
    BY DEF Feed!Leave
  <1>3. /\ postPc' \in [Req -> Feed!PC] /\ postReq' \in [Req -> FeedRequest] /\ postPc'[r] = "idle"
        /\ \A q \in Req \ {r} : postPc'[q] = postPc[q] /\ postReq'[q] = postReq[q]
    BY <1>1, <1>2, FeedGoto
  <1> QED
    BY <1>3 DEF Feed!Deleting

LEMMA FeedFields ==
    ASSUME Feed!TypeOK, NEW r \in Req
    PROVE  /\ postReq[r] \in FeedRequest
           /\ postReq[r].user \in User \cup {None} /\ postReq[r].emoji \in Emoji \cup {None}
           /\ postReq[r].comment \in Feed!Comment \cup {None} /\ postReq[r].ids \in SUBSET Feed!Comment
  <1>1. postReq[r] \in FeedRequest
    BY DEF Feed!TypeOK, FeedRequest
  <1> QED
    BY <1>1 DEF FeedRequest

LEMMA FeedFinite ==
    ASSUME Feed!TypeOK
    PROVE  /\ IsFiniteSet(kept) /\ Cardinality(kept) \in Nat /\ kept \subseteq Feed!Comment
           /\ IsFiniteSet(Reacting) /\ Cardinality(Reacting) \in Nat
           /\ rows \subseteq Feed!Comment
  <1>1. 1..made \subseteq Feed!Comment
    BY FeedTypes DEF Feed!TypeOK, Feed!Comment
  <1>2. kept \in SUBSET Feed!Comment /\ rows \in SUBSET Feed!Comment /\ Reacting \in SUBSET User
    BY <1>1 DEF Feed!TypeOK, Reacting
  <1>3. IsFiniteSet(kept) /\ IsFiniteSet(Reacting)
    BY <1>2, FeedTypes, FS_Subset
  <1> QED
    BY <1>2, <1>3, FS_CardinalityType

\* Counting what one element enters or leaves, and what a set takes away.
LEMMA Entered ==
    ASSUME NEW S, IsFiniteSet(S), NEW x, x \notin S, NEW T, T = S \cup {x}
    PROVE  Cardinality(T) = Cardinality(S) + 1
  BY FS_AddElement
LEMMA Left ==
    ASSUME NEW S, IsFiniteSet(S), NEW x \in S, NEW T, T = S \ {x}
    PROVE  Cardinality(T) = Cardinality(S) - 1
  BY FS_RemoveElement
LEMMA TakenAway ==
    ASSUME NEW S, IsFiniteSet(S), NEW X
    PROVE  /\ Cardinality(S) = Cardinality(S \ X) + Cardinality(S \cap X)
           /\ Cardinality(S \ X) \in Nat /\ Cardinality(S \cap X) \in Nat
  <1> DEFINE A == S \ X  B == S \cap X
  <1>1. A \in SUBSET S /\ B \in SUBSET S /\ A \cup B = S /\ A \cap B = {}
    OBVIOUS
  <1>2. S \ X = A /\ S \cap X = B
    OBVIOUS
  <1> HIDE DEF A, B
  <1>3. IsFiniteSet(A) /\ IsFiniteSet(B)
    BY <1>1, FS_Subset
  <1>4. Cardinality(A) \in Nat /\ Cardinality(B) \in Nat
    BY <1>3, FS_CardinalityType
  <1>5. Cardinality(A \cup B) = Cardinality(A) + Cardinality(B) - Cardinality(A \cap B)
    BY <1>3, FS_Union
  <1>6. Cardinality(A \cap B) = 0
    BY <1>1, FS_EmptySet
  <1>7. Cardinality(S) = Cardinality(A) + Cardinality(B) - Cardinality(A \cap B)
    BY <1>1, <1>5, Zenon
  <1>8. Cardinality(S) = Cardinality(A) + Cardinality(B)
    BY <1>4, <1>6, <1>7
  <1> QED
    BY <1>2, <1>4, <1>8

LEMMA FeedStarts == Feed!Init => FeedInv
  <1> SUFFICES ASSUME Feed!Init PROVE FeedInv
    OBVIOUS
  <1> USE DEF Feed!Init
  <1>1. Feed!TypeOK
    <2>1. Feed!Blank \in FeedRequest
      BY AskFeed DEF Feed!Blank
    <2>2. postReq \in [Req -> FeedRequest] /\ postPc \in [Req -> Feed!PC]
      BY <2>1, Zenon DEF Feed!PC
    <2>3. /\ author \in [Feed!Comment -> User \cup {None}] /\ parent \in [Feed!Comment -> Feed!Comment \cup {None}]
          /\ reaction \in [User -> Emoji \cup {None}]
      BY Zenon
    <2>4. made \in 0..MaxComment
      BY FeedTypes
    <2>5. /\ members \subseteq User /\ rows \subseteq 1..made /\ kept \subseteq rows
          /\ clashed \in BOOLEAN
      BY Zenon
    <2>6. likeCount \in Nat /\ lostLikes \in Nat /\ commentCount \in Int /\ lostComments \in Nat
      OBVIOUS
    <2> QED
      BY <2>2, <2>3, <2>4, <2>5, <2>6, Zenon DEF Feed!TypeOK, FeedRequest
  <1>2. FeedShape /\ FeedListed
    BY DEF FeedShape, FeedListed, Feed!Deleting
  <1>3. Reacting = {}
    BY DEF Reacting
  <1>4. Cardinality(Reacting) = 0 /\ Cardinality(kept) = 0
    BY <1>3, FS_EmptySet
  <1>5. Feed!CountsExact
    BY <1>4, FeedCount DEF Feed!CountsExact, Reacting
  <1> QED
    BY <1>1, <1>2, <1>5 DEF FeedInv

-----------------------------------------------------------------------------
\* A request that only goes on, without touching rows or counters.
LEMMA FeedQuiet ==
    ASSUME FeedInv, NEW r \in Req, NEW step \in Feed!PC, NEW rec \in FeedRequest,
           Feed!Goto(r, step, rec), UNCHANGED <<members, Feed!likes, made, rows, kept, author, parent>>,
           UNCHANGED <<commentCount, lostComments>>, clashed' \in BOOLEAN, clashed => clashed',
           step = "like" => rec.emoji \in Emoji,
           step \in {"children", "erase"} /\ ~clashed'
              => rec.ids \subseteq kept /\ Feed!Deleting \subseteq {r}
    PROVE  FeedInv'
  <1>0. Feed!TypeOK
    BY DEF FeedInv
  <1>1. /\ postPc' \in [Req -> Feed!PC] /\ postReq' \in [Req -> FeedRequest]
        /\ postPc'[r] = step /\ postReq'[r] = rec
        /\ \A q \in Req \ {r} : postPc'[q] = postPc[q] /\ postReq'[q] = postReq[q]
    BY <1>0, FeedGoto
  <1>2. Feed!TypeOK'
    BY <1>0, <1>1 DEF Feed!TypeOK, FeedRequest, Feed!likes
  <1>3. FeedShape'
    BY <1>1 DEF FeedInv, FeedShape
  <1>4. FeedListed'
    <2> SUFFICES ASSUME ~clashed'
                 PROVE  /\ \A q, u \in Req : q \in Feed!Deleting' /\ u \in Feed!Deleting' => q = u
                        /\ \A q \in Feed!Deleting' : postReq'[q].ids \subseteq kept'
      BY DEF FeedListed
    <2>1. /\ \A q, u \in Req : q \in Feed!Deleting /\ u \in Feed!Deleting => q = u
          /\ \A q \in Feed!Deleting : postReq[q].ids \subseteq kept
      BY DEF FeedInv, FeedListed
    <2>2. CASE step \in {"children", "erase"}
      <3>1. Feed!Deleting' = {r}
        BY <1>1, <2>2 DEF Feed!Deleting
      <3> QED
        BY <1>1, <2>2, <3>1
    <2>3. CASE step \notin {"children", "erase"}
      <3>1. Feed!Deleting' = Feed!Deleting \ {r}
        BY <1>1, <2>3 DEF Feed!Deleting
      <3>2. \A q \in Feed!Deleting' : postReq'[q] = postReq[q]
        BY <1>1, <3>1 DEF Feed!Deleting
      <3> QED
        BY <2>1, <3>1, <3>2
    <2> QED
      BY <2>2, <2>3
  <1>5. Feed!CountsExact'
    BY FeedCount DEF FeedInv, Feed!CountsExact, Feed!likes
  <1> QED
    BY <1>2, <1>3, <1>4, <1>5 DEF FeedInv

LEMMA FeedReads ==
    ASSUME FeedInv, NEW r \in Req, NEW u \in User,
           \/ \E e \in Emoji : Feed!LikeRead(r, u, e)
           \/ \E c \in Feed!Comment \cup {None} : Feed!ReplyRead(r, u, c)
           \/ \E c \in Feed!Comment : Feed!DeleteRead(r, u, c)
    PROVE  FeedInv'
  <1>0. Feed!TypeOK /\ clashed \in BOOLEAN
    BY DEF FeedInv, Feed!TypeOK
  <1>1. ASSUME NEW e \in Emoji, Feed!LikeRead(r, u, e) PROVE FeedInv'
    <2> DEFINE rec == Feed!Ask(u, e, reaction[u], None, {})
    <2>1. rec \in FeedRequest
      BY <1>0, AskFeed DEF Feed!TypeOK
    <2>2. rec.emoji = e
      BY DEF Feed!Ask
    <2>3. Feed!Goto(r, "like", rec) /\ UNCHANGED <<members, Feed!likes, Feed!comments>> /\ "like" \in Feed!PC
      BY <1>1 DEF Feed!LikeRead, Feed!Enter, Feed!PC
    <2> HIDE DEF rec
    <2> QED
      BY <1>0, <2>1, <2>2, <2>3, FeedQuiet DEF Feed!comments
  <1>2. ASSUME NEW c \in Feed!Comment \cup {None}, Feed!ReplyRead(r, u, c) PROVE FeedInv'
    <2> DEFINE rec == Feed!Ask(u, None, None, c, {})
    <2>1. rec \in FeedRequest
      BY AskFeed
    <2>2. Feed!Goto(r, "reply", rec) /\ UNCHANGED <<members, Feed!likes, Feed!comments>> /\ "reply" \in Feed!PC
      BY <1>2 DEF Feed!ReplyRead, Feed!Enter, Feed!PC
    <2> HIDE DEF rec
    <2> QED
      BY <1>0, <2>1, <2>2, FeedQuiet DEF Feed!comments
  <1>3. ASSUME NEW c \in Feed!Comment, Feed!DeleteRead(r, u, c) PROVE FeedInv'
    <2> DEFINE i == {c} \cup (kept \cap Feed!Children({c}))
               rec == Feed!Ask(u, None, None, c, i)
    <2>1. i \subseteq kept /\ i \in SUBSET Feed!Comment
      BY <1>0, <1>3, FeedFinite DEF Feed!DeleteRead
    <2>2. rec \in FeedRequest
      BY <2>1, AskFeed
    <2>3. rec.ids = i
      BY DEF Feed!Ask
    <2>4. /\ Feed!Goto(r, "children", rec) /\ "children" \in Feed!PC /\ clashed' = (clashed \/ Feed!Deleting # {})
          /\ UNCHANGED <<members, Feed!likes, made, rows, kept, author, parent, commentCount, lostComments>>
      BY <1>3 DEF Feed!DeleteRead, Feed!Enter, Feed!PC
    <2> HIDE DEF rec, i
    <2>5. clashed' \in BOOLEAN /\ (clashed => clashed') /\ (~clashed' => Feed!Deleting = {})
      BY <1>0, <2>4
    <2>6. ~clashed' => rec.ids \subseteq kept /\ Feed!Deleting \subseteq {r}
      BY <2>1, <2>3, <2>5
    <2> QED
      BY <2>2, <2>4, <2>5, <2>6, FeedQuiet
  <1> QED
    BY <1>1, <1>2, <1>3

LEMMA FeedGoesOn ==
    ASSUME FeedInv, NEW r \in Req, Feed!DeepRead(r) \/ Feed!Abort(r)
    PROVE  FeedInv'
  <1>0. Feed!TypeOK /\ clashed \in BOOLEAN
    BY DEF FeedInv, Feed!TypeOK
  <1>1. CASE Feed!DeepRead(r)
    <2> DEFINE k == postReq[r].ids \cup (kept \cap Feed!Children(postReq[r].ids \ {postReq[r].comment}))
               rec == [postReq[r] EXCEPT !.ids = k]
    <2>1. k \in SUBSET Feed!Comment
      BY <1>0, FeedFields, FeedFinite
    <2>2. /\ postPc[r] = "children" /\ Feed!Goto(r, "erase", rec) /\ "erase" \in Feed!PC
          /\ UNCHANGED <<members, Feed!likes, Feed!comments>>
      BY <1>1 DEF Feed!DeepRead, Feed!PC
    <2>3. ~clashed => k \subseteq kept /\ Feed!Deleting \subseteq {r}
      <3>1. r \in Feed!Deleting
        BY <2>2 DEF Feed!Deleting
      <3>2. ~clashed => postReq[r].ids \subseteq kept /\ \A q \in Feed!Deleting : q = r
        BY <3>1 DEF FeedInv, FeedListed, Feed!Deleting
      <3> QED
        BY <3>2
    <2> HIDE DEF k
    <2>4. rec \in FeedRequest /\ rec.ids = k
      BY <1>0, <2>1, FeedFields DEF FeedRequest
    <2> HIDE DEF rec
    <2> QED
      BY <1>0, <2>2, <2>3, <2>4, FeedQuiet DEF Feed!comments
  <1>2. CASE Feed!Abort(r)
    <2>1. Feed!Blank \in FeedRequest /\ "idle" \in Feed!PC
      BY AskFeed DEF Feed!Blank, Feed!PC
    <2>2. Feed!Goto(r, "idle", Feed!Blank) /\ UNCHANGED <<members, Feed!likes, Feed!comments>>
      BY <1>2 DEF Feed!Abort, Feed!Leave
    <2> QED
      BY <1>0, <2>1, <2>2, FeedQuiet DEF Feed!comments
  <1> QED
    BY <1>1, <1>2

-----------------------------------------------------------------------------
\* A tap writes its row and moves the count of reactions with it.
LEMMA FeedTaps ==
    ASSUME FeedInv, NEW r \in Req, Feed!LikeCreate(r) \/ Feed!LikeRemove(r) \/ Feed!LikeSwitch(r)
    PROVE  FeedInv'
  <1> DEFINE u == postReq[r].user
             Now == Cardinality(Reacting')
  <1>0. Feed!TypeOK /\ Feed!CountsExact /\ lostLikes \in Nat /\ likeCount \in Nat
    BY DEF FeedInv, Feed!TypeOK
  <1>1. /\ postPc[r] = "like" /\ u \in User /\ u \in members /\ Feed!Leave(r)
        /\ UNCHANGED <<members, lostLikes, Feed!comments>>
    BY <1>0 DEF Feed!LikeCreate, Feed!LikeRemove, Feed!LikeSwitch, Feed!Liking, Feed!TypeOK
  <1>2. postReq[r].emoji \in Emoji /\ postReq[r].emoji # None
    BY <1>1, FeedTypes DEF FeedInv, FeedShape
  <1>3. /\ postPc' \in [Req -> Feed!PC] /\ postReq' \in [Req -> FeedRequest] /\ postPc'[r] = "idle"
        /\ (\A q \in Req \ {r} : postPc'[q] = postPc[q] /\ postReq'[q] = postReq[q])
        /\ Feed!Deleting' = Feed!Deleting
    <2>1. r \notin Feed!Deleting
      BY <1>1 DEF Feed!Deleting
    <2> QED
      BY <1>0, <1>1, <2>1, FeedLeave
  <1>4. FeedShape'
    BY <1>3 DEF FeedInv, FeedShape
  <1>5. FeedListed'
    <2>1. \A q \in Feed!Deleting : postReq'[q] = postReq[q]
      BY <1>1, <1>3 DEF Feed!Deleting
    <2>2. kept' = kept /\ clashed' = clashed
      BY <1>1 DEF Feed!comments
    <2> QED
      BY <1>3, <2>1, <2>2 DEF FeedInv, FeedListed
  <1>6. reaction \in [User -> Emoji \cup {None}] /\ IsFiniteSet(Reacting) /\ Cardinality(Reacting) \in Nat
    BY <1>0, FeedFinite DEF Feed!TypeOK
  <1>7. likeCount = Cardinality(Reacting) + lostLikes
    BY <1>0, FeedCount DEF Feed!CountsExact, Reacting
  <1> HIDE DEF u
  <1>8. /\ reaction' \in [User -> Emoji \cup {None}]
        /\ likeCount' \in Nat /\ likeCount' = Cardinality(Reacting') + lostLikes
    <2>1. CASE Feed!LikeCreate(r)
      <3>1. /\ reaction[u] = None /\ reaction' = [reaction EXCEPT ![u] = postReq[r].emoji]
            /\ likeCount' = likeCount + 1
        BY <2>1 DEF Feed!LikeCreate, u
      <3>2. u \notin Reacting /\ Reacting' = Reacting \cup {u}
        BY <1>1, <1>2, <1>6, <3>1 DEF Reacting
      <3>3. Cardinality(Reacting') = Cardinality(Reacting) + 1
        BY <1>6, <3>2, Entered
      <3>4. reaction' \in [User -> Emoji \cup {None}]
        BY <1>1, <1>2, <1>6, <3>1
      <3> QED
        BY <1>0, <1>6, <1>7, <3>1, <3>3, <3>4
    <2>2. CASE Feed!LikeRemove(r)
      <3>1. /\ reaction[u] # None /\ reaction' = [reaction EXCEPT ![u] = None]
            /\ likeCount' = likeCount - 1
        BY <2>2 DEF Feed!LikeRemove, u
      <3>2. u \in Reacting /\ Reacting' = Reacting \ {u}
        BY <1>1, <1>6, <3>1 DEF Reacting
      <3>3. Cardinality(Reacting') = Cardinality(Reacting) - 1
        BY <1>6, <3>2, Left
      <3>4. Cardinality(Reacting') \in Nat
        <4>1. IsFiniteSet(Reacting')
          BY <1>6, <3>2, FS_Subset
        <4> QED
          BY <4>1, FS_CardinalityType
      <3>5. reaction' \in [User -> Emoji \cup {None}]
        BY <1>1, <1>6, <3>1
      <3> QED
        BY <1>0, <1>6, <1>7, <3>1, <3>3, <3>4, <3>5
    <2>3. CASE Feed!LikeSwitch(r)
      <3>1. /\ reaction[u] # None /\ reaction' = [reaction EXCEPT ![u] = postReq[r].emoji]
            /\ likeCount' = likeCount
        BY <2>3 DEF Feed!LikeSwitch, u
      <3>2. Reacting' = Reacting
        BY <1>1, <1>2, <1>6, <3>1 DEF Reacting
      <3>3. reaction' \in [User -> Emoji \cup {None}]
        BY <1>1, <1>2, <1>6, <3>1
      <3> QED
        BY <1>0, <1>7, <3>1, <3>2, <3>3
    <2> QED
      BY <2>1, <2>2, <2>3
  <1>9. Feed!TypeOK'
    BY <1>0, <1>1, <1>3, <1>8 DEF Feed!TypeOK, FeedRequest, Feed!comments
  <1>10. Feed!CountsExact'
    <2>1. clashed' \/ commentCount' = Cardinality(kept') + lostComments'
      BY <1>0, <1>1, FeedCount DEF Feed!CountsExact, Feed!comments
    <2> QED
      BY <1>1, <1>8, <2>1, FeedCount DEF Feed!CountsExact, Reacting
  <1> QED
    BY <1>4, <1>5, <1>9, <1>10 DEF FeedInv

LEMMA FeedReply ==
    ASSUME FeedInv, NEW r \in Req, Feed!ReplyWrite(r)
    PROVE  FeedInv'
  <1> DEFINE n == made + 1
  <1>0. Feed!TypeOK /\ Feed!CountsExact
    BY DEF FeedInv
  <1>1. /\ postPc[r] = "reply" /\ made < MaxComment /\ postReq[r].user \in members
        /\ postReq[r].comment \in rows \cup {None} /\ made' = n
        /\ rows' = rows \cup {n} /\ kept' = kept \cup {n}
        /\ author' = [author EXCEPT ![n] = postReq[r].user]
        /\ parent' = [parent EXCEPT ![n] = postReq[r].comment]
        /\ commentCount' = commentCount + 1 /\ Feed!Leave(r)
        /\ UNCHANGED <<members, Feed!likes, lostComments, clashed>>
    BY DEF Feed!ReplyWrite
  <1>2. made \in 0..MaxComment /\ MaxComment \in Nat /\ commentCount \in Int /\ lostComments \in Nat
    BY <1>0, FeedTypes DEF Feed!TypeOK
  <1>3. n \in Feed!Comment /\ n \in 0..MaxComment /\ 1..made \subseteq 1..n /\ n \in 1..n /\ n \notin 1..made
    BY <1>1, <1>2 DEF Feed!Comment
  <1> HIDE DEF n
  <1>4. /\ postPc' \in [Req -> Feed!PC] /\ postReq' \in [Req -> FeedRequest] /\ postPc'[r] = "idle"
        /\ (\A q \in Req \ {r} : postPc'[q] = postPc[q] /\ postReq'[q] = postReq[q])
        /\ Feed!Deleting' = Feed!Deleting
    <2>1. r \notin Feed!Deleting
      BY <1>1 DEF Feed!Deleting
    <2> QED
      BY <1>0, <1>1, <2>1, FeedLeave
  <1>5. Feed!TypeOK'
    <2>1. rows' \subseteq 1..made' /\ kept' \subseteq rows'
      BY <1>0, <1>1, <1>3 DEF Feed!TypeOK
    <2>2. author' \in [Feed!Comment -> User \cup {None}] /\ parent' \in [Feed!Comment -> Feed!Comment \cup {None}]
      <3>1. postReq[r].user \in User \cup {None} /\ postReq[r].comment \in Feed!Comment \cup {None}
        BY <1>0, FeedFields
      <3> QED
        BY <1>0, <1>1, <3>1 DEF Feed!TypeOK
    <2>3. commentCount' \in Int /\ made' \in 0..MaxComment
      BY <1>1, <1>2, <1>3
    <2> QED
      BY <1>0, <1>1, <1>4, <2>1, <2>2, <2>3 DEF Feed!TypeOK, FeedRequest, Feed!likes
  <1>6. FeedShape'
    BY <1>4 DEF FeedInv, FeedShape
  <1>7. FeedListed'
    <2>1. \A q \in Feed!Deleting : postReq'[q] = postReq[q]
      BY <1>1, <1>4 DEF Feed!Deleting
    <2> QED
      BY <1>1, <1>4, <2>1 DEF FeedInv, FeedListed
  <1>8. Cardinality(kept') = Cardinality(kept) + 1 /\ Cardinality(kept) \in Nat
    <2>1. n \notin kept
      BY <1>0, <1>3 DEF Feed!TypeOK
    <2> QED
      BY <1>0, <1>1, <2>1, FeedFinite, Entered
  <1>9. Feed!CountsExact'
    <2>1. clashed' \/ commentCount' = Cardinality(kept') + lostComments'
      BY <1>0, <1>1, <1>2, <1>8, FeedCount DEF Feed!CountsExact
    <2> QED
      BY <1>0, <1>1, <2>1, FeedCount DEF Feed!CountsExact, Feed!likes
  <1> QED
    BY <1>5, <1>6, <1>7, <1>9 DEF FeedInv

LEMMA FeedErase ==
    ASSUME FeedInv, NEW r \in Req, Feed!Erase(r)
    PROVE  FeedInv'
  <1>0. Feed!TypeOK /\ Feed!CountsExact
    BY DEF FeedInv
  <1> DEFINE i == postReq[r].ids
  <1>1. /\ postPc[r] = "erase" /\ kept' = kept \ i /\ commentCount' = commentCount - Cardinality(i)
        /\ Feed!Leave(r) /\ UNCHANGED <<members, Feed!likes, made, rows, author, parent, lostComments, clashed>>
    BY FeedCount DEF Feed!Erase
  <1>2. i \in SUBSET Feed!Comment
    BY <1>0, FeedFields
  <1> HIDE DEF i
  <1>3. /\ postPc' \in [Req -> Feed!PC] /\ postReq' \in [Req -> FeedRequest] /\ postPc'[r] = "idle"
        /\ (\A q \in Req \ {r} : postPc'[q] = postPc[q] /\ postReq'[q] = postReq[q])
        /\ Feed!Deleting' = Feed!Deleting \ {r}
    BY <1>0, <1>1, FeedLeave
  <1>4. Cardinality(i) \in Nat /\ commentCount \in Int /\ lostComments \in Nat
    <2>1. IsFiniteSet(i)
      BY <1>2, FeedTypes, FS_Subset
    <2> QED
      BY <1>0, <2>1, FS_CardinalityType DEF Feed!TypeOK
  <1>5. Feed!TypeOK'
    <2>1. commentCount' \in Int
      BY <1>1, <1>4
    <2> QED
      BY <1>0, <1>1, <1>3, <2>1 DEF Feed!TypeOK, FeedRequest, Feed!likes
  <1>6. FeedShape'
    BY <1>3 DEF FeedInv, FeedShape
  <1>7. ~clashed => i \subseteq kept /\ Feed!Deleting = {r}
    <2>1. r \in Feed!Deleting
      BY <1>1 DEF Feed!Deleting
    <2>2. ~clashed => \A q \in Feed!Deleting : q = r
      BY <2>1 DEF FeedInv, FeedListed, Feed!Deleting
    <2> QED
      BY <2>1, <2>2 DEF FeedInv, FeedListed, i
  <1>8. FeedListed'
    <2>1. ~clashed' => Feed!Deleting' = {}
      BY <1>1, <1>3, <1>7
    <2> QED
      BY <2>1 DEF FeedListed
  <1>9. ~clashed => commentCount' = Cardinality(kept') + lostComments
    <2> SUFFICES ASSUME ~clashed PROVE commentCount' = Cardinality(kept') + lostComments
      OBVIOUS
    <2>1. kept \cap i = i
      BY <1>7
    <2>2. /\ Cardinality(kept) = Cardinality(kept') + Cardinality(i) /\ Cardinality(kept') \in Nat
      <3>1. /\ Cardinality(kept) = Cardinality(kept \ i) + Cardinality(kept \cap i)
            /\ Cardinality(kept \ i) \in Nat
        BY <1>0, FeedFinite, TakenAway
      <3>2. Cardinality(kept') = Cardinality(kept \ i) /\ Cardinality(kept \cap i) = Cardinality(i)
        BY <1>1, <2>1
      <3> QED
        BY <3>1, <3>2
    <2>3. commentCount = Cardinality(kept) + lostComments
      BY <1>0, FeedCount DEF Feed!CountsExact
    <2> QED
      BY <1>1, <1>4, <2>2, <2>3
  <1>10. Feed!CountsExact'
    <2>1. clashed' \/ commentCount' = Cardinality(kept') + lostComments'
      BY <1>1, <1>9
    <2> QED
      BY <1>0, <1>1, <2>1, FeedCount DEF Feed!CountsExact, Feed!likes
  <1> QED
    BY <1>5, <1>6, <1>8, <1>10 DEF FeedInv

\* Rows that go behind the back of the counters: what is lost is recorded.
LEMMA FeedTakeDown ==
    ASSUME FeedInv, NEW c \in Feed!Comment, Feed!TakeDown(c)
    PROVE  FeedInv'
  <1>0. Feed!TypeOK /\ Feed!CountsExact
    BY DEF FeedInv
  <1>1. /\ kept' = kept \ {c} /\ lostComments' = lostComments + Cardinality(kept \cap {c})
        /\ clashed' = (clashed \/ Feed!Deleting # {})
        /\ UNCHANGED <<members, Feed!likes, made, rows, author, parent, commentCount, postPc, postReq>>
    BY FeedCount DEF Feed!TakeDown
  <1>2. /\ Cardinality(kept) = Cardinality(kept \ {c}) + Cardinality(kept \cap {c})
        /\ Cardinality(kept \ {c}) \in Nat /\ Cardinality(kept \cap {c}) \in Nat
    BY <1>0, FeedFinite, TakenAway
  <1>3. lostComments \in Nat /\ commentCount \in Int /\ clashed \in BOOLEAN
    BY <1>0 DEF Feed!TypeOK
  <1>4. Feed!TypeOK'
    <2>1. clashed' \in BOOLEAN
      BY <1>1, <1>3
    <2>2. lostComments' \in Nat
      BY <1>1, <1>2, <1>3
    <2> QED
      BY <1>0, <1>1, <2>1, <2>2 DEF Feed!TypeOK, Feed!likes
  <1>5. FeedShape'
    BY <1>1 DEF FeedInv, FeedShape
  <1>6. FeedListed'
    <2>1. ~clashed' => Feed!Deleting' = {}
      BY <1>1 DEF Feed!Deleting
    <2> QED
      BY <2>1 DEF FeedListed
  <1>7. Feed!CountsExact'
    <2>1. clashed' \/ commentCount' = Cardinality(kept') + lostComments'
      <3> SUFFICES ASSUME ~clashed' PROVE commentCount' = Cardinality(kept') + lostComments'
        OBVIOUS
      <3>1. commentCount = Cardinality(kept) + lostComments
        BY <1>0, <1>1, FeedCount DEF Feed!CountsExact
      <3>2. commentCount' = commentCount /\ Cardinality(kept') = Cardinality(kept \ {c})
        BY <1>1
      <3> QED
        BY <1>1, <1>2, <1>3, <3>1, <3>2
    <2> QED
      BY <1>0, <1>1, <2>1, FeedCount DEF Feed!CountsExact, Feed!likes
  <1> QED
    BY <1>4, <1>5, <1>6, <1>7 DEF FeedInv

LEMMA FeedDelete ==
    ASSUME FeedInv, NEW u \in User, Feed!DeleteAccount(u)
    PROVE  FeedInv'
  <1>0. Feed!TypeOK /\ Feed!CountsExact
    BY DEF FeedInv
  <1> DEFINE own == {c \in rows : author[c] = u}
  <1>1. /\ members' = members \ {u} /\ reaction' = [reaction EXCEPT ![u] = None]
        /\ lostLikes' = lostLikes + Cardinality({v \in {u} : reaction[v] # None})
        /\ rows' = rows \ own /\ kept' = kept \ own
        /\ author' = [c \in Feed!Comment |-> IF c \in own THEN None ELSE author[c]]
        /\ parent' = [c \in Feed!Comment |->
                        IF c \in own \/ parent[c] \in own THEN None ELSE parent[c]]
        /\ lostComments' = lostComments + Cardinality(kept \cap own)
        /\ clashed' = (clashed \/ Feed!Deleting # {})
        /\ UNCHANGED <<likeCount, made, commentCount, postPc, postReq>>
    BY FeedCount DEF Feed!DeleteAccount
  <1> HIDE DEF own
  <1>2. /\ Cardinality(kept) = Cardinality(kept \ own) + Cardinality(kept \cap own)
        /\ Cardinality(kept \ own) \in Nat /\ Cardinality(kept \cap own) \in Nat
    BY <1>0, FeedFinite, TakenAway
  <1>3. /\ Cardinality(Reacting) = Cardinality(Reacting \ {u}) + Cardinality(Reacting \cap {u})
        /\ Cardinality(Reacting \ {u}) \in Nat /\ Cardinality(Reacting \cap {u}) \in Nat
    BY <1>0, FeedFinite, TakenAway
  <1>4. {v \in {u} : reaction[v] # None} = Reacting \cap {u} /\ Reacting' = Reacting \ {u}
    BY <1>0, <1>1 DEF Reacting, Feed!TypeOK
  <1>5. /\ lostComments \in Nat /\ commentCount \in Int /\ clashed \in BOOLEAN
        /\ lostLikes \in Nat /\ likeCount \in Nat
    BY <1>0 DEF Feed!TypeOK
  <1>6. lostLikes' = lostLikes + Cardinality(Reacting \cap {u})
    BY <1>1, <1>4, Zenon
  <1>7. Feed!TypeOK'
    <2>1. clashed' \in BOOLEAN
      BY <1>1, <1>5
    <2>2. lostComments' \in Nat /\ lostLikes' \in Nat
      BY <1>1, <1>2, <1>3, <1>5, <1>6
    <2>3. reaction' \in [User -> Emoji \cup {None}]
      BY <1>0, <1>1 DEF Feed!TypeOK
    <2>4. author' \in [Feed!Comment -> User \cup {None}]
      BY <1>0, <1>1 DEF Feed!TypeOK
    <2>5. parent' \in [Feed!Comment -> Feed!Comment \cup {None}]
      BY <1>0, <1>1 DEF Feed!TypeOK
    <2>6. rows' \subseteq 1..made' /\ kept' \subseteq rows' /\ members' \subseteq User
      BY <1>0, <1>1 DEF Feed!TypeOK
    <2> QED
      BY <1>0, <1>1, <2>1, <2>2, <2>3, <2>4, <2>5, <2>6 DEF Feed!TypeOK
  <1>8. FeedShape'
    BY <1>1 DEF FeedInv, FeedShape
  <1>9. FeedListed'
    <2>1. ~clashed' => Feed!Deleting' = {}
      BY <1>1 DEF Feed!Deleting
    <2> QED
      BY <2>1 DEF FeedListed
  <1>10. likeCount' = Cardinality(Reacting') + lostLikes'
    <2>1. likeCount = Cardinality(Reacting) + lostLikes
      BY <1>0, FeedCount DEF Feed!CountsExact, Reacting
    <2>2. likeCount' = likeCount /\ Cardinality(Reacting') = Cardinality(Reacting \ {u})
      BY <1>1, <1>4
    <2> QED
      BY <1>3, <1>5, <1>6, <2>1, <2>2
  <1>11. clashed' \/ commentCount' = Cardinality(kept') + lostComments'
    <2> SUFFICES ASSUME ~clashed' PROVE commentCount' = Cardinality(kept') + lostComments'
      OBVIOUS
    <2>1. commentCount = Cardinality(kept) + lostComments
      BY <1>0, <1>1, FeedCount DEF Feed!CountsExact
    <2>2. commentCount' = commentCount /\ Cardinality(kept') = Cardinality(kept \ own)
      BY <1>1
    <2> QED
      BY <1>1, <1>2, <1>5, <2>1, <2>2
  <1>12. Feed!CountsExact'
    BY <1>10, <1>11, FeedCount DEF Feed!CountsExact, Reacting
  <1> QED
    BY <1>7, <1>8, <1>9, <1>12 DEF FeedInv

LEMMA FeedStep == FeedInv /\ [Feed!Next]_(Feed!vars) => FeedInv'
  <1> SUFFICES ASSUME FeedInv, [Feed!Next]_(Feed!vars) PROVE FeedInv'
    OBVIOUS
  <1>1. ASSUME NEW r \in Req, Feed!DeepRead(r) \/ Feed!Abort(r) PROVE FeedInv'
    BY <1>1, FeedGoesOn
  <1>2. CASE Feed!Next
    BY <1>1, <1>2, FeedReads, FeedTaps, FeedReply, FeedErase, FeedTakeDown, FeedDelete DEF Feed!Next
  <1>3. CASE UNCHANGED Feed!vars
    BY <1>3, FeedCount DEF Feed!vars, Feed!likes, Feed!comments, FeedInv, Feed!TypeOK, FeedShape,
       FeedListed, Feed!Deleting, Feed!CountsExact
  <1> QED
    BY <1>2, <1>3

-----------------------------------------------------------------------------
(* The score of a price.                                                     *)

\* As long as a voter never had two requests in flight, the one in flight knows the
\* vote the voter has, unless it went with the account.
BallotOf(r) ==
    \A b \in voting[r] : b.voter \notin crossed => value[b.voter] \in {b.seen, 0}
BallotsApart ==
    \A q, r \in Req : \A b \in voting[q], c \in voting[r] :
        b.voter = c.voter /\ b.voter \notin crossed => q = r
PriceInv == Price!TypeOK /\ (\A r \in Req : BallotOf(r)) /\ BallotsApart /\ Price!TrustExact

Balance == Cardinality(Price!Votes(1)) - Cardinality(Price!Votes(-1))
Ballots == {Price!Ballot(u, v, s) : u \in User, v \in Price!Value, s \in Price!Value \cup {0}}

LEMMA PriceTypes == IsFiniteSet(User) /\ MaxTrust \in Nat /\ Price!Value = {-1, 1}
  BY PartsAssumption, PriceCount DEF Price!VoterAssumption, Price!Value

LEMMA VotesFinite ==
    ASSUME NEW v
    PROVE  IsFiniteSet(Price!Votes(v)) /\ Cardinality(Price!Votes(v)) \in Nat
  <1>1. Price!Votes(v) \in SUBSET User
    BY DEF Price!Votes
  <1> QED
    BY <1>1, PriceTypes, FS_Subset, FS_CardinalityType

\* The balance moves by the change of one vote.
LEMMA BalanceMoves ==
    ASSUME Price!TypeOK, NEW u \in User, NEW n \in Price!Value \cup {0},
           value' = [value EXCEPT ![u] = n]
    PROVE  Balance' = Balance + n - value[u]
  <1>1. /\ value \in [User -> {-1, 0, 1}] /\ n \in {-1, 0, 1}
    BY PriceTypes DEF Price!TypeOK
  <1>2. /\ value[u] \in {-1, 0, 1} /\ value'[u] = n
        /\ \A w \in User \ {u} : value'[w] = value[w]
    BY <1>1
  <1>3. /\ IsFiniteSet(Price!Votes(1)) /\ Cardinality(Price!Votes(1)) \in Nat
        /\ IsFiniteSet(Price!Votes(-1)) /\ Cardinality(Price!Votes(-1)) \in Nat
    BY VotesFinite
  <1> DEFINE P == Price!Votes(1)  Q == Price!Votes(1)'  M == Price!Votes(-1)  N == Price!Votes(-1)'
  <1>4. /\ u \in P <=> value[u] = 1
        /\ u \in M <=> value[u] = -1
    BY DEF Price!Votes
  <1>5. /\ n = 1 => Q = P \cup {u}
        /\ n # 1 => Q = P \ {u}
        /\ n = -1 => N = M \cup {u}
        /\ n # -1 => N = M \ {u}
    BY <1>2 DEF Price!Votes
  <1>6. /\ IsFiniteSet(P) /\ Cardinality(P) \in Nat /\ IsFiniteSet(M) /\ Cardinality(M) \in Nat
    BY <1>3
  <1>7. Balance = Cardinality(P) - Cardinality(M) /\ Balance' = Cardinality(Q) - Cardinality(N)
    BY DEF Balance
  <1> HIDE DEF P, Q, M, N
  <1>8. /\ n = 1 /\ value[u] # 1 => Cardinality(Q) = Cardinality(P) + 1
        /\ n # 1 /\ value[u] = 1 => Cardinality(Q) = Cardinality(P) - 1
        /\ n = -1 /\ value[u] # -1 => Cardinality(N) = Cardinality(M) + 1
        /\ n # -1 /\ value[u] = -1 => Cardinality(N) = Cardinality(M) - 1
    BY <1>4, <1>5, <1>6, Entered, Left
  <1>9. /\ n = 1 /\ value[u] = 1 => Q = P
        /\ n # 1 /\ value[u] # 1 => Q = P
        /\ n = -1 /\ value[u] = -1 => N = M
        /\ n # -1 /\ value[u] # -1 => N = M
    BY <1>4, <1>5
  <1> QED
    BY <1>1, <1>2, <1>6, <1>7, <1>8, <1>9

LEMMA SameBalance == ASSUME value' = value PROVE Balance' = Balance
  BY DEF Balance, Price!Votes

LEMMA BalanceTyped == Balance \in Int
  BY VotesFinite DEF Balance

LEMMA PriceStarts == Price!Init => PriceInv
  <1> SUFFICES ASSUME Price!Init PROVE PriceInv
    OBVIOUS
  <1> USE DEF Price!Init
  <1>1. Price!TypeOK
    BY PriceTypes DEF Price!TypeOK
  <1>2. (\A r \in Req : BallotOf(r)) /\ BallotsApart
    BY DEF BallotOf, BallotsApart, Price!Idle
  <1>3. Price!Votes(1) = {} /\ Price!Votes(-1) = {}
    BY DEF Price!Votes
  <1>4. Cardinality(Price!Votes(1)) = 0 /\ Cardinality(Price!Votes(-1)) = 0
    BY <1>3, FS_EmptySet
  <1>5. Price!TrustExact
    BY <1>4, PriceCount DEF Price!TrustExact
  <1> QED
    BY <1>1, <1>2, <1>5 DEF PriceInv

LEMMA BallotFields ==
    ASSUME Price!TypeOK, NEW r \in Req, NEW b \in voting[r]
    PROVE  /\ b.voter \in User /\ b.asked \in Price!Value /\ b.seen \in Price!Value \cup {0}
           /\ voting[r] = {b}
  <1>1. voting[r] \in {Price!Idle} \cup Ballots
    BY DEF Price!TypeOK, Ballots
  <1>2. PICK u \in User, v \in Price!Value, s \in Price!Value \cup {0} : voting[r] = Price!Ballot(u, v, s)
    BY <1>1 DEF Price!Idle, Ballots
  <1>3. voting[r] = {[voter |-> u, asked |-> v, seen |-> s]}
    BY <1>2 DEF Price!Ballot
  <1>4. b = [voter |-> u, asked |-> v, seen |-> s]
    BY <1>3
  <1> QED
    BY <1>3, <1>4

LEMMA ReadPrice ==
    ASSUME PriceInv, NEW r \in Req, NEW u \in User, NEW v \in Price!Value, Price!VoteRead(r, u, v)
    PROVE  PriceInv'
  <1>0. Price!TypeOK /\ value[u] \in Price!Value \cup {0}
    BY DEF PriceInv, Price!TypeOK
  <1> DEFINE n == Price!Ballot(u, v, value[u])
  <1>1. /\ voting[r] = Price!Idle /\ voting' = [voting EXCEPT ![r] = n]
        /\ crossed' = crossed \cup {w \in {u} : Price!InFlight(w)}
        /\ UNCHANGED <<value, trust, lost, left>>
    BY DEF Price!VoteRead
  <1>2. n = {[voter |-> u, asked |-> v, seen |-> value[u]]}
    BY DEF Price!Ballot
  <1>3. n \in Ballots
    BY <1>0 DEF Ballots
  <1> HIDE DEF n
  <1>4. /\ voting' \in [Req -> {Price!Idle} \cup Ballots] /\ voting'[r] = n
        /\ \A q \in Req \ {r} : voting'[q] = voting[q]
    BY <1>0, <1>1, <1>3 DEF Price!TypeOK, Ballots
  <1>5. Price!TypeOK'
    BY <1>0, <1>1, <1>4 DEF Price!TypeOK, Ballots
  <1>6. \A b \in n : b.voter = u /\ b.seen = value[u]
    BY <1>2
  <1>7. ASSUME NEW q \in Req PROVE BallotOf(q)'
    BY <1>1, <1>4, <1>6 DEF PriceInv, BallotOf
  <1>8. BallotsApart'
    <2>1. ASSUME NEW q \in Req, q # r, NEW b \in voting[q], b.voter = u
          PROVE  u \in crossed'
      BY <1>1, <2>1 DEF Price!InFlight
    <2>2. ASSUME NEW p \in Req, NEW q \in Req, NEW b \in voting'[p], NEW c \in voting'[q],
                 b.voter = c.voter, b.voter \notin crossed', p # q
          PROVE  FALSE
      <3>1. CASE p = r
        BY <1>4, <1>6, <2>1, <2>2, <3>1
      <3>2. CASE q = r
        BY <1>4, <1>6, <2>1, <2>2, <3>2
      <3>3. CASE p # r /\ q # r
        BY <1>1, <1>4, <2>2, <3>3 DEF PriceInv, BallotsApart
      <3> QED
        BY <3>1, <3>2, <3>3
    <2> QED
      BY <2>2 DEF BallotsApart
  <1>9. Price!TrustExact'
    <2>1. crossed' = {} => crossed = {}
      BY <1>1
    <2> QED
      BY <1>1, <2>1, PriceCount DEF PriceInv, Price!TrustExact, Price!Votes
  <1> QED
    BY <1>5, <1>7, <1>8, <1>9 DEF PriceInv

\* A vote that is written: the row moves from what was read to what is new, and the
\* score by the difference, when no voter has crossed another request.
LEMMA StorePrice ==
    ASSUME PriceInv, NEW r \in Req, NEW b \in voting[r], NEW n \in Price!Value \cup {0}, NEW d \in Int,
           Price!Store(r, b, n, d), crossed = {} => d = n - value[b.voter]
    PROVE  PriceInv'
  <1>0. Price!TypeOK /\ b.voter \in User /\ voting[r] = {b}
    BY BallotFields DEF PriceInv
  <1>1. /\ value' = [value EXCEPT ![b.voter] = n]
        /\ trust' = trust + d /\ trust' \in -MaxTrust..MaxTrust
        /\ voting' = [voting EXCEPT ![r] = Price!Idle] /\ UNCHANGED <<lost, crossed, left>>
    BY DEF Price!Store
  <1>2. /\ voting' \in [Req -> {Price!Idle} \cup Ballots] /\ voting'[r] = {}
        /\ \A q \in Req \ {r} : voting'[q] = voting[q]
    BY <1>0, <1>1 DEF Price!TypeOK, Ballots, Price!Idle
  <1>3. /\ value' \in [User -> Price!Value \cup {0}] /\ value'[b.voter] = n
        /\ \A w \in User \ {b.voter} : value'[w] = value[w]
    BY <1>0, <1>1 DEF Price!TypeOK
  <1>4. Price!TypeOK'
    BY <1>0, <1>1, <1>2, <1>3 DEF Price!TypeOK, Ballots
  <1>5. ASSUME NEW q \in Req PROVE BallotOf(q)'
    <2> SUFFICES ASSUME NEW c \in voting'[q], c.voter \notin crossed PROVE value'[c.voter] \in {c.seen, 0}
      BY <1>1 DEF BallotOf
    <2>1. q # r /\ c \in voting[q]
      BY <1>2
    <2>2. c.voter # b.voter
      BY <2>1 DEF PriceInv, BallotsApart
    <2>3. value'[c.voter] = value[c.voter]
      BY <1>0, <1>3, <2>1, <2>2, BallotFields
    <2> QED
      BY <2>1, <2>3 DEF PriceInv, BallotOf
  <1>6. BallotsApart'
    BY <1>1, <1>2 DEF PriceInv, BallotsApart
  <1>7. Price!TrustExact'
    <2> SUFFICES ASSUME crossed = {} PROVE trust' = Balance' + lost
      BY <1>1, PriceCount DEF Price!TrustExact, Balance
    <2>1. Balance' = Balance + n - value[b.voter]
      BY <1>0, <1>1, BalanceMoves
    <2>2. trust = Balance + lost
      BY PriceCount DEF PriceInv, Price!TrustExact, Balance
    <2>3. Balance \in Int /\ lost \in Int /\ n \in Int /\ value[b.voter] \in Int
      <3>1. Price!Value \cup {0} \subseteq Int
        BY PriceTypes
      <3>2. value[b.voter] \in Price!Value \cup {0}
        BY <1>0 DEF Price!TypeOK
      <3> QED
        BY <1>0, <3>1, <3>2, BalanceTyped DEF Price!TypeOK
    <2> QED
      BY <1>1, <2>1, <2>2, <2>3
  <1> QED
    BY <1>4, <1>5, <1>6, <1>7 DEF PriceInv

LEMMA VotePrice ==
    ASSUME PriceInv, NEW r \in Req, Price!Cast(r) \/ Price!Retract(r) \/ Price!Switch(r)
    PROVE  PriceInv'
  <1>1. ASSUME NEW b \in voting[r]
        PROVE  /\ b.asked \in {-1, 1} /\ b.seen \in {-1, 0, 1} /\ value[b.voter] \in {-1, 0, 1}
               /\ crossed = {} /\ value[b.voter] # 0 => value[b.voter] = b.seen
    <2>1. /\ b.voter \in User /\ b.asked \in Price!Value /\ b.seen \in Price!Value \cup {0}
      BY BallotFields DEF PriceInv
    <2>2. value[b.voter] \in Price!Value \cup {0}
      BY <2>1 DEF PriceInv, Price!TypeOK
    <2>3. crossed = {} => value[b.voter] \in {b.seen, 0}
      BY DEF PriceInv, BallotOf
    <2> QED
      BY <2>1, <2>2, <2>3, PriceTypes
  <1>2. CASE Price!Cast(r)
    <2>1. PICK b \in voting[r] :
             b.seen = 0 /\ value[b.voter] = 0 /\ Price!Store(r, b, b.asked, b.asked)
      BY <1>2 DEF Price!Cast
    <2>2. b.asked \in Price!Value \cup {0} /\ b.asked \in Int /\ b.asked = b.asked - value[b.voter]
      BY <1>1, <2>1, PriceTypes
    <2> QED
      BY <2>1, <2>2, StorePrice
  <1>3. CASE Price!Retract(r)
    <2>1. PICK b \in voting[r] :
             b.seen = b.asked /\ value[b.voter] # 0 /\ Price!Store(r, b, 0, -b.asked)
      BY <1>3 DEF Price!Retract
    <2>2. /\ 0 \in Price!Value \cup {0} /\ -b.asked \in Int
          /\ crossed = {} => -b.asked = 0 - value[b.voter]
      BY <1>1, <2>1, PriceTypes
    <2> QED
      BY <2>1, <2>2, StorePrice
  <1>4. CASE Price!Switch(r)
    <2>1. PICK b \in voting[r] :
             b.seen = -b.asked /\ value[b.voter] # 0 /\ Price!Store(r, b, b.asked, b.asked - b.seen)
      BY <1>4 DEF Price!Switch
    <2>2. /\ b.asked \in Price!Value \cup {0} /\ b.asked - b.seen \in Int
          /\ crossed = {} => b.asked - b.seen = b.asked - value[b.voter]
      BY <1>1, <2>1, PriceTypes
    <2> QED
      BY <2>1, <2>2, StorePrice
  <1> QED
    BY <1>2, <1>3, <1>4

LEMMA AbortPrice ==
    ASSUME PriceInv, NEW r \in Req, Price!Abort(r)
    PROVE  PriceInv'
  <1>1. /\ voting' = [voting EXCEPT ![r] = Price!Idle]
        /\ UNCHANGED <<value, trust, lost, crossed, left>>
    BY DEF Price!Abort
  <1>2. /\ voting' \in [Req -> {Price!Idle} \cup Ballots] /\ voting'[r] = {}
        /\ \A q \in Req \ {r} : voting'[q] = voting[q]
    BY <1>1 DEF PriceInv, Price!TypeOK, Ballots, Price!Idle
  <1>3. Price!TypeOK'
    BY <1>1, <1>2 DEF PriceInv, Price!TypeOK, Ballots
  <1>4. (\A q \in Req : BallotOf(q)') /\ BallotsApart'
    BY <1>1, <1>2 DEF PriceInv, BallotOf, BallotsApart
  <1>5. Price!TrustExact'
    BY <1>1, PriceCount DEF PriceInv, Price!TrustExact, Price!Votes
  <1> QED
    BY <1>3, <1>4, <1>5 DEF PriceInv

LEMMA DeletePrice ==
    ASSUME PriceInv, NEW u \in User, Price!DeleteAccount(u)
    PROVE  PriceInv'
  <1>0. Price!TypeOK
    BY DEF PriceInv
  <1>1. /\ left' = left \cup {u} /\ value' = [value EXCEPT ![u] = 0]
        /\ lost' = lost + value[u] /\ UNCHANGED <<trust, crossed, voting>>
    BY DEF Price!DeleteAccount
  <1>2. value[u] \in Int /\ lost \in Int
    <2>1. Price!Value \cup {0} \subseteq Int
      BY PriceTypes
    <2>2. value[u] \in Price!Value \cup {0}
      BY <1>0 DEF Price!TypeOK
    <2> QED
      BY <1>0, <2>1, <2>2 DEF Price!TypeOK
  <1>3. /\ value' \in [User -> Price!Value \cup {0}] /\ value'[u] = 0
        /\ \A w \in User \ {u} : value'[w] = value[w]
    BY <1>0, <1>1 DEF Price!TypeOK
  <1>4. Price!TypeOK'
    BY <1>0, <1>1, <1>2, <1>3 DEF Price!TypeOK
  <1>5. ASSUME NEW q \in Req PROVE BallotOf(q)'
    <2> SUFFICES ASSUME NEW c \in voting[q], c.voter \notin crossed PROVE value'[c.voter] \in {c.seen, 0}
      BY <1>1 DEF BallotOf
    <2>1. c.voter \in User
      BY <1>0, BallotFields
    <2> QED
      BY <1>3, <2>1 DEF PriceInv, BallotOf
  <1>6. BallotsApart'
    BY <1>1 DEF PriceInv, BallotsApart
  <1>7. Price!TrustExact'
    <2> SUFFICES ASSUME crossed = {} PROVE trust' = Balance' + lost'
      BY <1>1, PriceCount DEF Price!TrustExact, Balance
    <2>1. Balance' = Balance + 0 - value[u]
      BY <1>0, <1>1, BalanceMoves
    <2>2. trust = Balance + lost
      BY PriceCount DEF PriceInv, Price!TrustExact, Balance
    <2> QED
      BY <1>1, <1>2, <2>1, <2>2, BalanceTyped
  <1> QED
    BY <1>4, <1>5, <1>6, <1>7 DEF PriceInv

LEMMA PriceStep == PriceInv /\ [Price!Next]_(Price!vars) => PriceInv'
  <1> SUFFICES ASSUME PriceInv, [Price!Next]_(Price!vars) PROVE PriceInv'
    OBVIOUS
  <1>1. CASE Price!Next
    BY <1>1, ReadPrice, VotePrice, AbortPrice, DeletePrice DEF Price!Next
  <1>2. CASE UNCHANGED Price!vars
    BY <1>2, PriceCount DEF Price!vars, PriceInv, Price!TypeOK, BallotOf, BallotsApart,
       Price!TrustExact, Price!Votes
  <1> QED
    BY <1>1, <1>2

-----------------------------------------------------------------------------
(* A poll.                                                                   *)

\* A transaction in flight is that of a member; the one that met no other change is
\* alone in flight, and what it has counted are the votes it is about to commit.
PollShape == \A r \in Req : pollPc[r] # "idle" => pollReq[r].user \in User
PollAlone == alone \subseteq Poll!Busy /\ \A r \in alone : Poll!Busy = {r}
PollCounted ==
    \A r \in alone : pollPc[r] \in {"store", "voters"} =>
        \A o \in Option : pollReq[r].count[o] = Poll!Count(Poll!Seen(r), o)
PollInv == Poll!TypeOK /\ PollShape /\ PollAlone /\ PollCounted /\ Poll!PollExact

LEMMA PollTypes ==
    None \notin User /\ None \notin Req /\ IsFiniteSet(User) /\ IsFiniteSet(User \X Option)
  <1>1. IsFiniteSet(User) /\ IsFiniteSet(Option)
    BY PartsAssumption, PollCount DEF Poll!MultiAssumption
  <1> QED
    BY <1>1, FS_Product, PartsAssumption DEF Poll!NoneFresh

LEMMA PollCounts ==
    ASSUME NEW S \in SUBSET (User \X Option)
    PROVE  /\ \A o \in Option : Poll!Count(S, o) \in Nat
           /\ Cardinality(Poll!Voters(S)) \in Nat
  <1>1. IsFiniteSet(S)
    BY PollTypes, FS_Subset
  <1>2. ASSUME NEW o \in Option PROVE Poll!Count(S, o) \in Nat
    <2>1. IsFiniteSet({v \in S : v[2] = o})
      BY <1>1, FS_Subset
    <2> QED
      BY <2>1, FS_CardinalityType, PollCount DEF Poll!Count
  <1>3. IsFiniteSet(Poll!Voters(S))
    <2>1. \A v \in S : v[1] \in User
      OBVIOUS
    <2>2. Poll!Voters(S) \in SUBSET User
      BY <2>1 DEF Poll!Voters
    <2> QED
      BY <2>2, PollTypes, FS_Subset
  <1> QED
    BY <1>2, <1>3, FS_CardinalityType

LEMMA PollStarts == Poll!Init => PollInv
  <1> SUFFICES ASSUME Poll!Init PROVE PollInv
    OBVIOUS
  <1> USE DEF Poll!Init
  <1>1. Poll!TypeOK
    BY PollTypes DEF Poll!TypeOK, Poll!Blank, Poll!Ask, Poll!NoCount
  <1>2. PollShape /\ PollAlone /\ PollCounted
    BY DEF PollShape, PollAlone, PollCounted
  <1>3. Poll!PollExact
    <2>1. \A o \in Option : {v \in votes : v[2] = o} = {}
      OBVIOUS
    <2>2. Poll!Voters(votes) = {}
      BY DEF Poll!Voters
    <2>3. \A o \in Option : Poll!Count(votes, o) = 0
      BY <2>1, FS_EmptySet, PollCount DEF Poll!Count
    <2>4. Cardinality(Poll!Voters(votes)) = 0
      BY <2>2, FS_EmptySet
    <2> QED
      BY <2>3, <2>4, PollCount DEF Poll!PollExact, Poll!NoCount
  <1> QED
    BY <1>1, <1>2, <1>3 DEF PollInv

Transaction == [user : User \cup {None}, choice : SUBSET Option,
                dropped : SUBSET (User \X Option), count : [Option -> Nat]]

LEMMA SeenTyped ==
    ASSUME PollInv, NEW r \in Req, pollPc[r] # "idle"
    PROVE  Poll!Seen(r) \in SUBSET (User \X Option)
  <1>1. pollReq[r] \in Transaction
    BY DEF PollInv, Poll!TypeOK, Transaction
  <1>2. pollReq[r].choice \in SUBSET Option /\ pollReq[r].user \in User /\ votes \in SUBSET (User \X Option)
    BY <1>1 DEF PollInv, Poll!TypeOK, PollShape, Transaction
  <1> QED
    BY <1>2 DEF Poll!Seen

\* One transaction moves on: the others are where they were.
LEMMA PollGoto ==
    ASSUME Poll!TypeOK, NEW r \in Req, NEW step \in {"idle", "replace", "count", "store", "voters"},
           NEW rec \in Transaction, Poll!Goto(r, step, rec)
    PROVE  /\ pollPc' \in [Req -> {"idle", "replace", "count", "store", "voters"}]
           /\ pollReq' \in [Req -> Transaction]
           /\ pollPc'[r] = step /\ pollReq'[r] = rec
           /\ \A q \in Req \ {r} : pollPc'[q] = pollPc[q] /\ pollReq'[q] = pollReq[q]
  BY DEF Poll!TypeOK, Poll!Goto, Transaction

LEMMA BlankTransaction == Poll!Blank \in Transaction
  <1>1. Poll!NoCount \in [Option -> Nat]
    BY DEF Poll!NoCount
  <1> QED
    BY <1>1 DEF Poll!Blank, Poll!Ask, Transaction

LEMMA BeginPoll ==
    ASSUME PollInv, NEW r \in Req, NEW u \in User, NEW S \in Poll!Choice, Poll!Begin(r, u, S)
    PROVE  PollInv'
  <1> DEFINE rec == Poll!Ask(u, S, votes \cap ({u} \X Option), Poll!NoCount)
  <1>1. rec \in Transaction
    <2>1. Poll!NoCount \in [Option -> Nat]
      BY DEF Poll!NoCount
    <2>2. S \in SUBSET Option
      BY DEF Poll!Choice
    <2> QED
      BY <2>1, <2>2 DEF Poll!Ask, Transaction
  <1>2. rec.user = u
    BY DEF Poll!Ask
  <1>3. /\ pollPc[r] = "idle" /\ Poll!Goto(r, "replace", rec)
        /\ alone' = IF Poll!Busy = {} THEN alone \cup {r} ELSE {}
        /\ UNCHANGED <<votes, optionCount, voterCount, lock, stale, gone>>
    BY DEF Poll!Begin
  <1> HIDE DEF rec
  <1>4. /\ pollPc' \in [Req -> {"idle", "replace", "count", "store", "voters"}]
        /\ pollReq' \in [Req -> Transaction] /\ pollPc'[r] = "replace" /\ pollReq'[r] = rec
        /\ \A q \in Req \ {r} : pollPc'[q] = pollPc[q] /\ pollReq'[q] = pollReq[q]
    BY <1>1, <1>3, PollGoto DEF PollInv
  <1>5. Poll!TypeOK'
    BY <1>3, <1>4 DEF PollInv, Poll!TypeOK, Transaction
  <1>6. PollShape'
    BY <1>2, <1>3, <1>4 DEF PollInv, PollShape
  <1>7. PollAlone'
    <2>1. CASE Poll!Busy = {}
      <3>1. Poll!Busy' = {r} /\ alone = {}
        BY <1>4, <2>1 DEF Poll!Busy, PollInv, PollAlone
      <3> QED
        BY <1>3, <2>1, <3>1 DEF PollAlone
    <2>2. CASE Poll!Busy # {}
      BY <1>3, <2>2 DEF PollAlone
    <2> QED
      BY <2>1, <2>2
  <1>8. PollCounted'
    <2>1. alone' \subseteq {r}
      BY <1>3 DEF PollInv, PollAlone
    <2> QED
      BY <1>4, <2>1 DEF PollCounted
  <1>9. Poll!PollExact'
    BY <1>3, PollCount DEF PollInv, Poll!PollExact, Poll!Count, Poll!Voters
  <1> QED
    BY <1>5, <1>6, <1>7, <1>8, <1>9 DEF PollInv

LEMMA ReplacePoll ==
    ASSUME PollInv, NEW r \in Req, Poll!Replace(r)
    PROVE  PollInv'
  <1>1. pollReq[r] \in Transaction
    BY DEF PollInv, Poll!TypeOK, Transaction
  <1>2. /\ pollPc[r] = "replace" /\ Poll!Goto(r, "count", pollReq[r])
        /\ UNCHANGED <<votes, optionCount, voterCount, lock, alone, stale, gone>>
    BY DEF Poll!Replace
  <1>3. /\ pollPc' \in [Req -> {"idle", "replace", "count", "store", "voters"}]
        /\ pollReq' \in [Req -> Transaction] /\ pollPc'[r] = "count" /\ pollReq'[r] = pollReq[r]
        /\ \A q \in Req \ {r} : pollPc'[q] = pollPc[q] /\ pollReq'[q] = pollReq[q]
    BY <1>1, <1>2, PollGoto DEF PollInv
  <1>4. Poll!TypeOK'
    BY <1>2, <1>3 DEF PollInv, Poll!TypeOK, Transaction
  <1>5. PollShape'
    BY <1>2, <1>3 DEF PollInv, PollShape
  <1>6. Poll!Busy' = Poll!Busy
    BY <1>2, <1>3 DEF Poll!Busy
  <1>7. PollAlone'
    BY <1>2, <1>6 DEF PollInv, PollAlone
  <1>8. PollCounted'
    <2> SUFFICES ASSUME NEW q \in alone', pollPc'[q] \in {"store", "voters"}
                 PROVE  \A o \in Option : pollReq'[q].count[o] = Poll!Count(Poll!Seen(q)', o)
      BY PollCount DEF PollCounted, Poll!Count, Poll!Seen
    <2>1. q \in Req /\ q # r /\ q \in alone
      BY <1>2, <1>3 DEF PollInv, Poll!TypeOK
    <2>2. pollPc[q] = pollPc'[q] /\ pollReq'[q] = pollReq[q]
      BY <1>3, <2>1
    <2>3. Poll!Seen(q)' = Poll!Seen(q)
      BY <1>2, <2>2 DEF Poll!Seen
    <2> QED
      BY <2>1, <2>2, <2>3 DEF PollInv, PollCounted
  <1>9. Poll!PollExact'
    BY <1>2, PollCount DEF PollInv, Poll!PollExact, Poll!Count, Poll!Voters
  <1> QED
    BY <1>4, <1>5, <1>7, <1>8, <1>9 DEF PollInv

LEMMA GroupPoll ==
    ASSUME PollInv, NEW r \in Req, Poll!Group(r)
    PROVE  PollInv'
  <1> DEFINE c == [o \in Option |-> Poll!Count(Poll!Seen(r), o)]
             rec == [pollReq[r] EXCEPT !.count = c]
  <1>1. pollReq[r] \in Transaction
    BY DEF PollInv, Poll!TypeOK, Transaction
  <1>2. /\ pollPc[r] = "count" /\ Poll!Goto(r, "store", rec)
        /\ UNCHANGED <<votes, optionCount, voterCount, lock, alone, stale, gone>>
    BY DEF Poll!Group
  <1>3. c \in [Option -> Nat]
    <2>1. pollPc[r] # "idle"
      BY <1>2
    <2>2. \A o \in Option : Poll!Count(Poll!Seen(r), o) \in Nat
      BY <2>1, SeenTyped, PollCounts
    <2> QED
      BY <2>2
  <1>4. \A o \in Option : c[o] = Poll!Count(Poll!Seen(r), o)
    OBVIOUS
  <1> HIDE DEF c
  <1>5. /\ rec \in Transaction /\ rec.count = c /\ rec.user = pollReq[r].user
        /\ rec.dropped = pollReq[r].dropped /\ rec.choice = pollReq[r].choice
    BY <1>1, <1>3 DEF Transaction
  <1> HIDE DEF rec
  <1>6. /\ pollPc' \in [Req -> {"idle", "replace", "count", "store", "voters"}]
        /\ pollReq' \in [Req -> Transaction] /\ pollPc'[r] = "store" /\ pollReq'[r] = rec
        /\ \A q \in Req \ {r} : pollPc'[q] = pollPc[q] /\ pollReq'[q] = pollReq[q]
    BY <1>2, <1>5, PollGoto DEF PollInv
  <1>7. Poll!TypeOK'
    BY <1>2, <1>6 DEF PollInv, Poll!TypeOK, Transaction
  <1>8. PollShape'
    BY <1>2, <1>5, <1>6 DEF PollInv, PollShape
  <1>9. Poll!Busy' = Poll!Busy
    BY <1>2, <1>6 DEF Poll!Busy
  <1>10. PollAlone'
    BY <1>2, <1>9 DEF PollInv, PollAlone
  <1>11. PollCounted'
    <2> SUFFICES ASSUME NEW q \in alone', pollPc'[q] \in {"store", "voters"}
                 PROVE  \A o \in Option : pollReq'[q].count[o] = Poll!Count(Poll!Seen(q)', o)
      BY PollCount DEF PollCounted, Poll!Count, Poll!Seen
    <2>1. q \in Req /\ q \in alone
      BY <1>2 DEF PollInv, Poll!TypeOK
    <2>2. CASE q = r
      <3>1. Poll!Seen(q)' = Poll!Seen(r)
        BY <1>2, <1>5, <1>6, <2>2 DEF Poll!Seen
      <3> QED
        BY <1>4, <1>5, <1>6, <2>2, <3>1
    <2>3. CASE q # r
      <3>1. pollPc[q] = pollPc'[q] /\ pollReq'[q] = pollReq[q]
        BY <1>6, <2>1, <2>3
      <3>2. Poll!Seen(q)' = Poll!Seen(q)
        BY <1>2, <3>1 DEF Poll!Seen
      <3> QED
        BY <2>1, <3>1, <3>2 DEF PollInv, PollCounted
    <2> QED
      BY <2>2, <2>3
  <1>12. Poll!PollExact'
    BY <1>2, PollCount DEF PollInv, Poll!PollExact, Poll!Count, Poll!Voters
  <1> QED
    BY <1>7, <1>8, <1>10, <1>11, <1>12 DEF PollInv

LEMMA StorePoll ==
    ASSUME PollInv, NEW r \in Req, Poll!Store(r)
    PROVE  PollInv'
  <1>1. /\ pollPc[r] = "store" /\ lock' = r /\ pollPc' = [pollPc EXCEPT ![r] = "voters"]
        /\ UNCHANGED <<votes, optionCount, voterCount, alone, stale, gone, pollReq>>
    BY DEF Poll!Store
  <1>2. /\ pollPc' \in [Req -> {"idle", "replace", "count", "store", "voters"}]
        /\ pollPc'[r] = "voters" /\ \A q \in Req \ {r} : pollPc'[q] = pollPc[q]
    BY <1>1 DEF PollInv, Poll!TypeOK
  <1>3. Poll!TypeOK'
    BY <1>1, <1>2 DEF PollInv, Poll!TypeOK
  <1>4. PollShape'
    BY <1>1, <1>2 DEF PollInv, PollShape
  <1>5. Poll!Busy' = Poll!Busy
    BY <1>1, <1>2 DEF Poll!Busy
  <1>6. PollAlone'
    BY <1>1, <1>5 DEF PollInv, PollAlone
  <1>7. PollCounted'
    <2> SUFFICES ASSUME NEW q \in alone', pollPc'[q] \in {"store", "voters"}
                 PROVE  \A o \in Option : pollReq'[q].count[o] = Poll!Count(Poll!Seen(q)', o)
      BY PollCount DEF PollCounted, Poll!Count, Poll!Seen
    <2>1. q \in alone /\ q \in Req /\ pollPc[q] \in {"store", "voters"} /\ Poll!Seen(q)' = Poll!Seen(q)
      BY <1>1, <1>2 DEF PollInv, Poll!TypeOK, Poll!Seen
    <2> QED
      BY <1>1, <2>1 DEF PollInv, PollCounted
  <1>8. Poll!PollExact'
    BY <1>1, PollCount DEF PollInv, Poll!PollExact, Poll!Count, Poll!Voters
  <1> QED
    BY <1>3, <1>4, <1>6, <1>7, <1>8 DEF PollInv

LEMMA CommitPoll ==
    ASSUME PollInv, NEW r \in Req, Poll!Commit(r)
    PROVE  PollInv'
  <1>1. /\ pollPc[r] = "voters" /\ votes' = Poll!Seen(r) /\ optionCount' = pollReq[r].count
        /\ voterCount' = Cardinality(Poll!Voters(Poll!Seen(r))) /\ lock' = None
        /\ stale' = (r \notin alone) /\ alone' = alone \ {r}
        /\ Poll!Goto(r, "idle", Poll!Blank) /\ UNCHANGED gone
    BY PollCount DEF Poll!Commit
  <1>2. /\ pollPc' \in [Req -> {"idle", "replace", "count", "store", "voters"}]
        /\ pollReq' \in [Req -> Transaction] /\ pollPc'[r] = "idle"
        /\ \A q \in Req \ {r} : pollPc'[q] = pollPc[q] /\ pollReq'[q] = pollReq[q]
    BY <1>1, BlankTransaction, PollGoto DEF PollInv
  <1>3. Poll!Seen(r) \in SUBSET (User \X Option)
    BY <1>1, SeenTyped
  <1>4. voterCount' \in Nat
    BY <1>1, <1>3, PollCounts
  <1>5. pollReq[r] \in Transaction
    BY DEF PollInv, Poll!TypeOK, Transaction
  <1>6. optionCount' \in [Option -> Nat]
    BY <1>1, <1>5 DEF Transaction
  <1>7. Poll!TypeOK'
    <2>1. stale' \in BOOLEAN
      BY <1>1
    <2> QED
      BY <1>1, <1>2, <1>3, <1>4, <1>6, <2>1 DEF PollInv, Poll!TypeOK, Transaction
  <1>8. PollShape'
    BY <1>2 DEF PollInv, PollShape
  <1>9. alone' = {}
    <2>1. \A q \in alone : q = r
      BY <1>1 DEF PollInv, PollAlone, Poll!Busy
    <2> QED
      BY <1>1, <2>1
  <1>10. PollAlone' /\ PollCounted'
    BY <1>9 DEF PollAlone, PollCounted
  <1>11. Poll!PollExact'
    <2>1. CASE r \in alone
      <3>1. \A o \in Option : pollReq[r].count[o] = Poll!Count(Poll!Seen(r), o)
        BY <1>1, <2>1 DEF PollInv, PollCounted
      <3>2. \A o \in Option : Poll!Count(Poll!Seen(r), o) = Poll!Count(votes, o)'
        BY <1>1, PollCount DEF Poll!Count
      <3>3. voterCount' = Cardinality(Poll!Voters(votes))'
        BY <1>1 DEF Poll!Voters
      <3> QED
        BY <1>1, <3>1, <3>2, <3>3, PollCount DEF Poll!PollExact, Poll!Count, Poll!Voters
    <2>2. CASE r \notin alone
      BY <1>1, <2>2, PollCount DEF Poll!PollExact
    <2> QED
      BY <2>1, <2>2
  <1> QED
    BY <1>7, <1>8, <1>10, <1>11 DEF PollInv

LEMMA AbortPoll ==
    ASSUME PollInv, NEW r \in Req, Poll!Abort(r)
    PROVE  PollInv'
  <1>1. /\ pollPc[r] # "idle" /\ lock' = (IF lock = r THEN None ELSE lock) /\ alone' = alone \ {r}
        /\ Poll!Goto(r, "idle", Poll!Blank) /\ UNCHANGED <<votes, optionCount, voterCount, stale, gone>>
    BY DEF Poll!Abort, Poll!Busy
  <1>2. /\ pollPc' \in [Req -> {"idle", "replace", "count", "store", "voters"}]
        /\ pollReq' \in [Req -> Transaction] /\ pollPc'[r] = "idle"
        /\ \A q \in Req \ {r} : pollPc'[q] = pollPc[q] /\ pollReq'[q] = pollReq[q]
    BY <1>1, BlankTransaction, PollGoto DEF PollInv
  <1>3. Poll!TypeOK'
    BY <1>1, <1>2 DEF PollInv, Poll!TypeOK, Transaction
  <1>4. PollShape'
    BY <1>2 DEF PollInv, PollShape
  <1>5. alone' = {}
    <2>1. \A q \in alone : q = r
      BY <1>1 DEF PollInv, PollAlone, Poll!Busy
    <2> QED
      BY <1>1, <2>1
  <1>6. PollAlone' /\ PollCounted'
    BY <1>5 DEF PollAlone, PollCounted
  <1>7. Poll!PollExact'
    BY <1>1, PollCount DEF PollInv, Poll!PollExact, Poll!Count, Poll!Voters
  <1> QED
    BY <1>3, <1>4, <1>6, <1>7 DEF PollInv

LEMMA DeletePoll ==
    ASSUME PollInv, NEW u \in User, Poll!DeleteAccount(u)
    PROVE  PollInv'
  <1>1. /\ gone' = gone \cup {u} /\ votes' = votes \ ({u} \X Option) /\ alone' = {}
        /\ stale' = (stale \/ u \in Poll!Voters(votes))
        /\ UNCHANGED <<optionCount, voterCount, lock, pollPc, pollReq>>
    BY DEF Poll!DeleteAccount
  <1>2. Poll!TypeOK'
    <2>1. stale' \in BOOLEAN
      BY <1>1 DEF PollInv, Poll!TypeOK
    <2> QED
      BY <1>1, <2>1 DEF PollInv, Poll!TypeOK
  <1>3. PollShape' /\ PollAlone' /\ PollCounted'
    BY <1>1 DEF PollInv, PollShape, PollAlone, PollCounted
  <1>4. Poll!PollExact'
    <2>1. CASE stale \/ u \in Poll!Voters(votes)
      BY <1>1, <2>1, PollCount DEF Poll!PollExact
    <2>2. CASE ~stale /\ u \notin Poll!Voters(votes)
      <3>1. \A v \in votes : v \in User \X Option /\ v[1] # u
        BY <2>2 DEF PollInv, Poll!TypeOK, Poll!Voters
      <3>2. votes' = votes
        BY <1>1, <3>1
      <3> QED
        BY <1>1, <2>2, <3>2, PollCount DEF PollInv, Poll!PollExact, Poll!Count, Poll!Voters
    <2> QED
      BY <2>1, <2>2
  <1> QED
    BY <1>2, <1>3, <1>4 DEF PollInv

LEMMA PollStep == PollInv /\ [Poll!Next]_(Poll!vars) => PollInv'
  <1> SUFFICES ASSUME PollInv, [Poll!Next]_(Poll!vars) PROVE PollInv'
    OBVIOUS
  <1>1. CASE Poll!Next
    BY <1>1, BeginPoll, ReplacePoll, GroupPoll, StorePoll, CommitPoll, AbortPoll, DeletePoll
       DEF Poll!Next
  <1>2. CASE UNCHANGED Poll!vars
    <2>1. \A r \in Req : Poll!Seen(r)' = Poll!Seen(r)
      BY <1>2 DEF Poll!vars, Poll!Seen
    <2>2. Poll!Busy' = Poll!Busy
      BY <1>2 DEF Poll!vars, Poll!Busy
    <2>3. PollCounted'
      <3> SUFFICES ASSUME NEW q \in alone', pollPc'[q] \in {"store", "voters"}
                   PROVE  \A o \in Option : pollReq'[q].count[o] = Poll!Count(Poll!Seen(q)', o)
        BY PollCount DEF PollCounted, Poll!Count, Poll!Seen
      <3>1. q \in Req
        BY <1>2 DEF Poll!vars, PollInv, Poll!TypeOK
      <3> QED
        BY <1>2, <2>1, <3>1 DEF Poll!vars, PollInv, PollCounted
    <2> QED
      BY <1>2, <2>2, <2>3, PollCount DEF Poll!vars, PollInv, Poll!TypeOK, PollShape, PollAlone,
         Poll!PollExact, Poll!Count, Poll!Voters
  <1> QED
    BY <1>1, <1>2

-----------------------------------------------------------------------------
(* A rating.                                                                 *)

\* A transaction in flight is that of a member; the one that met no other change is
\* alone in flight, and has summed the reviews it is about to commit.
ReviewShape == \A r \in Req : reviewPc[r] # "idle" => reviewReq[r].author \in User
ReviewAlone == single \subseteq Review!Busy /\ \A r \in single : Review!Busy = {r}
ReviewSummed ==
    \A r \in single : reviewPc[r] = "store" =>
        reviewReq[r].total = Review!Total([review EXCEPT ![reviewReq[r].author] = reviewReq[r].rating])
ReviewInv == Review!TypeOK /\ ReviewShape /\ ReviewAlone /\ ReviewSummed /\ Review!RatingExact

ReviewRequest == [author : User \cup {None}, rating : Review!Rating \cup {Review!NoReview}, total : Review!Totals]
ReviewSteps == {"idle", "write", "recompute", "store"}

LEMMA TotalsTyped ==
    /\ \A f \in [User -> Review!Rating \cup {Review!NoReview}] : Review!Total(f) \in Review!Totals
    /\ Review!NoTotal \in Review!Totals
    /\ Review!Blank \in ReviewRequest
  <1>1. \A f \in [User -> Review!Rating \cup {Review!NoReview}] : Review!Total(f) \in Review!Totals
    BY DEF Review!Totals
  <1>2. [a \in User |-> Review!NoReview] \in [User -> Review!Rating \cup {Review!NoReview}]
    OBVIOUS
  <1>3. Review!NoTotal \in Review!Totals
    BY <1>1, <1>2, Zenon DEF Review!NoTotal
  <1> QED
    BY <1>1, <1>3 DEF Review!Blank, Review!Ask, ReviewRequest

LEMMA ReviewStarts == Review!Init => ReviewInv
  <1> SUFFICES ASSUME Review!Init PROVE ReviewInv
    OBVIOUS
  <1> USE DEF Review!Init
  <1>1. Review!TypeOK
    BY TotalsTyped DEF Review!TypeOK, ReviewRequest
  <1>2. ReviewShape /\ ReviewAlone /\ ReviewSummed
    BY DEF ReviewShape, ReviewAlone, ReviewSummed
  <1>3. Review!RatingExact
    BY Zenon DEF Review!RatingExact, Review!NoTotal
  <1> QED
    BY <1>1, <1>2, <1>3 DEF ReviewInv

\* One transaction moves on: the others are where they were.
LEMMA ReviewGoto ==
    ASSUME Review!TypeOK, NEW r \in Req, NEW step \in ReviewSteps, NEW rec \in ReviewRequest,
           Review!Goto(r, step, rec)
    PROVE  /\ reviewPc' \in [Req -> ReviewSteps] /\ reviewReq' \in [Req -> ReviewRequest]
           /\ reviewPc'[r] = step /\ reviewReq'[r] = rec
           /\ \A q \in Req \ {r} : reviewPc'[q] = reviewPc[q] /\ reviewReq'[q] = reviewReq[q]
  BY DEF Review!TypeOK, Review!Goto, ReviewRequest, ReviewSteps

LEMMA ReviewFields ==
    ASSUME Review!TypeOK, NEW r \in Req
    PROVE  /\ reviewReq[r] \in ReviewRequest /\ reviewReq[r].author \in User \cup {None}
           /\ reviewReq[r].rating \in Review!Rating \cup {Review!NoReview} /\ reviewReq[r].total \in Review!Totals
  <1>1. reviewReq[r] \in ReviewRequest
    BY DEF Review!TypeOK, ReviewRequest
  <1> QED
    BY <1>1 DEF ReviewRequest

LEMMA BeginReview ==
    ASSUME ReviewInv, NEW r \in Req, NEW a \in User, NEW n \in Review!Rating \cup {Review!NoReview},
           Review!Begin(r, a, n)
    PROVE  ReviewInv'
  <1> DEFINE rec == Review!Ask(a, n, Review!NoTotal)
  <1>1. rec \in ReviewRequest
    BY TotalsTyped DEF Review!Ask, ReviewRequest
  <1>2. rec.author = a
    BY DEF Review!Ask
  <1>3. /\ reviewPc[r] = "idle" /\ Review!Goto(r, "write", rec)
        /\ single' = IF Review!Busy = {} THEN single \cup {r} ELSE {}
        /\ UNCHANGED <<review, shown, outdated, closed>>
    BY DEF Review!Begin
  <1> HIDE DEF rec
  <1>4. /\ reviewPc' \in [Req -> ReviewSteps] /\ reviewReq' \in [Req -> ReviewRequest]
        /\ reviewPc'[r] = "write" /\ reviewReq'[r] = rec
        /\ \A q \in Req \ {r} : reviewPc'[q] = reviewPc[q] /\ reviewReq'[q] = reviewReq[q]
    BY <1>1, <1>3, ReviewGoto DEF ReviewInv, ReviewSteps
  <1>5. Review!TypeOK'
    BY <1>3, <1>4 DEF ReviewInv, Review!TypeOK, ReviewRequest, ReviewSteps
  <1>6. ReviewShape'
    BY <1>2, <1>3, <1>4 DEF ReviewInv, ReviewShape
  <1>7. ReviewAlone'
    <2>1. CASE Review!Busy = {}
      <3>1. Review!Busy' = {r} /\ single = {}
        BY <1>4, <2>1 DEF Review!Busy, ReviewInv, ReviewAlone
      <3> QED
        BY <1>3, <2>1, <3>1 DEF ReviewAlone
    <2>2. CASE Review!Busy # {}
      BY <1>3, <2>2 DEF ReviewAlone
    <2> QED
      BY <2>1, <2>2
  <1>8. ReviewSummed'
    <2>1. single' \subseteq {r}
      BY <1>3 DEF ReviewInv, ReviewAlone
    <2> QED
      BY <1>4, <2>1 DEF ReviewSummed
  <1>9. Review!RatingExact'
    BY <1>3 DEF ReviewInv, Review!RatingExact
  <1> QED
    BY <1>5, <1>6, <1>7, <1>8, <1>9 DEF ReviewInv

LEMMA WriteReview ==
    ASSUME ReviewInv, NEW r \in Req, Review!Write(r)
    PROVE  ReviewInv'
  <1>1. /\ reviewPc[r] = "write" /\ Review!Goto(r, "recompute", reviewReq[r])
        /\ UNCHANGED <<review, shown, outdated, single, closed>>
    BY DEF Review!Write
  <1>2. /\ reviewPc' \in [Req -> ReviewSteps] /\ reviewReq' \in [Req -> ReviewRequest]
        /\ reviewPc'[r] = "recompute" /\ reviewReq'[r] = reviewReq[r]
        /\ \A q \in Req \ {r} : reviewPc'[q] = reviewPc[q] /\ reviewReq'[q] = reviewReq[q]
    BY <1>1, ReviewFields, ReviewGoto DEF ReviewInv, ReviewSteps
  <1>3. Review!TypeOK'
    BY <1>1, <1>2 DEF ReviewInv, Review!TypeOK, ReviewRequest, ReviewSteps
  <1>4. ReviewShape'
    BY <1>1, <1>2 DEF ReviewInv, ReviewShape
  <1>5. Review!Busy' = Review!Busy
    BY <1>1, <1>2 DEF Review!Busy
  <1>6. ReviewAlone'
    BY <1>1, <1>5 DEF ReviewInv, ReviewAlone
  <1>7. ReviewSummed'
    BY <1>1, <1>2 DEF ReviewInv, ReviewSummed, Review!TypeOK
  <1>8. Review!RatingExact'
    BY <1>1 DEF ReviewInv, Review!RatingExact
  <1> QED
    BY <1>3, <1>4, <1>6, <1>7, <1>8 DEF ReviewInv

LEMMA RecomputeReview ==
    ASSUME ReviewInv, NEW r \in Req, Review!Recompute(r)
    PROVE  ReviewInv'
  <1> DEFINE t == Review!Total([review EXCEPT ![reviewReq[r].author] = reviewReq[r].rating])
             rec == [reviewReq[r] EXCEPT !.total = t]
  <1>1. /\ reviewPc[r] = "recompute" /\ Review!Goto(r, "store", rec)
        /\ UNCHANGED <<review, shown, outdated, single, closed>>
    BY DEF Review!Recompute
  <1>2. t \in Review!Totals
    <2>1. [review EXCEPT ![reviewReq[r].author] = reviewReq[r].rating] \in [User -> Review!Rating \cup {Review!NoReview}]
      BY ReviewFields DEF ReviewInv, Review!TypeOK
    <2> QED
      BY <2>1, TotalsTyped
  <1>3. t = Review!Total([review EXCEPT ![reviewReq[r].author] = reviewReq[r].rating])
    OBVIOUS
  <1> HIDE DEF t
  <1>4. /\ rec \in ReviewRequest /\ rec.total = t
        /\ rec.author = reviewReq[r].author /\ rec.rating = reviewReq[r].rating
    BY <1>2, ReviewFields DEF ReviewInv, ReviewRequest
  <1> HIDE DEF rec
  <1>5. /\ reviewPc' \in [Req -> ReviewSteps] /\ reviewReq' \in [Req -> ReviewRequest]
        /\ reviewPc'[r] = "store" /\ reviewReq'[r] = rec
        /\ \A q \in Req \ {r} : reviewPc'[q] = reviewPc[q] /\ reviewReq'[q] = reviewReq[q]
    BY <1>1, <1>4, ReviewGoto DEF ReviewInv, ReviewSteps
  <1>6. Review!TypeOK'
    BY <1>1, <1>5 DEF ReviewInv, Review!TypeOK, ReviewRequest, ReviewSteps
  <1>7. ReviewShape'
    BY <1>1, <1>4, <1>5 DEF ReviewInv, ReviewShape
  <1>8. Review!Busy' = Review!Busy
    BY <1>1, <1>5 DEF Review!Busy
  <1>9. ReviewAlone'
    BY <1>1, <1>8 DEF ReviewInv, ReviewAlone
  <1>10. ReviewSummed'
    BY <1>1, <1>3, <1>4, <1>5 DEF ReviewInv, ReviewSummed, Review!TypeOK
  <1>11. Review!RatingExact'
    BY <1>1 DEF ReviewInv, Review!RatingExact
  <1> QED
    BY <1>6, <1>7, <1>9, <1>10, <1>11 DEF ReviewInv

LEMMA CommitReview ==
    ASSUME ReviewInv, NEW r \in Req, Review!Commit(r)
    PROVE  ReviewInv'
  <1>1. /\ reviewPc[r] = "store"
        /\ review' = [review EXCEPT ![reviewReq[r].author] = reviewReq[r].rating]
        /\ shown' = reviewReq[r].total /\ outdated' = (r \notin single) /\ single' = single \ {r}
        /\ Review!Goto(r, "idle", Review!Blank) /\ UNCHANGED closed
    BY DEF Review!Commit
  <1>2. /\ reviewPc' \in [Req -> ReviewSteps] /\ reviewReq' \in [Req -> ReviewRequest]
        /\ reviewPc'[r] = "idle"
        /\ \A q \in Req \ {r} : reviewPc'[q] = reviewPc[q] /\ reviewReq'[q] = reviewReq[q]
    BY <1>1, TotalsTyped, ReviewGoto DEF ReviewInv, ReviewSteps
  <1>3. review' \in [User -> Review!Rating \cup {Review!NoReview}] /\ shown' \in Review!Totals /\ outdated' \in BOOLEAN
    BY <1>1, ReviewFields DEF ReviewInv, Review!TypeOK
  <1>4. Review!TypeOK'
    BY <1>1, <1>2, <1>3 DEF ReviewInv, Review!TypeOK, ReviewRequest, ReviewSteps
  <1>5. ReviewShape'
    BY <1>2 DEF ReviewInv, ReviewShape
  <1>6. single' = {}
    <2>1. \A q \in single : q = r
      BY <1>1 DEF ReviewInv, ReviewAlone, Review!Busy
    <2> QED
      BY <1>1, <2>1
  <1>7. ReviewAlone' /\ ReviewSummed'
    BY <1>6 DEF ReviewAlone, ReviewSummed
  <1>8. Review!RatingExact'
    <2>1. CASE r \in single
      <3>1. reviewReq[r].total = Review!Total([review EXCEPT ![reviewReq[r].author] = reviewReq[r].rating])
        BY <1>1, <2>1 DEF ReviewInv, ReviewSummed
      <3>2. shown' = Review!Total(review')
        BY <1>1, <3>1
      <3> QED
        BY <3>2 DEF Review!RatingExact
    <2>2. CASE r \notin single
      BY <1>1, <2>2 DEF Review!RatingExact
    <2> QED
      BY <2>1, <2>2
  <1> QED
    BY <1>4, <1>5, <1>7, <1>8 DEF ReviewInv

LEMMA AbortReview ==
    ASSUME ReviewInv, NEW r \in Req, Review!Abort(r)
    PROVE  ReviewInv'
  <1>1. /\ reviewPc[r] # "idle" /\ single' = single \ {r}
        /\ Review!Goto(r, "idle", Review!Blank) /\ UNCHANGED <<review, shown, outdated, closed>>
    BY DEF Review!Abort, Review!Busy
  <1>2. /\ reviewPc' \in [Req -> ReviewSteps] /\ reviewReq' \in [Req -> ReviewRequest]
        /\ reviewPc'[r] = "idle"
        /\ \A q \in Req \ {r} : reviewPc'[q] = reviewPc[q] /\ reviewReq'[q] = reviewReq[q]
    BY <1>1, TotalsTyped, ReviewGoto DEF ReviewInv, ReviewSteps
  <1>3. Review!TypeOK'
    BY <1>1, <1>2 DEF ReviewInv, Review!TypeOK, ReviewRequest, ReviewSteps
  <1>4. ReviewShape'
    BY <1>2 DEF ReviewInv, ReviewShape
  <1>5. single' = {}
    <2>1. \A q \in single : q = r
      BY <1>1 DEF ReviewInv, ReviewAlone, Review!Busy
    <2> QED
      BY <1>1, <2>1
  <1>6. ReviewAlone' /\ ReviewSummed'
    BY <1>5 DEF ReviewAlone, ReviewSummed
  <1>7. Review!RatingExact'
    BY <1>1 DEF ReviewInv, Review!RatingExact
  <1> QED
    BY <1>3, <1>4, <1>6, <1>7 DEF ReviewInv

LEMMA DeleteReviewer ==
    ASSUME ReviewInv, NEW a \in User, Review!DeleteAccount(a)
    PROVE  ReviewInv'
  <1>1. /\ closed' = closed \cup {a} /\ review' = [review EXCEPT ![a] = Review!NoReview] /\ single' = {}
        /\ outdated' = (outdated \/ review[a] # Review!NoReview) /\ UNCHANGED <<shown, reviewPc, reviewReq>>
    BY DEF Review!DeleteAccount
  <1>2. Review!TypeOK'
    <2>1. outdated' \in BOOLEAN
      BY <1>1 DEF ReviewInv, Review!TypeOK
    <2>2. review' \in [User -> Review!Rating \cup {Review!NoReview}]
      BY <1>1 DEF ReviewInv, Review!TypeOK
    <2> QED
      BY <1>1, <2>1, <2>2 DEF ReviewInv, Review!TypeOK
  <1>3. ReviewShape' /\ ReviewAlone' /\ ReviewSummed'
    BY <1>1 DEF ReviewInv, ReviewShape, ReviewAlone, ReviewSummed
  <1>4. Review!RatingExact'
    <2>1. CASE outdated \/ review[a] # Review!NoReview
      BY <1>1, <2>1 DEF Review!RatingExact
    <2>2. CASE ~outdated /\ review[a] = Review!NoReview
      <3>1. review' = review
        BY <1>1, <2>2 DEF ReviewInv, Review!TypeOK
      <3> QED
        BY <1>1, <2>2, <3>1 DEF ReviewInv, Review!RatingExact
    <2> QED
      BY <2>1, <2>2
  <1> QED
    BY <1>2, <1>3, <1>4 DEF ReviewInv

LEMMA ReviewStep == ReviewInv /\ [Review!Next]_(Review!vars) => ReviewInv'
  <1> SUFFICES ASSUME ReviewInv, [Review!Next]_(Review!vars) PROVE ReviewInv'
    OBVIOUS
  <1>1. CASE Review!Next
    BY <1>1, BeginReview, WriteReview, RecomputeReview, CommitReview, AbortReview,
       DeleteReviewer DEF Review!Next
  <1>2. CASE UNCHANGED Review!vars
    BY <1>2 DEF Review!vars, ReviewInv, Review!TypeOK, ReviewShape, ReviewAlone, ReviewSummed,
       Review!RatingExact,
                Review!Busy
  <1> QED
    BY <1>1, <1>2

-----------------------------------------------------------------------------
(* The parts together.                                                       *)

\* The invariant of each counter is inductive.
LEMMA FeedInvariance == Feed!Spec => []FeedInv
<1>1. Feed!Init => FeedInv
  BY FeedStarts
<1>2. FeedInv /\ [Feed!Next]_(Feed!vars) => FeedInv'
  BY FeedStep
<1> QED
  BY <1>1, <1>2, PTL DEF Feed!Spec

LEMMA PriceInvariance == Price!Spec => []PriceInv
<1>1. Price!Init => PriceInv
  BY PriceStarts
<1>2. PriceInv /\ [Price!Next]_(Price!vars) => PriceInv'
  BY PriceStep
<1> QED
  BY <1>1, <1>2, PTL DEF Price!Spec

LEMMA PollInvariance == Poll!Spec => []PollInv
<1>1. Poll!Init => PollInv
  BY PollStarts
<1>2. PollInv /\ [Poll!Next]_(Poll!vars) => PollInv'
  BY PollStep
<1> QED
  BY <1>1, <1>2, PTL DEF Poll!Spec

LEMMA ReviewInvariance == Review!Spec => []ReviewInv
<1>1. Review!Init => ReviewInv
  BY ReviewStarts
<1>2. ReviewInv /\ [Review!Next]_(Review!vars) => ReviewInv'
  BY ReviewStep
<1> QED
  BY <1>1, <1>2, PTL DEF Review!Spec

\* What the run checks, under bounds of its own, is a behaviour of each part.
LEMMA PartsAlone == MCSpec => Spec /\ Feed!Spec /\ Price!Spec /\ Poll!Spec /\ Review!Spec
<1>1. MCInit => Init /\ Feed!Init /\ Price!Init /\ Poll!Init /\ Review!Init
  BY DEF MCInit
<1>2. ASSUME [MCNext]_<<part, chat, post, price, poll, reviews>>
      PROVE  /\ [Next]_vars /\ [Feed!Next]_(Feed!vars) /\ [Price!Next]_(Price!vars)
             /\ [Poll!Next]_(Poll!vars) /\ [Review!Next]_(Review!vars)
  <2> USE DEF chat, post, price, poll, reviews
  <2>1. /\ UNCHANGED chat => UNCHANGED vars
        /\ UNCHANGED post => UNCHANGED Feed!vars
        /\ UNCHANGED price => UNCHANGED Price!vars
        /\ UNCHANGED poll => UNCHANGED Poll!vars
        /\ UNCHANGED reviews => UNCHANGED Review!vars
    BY DEF vars, messages, counters, list, Feed!vars, Feed!likes, Feed!comments,
           Price!vars, Poll!vars, Review!vars
  <2>2. [Next]_vars
    BY <1>2, <2>1, Zenon DEF MCNext
  <2>3. [Feed!Next]_(Feed!vars)
    BY <1>2, <2>1, Zenon DEF MCNext
  <2>4. [Price!Next]_(Price!vars) /\ [Poll!Next]_(Poll!vars) /\ [Review!Next]_(Review!vars)
    BY <1>2, <2>1, Zenon DEF MCNext
  <2> QED
    BY <2>2, <2>3, <2>4
<1> QED
  BY <1>1, <1>2, PTL DEF MCSpec, Spec, Feed!Spec, Price!Spec, Poll!Spec, Review!Spec

\* Messages, reactions, comments, votes and reviews, and the requests that write
\* them, keep their types; a rating shown is always that of some reviews.
THEOREM CommunityTyped ==
    Spec /\ Feed!Spec /\ Price!Spec /\ Poll!Spec /\ Review!Spec => []PartsTyped
<1>1. TypeOK /\ FeedInv /\ PriceInv /\ PollInv /\ ReviewInv => PartsTyped
  BY DEF FeedInv, PriceInv, PollInv, ReviewInv, PartsTyped
<1> QED
  BY <1>1, TypeCorrect, FeedInvariance, PriceInvariance, PollInvariance, ReviewInvariance, PTL

\* Every counter that is kept beside its rows agrees with them, for any members and
\* requests in flight: the reactions and comments of a post, the score of a price,
\* the results of a poll, the rating of a member or a page; but for the rows that go
\* with an account or a moderation, and for the overlaps that are recorded.
THEOREM CountersAgree == Feed!Spec /\ Price!Spec /\ Poll!Spec /\ Review!Spec => []CountersExact
<1>1. FeedInv /\ PriceInv /\ PollInv /\ ReviewInv => CountersExact
  BY DEF FeedInv, PriceInv, PollInv, ReviewInv, CountersExact
<1> QED
  BY <1>1, FeedInvariance, PriceInvariance, PollInvariance, ReviewInvariance, PTL
====
