---- MODULE SocialGraphProofs ----
(* Proofs about SocialGraph for any members, rows and requests in flight, and *)
(* the type of the status guard that is checked along with it.               *)
EXTENDS MCSocialGraph, TLAPS

\* A row has two different ends, and its sender has asked for it. A friendship
\* was asked for from both sides.
RowOf(f) ==
    /\ fstatus[f] = "absent" => from[f] = None /\ to[f] = None
    /\ fstatus[f] # "absent" =>
          from[f] \in User /\ to[f] \in User /\ from[f] # to[f]
    /\ fstatus[f] \in {"pending", "declined"} => <<from[f], to[f]>> \in asked
    /\ fstatus[f] = "accepted" => <<from[f], to[f]>> \in asked /\ <<to[f], from[f]>> \in asked

RowInv == \A f \in Row : RowOf(f)

\* The row a request holds is one of its own pair, however it has been turned
\* since, and the other member has asked for it.
ReqOf(r) ==
    /\ pc[r] # "idle" =>
          req[r].by \in User /\ req[r].other \in User /\ req[r].by # req[r].other
    /\ pc[r] = "idle" => req[r] = Blank
    /\ req[r].row # None =>
          /\ fstatus[req[r].row] # "absent"
          /\ \/ from[req[r].row] = req[r].by /\ to[req[r].row] = req[r].other
             \/ to[req[r].row] = req[r].by /\ from[req[r].row] = req[r].other
    /\ pc[r] = "answer" =>
          <<req[r].other, req[r].by>> \in asked /\ req[r].val \in {"accepted", "declined"}
    /\ pc[r] = "set" => req[r].val \in Verdict
    /\ pc[r] \in {"ensure", "upgrade", "befriend"} =>
          <<req[r].by, req[r].other>> \in asked /\ <<req[r].other, req[r].by>> \in asked

ReqInv == \A r \in Req : ReqOf(r)

IInv == TypeOK /\ RowInv /\ ReqInv

\* The pairs are the sets of two different members.
LEMMA PairIs == ASSUME NEW u \in User, NEW v \in User, u # v PROVE {u, v} \in Pair
<1>1. <<u, v>> \in {q \in User \X User : q[1] # q[2]}
  OBVIOUS
<1> QED
  BY <1>1 DEF Pair

\* The initial states satisfy the invariant.
LEMMA InitInv == Init => IInv
  BY NoneFresh DEF Init, IInv, Request, TypeOK, RowStatus, Verdict, PC, Blank, RowInv, RowOf, ReqInv, ReqOf

\* What the rows of a pair are.
LEMMA BetweenIs ==
    ASSUME NEW u, NEW v, NEW f \in Between(u, v)
    PROVE  /\ f \in Row /\ fstatus[f] # "absent"
           /\ \/ from[f] = u /\ to[f] = v
              \/ from[f] = v /\ to[f] = u
  BY DEF Between

\* Every action preserves the invariant.
LEMMA NextInv == IInv /\ [Next]_vars => IInv'
<1> SUFFICES ASSUME IInv, [Next]_vars PROVE IInv'
  OBVIOUS
<1> USE NoneFresh DEF IInv, TypeOK, Request, RowStatus, Verdict, PC, RowInv, RowOf, ReqInv, ReqOf
<1>1. ASSUME NEW r \in Req, FillRead(r) PROVE IInv'
  BY <1>1 DEF FillRead, Move, With, rows
<1>2. ASSUME NEW r \in Req, FillWrite(r) PROVE IInv'
  <2>1. Mine(r) \in Pair /\ req[r].val \in Verdict
    BY <1>2, PairIs DEF FillWrite, Mine
  <2>2. cache' \in [Pair -> Verdict \cup {None}]
    BY <1>2, <2>1 DEF FillWrite
  <2>3. CASE Leave(r)
    BY <1>2, <2>2, <2>3 DEF FillWrite, Leave, Move, Blank, rows
  <2>4. CASE Move(r, "passed", With(r, None, None))
    BY <1>2, <2>2, <2>4 DEF FillWrite, Move, With, rows
  <2> QED
    BY <1>2, <2>3, <2>4 DEF FillWrite
<1>3. ASSUME NEW r \in Req, Lookup(r) PROVE IInv'
  <2>1. CASE Move(r, "insert", req[r])
    BY <1>3, <2>1, SMTT(60) DEF Lookup, Move, rows
  <2>2. CASE \E f \in Between(req[r].by, req[r].other) : Move(r, "resend", With(r, f, None))
    <3>1. PICK f \in Between(req[r].by, req[r].other) : Move(r, "resend", With(r, f, None))
      BY <2>2
    <3>2. f \in Row /\ fstatus[f] # "absent" /\ UNCHANGED <<rows, blocks, cache, met, asked>>
      BY <1>3, <3>1, BetweenIs DEF Lookup
    <3>3. \/ from[f] = req[r].by /\ to[f] = req[r].other
          \/ from[f] = req[r].other /\ to[f] = req[r].by
      BY <3>1, BetweenIs
    <3>4. pc[r] = "passed"
      BY <1>3 DEF Lookup
    <3> QED
      BY <3>1, <3>2, <3>3, <3>4, SMTT(60) DEF Move, With, rows
  <2> QED
    BY <1>3, <2>1, <2>2 DEF Lookup
<1>4. ASSUME NEW r \in Req, Resend(r) PROVE IInv'
  <2>1. /\ req[r].row \in Row /\ fstatus[req[r].row] # "absent"
        /\ req[r].by \in User /\ req[r].other \in User /\ req[r].by # req[r].other
    BY <1>4 DEF Resend
  <2>2. asked \subseteq asked' /\ asked' \subseteq User \X User
    BY <1>4, <2>1 DEF Resend
  <2>3. TypeOK' /\ RowInv'
    BY <1>4, <2>1, <2>2 DEF Resend, Put, Leave, Move, Blank
  <2>4. SUFFICES ASSUME NEW q \in Req PROVE ReqOf(q)'
    BY <2>3 DEF ReqOf
  <2>5. CASE q = r
    BY <1>4, <2>5 DEF Resend, Leave, Move, Blank, ReqOf
  <2>6. CASE q # r /\ req[q].row = req[r].row
    <3>1. /\ from'[req[r].row] = req[r].by /\ to'[req[r].row] = req[r].other
          /\ fstatus'[req[r].row] = "pending" /\ pc'[q] = pc[q] /\ req'[q] = req[q]
      BY <1>4, <2>1, <2>6 DEF Resend, Put, Leave, Move
    <3>2. \/ req[q].by = req[r].by /\ req[q].other = req[r].other
          \/ req[q].by = req[r].other /\ req[q].other = req[r].by
      <4>1. req[r].row # None /\ req[q].row # None
        BY <2>1, <2>6
      <4>2. \/ from[req[r].row] = req[r].by /\ to[req[r].row] = req[r].other
            \/ to[req[r].row] = req[r].by /\ from[req[r].row] = req[r].other
        BY <4>1
      <4>3. \/ from[req[r].row] = req[q].by /\ to[req[r].row] = req[q].other
            \/ to[req[r].row] = req[q].by /\ from[req[r].row] = req[q].other
        BY <2>6, <4>1
      <4> QED
        BY <4>2, <4>3
    <3> QED
      BY <2>1, <2>2, <2>6, <3>1, <3>2 DEF ReqOf
  <2>7. CASE q # r /\ req[q].row # req[r].row
    BY <1>4, <2>1, <2>2, <2>7 DEF Resend, Put, Leave, Move, ReqOf
  <2> QED
    BY <2>5, <2>6, <2>7
<1>5. ASSUME NEW r \in Req, AnswerWrite(r) PROVE IInv'
  <2>1. /\ req[r].row \in Row /\ fstatus[req[r].row] # "absent"
        /\ req[r].by \in User /\ req[r].other \in User /\ req[r].by # req[r].other
        /\ req[r].val \in {"accepted", "declined"}
        /\ <<req[r].other, req[r].by>> \in asked
    BY <1>5 DEF AnswerWrite
  <2>2. /\ asked \subseteq asked' /\ asked' \subseteq User \X User
        /\ req[r].val = "accepted" => <<req[r].by, req[r].other>> \in asked'
    BY <1>5, <2>1 DEF AnswerWrite
  <2>3. TypeOK'
    BY <1>5, <2>1, <2>2 DEF AnswerWrite, Leave, Move, Blank
  <2>4. RowInv'
    BY <1>5, <2>1, <2>2, SMTT(60) DEF AnswerWrite
  <2>5. ReqInv'
    BY <1>5, <2>1, <2>2 DEF AnswerWrite, Leave, Move, Blank
  <2> QED
    BY <2>3, <2>4, <2>5
<1>6. ASSUME NEW r \in Req, Invalidate(r) PROVE IInv'
  BY <1>6, ZenonT(60) DEF Invalidate, Move, Leave, Blank, rows
<1>7. ASSUME NEW r \in Req, PingWrite(r) PROVE IInv'
  BY <1>7, ZenonT(60) DEF PingWrite, Move, Leave, Blank, rows
<1>8. ASSUME NEW r \in Req, EnsureRead(r) PROVE IInv'
  <2>1. CASE Move(r, "befriend", req[r])
    BY <1>8, <2>1, ZenonT(60) DEF EnsureRead, Move, rows
  <2>2. CASE \E f \in Between(req[r].by, req[r].other) : Move(r, "upgrade", With(r, f, None))
    <3>1. PICK f \in Between(req[r].by, req[r].other) : Move(r, "upgrade", With(r, f, None))
      BY <2>2
    <3>2. f \in Row /\ fstatus[f] # "absent" /\ UNCHANGED <<rows, blocks, cache, met, asked>>
      BY <1>8, <3>1, BetweenIs DEF EnsureRead
    <3>3. \/ from[f] = req[r].by /\ to[f] = req[r].other
          \/ from[f] = req[r].other /\ to[f] = req[r].by
      BY <3>1, BetweenIs
    <3>4. pc[r] = "ensure"
      BY <1>8 DEF EnsureRead
    <3> QED
      BY <3>1, <3>2, <3>3, <3>4, ZenonT(60) DEF Move, With, rows
  <2>3. CASE Leave(r)
    BY <1>8, <2>3 DEF EnsureRead, Leave, Move, Blank, rows
  <2> QED
    BY <1>8, <2>1, <2>2, <2>3 DEF EnsureRead
<1>9. ASSUME NEW r \in Req, EnsureUpdate(r) PROVE IInv'
  <2>1. /\ req[r].row \in Row /\ fstatus[req[r].row] # "absent"
        /\ <<from[req[r].row], to[req[r].row]>> \in asked
        /\ <<to[req[r].row], from[req[r].row]>> \in asked
    BY <1>9 DEF EnsureUpdate
  <2>2. TypeOK' /\ ReqInv'
    BY <1>9, <2>1 DEF EnsureUpdate, Leave, Move, Blank
  <2>3. ASSUME NEW f \in Row PROVE RowOf(f)'
    <3>1. CASE f = req[r].row
      BY <1>9, <2>1, <3>1 DEF EnsureUpdate
    <3>2. CASE f # req[r].row
      BY <1>9, <3>2 DEF EnsureUpdate
    <3> QED
      BY <3>1, <3>2
  <2> QED
    BY <2>2, <2>3
<1>10. ASSUME NEW r \in Req, Abort(r) PROVE IInv'
  BY <1>10 DEF Abort, Move, Leave, Blank, rows
<1>11. ASSUME NEW r \in Req, NEW f \in Row, Insert(r, f) PROVE IInv'
  <2>1. req[r].by \in User /\ req[r].other \in User /\ req[r].by # req[r].other
    BY <1>11 DEF Insert
  <2>2. asked \subseteq asked' /\ asked' \subseteq User \X User
    BY <1>11, <2>1 DEF Insert
  <2>3. TypeOK' /\ RowInv'
    BY <1>11, <2>1, <2>2 DEF Insert, Put, Leave, Move, Blank
  <2>4. ASSUME NEW q \in Req PROVE ReqOf(q)'
    <3>1. CASE q = r
      BY <1>11, <3>1 DEF Insert, Leave, Move, Blank, ReqOf
    <3>2. CASE q # r
      BY <1>11, <2>2, <3>2 DEF Insert, Put, Leave, Move, ReqOf
    <3> QED
      BY <3>1, <3>2
  <2> QED
    BY <2>3, <2>4
<1>12. ASSUME NEW r \in Req, NEW f \in Row, EnsureCreate(r, f) PROVE IInv'
  <2>1. /\ req[r].by \in User /\ req[r].other \in User /\ req[r].by # req[r].other
        /\ <<req[r].by, req[r].other>> \in asked /\ <<req[r].other, req[r].by>> \in asked
    BY <1>12 DEF EnsureCreate
  <2>2. TypeOK'
    BY <1>12, <2>1 DEF EnsureCreate, Put, Leave, Move, Blank
  <2>3. RowInv'
    BY <1>12, <2>1 DEF EnsureCreate, Put
  <2>4. ASSUME NEW q \in Req PROVE ReqOf(q)'
    <3>1. CASE q = r
      BY <1>12, <3>1 DEF EnsureCreate, Leave, Move, Blank, ReqOf
    <3>2. CASE q # r
      BY <1>12, <3>2 DEF EnsureCreate, Put, Leave, Move, ReqOf
    <3> QED
      BY <3>1, <3>2
  <2> QED
    BY <2>2, <2>3, <2>4
<1>13. ASSUME NEW r \in Req, NEW f \in Row, NEW v \in {"accepted", "declined"}, AnswerRead(r, f, v)
       PROVE IInv'
  BY <1>13, ZenonT(60) DEF AnswerRead, Enter, rows
<1>14. ASSUME NEW r \in Req, NEW u \in User, NEW v \in User, Ask(r, u, v) PROVE IInv'
  BY <1>14 DEF Ask, Enter, rows
<1>15. ASSUME NEW r \in Req, NEW u \in User, NEW v \in User, Block(r, u, v) PROVE IInv'
  <2>1. TypeOK'
    BY <1>15 DEF Block, Gone, Forget, With, Blank
  <2>2. RowInv'
    BY <1>15 DEF Block, Gone, Forget, With, Blank
  <2>3. ASSUME NEW q \in Req PROVE ReqOf(q)'
    <3>1. CASE q = r
      BY <1>15, <3>1 DEF Block, Forget, Blank
    <3>2. CASE q # r /\ req[q].row \in Between(u, v)
      BY <1>15, <3>2, SMTT(60) DEF Block, Forget, With, Blank
    <3>3. CASE q # r /\ req[q].row \notin Between(u, v)
      BY <1>15, <3>3, SMTT(60) DEF Block, Gone, Forget
    <3> QED
      BY <3>1, <3>2, <3>3
  <2> QED
    BY <2>1, <2>2, <2>3
<1>16. ASSUME NEW r \in Req, NEW u \in User, NEW v \in User, Unblock(r, u, v) PROVE IInv'
  BY <1>16 DEF Unblock, Enter, rows
<1>17. ASSUME NEW r \in Req, NEW u \in User, NEW v \in User, PingRead(r, u, v) PROVE IInv'
  BY <1>17 DEF PingRead, Enter, rows
<1>18. ASSUME NEW r \in Req, NEW u \in User, NEW v \in User, AcceptEncounter(r, u, v) PROVE IInv'
  <2>1. {u, v} \in Pair
    BY <1>18, PairIs DEF AcceptEncounter
  <2>2. asked' \subseteq User \X User
    BY <1>18 DEF AcceptEncounter
  <2>3. req' \in [Req -> Request]
    BY <1>18 DEF AcceptEncounter, Enter
  <2>4. TypeOK'
    BY <1>18, <2>1, <2>2, <2>3 DEF AcceptEncounter, Enter, rows
  <2>5. RowInv' /\ ReqInv'
    BY <1>18 DEF AcceptEncounter, Enter, rows
  <2> QED
    BY <2>4, <2>5
<1>19. ASSUME NEW u \in User, NEW v \in User, RemoveFriend(u, v) PROVE IInv'
  BY <1>19 DEF RemoveFriend, Gone, Forget, With, Blank
<1>20. ASSUME NEW p \in Pair, CacheExpires(p) PROVE IInv'
  BY <1>20 DEF CacheExpires, rows, reqs
<1>21. ASSUME NEW p \in Pair, CloseEncounter(p) PROVE IInv'
  BY <1>21 DEF CloseEncounter, rows, reqs
<1>22. CASE UNCHANGED vars
  BY <1>22 DEF vars
<1> HIDE DEF IInv
<1> QED
  BY <1>1, <1>2, <1>3, <1>4, <1>5, <1>6, <1>7, <1>8, <1>9, <1>10, <1>11, <1>12, <1>13, <1>14,
     <1>15, <1>16, <1>17, <1>18, <1>19, <1>20, <1>21, <1>22 DEF Next, Step

\* The invariant holds in every reachable state.
THEOREM Invariance == Spec => []IInv
<1>1. Init => IInv
  BY InitInv
<1>2. IInv /\ [Next]_vars => IInv'
  BY NextInv
<1> QED
  BY <1>1, <1>2, PTL DEF Spec

\* The declared types are those of every reachable state.
THEOREM TypeCorrect == Spec => []TypeOK
<1>1. IInv => TypeOK
  BY DEF IInv
<1> QED
  BY <1>1, Invariance, PTL

\* No friendship exists that one of the two members did not ask for.
THEOREM FriendsConsent == Spec => []Consent
<1>1. IInv => Consent
  BY DEF IInv, RowInv, RowOf, Consent
<1> QED
  BY <1>1, Invariance, PTL

\* Once a block has taken hold of a pair, no step lets a request through while
\* the block stands.
LEMMA SealStep ==
    ASSUME IInv, IInv', NEW p \in Pair, Sealed(p), Next, Blocked(p)'
    PROVE  Sealed(p)'
<1> USE NoneFresh DEF IInv, TypeOK, Sealed, PastBlock, Mine
<1>1. ASSUME NEW r \in Req, FillRead(r) PROVE Sealed(p)'
  BY <1>1 DEF FillRead, Move, With, rows
<1>2. ASSUME NEW r \in Req, FillWrite(r) PROVE Sealed(p)'
  <2>1. pc[r] = "set" /\ req[r].val \in {"0", "1"} /\ UNCHANGED <<rows, met, blocks>>
    BY <1>2 DEF FillWrite, Verdict, ReqInv, ReqOf
  <2>2. CASE Mine(r) = p
    <3>1. req[r].val = "1"
      BY <2>1, <2>2
    <3>2. cache' = [cache EXCEPT ![p] = "1"] /\ Leave(r)
      BY <1>2, <2>2, <3>1 DEF FillWrite
    <3> QED
      BY <2>1, <3>2 DEF Leave, Move, Blank, rows
  <2>3. CASE Mine(r) # p
    <3>1. cache'[p] = cache[p]
      BY <1>2, <2>3 DEF FillWrite
    <3>2. ~PastBlock(r, p)'
      BY <1>2, <2>3 DEF FillWrite, Move, With, Leave, Blank
    <3>3. \A q \in Req \ {r} : ~PastBlock(q, p)'
      BY <1>2 DEF FillWrite, Move, Leave
    <3> QED
      BY <2>1, <3>1, <3>2, <3>3 DEF rows
  <2> QED
    BY <2>2, <2>3
<1>3. ASSUME NEW r \in Req, Lookup(r) PROVE Sealed(p)'
  BY <1>3 DEF Lookup, Move, With, rows
<1>4. ASSUME NEW r \in Req, Resend(r) PROVE Sealed(p)'
  BY <1>4 DEF Resend, Put, Move, Leave, Blank
<1>5. ASSUME NEW r \in Req, AnswerWrite(r) PROVE Sealed(p)'
  BY <1>5, ZenonT(60) DEF AnswerWrite, Move, Leave, Blank, ReqInv, ReqOf
<1>6. ASSUME NEW r \in Req, Invalidate(r) PROVE Sealed(p)'
  BY <1>6 DEF Invalidate, Move, Leave, Blank, rows
<1>7. ASSUME NEW r \in Req, PingWrite(r) PROVE Sealed(p)'
  BY <1>7 DEF PingWrite, Move, Leave, Blank, rows
<1>8. ASSUME NEW r \in Req, EnsureRead(r) PROVE Sealed(p)'
  BY <1>8 DEF EnsureRead, Move, With, Leave, Blank, rows
<1>9. ASSUME NEW r \in Req, EnsureUpdate(r) PROVE Sealed(p)'
  BY <1>9, ZenonT(60) DEF EnsureUpdate, Move, Leave, Blank, ReqInv, ReqOf
<1>10. ASSUME NEW r \in Req, Abort(r) PROVE Sealed(p)'
  BY <1>10 DEF Abort, Move, Leave, Blank, rows
<1>11. ASSUME NEW r \in Req, NEW f \in Row, Insert(r, f) PROVE Sealed(p)'
  BY <1>11 DEF Insert, Put, Move, Leave, Blank
<1>12. ASSUME NEW r \in Req, NEW f \in Row, EnsureCreate(r, f) PROVE Sealed(p)'
  BY <1>12 DEF EnsureCreate, Put, Move, Leave, Blank
<1>13. ASSUME NEW r \in Req, NEW f \in Row, NEW v \in {"accepted", "declined"}, AnswerRead(r, f, v)
       PROVE Sealed(p)'
  BY <1>13 DEF AnswerRead, Enter, rows
<1>14. ASSUME NEW r \in Req, NEW u \in User, NEW v \in User, Ask(r, u, v) PROVE Sealed(p)'
  <2>1. ~PastBlock(r, p)'
    <3>1. CASE {u, v} = p
      BY <1>14, <3>1 DEF Ask, Enter, Verdict
    <3>2. CASE {u, v} # p
      BY <1>14, <3>2 DEF Ask, Enter
    <3> QED
      BY <3>1, <3>2
  <2>2. \A q \in Req \ {r} : ~PastBlock(q, p)'
    BY <1>14 DEF Ask, Enter
  <2> QED
    BY <1>14, <2>1, <2>2 DEF Ask, rows
<1>15. ASSUME NEW r \in Req, NEW u \in User, NEW v \in User, Block(r, u, v) PROVE Sealed(p)'
  BY <1>15 DEF Block, Gone, Forget, With
<1>16. ASSUME NEW r \in Req, NEW u \in User, NEW v \in User, Unblock(r, u, v) PROVE Sealed(p)'
  BY <1>16 DEF Unblock, Enter, rows
<1>17. ASSUME NEW r \in Req, NEW u \in User, NEW v \in User, PingRead(r, u, v) PROVE Sealed(p)'
  BY <1>17 DEF PingRead, Enter, rows
<1>18. ASSUME NEW r \in Req, NEW u \in User, NEW v \in User, AcceptEncounter(r, u, v) PROVE Sealed(p)'
  BY <1>18 DEF AcceptEncounter, Enter, rows
<1>19. ASSUME NEW u \in User, NEW v \in User, RemoveFriend(u, v) PROVE Sealed(p)'
  BY <1>19 DEF RemoveFriend, Gone, Forget, With
<1>20. ASSUME NEW q \in Pair, CacheExpires(q) \/ CloseEncounter(q) PROVE Sealed(p)'
  BY <1>20 DEF CacheExpires, CloseEncounter, rows, reqs
<1> HIDE DEF IInv, TypeOK, Sealed
<1> QED
  BY <1>1, <1>2, <1>3, <1>4, <1>5, <1>6, <1>7, <1>8, <1>9, <1>10, <1>11, <1>12, <1>13, <1>14,
     <1>15, <1>16, <1>17, <1>18, <1>19, <1>20 DEF Next, Step

\* A block that has taken hold stands until it is lifted, through any order of
\* unblocking, of filling and of dropping the cache entry.
THEOREM BlockStands == Spec => BlockHolds
<1>1. IInv /\ IInv' /\ [Next]_vars => [\A p \in Pair : Sealed(p) /\ Blocked(p)' => Sealed(p)']_vars
  BY SealStep
<1> QED
  BY <1>1, Invariance, PTL DEF Spec, BlockHolds

-----------------------------------------------------------------------------
\* A step of the guard keeps its types: only a request that is known fills.
LEMMA GuardStep == Guard!TypeOK /\ [Guard!Next]_(Guard!vars) => Guard!TypeOK'
<1> SUFFICES ASSUME Guard!TypeOK, [Guard!Next]_(Guard!vars) PROVE Guard!TypeOK'
  OBVIOUS
<1> USE DEF Guard!TypeOK
<1>1. ASSUME NEW r \in Req, Guard!Read(r) PROVE Guard!TypeOK'
  BY <1>1 DEF Guard!Read
<1>2. ASSUME NEW r \in Req, Guard!Fill(r) PROVE Guard!TypeOK'
  <2>1. cached' \in BOOLEAN /\ verified' \in BOOLEAN /\ barred' \in BOOLEAN
    BY <1>2, Zenon DEF Guard!Fill
  <2>2. filling' \subseteq Req
    BY <1>2 DEF Guard!Fill
  <2> QED
    BY <2>1, <2>2
<1>3. CASE Guard!Expire
  BY <1>3, Zenon DEF Guard!Expire
<1>4. CASE Guard!Restart
  BY <1>4, Zenon DEF Guard!Restart
<1>5. CASE Guard!VerifyEmail
  BY <1>5, Zenon DEF Guard!VerifyEmail
<1>6. CASE Guard!SetStatus
  BY <1>6, Zenon DEF Guard!SetStatus
<1>7. CASE UNCHANGED Guard!vars
  BY <1>7 DEF Guard!vars
<1> QED
  BY <1>1, <1>2, <1>3, <1>4, <1>5, <1>6, <1>7 DEF Guard!Next

\* What the run checks is a behaviour of each part.
LEMMA PartsAlone == MCSpec => Spec /\ Guard!Spec
<1>1. MCInit => Init /\ Guard!Init
  BY DEF MCInit
<1>2. ASSUME [MCNext]_<<part, vars, guard>> PROVE [Next]_vars /\ [Guard!Next]_(Guard!vars)
  <2>1. UNCHANGED guard => UNCHANGED Guard!vars
    BY DEF guard, Guard!vars
  <2> QED
    BY <1>2, <2>1, Zenon DEF MCNext
<1> QED
  BY <1>1, <1>2, PTL DEF MCSpec, Spec, Guard!Spec

\* The rows and requests of friendships and blocks, and the entry of the status
\* guard with the requests about to fill it, stay of their types.
THEOREM VerdictsTyped == Spec /\ Guard!Spec => []PartsTyped
<1>1. Guard!Init => Guard!TypeOK
  BY Zenon DEF Guard!Init, Guard!TypeOK
<1>2. Guard!Spec => []Guard!TypeOK
  BY <1>1, GuardStep, PTL DEF Guard!Spec
<1> QED
  BY <1>2, TypeCorrect, PTL DEF PartsTyped
====
