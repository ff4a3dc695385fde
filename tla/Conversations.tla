---- MODULE Conversations ----
(* The messages of one conversation (chat.service.ts), its preview in the    *)
(* list, and for each member the badge of unread messages, the bell entries  *)
(* and the marker in Redis of who is looking at the thread. A request is a   *)
(* chain of statements; only the write of a message is a transaction.        *)
EXTENDS Naturals, FiniteSets, FiniteSetsExt

CONSTANTS User,    \* members of the conversation
          Req,     \* requests in flight at the same time
          MaxMsg,  \* bound: messages sent
          None

ASSUME BoundAssumption == MaxMsg \in Nat
ASSUME NoneFresh == None \notin User \cup Nat

Msg == 1..MaxMsg      \* in the order of created_at
Text == {"none", "first", "edited"}
PC == {"idle", "begin", "send", "notify", "clear", "focus", "erase", "rewrite",
       "look", "sync"}

VARIABLES
    sender,     \* messages.sender_id; None before the row is timed
    sent,       \* messages that are committed
    text,       \* messages.content
    deleted,    \* messages.deleted_at is set
    aged,       \* messages older than MESSAGE_MUTATION_WINDOW_MS
    preview,    \* conversations.last_message_preview: the message and its text
    unread,     \* conversation_members.unread_count
    bell,       \* unread notifications: the messages they announce to each member
    active,     \* members whose marker active_conv is on this conversation
    live,       \* history: members taken for active by the sender of each message
    seen,       \* history: messages committed when each member last read
    belated,    \* history: messages whose notification was not there to be cleared
    raced,      \* history: messages deleted while an edition of them was in flight
    behind,     \* history: requests that recompute the preview from older messages
    drifted,    \* history: the last word on the preview was said by such a request
    pc, req     \* next step of each request, and what it remembers

messages == <<sender, sent, text, deleted, aged, raced>>
counters == <<unread, bell, live, seen, belated>>
list == <<preview, behind, drifted>>
vars == <<messages, counters, list, active, pc, req>>

Nothing == [msg |-> None, text |-> "none"]
Preview == [msg : Msg \cup {None}, text : Text]

Ask(u, m, seeing, p) == [user |-> u, msg |-> m, seeing |-> seeing, preview |-> p]
Blank == Ask(None, None, {}, Nothing)
Request == [user : User \cup {None}, msg : Msg \cup {None}, seeing : SUBSET User,
            preview : Preview]

TypeOK ==
    /\ sender \in [Msg -> User \cup {None}]
    /\ sent \subseteq Msg
    /\ text \in [Msg -> Text]
    /\ deleted \subseteq sent
    /\ aged \subseteq sent
    /\ preview \in Preview
    /\ unread \in [User -> Nat]
    /\ bell \in [User -> SUBSET Msg]
    /\ active \subseteq User
    /\ live \in [Msg -> SUBSET User]
    /\ seen \in [User -> SUBSET Msg]
    /\ belated \in [User -> SUBSET Msg]
    /\ raced \subseteq Msg
    /\ behind \subseteq Req
    /\ drifted \in BOOLEAN
    /\ pc \in [Req -> PC]
    /\ req \in [Req -> Request]

Init ==
    /\ sender = [m \in Msg |-> None]
    /\ sent = {}
    /\ text = [m \in Msg |-> "none"]
    /\ deleted = {}
    /\ aged = {}
    /\ preview = Nothing
    /\ unread = [u \in User |-> 0]
    /\ bell = [u \in User |-> {}]
    /\ active = {}
    /\ live = [m \in Msg |-> {}]
    /\ seen = [u \in User |-> {}]
    /\ belated = [u \in User |-> {}]
    /\ raced = {}
    /\ behind = {}
    /\ drifted = FALSE
    /\ pc = [r \in Req |-> "idle"]
    /\ req = [r \in Req |-> Blank]

-----------------------------------------------------------------------------
Enter(r, step, rec) ==
    /\ pc[r] = "idle"
    /\ pc' = [pc EXCEPT ![r] = step]
    /\ req' = [req EXCEPT ![r] = rec]

Goto(r, step) ==
    /\ pc' = [pc EXCEPT ![r] = step]
    /\ UNCHANGED req

Leave(r) ==
    /\ pc' = [pc EXCEPT ![r] = "idle"]
    /\ req' = [req EXCEPT ![r] = Blank]

Others(u) == User \ {u}

\* A write to the messages overtakes the previews computed before it.
Overtake == behind' = behind \cup {q \in Req : pc[q] = "sync"}

Live == sent \ deleted
Newest == IF Live = {} THEN Nothing ELSE [msg |-> Max(Live), text |-> text[Max(Live)]]

-----------------------------------------------------------------------------
(* sendMessage.                                                              *)

\* The members who look at the thread are read from Redis...
SendRead(r, u) ==
    /\ Enter(r, "begin", Ask(u, None, active \ {u}, Nothing))
    /\ UNCHANGED <<messages, counters, list, active>>

\* ... the row gets its time...
SendBegin(r, n) ==
    /\ pc[r] = "begin"
    /\ sender[n] = None /\ \A m \in Msg : m < n => sender[m] # None
    /\ sender' = [sender EXCEPT ![n] = req[r].user]
    /\ pc' = [pc EXCEPT ![r] = "send"]
    /\ req' = [req EXCEPT ![r].msg = n]
    /\ UNCHANGED <<sent, text, deleted, aged, raced, counters, list, active>>

\* ... and the transaction commits it with the preview and the badges of those
\* who were not looking. (Bug: everybody's badge but the sender's is raised.)
SendWriteBug(r) ==
    LET n == req[r].msg IN
    /\ pc[r] = "send" /\ n # None
    /\ sent' = sent \cup {n}
    /\ text' = [text EXCEPT ![n] = "first"]
    /\ preview' = [msg |-> n, text |-> "first"]
    /\ unread' = [u \in User |->
                     IF u \in Others(sender[n]) THEN unread[u] + 1 ELSE unread[u]]
    /\ live' = [live EXCEPT ![n] = req[r].seeing]
    /\ Overtake
    /\ drifted' = \E m \in Live : m > n
    /\ Goto(r, "notify")
    /\ UNCHANGED <<sender, deleted, aged, raced, bell, seen, belated, active>>
SendWrite(r) ==
    LET n == req[r].msg IN
    /\ pc[r] = "send" /\ n # None
    /\ sent' = sent \cup {n}
    /\ text' = [text EXCEPT ![n] = "first"]
    /\ preview' = [msg |-> n, text |-> "first"]
    /\ unread' = [u \in User |-> IF u \in Others(sender[n]) \ req[r].seeing
                                 THEN unread[u] + 1 ELSE unread[u]]
    /\ live' = [live EXCEPT ![n] = req[r].seeing]
    /\ Overtake
    /\ drifted' = \E m \in Live : m > n
    /\ Goto(r, "notify")
    /\ UNCHANGED <<sender, deleted, aged, raced, bell, seen, belated, active>>

\* The same members are notified, without waiting; a muted one is not (Abort).
\* (Bug: those who were looking are notified too.)
NotifyBug(r) ==
    LET n == req[r].msg IN
    /\ pc[r] = "notify" /\ n # None
    /\ bell' = [u \in User |-> IF u \in Others(sender[n]) THEN bell[u] \cup {n} ELSE bell[u]]
    /\ Leave(r)
    /\ UNCHANGED <<messages, unread, live, seen, belated, list, active>>
Notify(r) ==
    LET n == req[r].msg IN
    /\ pc[r] = "notify" /\ n # None
    /\ bell' = [u \in User |-> IF u \in Others(sender[n]) \ req[r].seeing
                               THEN bell[u] \cup {n} ELSE bell[u]]
    /\ Leave(r)
    /\ UNCHANGED <<messages, unread, live, seen, belated, list, active>>

-----------------------------------------------------------------------------
(* markAsRead and the marker.                                                *)

\* The badge is cleared first...
Read(r, u) ==
    /\ Enter(r, "clear", Ask(u, None, {}, Nothing))
    /\ unread' = [unread EXCEPT ![u] = 0]
    /\ seen' = [seen EXCEPT ![u] = sent]
    /\ belated' = [belated EXCEPT ![u] =
                      @ \cup {m \in sent : \E q \in Req : pc[q] = "notify" /\ req[q].msg = m}]
    /\ UNCHANGED <<messages, bell, live, list, active>>

\* ... then the bell, which has no better filter than the conversation.
ClearBell(r) ==
    LET u == req[r].user IN
    /\ pc[r] = "clear" /\ u # None
    /\ bell' = [bell EXCEPT ![u] = {}]
    /\ Goto(r, "focus")
    /\ UNCHANGED <<messages, unread, live, seen, belated, list, active>>

\* Over the socket, reading also refreshes the marker; over HTTP it does not (Abort).
ReadFocus(r) ==
    LET u == req[r].user IN
    /\ pc[r] = "focus" /\ u # None
    /\ active' = active \cup {u}
    /\ Leave(r)
    /\ UNCHANGED <<messages, counters, list>>

Focus(u) ==
    /\ active' = active \cup {u}
    /\ UNCHANGED <<messages, counters, list, pc, req>>

\* A blur, the end of any socket of the member, another thread, or two minutes.
Blur(u) ==
    /\ u \in active
    /\ active' = active \ {u}
    /\ UNCHANGED <<messages, counters, list, pc, req>>

-----------------------------------------------------------------------------
(* softDeleteMessage, editMessage and syncPreview.                           *)

\* A sender may change a live message for fifteen minutes. (Bug: only the sender
\* is checked.)
MutableBug(u, m) == sender[m] = u
Mutable(u, m) == m \in Live \ aged /\ sender[m] = u

Age(m) ==
    /\ m \in sent \ aged
    /\ aged' = aged \cup {m}
    /\ UNCHANGED <<sender, sent, text, deleted, raced, counters, list, active, pc, req>>

DeleteRead(r, u, m) ==
    /\ Mutable(u, m)
    /\ Enter(r, "erase", Ask(u, m, {}, Nothing))
    /\ UNCHANGED <<messages, counters, list, active>>

Erase(r) ==
    LET m == req[r].msg IN
    /\ pc[r] = "erase" /\ m # None
    /\ deleted' = deleted \cup {m}
    /\ text' = [text EXCEPT ![m] = "none"]
    /\ raced' = raced \cup {x \in {m} : \E q \in Req : pc[q] = "rewrite" /\ req[q].msg = x}
    /\ Overtake
    /\ Goto(r, "look")
    /\ UNCHANGED <<sender, sent, aged, counters, preview, drifted, active>>

\* The moderation takes a message down, whatever its age, and leaves the preview.
TakeDown(m) ==
    /\ m \in sent
    /\ deleted' = deleted \cup {m}
    /\ text' = [text EXCEPT ![m] = "none"]
    /\ raced' = raced \cup {x \in {m} : \E q \in Req : pc[q] = "rewrite" /\ req[q].msg = x}
    /\ Overtake
    /\ drifted' = (drifted \/ preview.msg = m)
    /\ UNCHANGED <<sender, sent, aged, counters, preview, active, pc, req>>

\* (Bug: a deleted message can be edited.)
EditReadBug(r, u, m) ==
    /\ m \in sent \ aged /\ sender[m] = u
    /\ Enter(r, "rewrite", Ask(u, m, {}, Nothing))
    /\ UNCHANGED <<messages, counters, list, active>>
EditRead(r, u, m) ==
    /\ Mutable(u, m)
    /\ Enter(r, "rewrite", Ask(u, m, {}, Nothing))
    /\ UNCHANGED <<messages, counters, list, active>>

\* The row is updated by its id, deleted or not.
Rewrite(r) ==
    LET m == req[r].msg IN
    /\ pc[r] = "rewrite" /\ m # None
    /\ text' = [text EXCEPT ![m] = "edited"]
    /\ Overtake
    /\ Goto(r, "look")
    /\ UNCHANGED <<sender, sent, deleted, aged, raced, counters, preview, drifted, active>>

\* The newest live message is read... (Bug: the newest message, deleted or not.)
SyncReadBug(r) ==
    /\ pc[r] = "look"
    /\ pc' = [pc EXCEPT ![r] = "sync"]
    /\ req' = [req EXCEPT ![r].preview = [msg |-> Max(sent), text |-> text[Max(sent)]]]
    /\ behind' = behind \ {r}
    /\ UNCHANGED <<messages, counters, preview, drifted, active>>
SyncRead(r) ==
    /\ pc[r] = "look"
    /\ pc' = [pc EXCEPT ![r] = "sync"]
    /\ req' = [req EXCEPT ![r].preview = Newest]
    /\ behind' = behind \ {r}
    /\ UNCHANGED <<messages, counters, preview, drifted, active>>

\* ... and becomes the preview.
SyncWrite(r) ==
    /\ pc[r] = "sync"
    /\ preview' = req[r].preview
    /\ drifted' = (r \in behind)
    /\ behind' = behind \ {r}
    /\ Leave(r)
    /\ UNCHANGED <<messages, counters, active>>

\* A request fails, or the server stops; what it has written stays.
Abort(r) ==
    /\ pc[r] # "idle"
    /\ drifted' = (drifted \/ pc[r] \in {"look", "sync"})
    /\ behind' = behind \ {r}
    /\ belated' = [u \in User |-> IF pc[r] = "clear" /\ req[r].user = u
                                  THEN belated[u] \cup bell[u] ELSE belated[u]]
    /\ Leave(r)
    /\ UNCHANGED <<messages, unread, bell, live, seen, preview, active>>

-----------------------------------------------------------------------------
Next ==
    \/ \E u \in User : Focus(u) \/ Blur(u)
    \/ \E m \in Msg : Age(m) \/ TakeDown(m)
    \/ \E r \in Req :
        \/ \E u \in User : SendRead(r, u) \/ Read(r, u)
        \/ \E n \in Msg : SendBegin(r, n)
        \/ SendWrite(r) \/ Notify(r)
        \/ ClearBell(r) \/ ReadFocus(r)
        \/ \E u \in User, m \in Msg : DeleteRead(r, u, m) \/ EditRead(r, u, m)
        \/ Erase(r) \/ Rewrite(r) \/ SyncRead(r) \/ SyncWrite(r)
        \/ Abort(r)

Spec == Init /\ [][Next]_vars

-----------------------------------------------------------------------------
Settled == \A r \in Req : pc[r] \notin {"look", "sync"}

\* The preview is the newest live message as it reads now, once nobody is about
\* to recompute it: unless the last to write it was overtaken or failed first, or
\* the moderation took down the message it showed.
PreviewIsNewest == Settled /\ ~drifted => preview = Newest

\* "Supprimer pour tout le monde" leaves no content behind, except where an
\* edition in flight at that moment writes some back.
TombstonesEmpty == \A m \in deleted : text[m] # "none" => m \in raced

Unseen(u) == {m \in sent \ seen[u] : u # sender[m] /\ u \notin live[m]}

\* The badge counts the messages of the others since the member last read, save
\* those whose sender found the member looking, however the reads and sends mix.
BadgeIsExact == \A u \in User : unread[u] = Cardinality(Unseen(u))

\* A bell entry announces a message that the badge still counts, unless it came,
\* or its clearing failed, after the member had read the message.
BellIsUnread ==
    \A u \in User : \A m \in bell[u] :
        \/ m \in Unseen(u) \cup belated[u]
        \/ \E r \in Req : pc[r] = "clear" /\ req[r].user = u
====
