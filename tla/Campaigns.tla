---- MODULE Campaigns ----
(* One newsletter campaign: the administrators who edit, delete or launch    *)
(* it, and the dispatch that the launch leaves running in the process, which *)
(* mails the subscribers and then the addresses picked by hand.              *)
EXTENDS Naturals, FiniteSets

CONSTANTS Address,  \* e-mail addresses, up to their case
          Extra,    \* includeEmails of the campaign
          Req,      \* requests and dispatches in flight at the same time
          MaxSent   \* bound: mails sent to one address

ASSUME AddressAssumption == IsFiniteSet(Address) /\ Extra \subseteq Address /\ MaxSent \in Nat

Status == {"draft", "sending", "sent", "failed", "deleted"}
PC == {"idle", "claim", "edit", "delete", "load", "list", "extras", "fail"}

VARIABLES
    status,      \* newsletter_campaigns.status; "deleted" when the row is gone
    excluded,    \* excludeEmails of the row
    subscribed,  \* addresses on the public list
    sentCount,   \* the column of the row
    mails,       \* history: mails handed to the relay for each address
    stranded,    \* history: a dispatch died, or could not write its end
    pc, req      \* next step of each request, and what it remembers

campaign == <<status, excluded, sentCount>>
vars == <<campaign, subscribed, mails, stranded, pc, req>>

Ctx(out, todo, seen, sent) == [out |-> out, todo |-> todo, seen |-> seen, sent |-> sent]
Blank == Ctx({}, {}, {}, 0)

TypeOK ==
    /\ status \in Status
    /\ excluded \subseteq Address
    /\ subscribed \subseteq Address
    /\ sentCount \in Nat
    /\ mails \in [Address -> 0..MaxSent]
    /\ stranded \in BOOLEAN
    /\ pc \in [Req -> PC]
    /\ req \in [Req -> [out : SUBSET Address, todo : SUBSET Address,
                        seen : SUBSET Address, sent : Nat]]

Init ==
    /\ status = "draft"
    /\ excluded = {}
    /\ subscribed \in SUBSET Address
    /\ sentCount = 0
    /\ mails = [a \in Address |-> 0]
    /\ stranded = FALSE
    /\ pc = [r \in Req |-> "idle"]
    /\ req = [r \in Req |-> Blank]

-----------------------------------------------------------------------------
Goto(r, step, ctx) ==
    /\ pc' = [pc EXCEPT ![r] = step]
    /\ req' = [req EXCEPT ![r] = ctx]

Leave(r) == Goto(r, "idle", Blank)

\* getCampaign, then the check of the status.
FindDraft(r, step) ==
    /\ pc[r] = "idle" /\ status = "draft"
    /\ Goto(r, step, Blank)
    /\ UNCHANGED <<campaign, subscribed, mails, stranded>>

\* updateCampaign and deleteCampaign write by id, whatever became of the draft.
EditWrite(r) ==
    /\ pc[r] = "edit" /\ status # "deleted"
    /\ excluded' \in SUBSET Address
    /\ Leave(r)
    /\ UNCHANGED <<status, sentCount, subscribed, mails, stranded>>

DeleteWrite(r) ==
    /\ pc[r] = "delete" /\ status # "deleted"
    /\ status' = "deleted"
    /\ Leave(r)
    /\ UNCHANGED <<excluded, sentCount, subscribed, mails, stranded>>

Subscription(a) ==
    /\ subscribed' \in {subscribed \cup {a}, subscribed \ {a}}
    /\ UNCHANGED <<campaign, mails, stranded, pc, req>>

-----------------------------------------------------------------------------
(* sendCampaign and dispatch.                                                *)

\* estimateRecipients must not be zero.
Launch(r) ==
    /\ Cardinality(subscribed) > Cardinality(excluded) \/ Extra # {}
    /\ FindDraft(r, "claim")

\* Only the request that turns the draft into sending goes on, detached.
\* (Bug: the claim is not conditional.)
ClaimBug(r) ==
    /\ pc[r] = "claim"
    /\ status # "deleted"
    /\ status' = "sending" /\ sentCount' = 0
    /\ Goto(r, "load", Blank)
    /\ UNCHANGED <<excluded, subscribed, mails, stranded>>
Claim(r) ==
    /\ pc[r] = "claim"
    /\ status = "draft"
    /\ status' = "sending" /\ sentCount' = 0
    /\ Goto(r, "load", Blank)
    /\ UNCHANGED <<excluded, subscribed, mails, stranded>>

\* The campaign and its public are read; the pages of the list are one.
Load(r) ==
    /\ pc[r] = "load"
    /\ IF status = "deleted" THEN Leave(r)
       ELSE Goto(r, "list", Ctx(excluded, subscribed \ excluded, {}, 0))
    /\ UNCHANGED <<campaign, subscribed, mails, stranded>>

\* One mail at a time, marked as seen before it is sent, which may fail.
Mail(r, a) ==
    /\ pc[r] \in {"list", "extras"} /\ a \in req[r].todo
    /\ mails[a] < MaxSent
    /\ \E n \in {0, 1} :
        /\ mails' = [mails EXCEPT ![a] = @ + n]
        /\ req' = [req EXCEPT ![r] = Ctx(@.out, @.todo \ {a}, @.seen \cup {a}, @.sent + n)]
    /\ UNCHANGED <<campaign, subscribed, stranded, pc>>

\* The count is stored, and the extras follow, save those already seen.
\* (Bug: the extras are not compared with the list.)
ListDoneBug(r) ==
    /\ pc[r] = "list" /\ req[r].todo = {}
    /\ status # "deleted"
    /\ sentCount' = req[r].sent
    /\ Goto(r, "extras", [req[r] EXCEPT !.todo = Extra \ req[r].out])
    /\ UNCHANGED <<status, excluded, subscribed, mails, stranded>>
ListDone(r) ==
    /\ pc[r] = "list" /\ req[r].todo = {}
    /\ status # "deleted"
    /\ sentCount' = req[r].sent
    /\ Goto(r, "extras", [req[r] EXCEPT !.todo = Extra \ (req[r].out \cup req[r].seen)])
    /\ UNCHANGED <<status, excluded, subscribed, mails, stranded>>

Finish(r) ==
    /\ pc[r] = "extras" /\ req[r].todo = {}
    /\ status # "deleted"
    /\ status' = "sent" /\ sentCount' = req[r].sent
    /\ Leave(r)
    /\ UNCHANGED <<excluded, subscribed, mails, stranded>>

\* A statement of the dispatch fails, as every one does once the row is gone.
Crash(r) ==
    /\ pc[r] \in {"list", "extras"}
    /\ Goto(r, "fail", req[r])
    /\ UNCHANGED <<campaign, subscribed, mails, stranded>>

\* The campaign is then marked as failed. (Bug: the error is only logged.)
FailBug(r) ==
    /\ pc[r] = "fail"
    /\ Leave(r)
    /\ UNCHANGED <<campaign, subscribed, mails, stranded>>
Fail(r) ==
    /\ pc[r] = "fail"
    /\ status' = IF status = "deleted" THEN "deleted" ELSE "failed"
    /\ Leave(r)
    /\ UNCHANGED <<excluded, sentCount, subscribed, mails, stranded>>

\* A request is refused or fails; the load and the last mark of a dispatch fail
\* without a trace in the row.
Abort(r) ==
    /\ pc[r] \in {"claim", "edit", "delete", "load", "fail"}
    /\ stranded' = (stranded \/ pc[r] \in {"load", "fail"})
    /\ Leave(r)
    /\ UNCHANGED <<campaign, subscribed, mails>>

\* The API restarts: nothing takes a campaign in the state sending up again.
Restart ==
    /\ \E r \in Req : pc[r] # "idle"
    /\ stranded' = (stranded \/ status = "sending")
    /\ pc' = [r \in Req |-> "idle"]
    /\ req' = [r \in Req |-> Blank]
    /\ UNCHANGED <<campaign, subscribed, mails>>

-----------------------------------------------------------------------------
Dispatch(r) ==
    \/ Load(r) \/ ListDone(r) \/ Finish(r) \/ Crash(r) \/ Fail(r)
    \/ \E a \in Address : Mail(r, a)

Next ==
    \/ Restart
    \/ \E a \in Address : Subscription(a)
    \/ \E r \in Req :
        \/ FindDraft(r, "edit") \/ EditWrite(r)
        \/ FindDraft(r, "delete") \/ DeleteWrite(r)
        \/ Launch(r) \/ Claim(r) \/ Abort(r)
        \/ Dispatch(r)

\* A dispatch goes on as long as the process lives. Nothing else is owed.
Fairness == \A r \in Req : WF_vars(Dispatch(r))

Spec == Init /\ [][Next]_vars /\ Fairness

-----------------------------------------------------------------------------
\* However many administrators launch it, and whatever they edit meanwhile, the
\* campaign is mailed once to an address, on the list, among the extras, or both;
\* and a campaign that is sent reports the number of its mails.
SentOnceAndCounted ==
    /\ \A a \in Address : mails[a] <= 1
    /\ status = "sent" => sentCount = Cardinality({a \in Address : mails[a] = 1})

\* A campaign leaves the state sending, unless its dispatch is stopped by a
\* restart or can write nothing (the limitation the comment of dispatch admits).
SendingEnds == status = "sending" ~> status # "sending" \/ stranded
====
