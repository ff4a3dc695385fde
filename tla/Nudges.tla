---- MODULE Nudges ----
(* The weekly digest and the reminder to complete a profile: an hourly sweep *)
(* takes a batch of the members who are due, stamps each, then writes to it. *)
(* The timer starts a sweep whether or not the last one has ended, and a     *)
(* restart stops them all.                                                   *)
EXTENDS Naturals, FiniteSets

CONSTANTS Member,
          Sweep,  \* sweeps that may be running at the same time
          Batch,  \* BATCH_SIZE
          None

\* What is assumed of the constants.
BatchAssumption == Batch \in Nat \ {0} /\ IsFiniteSet(Sweep)
NoneFresh == None \notin Member

VARIABLES
    kind,     \* "digest", sent once a week, or "reminder", sent once
    wants,    \* members who still ask for it and are still dormant or incomplete
    stamped,  \* members stamped within the window (for ever, of a reminder)
    got,      \* history: messages each member was sent since the stamp ran out
    crossed,  \* history: members whom two sweeps held at once
    todo,     \* the members a sweep has yet to handle
    sending   \* the member a sweep has stamped and not yet written to

vars == <<kind, wants, stamped, got, crossed, todo, sending>>

TypeOK ==
    /\ kind \in {"digest", "reminder"}
    /\ wants \subseteq Member /\ stamped \subseteq Member /\ crossed \subseteq Member
    /\ got \in [Member -> 0..Cardinality(Sweep)]
    /\ todo \in [Sweep -> SUBSET Member]
    /\ sending \in [Sweep -> Member \cup {None}]

Init ==
    /\ kind \in {"digest", "reminder"}
    /\ wants = Member /\ stamped = {}
    /\ got = [m \in Member |-> 0]
    /\ crossed = {}
    /\ todo = [s \in Sweep |-> {}]
    /\ sending = [s \in Sweep |-> None]

-----------------------------------------------------------------------------
Carried(s) == todo[s] \cup ({sending[s]} \ {None})
Due == wants \ stamped

\* processBatch lists the members who are due, as many as a batch holds.
List(s) ==
    /\ Carried(s) = {} /\ Due # {}
    /\ \E B \in SUBSET Due :
        /\ Cardinality(B) = IF Cardinality(Due) < Batch THEN Cardinality(Due) ELSE Batch
        /\ todo' = [todo EXCEPT ![s] = B]
        /\ crossed' = crossed \cup {m \in B : \E x \in Sweep \ {s} : m \in Carried(x)}
    /\ UNCHANGED <<kind, wants, stamped, got, sending>>

\* Each member is stamped, whatever changed since the list...
Stamp(s, m) ==
    /\ m \in todo[s] /\ sending[s] = None
    /\ stamped' = stamped \cup {m}
    /\ todo' = [todo EXCEPT ![s] = @ \ {m}]
    /\ sending' = [sending EXCEPT ![s] = m]
    /\ UNCHANGED <<kind, wants, got, crossed>>

\* ... and written to...
Send(s) ==
    /\ sending[s] # None
    /\ got' = [got EXCEPT ![sending[s]] = @ + 1]
    /\ sending' = [sending EXCEPT ![s] = None]
    /\ UNCHANGED <<kind, wants, stamped, crossed, todo>>

\* ... unless the message is hollow or fails; a failure before the stamp leaves the
\* member to the next sweep.
Skip(s) ==
    /\ \/ sending[s] # None /\ sending' = [sending EXCEPT ![s] = None] /\ UNCHANGED todo
       \/ /\ sending[s] = None
          /\ \E m \in todo[s] : todo' = [todo EXCEPT ![s] = @ \ {m}]
          /\ UNCHANGED sending
    /\ UNCHANGED <<kind, wants, stamped, got, crossed>>

\* The API restarts.
Restart ==
    /\ \E s \in Sweep : Carried(s) # {}
    /\ todo' = [s \in Sweep |-> {}]
    /\ sending' = [s \in Sweep |-> None]
    /\ UNCHANGED <<kind, wants, stamped, got, crossed>>

\* A week passes since the stamp of a digest; no sweep lasts that long.
Age(m) ==
    /\ kind = "digest" /\ m \in stamped
    /\ \A s \in Sweep : m \notin Carried(s)
    /\ stamped' = stamped \ {m}
    /\ got' = [got EXCEPT ![m] = 0]
    /\ crossed' = crossed \ {m}
    /\ UNCHANGED <<kind, wants, todo, sending>>

\* A member comes back, opts out, completes the profile, or the other way round.
Change(m) ==
    /\ wants' = IF m \in wants THEN wants \ {m} ELSE wants \cup {m}
    /\ UNCHANGED <<kind, stamped, got, crossed, todo, sending>>

Next ==
    \/ Restart
    \/ \E m \in Member : Age(m) \/ Change(m)
    \/ \E s \in Sweep : List(s) \/ Send(s) \/ Skip(s) \/ \E m \in Member : Stamp(s, m)

Spec == Init /\ [][Next]_vars

-----------------------------------------------------------------------------
\* A member is written to once in a window, whatever restarts or fails, unless two
\* sweeps held it at once: the stamp is not conditional.
NudgedOnce == \A m \in Member \ crossed : got[m] <= 1
====
