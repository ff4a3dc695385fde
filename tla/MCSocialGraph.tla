---- MODULE MCSocialGraph ----
(* The two verdicts that are kept for a time and read instead of the tables: *)
(* each behaviour is one of SocialGraph (a block, cached in Redis) or of     *)
(* StatusGuard (a good standing, cached in the process).                     *)
EXTENDS SocialGraph

VARIABLES part, verified, barred, cached, filling

Guard == INSTANCE StatusGuard

guard == <<verified, barred, cached, filling>>

MCInit == part \in {"graph", "guard"} /\ Init /\ Guard!Init

MCNext ==
    /\ UNCHANGED part
    /\ \/ part = "graph" /\ Next /\ UNCHANGED guard
       \/ part = "guard" /\ Guard!Next /\ UNCHANGED vars

MCSpec == MCInit /\ [][MCNext]_<<part, vars, guard>> /\ Fairness /\ Guard!Fairness

-----------------------------------------------------------------------------
\* The properties of the second part, stated and explained in its module.
PartsTyped == TypeOK /\ Guard!TypeOK
BarredIsCutOff == Guard!BarredIsCutOff
====
