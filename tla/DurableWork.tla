----------------------------- MODULE DurableWork -----------------------------
(***************************************************************************)
(* What the background workers promise of the work they are given, be it a *)
(* batch job or a file to index.  A piece of work ends once, by someone    *)
(* who had it in care, and with its effects in the same step.  It may be   *)
(* dropped by an error, but never silently: as long as it is open it is in *)
(* somebody's care or on record as dropped.  BatchJobs and VectorIngest    *)
(* implement this with a row per piece of work, a queue in Redis, workers  *)
(* that take an entry off it before they do the work, and a recovery.      *)
(***************************************************************************)
CONSTANTS
    Work,
    Ends,           \* how a piece of work may end
    Effective,      \* those ends that have effects
    Retried,        \* ends after which it may be offered again
    Groups          \* sets of work that may be withdrawn together

VARIABLES
    state,          \* "none", "open", or how it ended
    effects,        \* work whose effects are in place
    care,           \* open work that somebody has, or will take up
    dropped         \* open work that an error was reported for

workVars == <<state, effects, care, dropped>>

Open == {w \in Work : state[w] = "open"}

WorkInit ==
    /\ state = [w \in Work |-> "none"]
    /\ effects = {} /\ care = {} /\ dropped = {}

\* It is somebody's from then on, or the offer itself ends in an error; one reported for
\* an earlier attempt may still be on record.
Offer(w) ==
    /\ state[w] \in {"none"} \cup Retried
    /\ state' = [state EXCEPT ![w] = "open"]
    /\ care' \in {care, care \cup {w}}
    /\ dropped' \in {dropped, dropped \cup {w}}
    /\ w \in care' \cup dropped'
    /\ UNCHANGED effects

\* Whoever has it in care ends it; nobody ends it again.
Finish(w, e) ==
    /\ w \in care
    /\ state' = [state EXCEPT ![w] = e]
    /\ effects' = IF e \in Effective THEN effects \cup {w} ELSE effects
    /\ care' = care \ {w} /\ dropped' = dropped \ {w}

\* It passes from hand to hand, is dropped by an error, or recovered.
HandOver ==
    /\ care' \cup dropped' = Open
    /\ UNCHANGED <<state, effects>>

Withdraw(G) ==
    /\ state' = [w \in Work |-> IF w \in G THEN "none" ELSE state[w]]
    /\ effects' = effects \ G
    /\ care' = care \ G /\ dropped' = dropped \ G

WorkNext ==
    \/ \E w \in Work : Offer(w)
    \/ \E w \in Work, e \in Ends : Finish(w, e)
    \/ HandOver
    \/ \E G \in Groups : Withdraw(G)

WorkSpec == WorkInit /\ [][WorkNext]_workVars

=============================================================================
