---------------------------- MODULE UsageCharges ----------------------------
(***************************************************************************)
(* What usage metering promises about money: a charge that a request's     *)
(* record made durable is billed exactly once, and a correction brings the *)
(* total billed for its generation to the upstream's authoritative cost.   *)
(* UsagePipeline implements this with a Redis stream, a consumer group and *)
(* an append-only table.                                                   *)
(***************************************************************************)
EXTENDS Integers

CONSTANTS
    Events,         \* recorded requests
    Disconnected,   \* those whose stream the client aborted
    Cost,           \* cost the recorder computed for a request
    Target          \* authoritative cost, with markup, of a disconnected one

VARIABLES
    owed,           \* charges made durable
    billed,         \* charges in the usage ledger
    total           \* sum billed for each request

chargeVars == <<owed, billed, total>>

Charge == (Events \X {"usage"}) \cup (Disconnected \X {"correction"})

\* What the request has cost its tenant once the charge is billed.
TotalAfter(c) == IF c[2] = "usage" THEN Cost[c[1]] ELSE Target[c[1]]

ChargesInit == owed = {} /\ billed = {} /\ total = [e \in Events |-> 0]

\* A correction is computed from the billed usage record of its generation.
Owe(c) ==
    /\ c \notin owed
    /\ c[2] = "correction" => <<c[1], "usage">> \in billed
    /\ owed' = owed \cup {c}
    /\ UNCHANGED <<billed, total>>

Bill(c) ==
    /\ c \in owed \ billed
    /\ billed' = billed \cup {c}
    /\ total' = [total EXCEPT ![c[1]] = TotalAfter(c)]
    /\ UNCHANGED owed

\* Without the stream a charge becomes durable by being billed.
OweAndBill(c) ==
    /\ c \notin owed /\ c[2] = "usage"
    /\ owed' = owed \cup {c}
    /\ billed' = billed \cup {c}
    /\ total' = [total EXCEPT ![c[1]] = TotalAfter(c)]

ChargesNext == \E c \in Charge : Owe(c) \/ Bill(c) \/ OweAndBill(c)

ChargesSpec == ChargesInit /\ [][ChargesNext]_chargeVars

\* Metering never forgets: a charge made durable is billed in the end.
EveryOwedBilled == \A c \in Charge : (c \in owed) ~> (c \in billed)

=============================================================================
