---------------------------- MODULE CreditAccount ----------------------------
(***************************************************************************)
(* What the prepaid credit gate promises, each operation one atomic step.  *)
(*                                                                         *)
(* A tenant has a balance; a request is admitted by holding an estimate of *)
(* its cost, and the hold is finalised once, by a settle (the hold is      *)
(* replaced by the actual cost) or by a release (the hold is given back).  *)
(* A top-up is identified by an idempotency key that is global: it credits *)
(* one tenant, once.  CreditLedger implements this with database           *)
(* transactions and a row lock per tenant.                                 *)
(***************************************************************************)
EXTENDS Integers

CONSTANTS
    Tenants,        \* tenants that own a prepaid balance
    Requests,       \* proxied requests (request_id is minted per admission)
    Keys,           \* idempotency keys of top-ups
    TenantOf,       \* the tenant a request is billed to
    Grace,          \* grace_usd of each tenant
    Estimates,      \* hold estimates an admission may use
    Costs,          \* actual costs a settle may report
    Amounts,        \* top-up amounts
    None            \* absence of a top-up

VARIABLES
    funds,          \* funds[t]: what the tenant may still spend
    status,         \* status[r]: "none", "open", "settled" or "released"
    held,           \* held[r]: estimate of the hold, 0 before it is placed
    cost,           \* cost[r]: what the settle charged, 0 until then
    topups          \* topups[k]: the top-up applied under key k, or None

accountVars == <<funds, status, held, cost, topups>>

Topup == [tenant: Tenants, amount: Amounts]

AccountInit ==
    /\ funds = [t \in Tenants |-> 0]
    /\ status = [r \in Requests |-> "none"]
    /\ held = [r \in Requests |-> 0]
    /\ cost = [r \in Requests |-> 0]
    /\ topups = [k \in Keys |-> None]

\* An admission reserves its estimate, unless the balance would fall below
\* the grace.
Hold(r, e) ==
    LET t == TenantOf[r] IN
    /\ status[r] = "none"
    /\ funds[t] - e >= -Grace[t]
    /\ status' = [status EXCEPT ![r] = "open"]
    /\ held' = [held EXCEPT ![r] = e]
    /\ funds' = [funds EXCEPT ![t] = @ - e]
    /\ UNCHANGED <<cost, topups>>

\* The open hold is replaced by the actual cost.
Settle(r, c) ==
    /\ status[r] = "open"
    /\ status' = [status EXCEPT ![r] = "settled"]
    /\ cost' = [cost EXCEPT ![r] = c]
    /\ funds' = [funds EXCEPT ![TenantOf[r]] = @ + (held[r] - c)]
    /\ UNCHANGED <<held, topups>>

\* The open hold is given back in full.
Release(r) ==
    /\ status[r] = "open"
    /\ status' = [status EXCEPT ![r] = "released"]
    /\ funds' = [funds EXCEPT ![TenantOf[r]] = @ + held[r]]
    /\ UNCHANGED <<held, cost, topups>>

\* A key credits one tenant, once.
TopUp(k, t, a) ==
    /\ topups[k] = None
    /\ topups' = [topups EXCEPT ![k] = [tenant |-> t, amount |-> a]]
    /\ funds' = [funds EXCEPT ![t] = @ + a]
    /\ UNCHANGED <<status, held, cost>>

AccountNext ==
    \/ \E r \in Requests, e \in Estimates : Hold(r, e)
    \/ \E r \in Requests, c \in Costs : Settle(r, c)
    \/ \E r \in Requests : Release(r)
    \/ \E k \in Keys, t \in Tenants, a \in Amounts : TopUp(k, t, a)

AccountSpec == AccountInit /\ [][AccountNext]_accountVars

=============================================================================
