---------------------------- MODULE DivertedWork ----------------------------
(***************************************************************************)
(* What diversion promises of a request put off into a batch.  It has one  *)
(* owner at a time, and passes from hand to hand in one direction only: it *)
(* waits in a window, is taken by a flusher, committed as part of a job    *)
(* and run with it; or it comes back to its caller, who runs it at once,   *)
(* and nobody else ever has it again.  What the caller is told agrees with *)
(* whose it is.  BatchWindow implements this with Lua scripts over windows *)
(* and result markers, whose answers may be lost.                          *)
(***************************************************************************)
CONSTANTS
    Items,
    None            \* not answered yet

VARIABLES
    owner,          \* "new", "window", "taken", "committed", "running", "shelved", "caller"
    told            \* how the caller was answered

workVars == <<owner, told>>

\* "shelved" is a job that was committed and that no flusher will start.
Passes ==
    {<<"window", "taken">>, <<"taken", "committed">>, <<"committed", "running">>,
     <<"window", "caller">>, <<"taken", "caller">>,
     <<"taken", "shelved">>, <<"committed", "shelved">>}

\* Whose an item must be for its caller to be told this.
Owners(a) ==
    CASE a = "submitted" -> {"running", "shelved"}
      [] a = "failed" -> {"shelved", "caller"}
      [] a = "unresolved" -> {"window", "taken", "committed", "running", "shelved", "caller"}

WorkInit ==
    /\ owner = [i \in Items |-> "new"]
    /\ told = [i \in Items |-> None]

\* The request is not diverted, and the caller runs it.
Keep(i) ==
    /\ owner[i] = "new"
    /\ owner' = [owner EXCEPT ![i] = "caller"]
    /\ told' = [told EXCEPT ![i] = "direct"]

\* It is put into a window; without an acknowledgement the caller runs it, too.
Offer(i) ==
    /\ owner[i] = "new"
    /\ owner' = [owner EXCEPT ![i] = "window"]
    /\ told' \in {told, [told EXCEPT ![i] = "direct"]}

\* Items of one owner pass on together, and nobody is told.
PassOn(S) ==
    /\ \E pass \in Passes :
        /\ \A i \in S : owner[i] = pass[1]
        /\ owner' = [i \in Items |-> IF i \in S THEN pass[2] ELSE owner[i]]
    /\ UNCHANGED told

\* The caller wins its item back, and knows it.
WinBack(i) ==
    /\ owner[i] = "window" /\ told[i] = None
    /\ owner' = [owner EXCEPT ![i] = "caller"]
    /\ told' = [told EXCEPT ![i] = "abandoned"]

Tell(i, a) ==
    /\ told[i] = None /\ owner[i] \in Owners(a)
    /\ told' = [told EXCEPT ![i] = a]
    /\ UNCHANGED owner

WorkNext ==
    \/ \E i \in Items : Keep(i) \/ Offer(i) \/ WinBack(i)
    \/ \E S \in SUBSET Items : PassOn(S)
    \/ \E i \in Items, a \in {"submitted", "failed", "unresolved"} : Tell(i, a)

WorkSpec == WorkInit /\ [][WorkNext]_workVars

=============================================================================
