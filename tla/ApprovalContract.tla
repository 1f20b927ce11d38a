-------------------------- MODULE ApprovalContract --------------------------
(***************************************************************************)
(* What an approval promises, whichever store keeps it: a run that found   *)
(* it unused and in time may claim it, one run at a time, and it is used   *)
(* at most once.  Each action is one transaction of the Postgres store,    *)
(* with the row locked; a heartbeat changes nothing here.                  *)
(***************************************************************************)
CONSTANTS Run, NoOne

VARIABLES
    status,    \* "unused", "claimed" or "consumed"
    holder,    \* the run that claimed it last, NoOne if released since
    expired,   \* its TTL is over
    admitted   \* runs that found it unused and in time, and have not claimed

contractVars == <<status, holder, expired, admitted>>

Init ==
    /\ status = "unused"
    /\ holder = NoOne
    /\ expired = FALSE
    /\ admitted = {}

Admit(r) ==
    /\ status = "unused" /\ ~expired
    /\ admitted' = admitted \cup {r}
    /\ UNCHANGED <<status, holder, expired>>

TurnAway(r) ==
    /\ admitted' = admitted \ {r}
    /\ UNCHANGED <<status, holder, expired>>

Claim(r) ==
    /\ r \in admitted /\ status = "unused"
    /\ status' = "claimed"
    /\ holder' = r
    /\ admitted' = admitted \ {r}
    /\ UNCHANGED expired

Consume ==
    /\ status # "consumed"
    /\ status' = "consumed"
    /\ UNCHANGED <<holder, expired, admitted>>

Release ==
    /\ status = "claimed"
    /\ status' = "unused"
    /\ holder' = NoOne
    /\ UNCHANGED <<expired, admitted>>

Expire ==
    /\ expired' = TRUE
    /\ UNCHANGED <<status, holder, admitted>>

Next ==
    \/ \E r \in Run : Admit(r) \/ TurnAway(r) \/ Claim(r)
    \/ Consume \/ Release \/ Expire

Spec == Init /\ [][Next]_contractVars
=============================================================================
