---------------------------- MODULE LeaseContract ----------------------------
(***************************************************************************)
(* What a pipeline-interval lease promises, whichever store keeps it: one  *)
(* owner at a time, identified by the token of one acquire; the lease ends *)
(* by its release, by the operator, or by a thief once it has lapsed; and  *)
(* an attempt gets the lease at most once.                                 *)
(***************************************************************************)
CONSTANTS
    Attempt,   \* acquire() calls, each with its token
    NoOne,
    Strict     \* TRUE: a lease is stolen only while it is expired;
               \* FALSE: once it has been expired at some time

VARIABLES
    owner,     \* the attempt that owns the lease, or NoOne
    live,      \* its deadline is in the future
    lapsed,    \* its deadline has passed at some time since it was acquired
    spent      \* the attempts that own, owned or will never own the lease

contractVars == <<owner, live, lapsed, spent>>

Init ==
    /\ owner = NoOne
    /\ live = FALSE
    /\ lapsed = FALSE
    /\ spent = {}

TakeOver(a) ==
    /\ owner' = a
    /\ live' = TRUE
    /\ lapsed' = FALSE
    /\ spent' = spent \cup {a}

Acquire(a) ==
    /\ a \notin spent
    /\ owner = NoOne
    /\ TakeOver(a)

Steal(a) ==
    /\ a \notin spent
    /\ owner # NoOne
    /\ lapsed
    /\ Strict => ~live
    /\ TakeOver(a)

GiveUp(a) ==
    /\ spent' = spent \cup {a}
    /\ UNCHANGED <<owner, live, lapsed>>

\* A heartbeat or a fence; it may revive a lease that nobody has stolen yet.
Extend ==
    /\ owner # NoOne
    /\ live' = TRUE
    /\ UNCHANGED <<owner, lapsed, spent>>

Expire ==
    /\ live
    /\ live' = FALSE
    /\ lapsed' = TRUE
    /\ UNCHANGED <<owner, spent>>

\* By the owner, or by the operator.
Release ==
    /\ owner' = NoOne
    /\ UNCHANGED <<live, lapsed, spent>>

Next ==
    \/ \E a \in Attempt : Acquire(a) \/ Steal(a) \/ GiveUp(a)
    \/ Extend \/ Expire \/ Release

Spec == Init /\ [][Next]_contractVars
=============================================================================
