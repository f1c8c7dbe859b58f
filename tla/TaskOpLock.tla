------------------------------ MODULE TaskOpLock -------------------------------
(***************************************************************************)
(* What the task-operation lease promises its callers (the admission pass, *)
(* the reconciler and the operator actions): one owner per task, ownership *)
(* taken from nobody, handed over directly or given up, and never returned *)
(* to a call that has given it up.                                         *)
(***************************************************************************)
CONSTANTS Tasks, Acqs, None

VARIABLES
    owner,     \* task -> the call that owns its lease, or None
    released   \* calls whose release has been called

vars == <<owner, released>>

Init ==
    /\ owner = [t \in Tasks |-> None]
    /\ released = {}

Owned == {owner[t] : t \in Tasks}

(* A call takes a free lease; a call owns one lease, once.                 *)
Take(t, p) ==
    /\ owner[t] = None
    /\ p \notin Owned \union released
    /\ owner' = [owner EXCEPT ![t] = p]
    /\ UNCHANGED released

(* The owner releases and the lease passes to a waiting call.              *)
Pass(t, p) ==
    /\ owner[t] # None
    /\ p \notin Owned \union released
    /\ owner' = [owner EXCEPT ![t] = p]
    /\ released' = released \union {owner[t]}

(* The owner releases and nobody waits.                                    *)
Give(t) ==
    /\ owner[t] # None
    /\ owner' = [owner EXCEPT ![t] = None]
    /\ released' = released \union {owner[t]}

Next ==
    \E t \in Tasks :
        \/ \E p \in Acqs : Take(t, p) \/ Pass(t, p)
        \/ Give(t)

Spec == Init /\ [][Next]_vars
================================================================================
