--------------------------- MODULE AdmissionGate ---------------------------
(***************************************************************************)
(* What admission promises of the requests it has let in and not yet let   *)
(* out, whatever its rate limiter, leases, queue, workers and janitor do:  *)
(* never more than Capacity of them, and never two on one key while both   *)
(* of their leases last. A lease is an end time fixed at entry; nobody     *)
(* else shortens it, and a crash empties the gate.                         *)
(***************************************************************************)
EXTENDS Naturals, FiniteSets

CONSTANTS Requests, Keys, Capacity

VARIABLES
    now,     \* the wall clock
    key,     \* the key each request is about
    inside,  \* requests let in and not yet out
    ends     \* end of the lease of each request inside, 0 for the others

gate == <<now, key, inside, ends>>

Live(r, t) == t < ends[r]

Init ==
    /\ now = 0
    /\ key \in [Requests -> Keys]
    /\ inside = {}
    /\ ends = [r \in Requests |-> 0]

Enter(r) ==
    /\ r \notin inside
    /\ Cardinality(inside) < Capacity
    /\ inside' = inside \cup {r}
    /\ ends'[r] \in Nat
    /\ ends' = [ends EXCEPT ![r] = ends'[r]]
    /\ \A s \in inside :
          key[s] = key[r] => ~(Live(s, now) /\ now < ends'[r])
    /\ UNCHANGED <<now, key>>

Leave(r) ==
    /\ r \in inside
    /\ inside' = inside \ {r}
    /\ ends' = [ends EXCEPT ![r] = 0]
    /\ UNCHANGED <<now, key>>

Crash ==
    /\ inside' = {}
    /\ ends' = [r \in Requests |-> 0]
    /\ UNCHANGED <<now, key>>

Tick ==
    /\ now' = now + 1
    /\ UNCHANGED <<key, inside, ends>>

Next == (\E r \in Requests : Enter(r) \/ Leave(r)) \/ Crash \/ Tick

Spec == Init /\ [][Next]_gate
=============================================================================
