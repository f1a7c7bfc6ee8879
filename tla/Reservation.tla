---------------------------- MODULE Reservation -----------------------------
(***************************************************************************)
(* What the state store promises about GPU memory, without workload        *)
(* states, health, topology or counters: a ledger of who holds how much of *)
(* which worker.  A grant takes its memory from the free memory of one     *)
(* worker, a job has at most one grant, and the return of a grant gives    *)
(* back exactly what it took.  Nothing else makes memory free.             *)
(***************************************************************************)
EXTENDS Integers, FiniteSets

CONSTANTS
    Workers,      \* who offers memory
    Jobs,         \* who takes it
    Capacities    \* the amounts a worker may have, natural numbers

VARIABLES
    capacity,   \* memory of each worker known so far
    free,       \* memory of each worker that a grant can take
    grants      \* the grants given and not returned: [job, worker, size]

vars == <<capacity, free, grants>>

Init ==
    /\ capacity = <<>>
    /\ free = <<>>
    /\ grants = {}

Add(f, k, v) == [j \in DOMAIN f \cup {k} |-> IF j = k THEN v ELSE f[j]]

\* A worker joins, some of its memory in use by something else.
Join(w) ==
    /\ w \notin DOMAIN capacity
    /\ \E c \in Capacities : \E f \in 0 .. c :
          /\ capacity' = Add(capacity, w, c)
          /\ free' = Add(free, w, f)
    /\ UNCHANGED grants

\* Memory found to be in use by something else.
Withdraw(w) ==
    /\ w \in DOMAIN free
    /\ \E f \in 0 .. free[w] : free' = [free EXCEPT ![w] = f]
    /\ UNCHANGED <<capacity, grants>>

Grant(j, w) ==
    /\ w \in DOMAIN free
    /\ \A g \in grants : g.job # j
    /\ \E n \in 1 .. free[w] :
          /\ free' = [free EXCEPT ![w] = @ - n]
          /\ grants' = grants \cup {[job |-> j, worker |-> w, size |-> n]}
    /\ UNCHANGED capacity

Return(g) ==
    /\ free' = [free EXCEPT ![g.worker] = @ + g.size]
    /\ grants' = grants \ {g}
    /\ UNCHANGED capacity

Next ==
    \/ \E w \in Workers : Join(w) \/ Withdraw(w)
    \/ \E j \in Jobs, w \in Workers : Grant(j, w)
    \/ \E g \in grants : Return(g)

Spec == Init /\ [][Next]_vars
-----------------------------------------------------------------------------
(***************************************************************************)
(* A ledger taken over in the middle of its business: cmd/aegis starts     *)
(* with workers that run workloads already.                                *)
(***************************************************************************)
\* The memory granted on worker w, one pair per MB.
Held(w) == UNION {{g.job} \X (1 .. g.size) : g \in {h \in grants : h.worker = w}}

\* No memory is both free and granted, nor granted twice.
Solvent ==
    /\ \A g, h \in grants : g.job = h.job => g = h
    /\ \A w \in DOMAIN capacity : free[w] + Cardinality(Held(w)) <= capacity[w]

Opened ==
    /\ capacity \in [DOMAIN capacity -> Nat]
    /\ free \in [DOMAIN capacity -> Nat]
    /\ IsFiniteSet(grants)
    /\ \A g \in grants : g.worker \in DOMAIN capacity /\ g.size \in Nat
    /\ Solvent

OpenedSpec == Opened /\ [][Next]_vars
=============================================================================
