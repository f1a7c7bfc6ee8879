------------------------- MODULE Reservation_proofs -------------------------
(***************************************************************************)
(* What the ledger promises, for whatever implements it: it stays solvent, *)
(* and there is always room for what is returned.                          *)
(***************************************************************************)
EXTENDS Reservation, FiniteSetTheorems, TLAPS

\* The pairs that grant g puts on its worker.
Block(g) == {g.job} \X (1 .. g.size)

On(w) == {g \in grants : g.worker = w}

LEMMA GrantSize ==
    ASSUME NEW g, g.size \in Nat
    PROVE  IsFiniteSet(Block(g)) /\ Cardinality(Block(g)) = g.size
  <1>1. IsFiniteSet({g.job}) /\ Cardinality({g.job}) = 1 BY FS_Singleton
  <1>2. IsFiniteSet(1 .. g.size) BY FS_Interval
  <1>3. Cardinality(1 .. g.size) = g.size
    <2>1. 1 \in Int /\ g.size \in Int OBVIOUS
    <2>2. Cardinality(1 .. g.size) = IF 1 > g.size THEN 0 ELSE g.size - 1 + 1
      BY <2>1, FS_Interval, Zenon
    <2> QED BY <2>2
  <1>4. /\ IsFiniteSet(Block(g))
        /\ Cardinality(Block(g)) = Cardinality({g.job}) * Cardinality(1 .. g.size)
    BY <1>1, <1>2, FS_Product, Zenon DEF Block
  <1> QED BY <1>1, <1>3, <1>4

LEMMA HeldIsBlocks == \A w : Held(w) = UNION {Block(g) : g \in On(w)}
  BY DEF Held, Block, On

LEMMA HeldIsFinite ==
    ASSUME Opened, NEW w
    PROVE  IsFiniteSet(Held(w)) /\ Cardinality(Held(w)) \in Nat
  <1> DEFINE Blocks == {Block(g) : g \in On(w)}
             block == [g \in On(w) |-> Block(g)]
  <1>1. IsFiniteSet(On(w)) BY FS_Subset DEF Opened, On
  <1>2. IsFiniteSet(Blocks)
    <2>1. block \in Surjection(On(w), Blocks) BY DEF Surjection
    <2> QED BY <1>1, <2>1, FS_Surjection
  <1>3. \A B \in Blocks : IsFiniteSet(B) BY GrantSize DEF Opened, On
  <1>4. IsFiniteSet(UNION Blocks)
    <2> HIDE DEF Blocks
    <2> QED BY <1>2, <1>3, FS_UNION
  <1>5. IsFiniteSet(Held(w)) BY <1>4, HeldIsBlocks
  <1> QED BY <1>5, FS_CardinalityType

\* The memory to be returned is part of what is held: with it the worker has at
\* most its capacity.
LEMMA ReturnFits ==
    ASSUME Opened, NEW g \in grants
    PROVE  /\ g.size \in Nat /\ g.worker \in DOMAIN capacity
           /\ free[g.worker] + g.size <= capacity[g.worker]
           /\ Block(g) \subseteq Held(g.worker)
           /\ Cardinality(Held(g.worker) \ Block(g)) =
                 Cardinality(Held(g.worker)) - g.size
  <1>1. PICK w : w = g.worker OBVIOUS
  <1>2. g.size \in Nat /\ w \in DOMAIN capacity BY <1>1 DEF Opened
  <1>3. PICK f \in Nat, c \in Nat : f = free[w] /\ c = capacity[w]
    BY <1>2 DEF Opened
  <1>4. f + Cardinality(Held(w)) <= c BY <1>2, <1>3 DEF Opened, Solvent
  <1>5. Block(g) \subseteq Held(w) BY <1>1, HeldIsBlocks DEF On
  <1>6. IsFiniteSet(Held(w)) /\ Cardinality(Held(w)) \in Nat BY HeldIsFinite
  <1>7. Cardinality(Block(g)) = g.size BY <1>2, GrantSize
  <1>8. g.size <= Cardinality(Held(w)) BY <1>5, <1>6, <1>7, FS_Subset, Zenon
  <1>9. Held(w) \cap Block(g) = Block(g) BY <1>5
  <1>10. Cardinality(Held(w) \ Block(g)) =
             Cardinality(Held(w)) - Cardinality(Held(w) \cap Block(g))
    BY <1>6, FS_Difference, Zenon
  <1>11. Cardinality(Held(w) \ Block(g)) = Cardinality(Held(w)) - g.size
    BY <1>7, <1>9, <1>10
  <1>12. f + g.size <= c BY <1>2, <1>3, <1>4, <1>6, <1>8
  <1> QED BY <1>1, <1>2, <1>3, <1>5, <1>11, <1>12

-----------------------------------------------------------------------------
(***************************************************************************)
(* Each step keeps the ledger sound.                                       *)
(***************************************************************************)
LEMMA JoinOpened ==
    ASSUME Opened, Capacities \subseteq Nat, NEW w, Join(w)
    PROVE  Opened'
  <1>0. PICK c \in Capacities : \E f \in 0 .. c :
            /\ capacity' = Add(capacity, w, c) /\ free' = Add(free, w, f)
            /\ grants' = grants /\ w \notin DOMAIN capacity
    BY DEF Join
  <1>1. PICK f \in 0 .. c :
            /\ capacity' = Add(capacity, w, c) /\ free' = Add(free, w, f)
            /\ grants' = grants /\ w \notin DOMAIN capacity
    BY <1>0
  <1>2. c \in Nat /\ f \in Nat /\ f <= c BY <1>0, <1>1
  <1>3. /\ capacity' \in [DOMAIN capacity' -> Nat]
        /\ free' \in [DOMAIN capacity' -> Nat]
        /\ DOMAIN capacity' = DOMAIN capacity \cup {w}
        /\ capacity'[w] = c /\ free'[w] = f
        /\ \A v \in DOMAIN capacity :
              capacity'[v] = capacity[v] /\ free'[v] = free[v]
    BY <1>1, <1>2 DEF Opened, Add
  <1>4. \A v : Held(v)' = Held(v) BY <1>1 DEF Held
  <1>5. On(w) = {} BY <1>1 DEF On, Opened
  <1>6. Cardinality(Held(w)) = 0 BY <1>5, HeldIsBlocks, FS_EmptySet
  <1>7. \A v \in DOMAIN capacity' :
            free'[v] + Cardinality(Held(v)) <= capacity'[v]
    BY <1>2, <1>3, <1>6 DEF Opened, Solvent
  <1> QED BY <1>1, <1>3, <1>4, <1>7 DEF Opened, Solvent

LEMMA WithdrawOpened ==
    ASSUME Opened, NEW w, Withdraw(w)
    PROVE  Opened'
  <1>1. PICK f \in 0 .. free[w] :
            /\ free' = [free EXCEPT ![w] = f] /\ w \in DOMAIN free
            /\ capacity' = capacity /\ grants' = grants
    BY DEF Withdraw
  <1>2. \A v : Held(v)' = Held(v) BY <1>1 DEF Held
  <1>3. free' \in [DOMAIN capacity -> Nat] BY <1>1 DEF Opened
  <1>4. ASSUME NEW v \in DOMAIN capacity
        PROVE  free'[v] + Cardinality(Held(v)) <= capacity[v]
    <2>1. free[v] \in Nat /\ capacity[v] \in Nat BY DEF Opened
    <2>2. free'[v] \in Nat /\ free'[v] <= free[v] BY <1>1, <1>3, <2>1 DEF Opened
    <2>3. Cardinality(Held(v)) \in Nat BY HeldIsFinite
    <2>4. free[v] + Cardinality(Held(v)) <= capacity[v] BY DEF Opened, Solvent
    <2> QED BY <2>1, <2>2, <2>3, <2>4
  <1> QED BY <1>1, <1>2, <1>3, <1>4 DEF Opened, Solvent

LEMMA GrantOpened ==
    ASSUME Opened, NEW j, NEW w, Grant(j, w)
    PROVE  Opened'
  <1>0. PICK n \in 1 .. free[w] :
            /\ free' = [free EXCEPT ![w] = free[w] - n]
            /\ grants' = grants \cup {[job |-> j, worker |-> w, size |-> n]}
            /\ capacity' = capacity /\ w \in DOMAIN free
            /\ \A g \in grants : g.job # j
    BY DEF Grant
  <1>1. PICK new :
            /\ new = [job |-> j, worker |-> w, size |-> n]
            /\ free' = [free EXCEPT ![w] = free[w] - n]
            /\ grants' = grants \cup {new}
            /\ capacity' = capacity /\ w \in DOMAIN free
            /\ \A g \in grants : g.job # j
    BY <1>0
  <1>2. /\ new.job = j /\ new.worker = w /\ new.size = n
        /\ n \in Nat /\ free[w] \in Nat /\ n <= free[w] /\ w \in DOMAIN capacity
    BY <1>1 DEF Opened
  <1>3. free' \in [DOMAIN capacity -> Nat] BY <1>1, <1>2 DEF Opened
  <1>4. IsFiniteSet(grants') BY <1>1, FS_AddElement DEF Opened
  <1>5. \A g \in grants' : g.worker \in DOMAIN capacity /\ g.size \in Nat
    BY <1>1, <1>2 DEF Opened
  <1>6. \A g, h \in grants' : g.job = h.job => g = h
    BY <1>1, <1>2 DEF Opened, Solvent
  <1>7. \A v : Held(v)' = UNION {Block(g) : g \in {h \in grants' : h.worker = v}}
    BY DEF Held, Block
  <1>8. Held(w)' = Held(w) \cup Block(new)
    BY <1>1, <1>2, <1>7, HeldIsBlocks DEF On
  <1>9. Held(w) \cap Block(new) = {}
    BY <1>1, <1>2, HeldIsBlocks DEF On, Block
  <1>10. Cardinality(Held(w)') = Cardinality(Held(w)) + n
    <2>1. /\ IsFiniteSet(Held(w)) /\ Cardinality(Held(w)) \in Nat
          /\ IsFiniteSet(Block(new)) /\ Cardinality(Block(new)) = n
      BY <1>2, HeldIsFinite, GrantSize
    <2>2. Cardinality(Held(w) \cup Block(new)) =
              Cardinality(Held(w)) + Cardinality(Block(new))
                - Cardinality(Held(w) \cap Block(new))
      BY <2>1, FS_Union, Zenon
    <2>3. Cardinality(Held(w) \cap Block(new)) = 0 BY <1>9, FS_EmptySet, Zenon
    <2> QED BY <1>2, <1>8, <2>1, <2>2, <2>3
  <1>11. ASSUME NEW v \in DOMAIN capacity
         PROVE  free'[v] + Cardinality(Held(v)') <= capacity[v]
    <2>1. free[v] + Cardinality(Held(v)) <= capacity[v] BY DEF Opened, Solvent
    <2>2. CASE v = w
      <3>1. free'[v] = free[w] - n BY <1>1, <2>2
      <3>2. Cardinality(Held(w)) \in Nat /\ capacity[w] \in Nat
        BY <1>2, HeldIsFinite DEF Opened
      <3> QED BY <1>2, <1>10, <2>1, <2>2, <3>1, <3>2
    <2>3. CASE v # w
      <3>1. free'[v] = free[v] BY <1>1, <2>3 DEF Opened
      <3>2. Held(v)' = Held(v)
        BY <1>1, <1>2, <1>7, <2>3, HeldIsBlocks DEF On
      <3> QED BY <2>1, <3>1, <3>2
    <2> QED BY <2>2, <2>3
  <1> QED BY <1>1, <1>3, <1>4, <1>5, <1>6, <1>11 DEF Opened, Solvent

LEMMA ReturnOpened ==
    ASSUME Opened, NEW g \in grants, Return(g)
    PROVE  Opened'
  <1>1. PICK w, n : w = g.worker /\ n = g.size OBVIOUS
  <1>2. /\ free' = [free EXCEPT ![w] = free[w] + n]
        /\ grants' = grants \ {g} /\ capacity' = capacity
    BY <1>1 DEF Return
  <1>3. /\ n \in Nat /\ w \in DOMAIN capacity /\ free[w] \in Nat
        /\ Block(g) \subseteq Held(w)
        /\ Cardinality(Held(w) \ Block(g)) = Cardinality(Held(w)) - n
    BY <1>1, ReturnFits DEF Opened
  <1>4. free' \in [DOMAIN capacity -> Nat] BY <1>2, <1>3 DEF Opened
  <1>5. IsFiniteSet(grants') BY <1>2, FS_Subset DEF Opened
  <1>6. \A v : Held(v)' = UNION {Block(h) : h \in {k \in grants' : k.worker = v}}
    BY DEF Held, Block
  <1>7. \A h \in grants' : Block(h) \cap Block(g) = {}
    BY <1>2 DEF Block, Opened, Solvent
  <1>8. Held(w)' = Held(w) \ Block(g)
    BY <1>1, <1>2, <1>6, <1>7, HeldIsBlocks DEF On
  <1>9. ASSUME NEW v \in DOMAIN capacity
        PROVE  free'[v] + Cardinality(Held(v)') <= capacity[v]
    <2>1. free[v] + Cardinality(Held(v)) <= capacity[v] BY DEF Opened, Solvent
    <2>2. CASE v = w
      <3>1. free'[v] = free[w] + n BY <1>2, <1>3, <2>2 DEF Opened
      <3>2. Cardinality(Held(w)) \in Nat /\ capacity[w] \in Nat
        BY <1>3, HeldIsFinite DEF Opened
      <3>3. Cardinality(Held(v)') = Cardinality(Held(w)) - n
        BY <1>3, <1>8, <2>2, Zenon
      <3> QED BY <1>3, <2>1, <2>2, <3>1, <3>2, <3>3
    <2>3. CASE v # w
      <3>1. free'[v] = free[v] BY <1>2, <2>3 DEF Opened
      <3>2. Held(v)' = Held(v)
        BY <1>1, <1>2, <1>6, <2>3, HeldIsBlocks DEF On
      <3> QED BY <2>1, <3>1, <3>2
    <2> QED BY <2>2, <2>3
  <1> QED BY <1>2, <1>4, <1>5, <1>9 DEF Opened, Solvent

\* For modules that instantiate this one: a formula, not an ASSUME ... PROVE.
LEMMA OpenedHasRoom ==
    Opened => \A g \in grants : free[g.worker] + g.size <= capacity[g.worker]
  BY ReturnFits

LEMMA StepOpened == Capacities \subseteq Nat /\ Opened /\ [Next]_vars => Opened'
  <1> SUFFICES ASSUME Capacities \subseteq Nat, Opened, [Next]_vars PROVE Opened'
    OBVIOUS
  <1>1. CASE UNCHANGED vars
    BY <1>1 DEF vars, Opened, Solvent, Held
  <1> QED
    BY <1>1, JoinOpened, WithdrawOpened, GrantOpened, ReturnOpened DEF Next

(***************************************************************************)
(* A ledger that is taken over solvent stays so: whatever implements it    *)
(* (StateStore, ControlPlane) never offers memory that is granted, and     *)
(* never grants more than a worker has.                                    *)
(***************************************************************************)
THEOREM LedgerSolvent == Capacities \subseteq Nat => (OpenedSpec => []Solvent)
  <1> SUFFICES ASSUME Capacities \subseteq Nat PROVE OpenedSpec => []Solvent
    OBVIOUS
  <1>1. Opened => Solvent BY DEF Opened
  <1>2. Opened /\ [Next]_vars => Opened' BY StepOpened
  <1> QED BY <1>1, <1>2, PTL DEF OpenedSpec

(***************************************************************************)
(* A grant can be returned in full whenever its holder comes back: what    *)
(* is found to be in use in the meantime never takes its place, and the    *)
(* caps of ReleasePlacement and completeWorkload cut only the returns of   *)
(* callers that do not keep the ledger.                                    *)
(***************************************************************************)
THEOREM RoomToReturn ==
    Capacities \subseteq Nat =>
        (OpenedSpec =>
            [](\A g \in grants : free[g.worker] + g.size <= capacity[g.worker]))
  <1> SUFFICES ASSUME Capacities \subseteq Nat
               PROVE  OpenedSpec =>
                   [](\A g \in grants : free[g.worker] + g.size <= capacity[g.worker])
    OBVIOUS
  <1>1. Opened /\ [Next]_vars => Opened' BY StepOpened
  <1> QED BY <1>1, OpenedHasRoom, PTL DEF OpenedSpec
=============================================================================
