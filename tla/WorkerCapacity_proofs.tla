------------------------ MODULE WorkerCapacity_proofs ------------------------
(***************************************************************************)
(* Proofs about the capacity of one machine, for every finite set of jobs  *)
(* and all budgets, leases and page sizes: what its database holds,        *)
(* whoever calls it (StoreInv), then what callers that release with proof  *)
(* may rely on (Spec).                                                     *)
(*                                                                         *)
(* Every step but the grant of a lease moves rows along their life cycle   *)
(* and lets the occupied set only shrink; a grant adds one job to a set    *)
(* that reserve_capacity has just counted, and records the budget it was   *)
(* counted against.                                                        *)
(***************************************************************************)
EXTENDS WorkerCapacity, FiniteSetTheorems, TLAPS

-----------------------------------------------------------------------------
(***************************************************************************)
(* The sums of reserve_capacity.  A sum over a set takes its elements one  *)
(* by one in an order of its own; that the order does not matter is        *)
(* induction on the size of the set, by a smallest counterexample.         *)
(***************************************************************************)

\* A non-empty set of naturals has a least element.
LEMMA LeastNatural ==
    ASSUME NEW S \in SUBSET Nat, S # {}
    PROVE  \E i \in S : \A k \in S : i <= k
<1>1. PICK x \in S : \A y \in S : ~(<<y, x>> \in OpToRel(<, Nat))
  BY NatLessThanWellFounded, WFMin, Zenon
<1>2. ASSUME NEW y \in S PROVE ~(y < x)
  BY <1>1, <1>2, Zenon DEF OpToRel
<1>. QED
  BY <1>2

First(s) == CHOOSE x \in s : TRUE

\* g adds up the memory of every subset of S, one element at a time.
Sums(res, S, g) ==
    g = [s \in SUBSET S |->
            IF s = {} THEN 0 ELSE res[First(s)].memory + g[s \ {First(s)}]]

\* Memory, a fold of the library, is such a g at the whole set.
LEMMA MemoryIsSum == \A res, S : Memory(res, S) = (CHOOSE g : Sums(res, S, g))[S]
BY Zenon DEF Memory, MapThenSumSet, MapThenFoldSet, Sums, First

\* What g says of one subset.
LEMMA SumsAt ==
    ASSUME NEW res, NEW S, NEW g, Sums(res, S, g), NEW s \in SUBSET S
    PROVE  g[s] = IF s = {} THEN 0 ELSE res[First(s)].memory + g[s \ {First(s)}]
<1>. DEFINE e(t) == IF t = {} THEN 0 ELSE res[First(t)].memory + g[t \ {First(t)}]
<1>1. g = [t \in SUBSET S |-> e(t)]
  BY Zenon DEF Sums
<1>. HIDE DEF e
<1>2. g[s] = e(s)
  BY <1>1
<1>. QED
  BY <1>2 DEF e

\* The element that the sum takes next leaves a smaller set.
LEMMA FirstOut ==
    ASSUME NEW s, IsFiniteSet(s), s # {}
    PROVE  /\ First(s) \in s
           /\ IsFiniteSet(s \ {First(s)})
           /\ Cardinality(s) \in Nat /\ Cardinality(s \ {First(s)}) \in Nat
           /\ Cardinality(s \ {First(s)}) < Cardinality(s)
<1>1. First(s) \in s
  BY DEF First
<1>2. /\ IsFiniteSet(s \ {First(s)})
      /\ Cardinality(s \ {First(s)}) = Cardinality(s) - 1
  BY <1>1, FS_RemoveElement, ZenonT(40)
<1>3. Cardinality(s) \in Nat /\ Cardinality(s \ {First(s)}) \in Nat
  BY <1>2, FS_CardinalityType
<1>. QED
  BY <1>1, <1>2, <1>3

\* There is one such g: two of them agree on the subsets they share.
LEMMA SumsAgree ==
    ASSUME NEW res, NEW S, NEW T, NEW g, NEW h, Sums(res, S, g), Sums(res, T, h),
           NEW U \in SUBSET S, U \in SUBSET T, IsFiniteSet(U)
    PROVE  g[U] = h[U]
<1>. DEFINE bad == {s \in SUBSET U : g[s] # h[s]}
            sizes == {Cardinality(s) : s \in bad}
<1>0. \A s \in SUBSET U : IsFiniteSet(s) /\ Cardinality(s) \in Nat
  BY FS_Subset, FS_CardinalityType
<1>. SUFFICES ASSUME g[U] # h[U] PROVE FALSE
  OBVIOUS
<1>1. sizes \in SUBSET Nat /\ sizes # {}
  BY <1>0
<1>2. PICK n \in sizes : \A k \in sizes : n <= k
  BY <1>1, LeastNatural, Zenon
<1>3. PICK s \in bad : n = Cardinality(s)
  BY <1>2
<1>4. s \in SUBSET S /\ s \in SUBSET T
  OBVIOUS
<1>5. s # {}
  <2>1. g[s] # h[s]
    BY <1>3, Zenon
  <2>2. s = {} => g[s] = 0 /\ h[s] = 0
    BY <1>4, SumsAt, ZenonT(40)
  <2>. QED
    BY <2>1, <2>2, Zenon
<1>. DEFINE r == s \ {First(s)}
<1>6. Cardinality(r) < Cardinality(s) /\ Cardinality(r) \in Nat /\ Cardinality(s) \in Nat
  BY <1>0, <1>5, FirstOut, Zenon
<1>7. r \in SUBSET U
  OBVIOUS
<1>8. r \notin bad
  BY <1>2, <1>3, <1>6, SMTT(30)
<1>9. g[r] = h[r]
  BY <1>7, <1>8
<1>10. g[s] = res[First(s)].memory + g[r] /\ h[s] = res[First(s)].memory + h[r]
  BY <1>4, <1>5, SumsAt
<1>. QED
  BY <1>3, <1>9, <1>10

\* Such a g gives the sum of each of its subsets that has one of its own.
LEMMA MemoryOf ==
    ASSUME NEW res, NEW S, IsFiniteSet(S), NEW g, Sums(res, S, g),
           NEW s \in SUBSET S, NEW h, Sums(res, s, h)
    PROVE  Memory(res, s) = g[s]
<1>. DEFINE f == CHOOSE k : Sums(res, s, k)
<1>1. Sums(res, s, f)
  BY Zenon
<1>2. IsFiniteSet(s)
  BY FS_Subset
<1>3. Memory(res, s) = f[s]
  BY MemoryIsSum, Zenon
<1>. HIDE DEF f
<1>4. f[s] = g[s]
  BY <1>1, <1>2, SumsAgree
<1>. QED
  BY <1>3, <1>4

\* Every finite set has such a g.
LEMMA SumsExist ==
    ASSUME NEW res, NEW S, IsFiniteSet(S)
    PROVE  \E g : Sums(res, S, g)
<1>. DEFINE bad == {T \in SUBSET S : ~ \E g : Sums(res, T, g)}
            sizes == {Cardinality(T) : T \in bad}
<1>0. \A T \in SUBSET S : IsFiniteSet(T) /\ Cardinality(T) \in Nat
  BY FS_Subset, FS_CardinalityType
<1>. SUFFICES ASSUME ~ \E g : Sums(res, S, g) PROVE FALSE
  OBVIOUS
<1>1. sizes \in SUBSET Nat /\ sizes # {}
  BY <1>0
<1>2. PICK n \in sizes : \A k \in sizes : n <= k
  BY <1>1, LeastNatural, Zenon
<1>3. PICK T \in bad : n = Cardinality(T)
  BY <1>2
<1>4. ASSUME NEW s \in SUBSET T, s # T PROVE \E h : Sums(res, s, h)
  <2>1. IsFiniteSet(T) /\ Cardinality(s) < Cardinality(T)
    BY <1>0, <1>4, FS_Subset
  <2>2. s \notin bad
    BY <1>0, <1>2, <1>3, <2>1
  <2>. QED
    BY <2>2, Zenon
<1>. DEFINE first == res[First(T)].memory + Memory(res, T \ {First(T)})
            g == [s \in SUBSET T |-> IF s # T THEN Memory(res, s)
                                      ELSE IF T = {} THEN 0 ELSE first]
            e(s) == IF s = {} THEN 0 ELSE res[First(s)].memory + g[s \ {First(s)}]
<1>5. ASSUME NEW s \in SUBSET T PROVE g[s] = e(s)
  <2>1. CASE s = T
    <3>1. s # {} => First(s) \in s
      BY DEF First
    <3>2. s # {} => g[s \ {First(s)}] = Memory(res, s \ {First(s)})
      BY <2>1, <3>1, Zenon
    <3>. QED
      BY <2>1, <3>2
  <2>2. CASE s # T
    <3>1. PICK h : Sums(res, s, h)
      BY <1>4, <2>2
    <3>2. g[s] = h[s]
      BY <1>0, <2>2, <3>1, MemoryOf, SMTT(30)
    <3>3. h[s] = IF s = {} THEN 0 ELSE res[First(s)].memory + h[s \ {First(s)}]
      BY <3>1, SumsAt
    <3>4. ASSUME s # {} PROVE g[s \ {First(s)}] = h[s \ {First(s)}]
      <4>1. First(s) \in s
        BY <3>4 DEF First
      <4>. DEFINE r == s \ {First(s)}
      <4>2. r \in SUBSET T /\ r # T /\ r \in SUBSET s
        BY <4>1
      <4>3. PICK f : Sums(res, r, f)
        BY <1>4, <4>2, Zenon
      <4>. HIDE DEF r
      <4>4. Memory(res, r) = h[r]
        BY <1>0, <3>1, <4>2, <4>3, MemoryOf
      <4>5. g[r] = h[r]
        BY <4>2, <4>4
      <4>. QED
        BY <4>5 DEF r
    <3>. QED
      BY <3>2, <3>3, <3>4
  <2>. QED
    BY <2>1, <2>2, Zenon
<1>6. g = [s \in SUBSET T |-> e(s)]
  <2>. HIDE DEF e
  <2>. QED
    BY <1>5, Zenon
<1>7. Sums(res, T, g)
  BY <1>6, Zenon DEF Sums
<1>. QED
  BY <1>3, <1>7

\* A set whose elements have a memory.
Weighed(res, S) == IsFiniteSet(S) /\ \A j \in S : res[j].memory \in Nat

\* The sum of the first element and of the rest, for every finite set.
LEMMA MemoryFirst ==
    ASSUME NEW res, NEW S, IsFiniteSet(S)
    PROVE  Memory(res, S) = IF S = {} THEN 0
                            ELSE res[First(S)].memory + Memory(res, S \ {First(S)})
<1>1. PICK g : Sums(res, S, g)
  BY SumsExist
<1>2. \A s \in SUBSET S : Memory(res, s) = g[s]
  <2>1. \A s \in SUBSET S : IsFiniteSet(s)
    BY FS_Subset
  <2>2. \A s \in SUBSET S : \E h : Sums(res, s, h)
    BY <2>1, SumsExist, Zenon
  <2>. QED
    BY <1>1, <2>2, MemoryOf
<1>3. g[S] = IF S = {} THEN 0 ELSE res[First(S)].memory + g[S \ {First(S)}]
  BY <1>1, SumsAt
<1>. QED
  BY <1>2, <1>3

\* The sum is a number, and any element may be taken out first.
LEMMA MemoryRemove ==
    ASSUME NEW res, NEW S, Weighed(res, S)
    PROVE  /\ Memory(res, S) \in Nat
           /\ \A j \in S : /\ Memory(res, S \ {j}) \in Nat
                           /\ Memory(res, S) = res[j].memory + Memory(res, S \ {j})
<1>. DEFINE Good(T) == /\ Memory(res, T) \in Nat
                       /\ \A j \in T : /\ Memory(res, T \ {j}) \in Nat
                                       /\ Memory(res, T) = res[j].memory + Memory(res, T \ {j})
            bad == {T \in SUBSET S : ~Good(T)}
            sizes == {Cardinality(T) : T \in bad}
<1>0. \A T \in SUBSET S : IsFiniteSet(T) /\ Cardinality(T) \in Nat
  BY FS_Subset, FS_CardinalityType DEF Weighed
<1>. SUFFICES ASSUME ~Good(S) PROVE FALSE
  OBVIOUS
<1>1. sizes \in SUBSET Nat /\ sizes # {}
  BY <1>0
<1>2. PICK n \in sizes : \A k \in sizes : n <= k
  BY <1>1, LeastNatural, Zenon
<1>3. PICK T \in bad : n = Cardinality(T)
  BY <1>2, Zenon
<1>4. ASSUME NEW s \in SUBSET T, s # T PROVE Good(s)
  <2>1. Cardinality(s) < Cardinality(T)
    BY <1>0, <1>4, FS_Subset, SMTT(30)
  <2>2. s \notin bad
    BY <1>0, <1>2, <1>3, <2>1
  <2>. QED
    BY <2>2
<1>5. T # {}
  <2>. SUFFICES ASSUME T = {} PROVE FALSE
    BY Zenon
  <2>1. Memory(res, T) = 0
    BY <1>0, MemoryFirst, Zenon
  <2>. QED
    BY <1>3, <2>1
<1>. DEFINE x == First(T)
<1>6. x \in T
  BY <1>5 DEF First
<1>7. Memory(res, T) = res[x].memory + Memory(res, T \ {x})
  BY <1>0, <1>5, MemoryFirst, Zenon
<1>8. \A j \in T : res[j].memory \in Nat
  BY Zenon DEF Weighed
<1>. HIDE DEF x
<1>9. Good(T \ {x})
  BY <1>4, <1>6, SMTT(30)
<1>10. ASSUME NEW j \in T, j # x
       PROVE  /\ Memory(res, T \ {j}) \in Nat
              /\ Memory(res, T) = res[j].memory + Memory(res, T \ {j})
  <2>. DEFINE m == Memory(res, (T \ {x}) \ {j})
  <2>1. m \in Nat /\ Memory(res, T \ {x}) = res[j].memory + m
    BY <1>9, <1>10, Zenon
  <2>2. (T \ {j}) \ {x} = (T \ {x}) \ {j}
    BY SMTT(30)
  <2>3. Good(T \ {j}) /\ x \in T \ {j}
    BY <1>4, <1>6, <1>10, Zenon
  <2>4. Memory(res, T \ {j}) \in Nat /\ Memory(res, T \ {j}) = res[x].memory + m
    BY <2>2, <2>3, Zenon
  <2>. HIDE DEF m
  <2>. QED
    BY <1>6, <1>7, <1>8, <2>1, <2>4
<1>11. Memory(res, T \ {x}) \in Nat /\ res[x].memory \in Nat
  BY <1>6, <1>8, <1>9, SMTT(30)
<1>12. Memory(res, T) \in Nat
  BY <1>7, <1>11, SMTT(30)
<1>13. Good(T)
  BY <1>7, <1>10, <1>11, <1>12, Zenon
<1>. QED
  BY <1>3, <1>13

\* One more element adds its memory to the sum.
LEMMA MemoryAdd ==
    ASSUME NEW res, NEW S, Weighed(res, S), NEW j, j \notin S, res[j].memory \in Nat
    PROVE  Memory(res, S \cup {j}) = res[j].memory + Memory(res, S)
<1>. DEFINE V == S \cup {j}
<1>1. Weighed(res, V)
  BY FS_AddElement, Zenon DEF Weighed
<1>2. j \in V /\ V \ {j} = S
  OBVIOUS
<1>. HIDE DEF V
<1>3. \A k \in V : Memory(res, V) = res[k].memory + Memory(res, V \ {k})
  BY <1>1, MemoryRemove, SMTT(30)
<1>4. Memory(res, V) = res[j].memory + Memory(res, V \ {j})
  BY <1>2, <1>3, Zenon
<1>5. Memory(res, V) = res[j].memory + Memory(res, S)
  BY <1>2, <1>4, Zenon
<1>. QED
  BY <1>5 DEF V

\* The sum grows with the set.
LEMMA MemorySubset ==
    ASSUME NEW res, NEW S, Weighed(res, S), NEW T \in SUBSET S
    PROVE  Memory(res, T) <= Memory(res, S)
<1>. DEFINE bad == {U \in SUBSET S : ~(Memory(res, U) <= Memory(res, S))}
            sizes == {Cardinality(S \ U) : U \in bad}
<1>0. \A U \in SUBSET S : /\ Weighed(res, U) /\ IsFiniteSet(S \ U)
                          /\ Cardinality(S \ U) \in Nat /\ Memory(res, U) \in Nat
  <2>1. \A U \in SUBSET S : IsFiniteSet(U) /\ IsFiniteSet(S \ U)
    BY FS_Subset DEF Weighed
  <2>2. \A U \in SUBSET S : Weighed(res, U)
    BY <2>1, Zenon DEF Weighed
  <2>. QED
    BY <2>1, <2>2, FS_CardinalityType, MemoryRemove, Zenon
<1>. SUFFICES ASSUME ~(Memory(res, T) <= Memory(res, S)) PROVE FALSE
  BY Zenon
<1>1. sizes \in SUBSET Nat /\ sizes # {}
  BY <1>0, Zenon
<1>2. PICK n \in sizes : \A k \in sizes : n <= k
  BY <1>1, LeastNatural, Zenon
<1>3. PICK U \in bad : n = Cardinality(S \ U)
  BY <1>2, Zenon
<1>4. PICK y \in S : y \notin U
  BY <1>0, <1>3
<1>. DEFINE V == U \cup {y}
<1>5. U \in SUBSET S /\ V \in SUBSET S /\ y \in V /\ y \in S \ U
  BY <1>4
<1>6. V \ {y} = U /\ S \ V = (S \ U) \ {y}
  BY <1>4, Zenon
<1>. HIDE DEF V
<1>7. /\ Cardinality(S \ U) \in Nat /\ Cardinality(S \ V) \in Nat
      /\ Memory(res, U) \in Nat /\ Memory(res, V) \in Nat /\ Memory(res, S) \in Nat
  BY <1>0, <1>5, Zenon
<1>8. Cardinality(S \ V) < Cardinality(S \ U)
  <2>1. Cardinality((S \ U) \ {y}) = Cardinality(S \ U) - 1
    BY <1>0, <1>5, FS_RemoveElement, Zenon
  <2>2. Cardinality(S \ V) = Cardinality((S \ U) \ {y})
    BY <1>6, Zenon
  <2>. QED
    BY <1>7, <2>1, <2>2
<1>9. Memory(res, V) <= Memory(res, S)
  <2>1. Cardinality(S \ V) \notin sizes
    BY <1>2, <1>3, <1>7, <1>8
  <2>. QED
    BY <1>5, <2>1, Zenon
<1>10. Memory(res, V) = res[y].memory + Memory(res, U)
  <2>1. Weighed(res, U) /\ y \notin U /\ res[y].memory \in Nat
    BY <1>0, <1>5, Zenon DEF Weighed
  <2>. QED
    BY <2>1, MemoryAdd, Zenon DEF V
<1>11. res[y].memory \in Nat /\ ~(Memory(res, U) <= Memory(res, S))
  BY <1>3, Zenon DEF Weighed
<1>. QED
  BY <1>7, <1>9, <1>10, <1>11

\* The sum depends on the memory of the elements only.
LEMMA MemorySame ==
    ASSUME NEW res, NEW new, NEW S, IsFiniteSet(S),
           \A j \in S : new[j].memory = res[j].memory
    PROVE  Memory(new, S) = Memory(res, S)
<1>. DEFINE bad == {U \in SUBSET S : Memory(new, U) # Memory(res, U)}
            sizes == {Cardinality(U) : U \in bad}
<1>0. \A U \in SUBSET S : IsFiniteSet(U) /\ Cardinality(U) \in Nat
  BY FS_Subset, FS_CardinalityType
<1>. SUFFICES ASSUME Memory(new, S) # Memory(res, S) PROVE FALSE
  BY Zenon
<1>1. sizes \in SUBSET Nat /\ sizes # {}
  BY <1>0
<1>2. PICK n \in sizes : \A k \in sizes : n <= k
  BY <1>1, LeastNatural, Zenon
<1>3. PICK U \in bad : n = Cardinality(U)
  BY <1>2, Zenon
<1>4. U # {}
  BY <1>0, <1>3, MemoryFirst, Zenon
<1>. DEFINE r == U \ {First(U)}
<1>5. First(U) \in U /\ Cardinality(r) < Cardinality(U)
  BY <1>0, <1>4, FirstOut
<1>6. r \notin bad
  BY <1>0, <1>2, <1>3, <1>5
<1>7. /\ Memory(new, U) = new[First(U)].memory + Memory(new, r)
      /\ Memory(res, U) = res[First(U)].memory + Memory(res, r)
  BY <1>0, <1>4, MemoryFirst
<1>. QED
  BY <1>3, <1>5, <1>6, <1>7

-----------------------------------------------------------------------------
(***************************************************************************)
(* What the database holds.  Its rows move along their life cycle; the     *)
(* occupied ones are on the machine the budget of their host records; and  *)
(* an unexpired lease finds the row it was granted.                        *)
(***************************************************************************)

\* The tables have their types, and the leases ever granted are finite in
\* number, without which the next token is undefined.
Tables == TypeOK /\ IsFiniteSet(leases)

OneHost ==
    \A j, k \in OccupiedRows(reservation, clock) : reservation[j].host = reservation[k].host

\* The recorded budget names the machine of the rows it was recorded for.
MachineRecorded ==
    \A j \in OccupiedRows(reservation, clock) :
        /\ budget[reservation[j].host] # NoRow
        /\ budget[reservation[j].host].fingerprint = reservation[j].fingerprint

\* r is the row of lease l, and nothing but its own launch has touched it.
LeaseRow(l, r) ==
    /\ r.token = l.token /\ r.memory = l.memory /\ r.expires = l.expires
    /\ r.state \in {"reserved", "dispatched"} \/ r.reason = "cleanup-proven"

LeaseRows ==
    \A l \in leases : l.expires > clock =>
        reservation[l.job] \in Row /\ LeaseRow(l, reservation[l.job])

StoreInv == /\ Tables
            /\ JobsWithinBudget
            /\ MemoryWithinBudget
            /\ OneHost
            /\ MachineRecorded
            /\ LeaseRows

\* The life of a row between two grants: it ages out, is dispatched before it
\* expires, or is released after its dispatch.
RowStep(r, s) ==
    \/ s = r
    \/ Expired(r) /\ s = [r EXCEPT !.state = "released", !.reason = "expired"]
    \/ /\ r.state = "reserved" /\ r.expires > clock
       /\ s = [r EXCEPT !.state = "dispatched"]
    \/ /\ r.state = "dispatched"
       /\ s = [r EXCEPT !.state = "released", !.reason = "cleanup-proven"]

\* All rows of res come from those of the table.
RowSteps(res) ==
    /\ res = [j \in Job |-> res[j]]
    /\ \A j \in Job : RowStep(reservation[j], res[j])

\* No row of the table looks like the lack of one.
LEMMA RowIsThere == \A r \in Row : r # NoRow
<1>1. NoRow.state = "absent"
  BY Zenon DEF NoRow
<1>2. \A r \in Row : r.state # "absent"
  BY Zenon DEF Row
<1>. QED  BY <1>1, <1>2, Zenon

\* A step of its life keeps the identity of a row; it gets no other to occupy
\* capacity, and what was dispatched or released with proof stays that.
LEMMA RowStepKeeps ==
    ASSUME NEW r \in Row \cup {NoRow}, NEW s, RowStep(r, s)
    PROVE  /\ s \in Row \cup {NoRow}
           /\ s = NoRow <=> r = NoRow
           /\ r # NoRow => /\ s.host = r.host /\ s.fingerprint = r.fingerprint
                           /\ s.memory = r.memory /\ s.token = r.token
                           /\ s.expires = r.expires
           /\ Holds(s, clock) => Holds(r, clock)
           /\ r.state = "dispatched" => s.state \in {"dispatched", "released"}
           /\ s.state = "released" /\ s.reason = "expired" =>
                 (r.expires <= clock /\ r.state = "reserved") \/ s = r
<1>1. CASE s = r
  BY <1>1, Zenon
<1>2. CASE r = NoRow /\ s # r
  BY <1>2, Zenon DEF RowStep, Expired, NoRow
<1>3. CASE r \in Row /\ s # r
  <2>1. CASE Expired(r) /\ s = [r EXCEPT !.state = "released", !.reason = "expired"]
    <3>1. /\ s \in Row /\ s.state = "released" /\ s.reason = "expired"
          /\ s.host = r.host /\ s.fingerprint = r.fingerprint
          /\ s.memory = r.memory /\ s.token = r.token /\ s.expires = r.expires
      BY <1>3, <2>1, Zenon DEF Row
    <3>. QED  BY <1>3, <2>1, <3>1, RowIsThere, Zenon DEF Holds, Expired
  <2>2. CASE /\ r.state = "reserved" /\ r.expires > clock
             /\ s = [r EXCEPT !.state = "dispatched"]
    <3>1. /\ s \in Row /\ s.state = "dispatched"
          /\ s.host = r.host /\ s.fingerprint = r.fingerprint
          /\ s.memory = r.memory /\ s.token = r.token /\ s.expires = r.expires
      BY <1>3, <2>2, Zenon DEF Row
    <3>. QED  BY <1>3, <2>2, <3>1, RowIsThere DEF Holds
  <2>3. CASE /\ r.state = "dispatched"
             /\ s = [r EXCEPT !.state = "released", !.reason = "cleanup-proven"]
    <3>1. /\ s \in Row /\ s.state = "released" /\ s.reason = "cleanup-proven"
          /\ s.host = r.host /\ s.fingerprint = r.fingerprint
          /\ s.memory = r.memory /\ s.token = r.token /\ s.expires = r.expires
      BY <1>3, <2>3, Zenon DEF Row
    <3>. QED  BY <1>3, <2>3, <3>1, RowIsThere, Zenon DEF Holds
  <2>. QED  BY <1>3, <2>1, <2>2, <2>3, Zenon DEF RowStep
<1>. QED  BY <1>1, <1>2, <1>3

\* A row with a state the table allows is a row.
LEMMA RowPresent ==
    ASSUME TypeOK, NEW j \in Job,
           reservation[j].state \in {"reserved", "dispatched", "released"}
    PROVE  reservation[j] \in Row
BY DEF TypeOK, NoRow

\* The row of an unexpired lease stays its row.
LEMMA LeaseRowStep ==
    ASSUME clock \in Nat, NEW l, NEW r \in Row, NEW s,
           RowStep(r, s), LeaseRow(l, r), l.expires > clock
    PROVE  s \in Row /\ LeaseRow(l, s)
<1>1. s \in Row /\ s.token = r.token /\ s.memory = r.memory /\ s.expires = r.expires
  BY RowIsThere, RowStepKeeps
<1>2. s.state \in {"reserved", "dispatched"} \/ s.reason = "cleanup-proven"
  <2>1. CASE s = r
    BY <2>1, Zenon DEF LeaseRow
  <2>2. CASE Expired(r)
    <3>1. r.expires > clock
      BY DEF LeaseRow
    <3>2. r.expires \in Nat
      BY Zenon DEF Row
    <3>. QED  BY <2>2, <3>1, <3>2 DEF Expired
  <2>3. CASE s = [r EXCEPT !.state = "dispatched"]
    BY <2>3, Zenon DEF Row
  <2>4. CASE s = [r EXCEPT !.state = "released", !.reason = "cleanup-proven"]
    BY <2>4, Zenon DEF Row
  <2>. QED  BY <2>1, <2>2, <2>3, <2>4, Zenon DEF RowStep
<1>. QED  BY <1>1, <1>2 DEF LeaseRow

\* The occupied rows of a host, which reserve_capacity counts, are finite in
\* number and have a memory to add up.
LEMMA OccupiedWeighed ==
    ASSUME NEW res \in [Job -> Row \cup {NoRow}], NEW h, NEW now
    PROVE  /\ Occupied(res, h, now) \in SUBSET Job
           /\ IsFiniteSet(Occupied(res, h, now))
           /\ Cardinality(Occupied(res, h, now)) \in Nat
           /\ \A j \in OccupiedRows(res, now) : j \in Job /\ res[j] \in Row
           /\ Weighed(res, Occupied(res, h, now))
           /\ Memory(res, Occupied(res, h, now)) \in Nat
<1>. DEFINE occupied == Occupied(res, h, now)
<1>1. occupied \in SUBSET Job /\ occupied \in SUBSET OccupiedRows(res, now)
  BY DEF Occupied, OccupiedRows
<1>2. IsFiniteSet(occupied)
  BY <1>1, FS_Subset, JobAssumption, Zenon
<1>3. \A j \in OccupiedRows(res, now) : j \in Job /\ res[j] \in Row
  BY DEF OccupiedRows, Holds, NoRow
<1>4. \A j \in occupied : res[j].memory \in Nat
  BY <1>1, <1>3, Zenon DEF Row
<1>5. Weighed(res, occupied)
  BY <1>2, <1>4, Zenon DEF Weighed
<1>. QED  BY <1>1, <1>2, <1>3, <1>5, FS_CardinalityType, MemoryRemove, Zenon

\* Rows that took steps of their lives: which are occupied, and where.
LEMMA RowStepsOccupied ==
    ASSUME TypeOK, NEW res, RowSteps(res), NEW now \in Nat, clock <= now
    PROVE  /\ res \in [Job -> Row \cup {NoRow}]
           /\ \A j \in OccupiedRows(res, now) :
                 /\ j \in OccupiedRows(reservation, clock)
                 /\ res[j].host = reservation[j].host
                 /\ res[j].fingerprint = reservation[j].fingerprint
                 /\ res[j].memory = reservation[j].memory
<1>1. ASSUME NEW j \in Job
      PROVE  /\ res[j] \in Row \cup {NoRow}
             /\ reservation[j] \in Row \cup {NoRow}
             /\ RowStep(reservation[j], res[j])
  <2>1. reservation[j] \in Row \cup {NoRow} /\ RowStep(reservation[j], res[j])
    BY Zenon DEF RowSteps, TypeOK
  <2>. QED  BY <2>1, RowStepKeeps
<1>2. res \in [Job -> Row \cup {NoRow}]
  BY <1>1, Zenon DEF RowSteps
<1>3. ASSUME NEW j \in OccupiedRows(res, now)
      PROVE  /\ j \in OccupiedRows(reservation, clock)
             /\ res[j].host = reservation[j].host
             /\ res[j].fingerprint = reservation[j].fingerprint
             /\ res[j].memory = reservation[j].memory
  <2>1. j \in Job /\ res[j] \in Row
    BY <1>2, OccupiedWeighed, Zenon
  <2>2. Holds(res[j], clock)
    <3>1. Holds(res[j], now) /\ res[j].expires \in Nat /\ clock \in Nat
      BY <2>1, Zenon DEF OccupiedRows, Row, TypeOK
    <3>. QED  BY <3>1 DEF Holds
  <2>3. Holds(reservation[j], clock) /\ reservation[j] # NoRow
    BY <1>1, <2>1, <2>2, RowStepKeeps, RowIsThere
  <2>. QED  BY <1>1, <2>1, <2>3, RowStepKeeps DEF OccupiedRows
<1>. QED  BY <1>2, <1>3, Zenon

\* A step in which rows only move along their lives, and nothing is granted,
\* keeps what the database holds: ageing, dispatch, release, the clock.
LEMMA StepKeeps ==
    ASSUME StoreInv, RowSteps(reservation'), UNCHANGED <<budget, leases>>,
           clock' \in Nat, clock <= clock',
           jobs' \in [Job -> {"absent", "live", "settled"}],
           started' \subseteq leases, polled' \subseteq leases, running' \subseteq Job
    PROVE  StoreInv'
<1>0. /\ Tables /\ TypeOK /\ JobsWithinBudget /\ MemoryWithinBudget /\ OneHost
      /\ MachineRecorded /\ LeaseRows
  BY DEF StoreInv, Tables
<1>1. /\ reservation' \in [Job -> Row \cup {NoRow}]
      /\ \A j \in OccupiedRows(reservation', clock') :
            /\ j \in OccupiedRows(reservation, clock)
            /\ reservation'[j].host = reservation[j].host
            /\ reservation'[j].fingerprint = reservation[j].fingerprint
            /\ reservation'[j].memory = reservation[j].memory
  BY <1>0, RowStepsOccupied, Zenon
<1>2. Tables'
  BY <1>0, <1>1, Zenon DEF Tables, TypeOK
<1>3. ASSUME NEW h \in Host, Occupied(reservation', h, clock') # {}
      PROVE  /\ budget'[h] # NoRow
             /\ Cardinality(Occupied(reservation', h, clock')) <= budget'[h].jobs
             /\ Memory(reservation', Occupied(reservation', h, clock')) <= budget'[h].memory
  <2>. DEFINE old == Occupied(reservation, h, clock)
              new == Occupied(reservation', h, clock')
  <2>1. new \in SUBSET old /\ \A j \in new : reservation'[j].memory = reservation[j].memory
    BY <1>1, Zenon DEF Occupied
  <2>2. old # {}
    BY <1>3, <2>1, Zenon
  <2>3. /\ budget[h] # NoRow
        /\ Cardinality(old) <= budget[h].jobs
        /\ Memory(reservation, old) <= budget[h].memory
    BY <1>0, <2>2, Zenon DEF JobsWithinBudget, MemoryWithinBudget
  <2>4. budget[h].jobs \in Nat /\ budget[h].memory \in Nat
    BY <1>0, <2>3, Zenon DEF TypeOK, BudgetRow
  <2>5. reservation \in [Job -> Row \cup {NoRow}]
    BY <1>0, Zenon DEF TypeOK
  <2>6. /\ IsFiniteSet(old) /\ Cardinality(old) \in Nat
        /\ Weighed(reservation, old) /\ Memory(reservation, old) \in Nat
    BY <2>5, OccupiedWeighed, Zenon
  <2>7. /\ IsFiniteSet(new) /\ Cardinality(new) \in Nat /\ Memory(reservation', new) \in Nat
    BY <1>1, OccupiedWeighed, Zenon
  <2>. HIDE DEF old, new
  <2>8. Cardinality(new) <= Cardinality(old)
    BY <2>1, <2>6, FS_Subset, Zenon
  <2>9. Memory(reservation', new) <= Memory(reservation, old)
    <3>1. Memory(reservation, new) <= Memory(reservation, old)
      BY <2>1, <2>6, MemorySubset, Zenon
    <3>2. Memory(reservation', new) = Memory(reservation, new)
      BY <2>1, <2>7, MemorySame
    <3>. QED  BY <3>1, <3>2, Zenon
  <2>10. /\ budget[h] # NoRow /\ Cardinality(new) <= budget[h].jobs
         /\ Memory(reservation', new) <= budget[h].memory
    BY <2>3, <2>4, <2>6, <2>7, <2>8, <2>9
  <2>. QED  BY <2>10 DEF new
<1>4. JobsWithinBudget' /\ MemoryWithinBudget'
  BY <1>3, Zenon DEF JobsWithinBudget, MemoryWithinBudget
<1>5. OneHost'
  BY <1>0, <1>1 DEF OneHost
<1>6. MachineRecorded'
  BY <1>0, <1>1 DEF MachineRecorded
<1>7. ASSUME NEW l \in leases', l.expires > clock'
      PROVE  reservation'[l.job] \in Row /\ LeaseRow(l, reservation'[l.job])
  <2>1. l \in leases /\ l.job \in Job /\ l.expires \in Nat /\ clock \in Nat
    BY <1>0, Zenon DEF TypeOK, Lessee
  <2>2. l.expires > clock
    BY <1>7, <2>1
  <2>3. /\ reservation[l.job] \in Row /\ LeaseRow(l, reservation[l.job])
        /\ RowStep(reservation[l.job], reservation'[l.job])
    BY <1>0, <2>1, <2>2, Zenon DEF LeaseRows, RowSteps
  <2>. QED  BY <2>1, <2>2, <2>3, LeaseRowStep, Zenon
<1>8. LeaseRows'
  BY <1>7, Zenon DEF LeaseRows
<1>. QED  BY <1>2, <1>4, <1>5, <1>6, <1>8, Zenon DEF StoreInv

\* Ageing a page of expired rows (_reconcile_locked) moves each row along its
\* life, and leaves a dispatched one alone.
LEMMA AgedSteps ==
    ASSUME NEW limit, NEW E \in ExpiredPages(limit)
    PROVE  /\ RowSteps(Aged(E))
           /\ \A j \in Job : reservation[j].state = "dispatched" => Aged(E)[j] = reservation[j]
<1>1. Aged(E) = [j \in Job |-> Aged(E)[j]]
  BY Zenon DEF Aged
<1>2. ASSUME NEW j \in Job, j \in E
      PROVE  /\ RowStep(reservation[j], Aged(E)[j])
             /\ reservation[j].state # "dispatched"
  <2>1. Aged(E)[j] = [reservation[j] EXCEPT !.state = "released", !.reason = "expired"]
    BY <1>2, Zenon DEF Aged
  <2>2. Expired(reservation[j])
    BY <1>2, Zenon DEF ExpiredPages
  <2>3. RowStep(reservation[j], Aged(E)[j])
    BY <2>1, <2>2, Zenon DEF RowStep
  <2>. QED  BY <2>2, <2>3, Zenon DEF Expired
<1>3. ASSUME NEW j \in Job, j \notin E
      PROVE  Aged(E)[j] = reservation[j] /\ RowStep(reservation[j], Aged(E)[j])
  BY <1>3, Zenon DEF Aged, RowStep
<1>. QED  BY <1>1, <1>2, <1>3, Zenon DEF RowSteps

\* A grant (reserve_capacity, from the insert of the budget on) writes a row, a
\* budget and a lease of their types.
LEMMA GrantTyped ==
    ASSUME Tables, NEW b \in Budget, NEW j \in Job, NEW d \in Request, NEW m \in Nat,
           NEW res \in [Job -> Row \cup {NoRow}], Grant(res, b, j, d, m),
           UNCHANGED <<jobs, launch, running, clock>>
    PROVE  /\ Tables'
           /\ NewToken(j) \in Nat /\ Wanted(b, m) \in Nat /\ clock + Lease \in Nat
<1>. DEFINE held == {l \in leases : l.job = j}
            lease == [job |-> j, token |-> NewToken(j), memory |-> Wanted(b, m),
                      expires |-> clock + Lease]
<1>1. NewToken(j) \in Nat
  <2>1. held \in SUBSET leases /\ IsFiniteSet(leases)
    BY DEF Tables
  <2>2. Cardinality(held) \in Nat
    BY <2>1, FS_Subset, FS_CardinalityType
  <2>. QED  BY <2>2 DEF NewToken
<1>2. /\ b.host \in Host /\ b.memory \in Nat /\ b.jobs \in Nat /\ b.fingerprint \in Fingerprint
      /\ Wanted(b, m) \in Nat /\ clock + Lease \in Nat
  BY BudgetAssumption, NumberAssumption DEF Wanted, Tables, TypeOK
<1>3. reservation' \in [Job -> Row \cup {NoRow}]
  <2>. DEFINE row == [host |-> b.host, request |-> d, token |-> NewToken(j),
                      memory |-> Wanted(b, m), expires |-> clock + Lease,
                      state |-> "reserved", fingerprint |-> b.fingerprint, reason |-> ""]
  <2>1. row \in Row
    BY <1>1, <1>2, Zenon DEF Row
  <2>2. reservation' = [res EXCEPT ![j] = row]
    BY Zenon DEF Grant
  <2>. HIDE DEF row
  <2>. QED  BY <2>1, <2>2
<1>4. budget' \in [Host -> BudgetRow \cup {NoRow}]
  <2>. DEFINE row == [state |-> "present", memory |-> b.memory, jobs |-> b.jobs,
                      fingerprint |-> b.fingerprint]
  <2>1. row \in BudgetRow
    BY <1>2, Zenon DEF BudgetRow
  <2>2. budget' = [budget EXCEPT ![b.host] = row] /\ budget \in [Host -> BudgetRow \cup {NoRow}]
    BY Zenon DEF Grant, Tables, TypeOK
  <2>. HIDE DEF row
  <2>. QED  BY <2>1, <2>2, <1>2, Zenon
<1>5. leases' = leases \cup {lease}
  BY Zenon DEF Grant
<1>6. lease \in Lessee
  BY <1>1, <1>2, Zenon DEF Lessee
<1>. HIDE DEF lease
<1>7. leases' \subseteq Lessee /\ IsFiniteSet(leases')
  BY <1>5, <1>6, FS_AddElement DEF Tables, TypeOK
<1>8. Tables'
  BY <1>3, <1>4, <1>5, <1>7, SMTT(30) DEF Tables, TypeOK, launch
<1>. QED  BY <1>1, <1>2, <1>8, Zenon

\* What a grant finds and leaves: nothing was occupied but on its own machine,
\* its job was not, and only its job is added.
LEMMA GrantFinds ==
    ASSUME TypeOK, MachineRecorded, NEW b \in Budget, NEW j \in Job, NEW d, NEW m \in Nat,
           NEW res, RowSteps(res), Admits(res, b, j, d, m), Grant(res, b, j, d, m),
           clock' = clock
    PROVE  /\ j \notin OccupiedRows(res, clock)
           /\ OccupiedRows(reservation', clock') \subseteq OccupiedRows(res, clock) \cup {j}
           /\ \A k \in Job : k # j => reservation'[k] = res[k]
           /\ \A k \in OccupiedRows(res, clock) :
                 res[k].host = b.host /\ res[k].fingerprint = b.fingerprint
           /\ reservation'[j] = [host |-> b.host, request |-> d, token |-> NewToken(j),
                                 memory |-> Wanted(b, m), expires |-> clock + Lease,
                                 state |-> "reserved", fingerprint |-> b.fingerprint,
                                 reason |-> ""]
           /\ budget'[b.host] = [state |-> "present", memory |-> b.memory, jobs |-> b.jobs,
                                 fingerprint |-> b.fingerprint]
<1>0. clock \in Nat /\ clock <= clock /\ b.host \in Host
  BY BudgetAssumption DEF TypeOK
<1>1. /\ res \in [Job -> Row \cup {NoRow}]
      /\ \A k \in OccupiedRows(res, clock) :
            /\ k \in OccupiedRows(reservation, clock)
            /\ res[k].host = reservation[k].host
            /\ res[k].fingerprint = reservation[k].fingerprint
  BY <1>0, RowStepsOccupied
<1>2. j \notin OccupiedRows(res, clock)
  <2>1. CASE res[j] = NoRow
    BY <2>1 DEF OccupiedRows, Holds, NoRow
  <2>2. CASE res[j] # NoRow
    <3>1. Reusable(res[j])
      BY <2>2, Zenon DEF Admits
    <3>2. res[j] \in Row
      BY <1>1, <2>2, Zenon
    <3>3. res[j].expires \in Nat
      BY <3>2, Zenon DEF Row
    <3>4. \/ res[j].state = "reserved" /\ res[j].expires <= clock
          \/ res[j].state = "released"
      BY <3>1, Zenon DEF Reusable
    <3>5. ~Holds(res[j], clock)
      BY <1>0, <3>3, <3>4 DEF Holds
    <3>. QED  BY <3>5 DEF OccupiedRows
  <2>. QED  BY <2>1, <2>2, Zenon
<1>3. \A k \in Job : k # j => reservation'[k] = res[k]
  BY <1>1, Zenon DEF Grant
<1>4. reservation'[j] = [host |-> b.host, request |-> d, token |-> NewToken(j),
                         memory |-> Wanted(b, m), expires |-> clock + Lease,
                         state |-> "reserved", fingerprint |-> b.fingerprint,
                         reason |-> ""]
  BY <1>1, Zenon DEF Grant
<1>5. budget'[b.host] = [state |-> "present", memory |-> b.memory, jobs |-> b.jobs,
                         fingerprint |-> b.fingerprint]
  BY <1>0, Zenon DEF Grant, TypeOK
<1>6. OccupiedRows(reservation', clock') \subseteq OccupiedRows(res, clock) \cup {j}
  BY <1>3, Zenon DEF OccupiedRows
<1>7. ASSUME NEW k \in OccupiedRows(res, clock)
      PROVE  res[k].host = b.host /\ res[k].fingerprint = b.fingerprint
  <2>1. res[k].host = b.host
    BY Zenon DEF Admits, NoForeigner
  <2>2. /\ budget[b.host] # NoRow
        /\ budget[b.host].fingerprint = res[k].fingerprint
    BY <1>1, <2>1 DEF MachineRecorded
  <2>3. k \in Occupied(res, b.host, clock)
    BY <2>1, Zenon DEF Occupied
  <2>4. /\ budget[b.host].fingerprint \in {NoFingerprint, b.fingerprint}
        /\ budget[b.host].fingerprint # NoFingerprint
    BY <2>2, <2>3, Zenon DEF Admits, BudgetAgrees
  <2>. QED  BY <2>1, <2>2, <2>4, Zenon
<1>. QED  BY <1>2, <1>3, <1>4, <1>5, <1>6, <1>7, Zenon

\* A grant keeps what the database holds.
LEMMA GrantKeeps ==
    ASSUME StoreInv, NEW b \in Budget, NEW j \in Job, NEW d \in Request, NEW m \in Nat,
           NEW res, RowSteps(res), Admits(res, b, j, d, m), Grant(res, b, j, d, m),
           UNCHANGED <<jobs, launch, running, clock>>
    PROVE  StoreInv'
<1>0. Tables /\ TypeOK /\ MachineRecorded /\ LeaseRows /\ clock \in Nat /\ clock' = clock
  BY Zenon DEF StoreInv, Tables, TypeOK
<1>. DEFINE row == [host |-> b.host, request |-> d, token |-> NewToken(j),
                    memory |-> Wanted(b, m), expires |-> clock + Lease,
                    state |-> "reserved", fingerprint |-> b.fingerprint, reason |-> ""]
            limits == [state |-> "present", memory |-> b.memory, jobs |-> b.jobs,
                       fingerprint |-> b.fingerprint]
            old == Occupied(res, b.host, clock)
<1>1. res \in [Job -> Row \cup {NoRow}]
  BY <1>0, RowStepsOccupied
<1>2. /\ Tables' /\ NewToken(j) \in Nat /\ Wanted(b, m) \in Nat /\ clock + Lease \in Nat
  BY <1>0, <1>1, GrantTyped, SMTT(30)
<1>3. /\ j \notin OccupiedRows(res, clock)
      /\ OccupiedRows(reservation', clock') \subseteq OccupiedRows(res, clock) \cup {j}
      /\ \A k \in Job : k # j => reservation'[k] = res[k]
      /\ \A k \in OccupiedRows(res, clock) :
            res[k].host = b.host /\ res[k].fingerprint = b.fingerprint
      /\ reservation'[j] = row
      /\ budget'[b.host] = limits
  BY <1>0, GrantFinds, Zenon
<1>4. /\ row.host = b.host /\ row.fingerprint = b.fingerprint /\ row.memory = Wanted(b, m)
      /\ limits # NoRow /\ limits.fingerprint = b.fingerprint
      /\ limits.jobs = b.jobs /\ limits.memory = b.memory
  BY Zenon DEF NoRow
<1>5. /\ b.jobs \in Nat /\ b.memory \in Nat /\ b.host \in Host
  BY BudgetAssumption, Zenon
<1>. HIDE DEF row, limits
<1>6. \A k \in OccupiedRows(reservation', clock') :
         /\ k \in Job
         /\ reservation'[k].host = b.host /\ reservation'[k].fingerprint = b.fingerprint
  <2>1. \A k \in OccupiedRows(reservation', clock') : k \in Job
    BY Zenon DEF OccupiedRows
  <2>. QED  BY <1>3, <1>4, <2>1
<1>7. OneHost'
  BY <1>6, ZenonT(40) DEF OneHost
<1>8. MachineRecorded'
  BY <1>3, <1>4, <1>6, Zenon DEF MachineRecorded
<1>9. ASSUME NEW h \in Host, Occupied(reservation', h, clock') # {}
      PROVE  /\ budget'[h] # NoRow
             /\ Cardinality(Occupied(reservation', h, clock')) <= budget'[h].jobs
             /\ Memory(reservation', Occupied(reservation', h, clock')) <= budget'[h].memory
  <2>. DEFINE new == Occupied(reservation', h, clock')
  <2>1. h = b.host
    BY <1>6, <1>9 DEF Occupied
  <2>2. new \in SUBSET (old \cup {j})
    BY <1>3, Zenon DEF Occupied
  <2>3. /\ IsFiniteSet(old) /\ Cardinality(old) \in Nat
        /\ Weighed(res, old) /\ Memory(res, old) \in Nat
    BY <1>1, OccupiedWeighed, Zenon
  <2>4. /\ Cardinality(new) \in Nat /\ Memory(reservation', new) \in Nat
    BY <1>2, OccupiedWeighed, Zenon DEF Tables, TypeOK
  <2>5. j \notin old
    BY <1>3, Zenon DEF Occupied
  <2>6. Cardinality(old) < b.jobs /\ Memory(res, old) + Wanted(b, m) <= b.memory
    BY Zenon DEF Admits, Fits
  <2>7. \A k \in old : k \in Job /\ k # j
    BY <2>5, Zenon DEF Occupied, OccupiedRows
  <2>. HIDE DEF old, new
  <2>8. Cardinality(new) <= b.jobs
    <3>1. IsFiniteSet(old \cup {j}) /\ Cardinality(old \cup {j}) = Cardinality(old) + 1
      BY <2>3, <2>5, FS_AddElement, Zenon
    <3>2. Cardinality(new) <= Cardinality(old \cup {j})
      BY <2>2, <3>1, FS_Subset, SMTT(30)
    <3>. QED  BY <1>5, <2>3, <2>4, <2>6, <3>1, <3>2, SMTT(30)
  <2>9. Memory(reservation', new) <= b.memory
    <3>1. \A k \in old : reservation'[k].memory = res[k].memory
      BY <1>3, <2>7, SMTT(30)
    <3>2. Weighed(reservation', old) /\ Memory(reservation', old) = Memory(res, old)
      BY <2>3, <3>1, MemorySame, Zenon DEF Weighed
    <3>3. reservation'[j].memory = Wanted(b, m)
      BY <1>3, <1>4, Zenon
    <3>4. Memory(reservation', old \cup {j}) = Wanted(b, m) + Memory(res, old)
      BY <1>2, <2>5, <3>2, <3>3, MemoryAdd, SMTT(30)
    <3>5. Weighed(reservation', old \cup {j})
      BY <1>2, <3>2, <3>3, FS_AddElement, Zenon DEF Weighed
    <3>6. Memory(reservation', new) <= Memory(reservation', old \cup {j})
      BY <2>2, <3>5, MemorySubset, Zenon
    <3>. QED  BY <1>2, <1>5, <2>3, <2>4, <2>6, <3>4, <3>6, SMTT(30)
  <2>10. budget'[h] # NoRow /\ budget'[h].jobs = b.jobs /\ budget'[h].memory = b.memory
    BY <1>3, <1>4, <2>1, Zenon
  <2>. QED  BY <2>8, <2>9, <2>10, Zenon DEF new
<1>10. JobsWithinBudget' /\ MemoryWithinBudget'
  BY <1>9, Zenon DEF JobsWithinBudget, MemoryWithinBudget
<1>11. LeaseRows'
  <2>. DEFINE lease == [job |-> j, token |-> NewToken(j), memory |-> Wanted(b, m),
                        expires |-> clock + Lease]
  <2>. SUFFICES ASSUME NEW l \in leases', l.expires > clock'
                PROVE  reservation'[l.job] \in Row /\ LeaseRow(l, reservation'[l.job])
    BY Zenon DEF LeaseRows
  <2>1. CASE l = lease
    <3>1. l.job = j /\ LeaseRow(l, row)
      BY <2>1, Zenon DEF LeaseRow, row
    <3>2. row \in Row
      <4>1. reservation'[j] \in Row \cup {NoRow}
        BY <1>2, Zenon DEF Tables, TypeOK
      <4>2. row # NoRow
        <5>1. row.state = "reserved" /\ NoRow.state = "absent"
          BY Zenon DEF row, NoRow
        <5>. QED  BY <5>1, Zenon
      <4>. QED  BY <1>3, <4>1, <4>2, Zenon
    <3>. QED  BY <1>3, <3>1, <3>2, Zenon
  <2>2. CASE l \in leases
    <3>1. l.job \in Job /\ l.expires > clock
      BY <1>0, <2>2, Zenon DEF TypeOK, Lessee
    <3>2. /\ reservation[l.job] \in Row /\ LeaseRow(l, reservation[l.job])
          /\ RowStep(reservation[l.job], res[l.job])
      BY <1>0, <2>2, <3>1, Zenon DEF LeaseRows, RowSteps
    <3>3. res[l.job] \in Row /\ LeaseRow(l, res[l.job])
      BY <1>0, <3>1, <3>2, LeaseRowStep, Zenon
    <3>4. l.job # j
      <4>. SUFFICES ASSUME l.job = j PROVE FALSE
        BY Zenon
      <4>1. Reusable(res[j])
        BY <3>3, RowIsThere, Zenon DEF Admits
      <4>2. res[j].expires > clock /\ res[j].expires \in Nat
        BY <3>1, <3>3, Zenon DEF LeaseRow, Row
      <4>3. ~(res[j].expires <= clock)
        BY <1>0, <4>2
      <4>4. res[j].state = "released" /\ res[j].reason = "expired"
        BY <4>1, <4>3, Zenon DEF Reusable
      <4>. QED  BY <3>3, <4>4, Zenon DEF LeaseRow
    <3>. QED  BY <1>3, <3>1, <3>3, <3>4, Zenon
  <2>3. leases' = leases \cup {lease}
    BY Zenon DEF Grant
  <2>. QED  BY <2>1, <2>2, <2>3
<1>. QED  BY <1>2, <1>7, <1>8, <1>10, <1>11, Zenon DEF StoreInv

\* reserve_capacity, when it commits, ages a page and returns the lease that is
\* there, or ages a page and grants one.
LEMMA ReserveCases ==
    ASSUME NEW b, NEW j, NEW d, NEW m, Reserve(b, j, d, m)
    PROVE  \E E \in ExpiredPages(Page) :
              \/ /\ reservation' = Aged(E) /\ UNCHANGED <<budget, leases>>
                 /\ Returns(Aged(E), b, j, d, m)
              \/ Admits(Aged(E), b, j, d, m) /\ Grant(Aged(E), b, j, d, m)
BY Zenon DEF Reserve

\* reserve_capacity keeps what the database holds.
LEMMA ReserveKeeps ==
    ASSUME StoreInv, NEW b \in Budget, NEW j \in Job, NEW d \in Request, NEW m \in Nat,
           Reserve(b, j, d, m), UNCHANGED <<jobs, launch, running, clock>>
    PROVE  StoreInv'
<1>1. PICK E \in ExpiredPages(Page) :
              \/ /\ reservation' = Aged(E) /\ UNCHANGED <<budget, leases>>
                 /\ Returns(Aged(E), b, j, d, m)
              \/ Admits(Aged(E), b, j, d, m) /\ Grant(Aged(E), b, j, d, m)
  BY ReserveCases, Zenon
<1>2. RowSteps(Aged(E))
  BY AgedSteps, Zenon
<1>3. CASE reservation' = Aged(E) /\ UNCHANGED <<budget, leases>>
  <2>1. /\ clock' \in Nat /\ clock <= clock' /\ jobs' \in [Job -> {"absent", "live", "settled"}]
        /\ started' \subseteq leases /\ polled' \subseteq leases /\ running' \subseteq Job
    BY DEF StoreInv, Tables, TypeOK, launch
  <2>2. RowSteps(reservation')
    BY <1>2, <1>3, Zenon
  <2>. QED  BY <1>3, <2>1, <2>2, StepKeeps
<1>4. CASE Admits(Aged(E), b, j, d, m) /\ Grant(Aged(E), b, j, d, m)
  BY <1>2, <1>4, GrantKeeps, Zenon
<1>. QED  BY <1>1, <1>3, <1>4, Zenon

\* dispatch_capacity and release_capacity move one row along its life.
LEMMA DispatchedSteps ==
    ASSUME TypeOK, NEW j \in Job, reservation[j].state = "reserved",
           reservation[j].expires > clock
    PROVE  /\ RowSteps(DispatchedRow(j))
           /\ DispatchedRow(j)[j].state = "dispatched"
           /\ \A k \in Job : k # j => DispatchedRow(j)[k] = reservation[k]
<1>. DEFINE row == [reservation[j] EXCEPT !.state = "dispatched"]
<1>1. DispatchedRow(j) = [reservation EXCEPT ![j] = row]
  BY Zenon DEF DispatchedRow
<1>2. row.state = "dispatched"
  <2>1. reservation[j] \in Row
    BY RowPresent
  <2>. QED  BY <2>1, Zenon DEF Row
<1>3. RowStep(reservation[j], row)
  BY Zenon DEF RowStep
<1>. HIDE DEF row
<1>4. \A k \in Job : RowStep(reservation[k], reservation[k])
  BY Zenon DEF RowStep
<1>5. reservation = [k \in Job |-> reservation[k]]
  BY Zenon DEF TypeOK
<1>. QED  BY <1>1, <1>2, <1>3, <1>4, <1>5 DEF RowSteps

\* release_capacity ends a dispatched row and leaves any other as it is.
LEMMA ReleasedSteps ==
    ASSUME TypeOK, NEW j \in Job
    PROVE  /\ RowSteps(ReleasedRow(j))
           /\ ReleasedRow(j)[j].state # "dispatched"
           /\ \A k \in Job : k # j => ReleasedRow(j)[k] = reservation[k]
<1>0. reservation = [k \in Job |-> reservation[k]]
  BY DEF TypeOK
<1>1. CASE reservation[j].state # "dispatched"
  <2>1. ReleasedRow(j) = reservation
    BY <1>1, Zenon DEF ReleasedRow
  <2>. QED  BY <1>0, <1>1, <2>1, Zenon DEF RowSteps, RowStep
<1>2. CASE reservation[j].state = "dispatched"
  <2>. DEFINE row == [reservation[j] EXCEPT !.state = "released", !.reason = "cleanup-proven"]
  <2>1. ReleasedRow(j)
           = [reservation EXCEPT ![j].state = "released", ![j].reason = "cleanup-proven"]
    BY <1>2, Zenon DEF ReleasedRow
  <2>2. ReleasedRow(j) = [reservation EXCEPT ![j] = row]
    BY <2>1, Zenon
  <2>3. row.state = "released"
    <3>1. reservation[j] \in Row
      BY <1>2, RowPresent
    <3>. QED  BY <3>1, Zenon DEF Row
  <2>4. RowStep(reservation[j], row)
    BY <1>2, Zenon DEF RowStep
  <2>. HIDE DEF row
  <2>5. \A k \in Job : RowStep(reservation[k], reservation[k])
    BY Zenon DEF RowStep
  <2>. QED  BY <1>0, <2>2, <2>3, <2>4, <2>5, Zenon DEF RowSteps
<1>. QED  BY <1>1, <1>2, Zenon

\* A clock that goes on moves no row.
LEMMA TickKeeps == ASSUME StoreInv, Tick PROVE StoreInv'
<1>1. /\ clock \in Nat /\ clock' = clock + 1
      /\ UNCHANGED <<reservation, budget, jobs, leases, launch, running>>
  BY Zenon DEF StoreInv, Tables, TypeOK, Tick
<1>2. RowSteps(reservation')
  <2>1. reservation = [k \in Job |-> reservation[k]]
    BY DEF StoreInv, Tables, TypeOK
  <2>. QED  BY <1>1, <2>1, Zenon DEF RowSteps, RowStep
<1>3. /\ clock' \in Nat /\ clock <= clock' /\ jobs' \in [Job -> {"absent", "live", "settled"}]
      /\ started' \subseteq leases /\ polled' \subseteq leases /\ running' \subseteq Job
  BY <1>1, SMTT(30) DEF StoreInv, Tables, TypeOK, launch
<1>. QED  BY <1>1, <1>2, <1>3, StepKeeps, Zenon

\* Nor does a step at one instant that leaves the database alone.
LEMMA OutsideKeeps ==
    ASSUME StoreInv, UNCHANGED <<reservation, budget, leases, clock>>,
           jobs' \in [Job -> {"absent", "live", "settled"}],
           started' \subseteq leases, polled' \subseteq leases, running' \subseteq Job
    PROVE  StoreInv'
<1>1. RowSteps(reservation')
  <2>1. reservation = [k \in Job |-> reservation[k]]
    BY Zenon DEF StoreInv, Tables, TypeOK
  <2>. QED  BY <2>1, Zenon DEF RowSteps, RowStep
<1>2. clock' \in Nat /\ clock <= clock'
  BY DEF StoreInv, Tables, TypeOK
<1>. QED  BY <1>1, <1>2, StepKeeps, Zenon

\* A step of the database alone, at one instant and without a grant.
LEMMA TableKeeps ==
    ASSUME StoreInv, RowSteps(reservation'), UNCHANGED <<budget, leases, clock, jobs>>,
           started' \subseteq leases, polled' \subseteq leases, running' \subseteq Job
    PROVE  StoreInv'
<1>1. clock' \in Nat /\ clock <= clock' /\ jobs' \in [Job -> {"absent", "live", "settled"}]
  BY DEF StoreInv, Tables, TypeOK
<1>. QED  BY <1>1, StepKeeps, Zenon

\* reconcile_capacity ages a page of rows.
LEMMA ReconcileSteps ==
    ASSUME ReconcileCapacity
    PROVE  /\ RowSteps(reservation')
           /\ \A j \in Job : reservation[j].state = "dispatched" => reservation'[j] = reservation[j]
           /\ UNCHANGED <<budget, jobs, leases, launch, running, clock>>
<1>1. PICK limit \in 1..Page : \E E \in ExpiredPages(limit) : reservation' = Aged(E)
  BY Zenon DEF ReconcileCapacity
<1>2. PICK E \in ExpiredPages(limit) : reservation' = Aged(E)
  BY <1>1, Zenon
<1>3. UNCHANGED <<budget, jobs, leases, launch, running, clock>>
  BY SMTT(30) DEF ReconcileCapacity
<1>4. /\ RowSteps(Aged(E))
      /\ \A j \in Job : reservation[j].state = "dispatched" => Aged(E)[j] = reservation[j]
  BY AgedSteps, Zenon
<1>. QED  BY <1>2, <1>3, <1>4, Zenon

-----------------------------------------------------------------------------
(***************************************************************************)
(* The callers of the process provider.                                    *)
(***************************************************************************)

CapacityInv == StoreInv /\ RunningAccounted

\* The step keeps row j out of a second dispatch.
KeptOut(j) ==
    /\ reservation[j].state = "dispatched"
         => reservation'[j] \in {reservation[j], ReleasedRow(j)[j]}
    /\ reservation[j].state = "released" /\ reservation[j].reason = "cleanup-proven"
         => reservation'[j] = reservation[j]

\* reserve_capacity takes no row that was dispatched or released with proof.
LEMMA ReserveSpares ==
    ASSUME TypeOK, NEW b \in Budget, NEW j \in Job, NEW d, NEW m, Reserve(b, j, d, m),
           NEW k \in Job,
           \/ reservation[k].state = "dispatched"
           \/ reservation[k].state = "released" /\ reservation[k].reason = "cleanup-proven"
    PROVE  reservation'[k] = reservation[k]
<1>1. PICK E \in ExpiredPages(Page) :
              \/ /\ reservation' = Aged(E) /\ UNCHANGED <<budget, leases>>
                 /\ Returns(Aged(E), b, j, d, m)
              \/ Admits(Aged(E), b, j, d, m) /\ Grant(Aged(E), b, j, d, m)
  BY ReserveCases, Zenon
<1>2. Aged(E)[k] = reservation[k]
  <2>1. k \notin E
    BY Zenon DEF ExpiredPages, Expired
  <2>. QED  BY <2>1, Zenon DEF Aged
<1>3. CASE reservation' = Aged(E)
  BY <1>2, <1>3, Zenon
<1>4. CASE Admits(Aged(E), b, j, d, m) /\ Grant(Aged(E), b, j, d, m)
  <2>1. ~Reusable(reservation[k]) /\ reservation[k] # NoRow
    <3>1. reservation[k] # NoRow
      BY DEF NoRow
    <3>2. ASSUME NEW r, Reusable(r)
          PROVE  ~ \/ r.state = "dispatched"
                   \/ r.state = "released" /\ r.reason = "cleanup-proven"
      BY <3>2, Zenon DEF Reusable
    <3>. QED  BY <3>1, <3>2, Zenon
  <2>2. k # j
    BY <1>2, <1>4, <2>1, Zenon DEF Admits
  <2>3. Aged(E) = [i \in Job |-> Aged(E)[i]]
    BY Zenon DEF Aged
  <2>4. reservation'[k] = Aged(E)[k]
    BY <1>4, <2>2, <2>3, Zenon DEF Grant
  <2>. QED  BY <1>2, <2>4, Zenon
<1>. QED  BY <1>1, <1>3, <1>4, Zenon

\* Nor does any step of a row's life lead back to a dispatch.
LEMMA RowStepsSpare ==
    ASSUME TypeOK, RowSteps(reservation'), NEW j \in Job
    PROVE  KeptOut(j)
<1>1. RowStep(reservation[j], reservation'[j])
  BY Zenon DEF RowSteps
<1>2. ASSUME reservation[j].state = "dispatched"
      PROVE  reservation'[j] \in {reservation[j], ReleasedRow(j)[j]}
  <2>. DEFINE row == [reservation[j] EXCEPT !.state = "released", !.reason = "cleanup-proven"]
  <2>1. reservation'[j] = reservation[j] \/ reservation'[j] = row
    BY <1>1, <1>2 DEF RowStep, Expired
  <2>2. ReleasedRow(j)
           = [reservation EXCEPT ![j].state = "released", ![j].reason = "cleanup-proven"]
    BY <1>2, Zenon DEF ReleasedRow
  <2>3. ReleasedRow(j) = [reservation EXCEPT ![j] = row]
    BY <2>2, Zenon
  <2>. HIDE DEF row
  <2>4. ReleasedRow(j)[j] = row
    BY <2>3, SMTT(30) DEF TypeOK
  <2>. QED  BY <2>1, <2>4, Zenon
<1>3. ASSUME reservation[j].state = "released", reservation[j].reason = "cleanup-proven"
      PROVE  reservation'[j] = reservation[j]
  BY <1>1, <1>3, Zenon DEF RowStep, Expired
<1>. QED  BY <1>2, <1>3, Zenon DEF KeptOut

\* A step that leaves the rows as they are is a step of their lives.
LEMMA SameRows ==
    ASSUME TypeOK, reservation' = reservation
    PROVE  RowSteps(reservation')
<1>1. reservation = [k \in Job |-> reservation[k]]
  BY SMTT(30) DEF TypeOK
<1>. QED  BY <1>1, Zenon DEF RowSteps, RowStep

\* Every step of the provider and of its callers keeps the invariant and spares
\* the dispatched rows.
LEMMA CapacityStep ==
    ASSUME CapacityInv, [Next]_vars
    PROVE  CapacityInv' /\ \A k \in Job : KeptOut(k)
<1>0. StoreInv /\ TypeOK /\ RunningAccounted /\ running \subseteq Job
  BY Zenon DEF CapacityInv, StoreInv, Tables, TypeOK
<1>1. CASE ReconcileCapacity
  <2>1. /\ RowSteps(reservation')
        /\ \A j \in Job : reservation[j].state = "dispatched" => reservation'[j] = reservation[j]
        /\ UNCHANGED <<budget, jobs, leases, launch, running, clock>>
    BY <1>1, ReconcileSteps, Zenon
  <2>2. started' \subseteq leases /\ polled' \subseteq leases /\ running' \subseteq Job
    BY <1>0, <2>1, Zenon DEF TypeOK, launch
  <2>3. StoreInv'
    BY <1>0, <2>1, <2>2, TableKeeps, Zenon
  <2>4. RunningAccounted'
    BY <1>0, <2>1, Zenon DEF RunningAccounted
  <2>. QED  BY <1>0, <2>1, <2>3, <2>4, RowStepsSpare, Zenon DEF CapacityInv
<1>2. ASSUME NEW b \in Budget, NEW j \in Job, NEW d \in Request, NEW m \in Demand,
             ReserveCapacity(b, j, d, m)
      PROVE  CapacityInv' /\ \A k \in Job : KeptOut(k)
  <2>1. m \in Nat /\ Reserve(b, j, d, m) /\ UNCHANGED <<jobs, launch, running, clock>>
    BY <1>2, NumberAssumption, Zenon DEF ReserveCapacity
  <2>2. StoreInv'
    BY <1>0, <2>1, ReserveKeeps, Zenon
  <2>3. \A k \in Job : KeptOut(k)
    BY <1>0, <2>1, ReserveSpares, Zenon DEF KeptOut
  <2>4. \A k \in Job : reservation[k].state = "dispatched" => reservation'[k] = reservation[k]
    BY <1>0, <2>1, ReserveSpares, Zenon
  <2>5. RunningAccounted'
    BY <1>0, <2>1, <2>4, Zenon DEF RunningAccounted
  <2>. QED  BY <2>2, <2>3, <2>5, Zenon DEF CapacityInv
<1>3. ASSUME NEW l \in polled, DispatchCapacity(l)
      PROVE  CapacityInv' /\ \A k \in Job : KeptOut(k)
  <2>1. l.job \in Job
    BY <1>0, Zenon DEF TypeOK, Lessee
  <2>2. /\ reservation[l.job].state = "reserved" /\ reservation[l.job].expires > clock
        /\ reservation' = DispatchedRow(l.job) /\ running' = running \cup {l.job}
        /\ polled' \subseteq polled /\ UNCHANGED <<budget, jobs, leases, started, clock>>
    BY <1>3, Zenon DEF DispatchCapacity, Dispatchable
  <2>3. /\ RowSteps(reservation') /\ reservation'[l.job].state = "dispatched"
        /\ \A k \in Job : k # l.job => reservation'[k] = reservation[k]
    BY <1>0, <2>1, <2>2, DispatchedSteps, Zenon
  <2>4. started' \subseteq leases /\ polled' \subseteq leases /\ running' \subseteq Job
    BY <1>0, <2>1, <2>2, Zenon DEF TypeOK
  <2>5. StoreInv'
    BY <1>0, <2>2, <2>3, <2>4, TableKeeps, Zenon
  <2>6. RunningAccounted'
    BY <1>0, <2>2, <2>3, Zenon DEF RunningAccounted
  <2>. QED  BY <1>0, <2>3, <2>5, <2>6, RowStepsSpare, Zenon DEF CapacityInv
<1>4. ASSUME NEW j \in Job, ReleaseCapacity(j)
      PROVE  CapacityInv' /\ \A k \in Job : KeptOut(k)
  <2>1. /\ j \notin running /\ reservation' = ReleasedRow(j)
        /\ UNCHANGED <<budget, jobs, leases, launch, running, clock>>
    BY <1>4, Zenon DEF ReleaseCapacity
  <2>2. /\ RowSteps(reservation') /\ \A k \in Job : k # j => reservation'[k] = reservation[k]
    BY <1>0, <2>1, ReleasedSteps, Zenon
  <2>3. started' \subseteq leases /\ polled' \subseteq leases /\ running' \subseteq Job
    BY <1>0, <2>1, Zenon DEF TypeOK, launch
  <2>4. StoreInv'
    BY <1>0, <2>1, <2>2, <2>3, TableKeeps, SMTT(30)
  <2>5. RunningAccounted'
    BY <1>0, <2>1, <2>2, Zenon DEF RunningAccounted
  <2>. QED  BY <1>0, <2>2, <2>4, <2>5, RowStepsSpare, SMTT(30) DEF CapacityInv
<1>5. ASSUME UNCHANGED <<reservation, budget, leases, clock>>, running' \subseteq running,
             jobs' \in [Job -> {"absent", "live", "settled"}],
             started' \subseteq leases, polled' \subseteq leases
      PROVE  CapacityInv' /\ \A k \in Job : KeptOut(k)
  <2>1. running' \subseteq Job
    BY <1>0, <1>5, Zenon
  <2>2. StoreInv'
    BY <1>0, <1>5, <2>1, OutsideKeeps, SMTT(30)
  <2>3. RunningAccounted'
    BY <1>0, <1>5, SMTT(30) DEF RunningAccounted
  <2>. QED  BY <1>0, <1>5, <2>2, <2>3, SameRows, RowStepsSpare, SMTT(30) DEF CapacityInv
<1>6. ASSUME NEW l \in leases, StartJob(l) PROVE CapacityInv' /\ \A k \in Job : KeptOut(k)
  BY <1>0, <1>5, <1>6, ZenonT(40) DEF StartJob, TypeOK
<1>7. ASSUME NEW l \in started, PollJob(l) PROVE CapacityInv' /\ \A k \in Job : KeptOut(k)
  BY <1>0, <1>5, <1>7, Zenon DEF PollJob, TypeOK
<1>8. ASSUME NEW l \in polled, DispatchRefused(l) PROVE CapacityInv' /\ \A k \in Job : KeptOut(k)
  BY <1>0, <1>5, <1>8, ZenonT(40) DEF DispatchRefused, TypeOK
<1>9. ASSUME NEW j \in Job, SettleJob(j) PROVE CapacityInv' /\ \A k \in Job : KeptOut(k)
  BY <1>0, <1>5, <1>9, Zenon DEF SettleJob, TypeOK, launch
<1>10. ASSUME NEW j \in Job, ProcessGone(j) PROVE CapacityInv' /\ \A k \in Job : KeptOut(k)
  BY <1>0, <1>5, <1>10, Zenon DEF ProcessGone, TypeOK, launch
<1>11. CASE Tick
  <2>1. reservation' = reservation /\ running' = running
    BY <1>11, Zenon DEF Tick
  <2>2. RunningAccounted'
    BY <1>0, <2>1, Zenon DEF RunningAccounted
  <2>. QED  BY <1>0, <1>11, <2>1, <2>2, TickKeeps, SameRows, RowStepsSpare, SMTT(30) DEF CapacityInv
<1>12. CASE UNCHANGED vars
  BY <1>0, <1>5, <1>12, Zenon DEF vars, TypeOK
<1>. QED
  BY <1>1, <1>2, <1>3, <1>4, <1>6, <1>7, <1>8, <1>9, <1>10, <1>11, <1>12, ZenonT(40) DEF Next

\* An empty table keeps every promise.
LEMMA EmptyKeeps ==
    ASSUME Unmigrated, leases = {}, started = {}, polled = {}, clock = 0
    PROVE  StoreInv
<1>1. /\ reservation = [j \in Job |-> NoRow] /\ budget = [h \in Host |-> NoRow]
      /\ jobs \in [Job -> {"absent", "live", "settled"}] /\ running = {}
  BY Zenon DEF Unmigrated
<1>2. Tables
  BY <1>1, FS_EmptySet, Zenon DEF Tables, TypeOK
<1>3. \A j \in Job : ~Holds(reservation[j], clock)
  BY <1>1, Zenon DEF Holds, NoRow
<1>4. OccupiedRows(reservation, clock) = {}
  BY <1>3, Zenon DEF OccupiedRows
<1>5. \A h \in Host : Occupied(reservation, h, clock) = {}
  BY <1>4 DEF Occupied
<1>6. JobsWithinBudget /\ MemoryWithinBudget
  BY <1>5, Zenon DEF JobsWithinBudget, MemoryWithinBudget
<1>7. OneHost /\ MachineRecorded /\ LeaseRows
  BY <1>4, Zenon DEF OneHost, MachineRecorded, LeaseRows
<1>. QED  BY <1>2, <1>6, <1>7, Zenon DEF StoreInv

\* So does a table from before fingerprints were recorded.
LEMMA MigratedKeeps ==
    ASSUME leases = {}, started = {}, polled = {}, clock = 0,
           NEW j \in Job, NEW b \in Budget, NEW d \in Request, Migrated(j, b, d)
    PROVE  CapacityInv
<1>. DEFINE row == [host |-> b.host, request |-> d, token |-> 0,
                    memory |-> b.memory, expires |-> 0, state |-> "dispatched",
                    fingerprint |-> NoFingerprint, reason |-> ""]
            limits == [state |-> "present", memory |-> b.memory, jobs |-> b.jobs,
                       fingerprint |-> NoFingerprint]
<1>1. b.host \in Host /\ b.memory \in Nat /\ b.jobs \in Nat \ {0}
  BY BudgetAssumption, Zenon
<1>2. /\ row \in Row /\ row.host = b.host /\ row.state = "dispatched" /\ row.memory = b.memory
      /\ row.fingerprint = NoFingerprint
  BY <1>1, Zenon DEF Row
<1>3. /\ limits \in BudgetRow /\ limits # NoRow /\ limits.jobs = b.jobs
      /\ limits.memory = b.memory /\ limits.fingerprint = NoFingerprint
  BY <1>1 DEF BudgetRow, NoRow
<1>4. reservation = [k \in Job |-> IF k = j THEN row ELSE NoRow]
  BY Zenon DEF Migrated
<1>5. budget = [h \in Host |-> IF h = b.host THEN limits ELSE NoRow]
  BY Zenon DEF Migrated
<1>6. jobs \in [Job -> {"absent", "live", "settled"}] /\ running = {j}
  BY Zenon DEF Migrated
<1>. HIDE DEF row, limits
<1>7. Tables
  BY <1>2, <1>3, <1>4, <1>5, <1>6, FS_EmptySet, Zenon DEF Tables, TypeOK
<1>8. RunningAccounted
  BY <1>2, <1>4, <1>6, Zenon DEF RunningAccounted
<1>9. \A k \in OccupiedRows(reservation, clock) : k = j /\ reservation[k] = row
  BY <1>4, Zenon DEF OccupiedRows, Holds, NoRow
<1>10. budget[b.host] = limits
  BY <1>1, <1>5, SMTT(30)
<1>11. OneHost /\ LeaseRows
  BY <1>9, SMTT(30) DEF OneHost, LeaseRows
<1>12. MachineRecorded
  BY <1>2, <1>3, <1>9, <1>10, Zenon DEF MachineRecorded
<1>13. Memory(reservation, {j}) = b.memory
  <2>1. IsFiniteSet({}) /\ Weighed(reservation, {}) /\ reservation[j].memory = b.memory
    BY <1>2, <1>4, FS_EmptySet, Zenon DEF Weighed
  <2>2. j \notin {} /\ reservation[j].memory \in Nat /\ {} \cup {j} = {j}
    BY <1>1, <2>1, Zenon
  <2>3. Memory(reservation, {j}) = reservation[j].memory + Memory(reservation, {})
    BY <2>1, <2>2, MemoryAdd, Zenon
  <2>4. Memory(reservation, {}) = 0
    BY <2>1, MemoryFirst, Zenon
  <2>. QED  BY <1>1, <2>1, <2>3, <2>4, SMTT(30)
<1>14. ASSUME NEW h \in Host, Occupied(reservation, h, clock) # {}
       PROVE  /\ budget[h] # NoRow
              /\ Cardinality(Occupied(reservation, h, clock)) <= budget[h].jobs
              /\ Memory(reservation, Occupied(reservation, h, clock)) <= budget[h].memory
  <2>1. Occupied(reservation, h, clock) = {j} /\ reservation[j].host = h
    BY <1>9, <1>14, Zenon DEF Occupied
  <2>2. h = b.host
    BY <1>2, <1>4, <2>1, Zenon
  <2>3. Cardinality({j}) = 1
    BY FS_Singleton, Zenon
  <2>4. /\ Cardinality(Occupied(reservation, h, clock)) = 1
        /\ Memory(reservation, Occupied(reservation, h, clock)) = b.memory
    BY <1>13, <2>1, <2>3, Zenon
  <2>. QED  BY <1>1, <1>3, <1>10, <2>2, <2>4, SMTT(30)
<1>15. JobsWithinBudget /\ MemoryWithinBudget
  BY <1>14, Zenon DEF JobsWithinBudget, MemoryWithinBudget
<1>. QED  BY <1>7, <1>8, <1>11, <1>12, <1>15, SMTT(30) DEF CapacityInv, StoreInv

\* Both databases the program may start from satisfy the invariant.
LEMMA CapacityInit == Init => CapacityInv
<1>1. ASSUME Init, Unmigrated PROVE CapacityInv
  <2>1. StoreInv
    BY <1>1, EmptyKeeps DEF Init
  <2>2. RunningAccounted
    BY <1>1, Zenon DEF Unmigrated, RunningAccounted
  <2>. QED  BY <2>1, <2>2, Zenon DEF CapacityInv
<1>. QED  BY <1>1, MigratedKeeps, Zenon DEF Init

\* Every step keeps the invariant.
LEMMA CapacityInductive == CapacityInv /\ [Next]_vars => CapacityInv'
BY CapacityStep, Zenon

\* The tables of the capacity database and what its callers hold keep their types.
THEOREM CapacityTypeCorrect == Spec => []TypeOK
<1>1. CapacityInv => TypeOK
  BY Zenon DEF CapacityInv, StoreInv, Tables
<1>. QED  BY <1>1, CapacityInit, CapacityInductive, PTL DEF Spec

\* reserve_capacity never lets more jobs occupy a host than its recorded max_jobs,
\* for any number of jobs and callers and however their budgets change.
THEOREM SlotsNeverExceeded == Spec => []JobsWithinBudget
<1>1. CapacityInv => JobsWithinBudget
  BY DEF CapacityInv, StoreInv
<1>. QED  BY <1>1, CapacityInit, CapacityInductive, PTL DEF Spec

\* Nor do the memory reservations it admits ever add up to more than the
\* recorded max_memory_bytes.
THEOREM MemoryNeverExceeded == Spec => []MemoryWithinBudget
<1>1. CapacityInv => MemoryWithinBudget
  BY Zenon DEF CapacityInv, StoreInv
<1>. QED  BY <1>1, CapacityInit, CapacityInductive, PTL DEF Spec

\* One database never admits to two host ids or to two physical machines at once.
THEOREM OneMachineAtATime == Spec => []OneMachine
<1>1. CapacityInv => OneMachine
  BY SMTT(30) DEF CapacityInv, StoreInv, OneHost, MachineRecorded, OneMachine
<1>. QED  BY <1>1, CapacityInit, CapacityInductive, PTL DEF Spec

\* The lease reserve_capacity returned is good for dispatch_capacity until it
\* expires: no reconciliation, renewal or other caller takes its row.
THEOREM LeasesAreKept == Spec => []LeaseKept
<1>1. ASSUME CapacityInv PROVE LeaseKept
  <2>. SUFFICES ASSUME NEW l \in leases, l.expires > clock
                PROVE  LET row == reservation[l.job]
                       IN  /\ row # NoRow /\ row.token = l.token /\ row.memory = l.memory
                           /\ row.state = "reserved" \/ row.state = "dispatched"
                                \/ row.reason = "cleanup-proven"
    BY Zenon DEF LeaseKept
  <2>1. reservation[l.job] \in Row /\ LeaseRow(l, reservation[l.job])
    BY <1>1, Zenon DEF CapacityInv, StoreInv, LeaseRows
  <2>. QED  BY <2>1, RowIsThere DEF LeaseRow
<1>. QED  BY <1>1, CapacityInit, CapacityInductive, PTL DEF Spec

\* While a process launched under a reservation may exist its row is dispatched,
\* provided that release_capacity is called with proof.
THEOREM RunningAlwaysAccounted == Spec => []RunningAccounted
<1>1. CapacityInv => RunningAccounted
  BY Zenon DEF CapacityInv
<1>. QED  BY <1>1, CapacityInit, CapacityInductive, PTL DEF Spec

\* dispatch_capacity succeeds at most once for a job: a dispatched row leaves
\* only by release_capacity, and reserve_capacity never takes it again.
THEOREM DispatchedAtMostOnce == Spec => DispatchedOnce
<1>. DEFINE Kept == \A j \in Job :
          /\ reservation[j].state = "dispatched"
               => reservation'[j] \in {reservation[j], ReleasedRow(j)[j]}
          /\ reservation[j].state = "released" /\ reservation[j].reason = "cleanup-proven"
               => reservation'[j] = reservation[j]
<1>1. CapacityInv /\ [Next]_vars => [Kept]_vars
  <2>1. CapacityInv /\ [Next]_vars => \A j \in Job : KeptOut(j)
    BY CapacityStep, Zenon
  <2>. QED  BY <2>1, Zenon DEF KeptOut
<1>. HIDE DEF Kept
<1>2. Spec => [][Kept]_vars
  BY <1>1, CapacityInit, CapacityInductive, PTL DEF Spec
<1>. QED  BY <1>2, Zenon DEF Kept, DispatchedOnce
=============================================================================
