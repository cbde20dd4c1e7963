------------------------ MODULE CountMinSketchProofs ------------------------
(***************************************************************************)
(* Proofs about CountMinSketch, for every set of keys and all hash         *)
(* functions: an estimate exists, is never below what was counted, and     *)
(* grows by no more than what is counted of any key; and it is exact if    *)
(* one row tells the keys apart.                                           *)
(***************************************************************************)
EXTENDS CountMinSketch, WellFoundedInduction, TLAPS

(* Every set of numbers has a least one; if it is bounded, a greatest one. *)
LEMMA LeastOf ==
    ASSUME NEW S \in SUBSET Nat, S # {}
    PROVE  \E m \in S : \A n \in S : m <= n
<1>1. \E m \in S : \A n \in S : ~ (<<n, m>> \in OpToRel(<, Nat))
  BY NatLessThanWellFounded, WFMin
<1>2. PICK m \in S : \A n \in S : ~ (<<n, m>> \in OpToRel(<, Nat))
  BY <1>1
<1>3. ASSUME NEW n \in S PROVE m <= n
  <2>1. <<n, m>> \in Nat \X Nat /\ ~ (<<n, m>> \in OpToRel(<, Nat))
    BY <1>2
  <2>2. ~ (n < m)
    BY <2>1 DEF OpToRel
  <2> QED
    BY <2>2
<1> QED
  BY <1>2, <1>3

LEMMA GreatestOf ==
    ASSUME NEW S \in SUBSET Nat, S # {}, NEW bound \in Nat, \A n \in S : n <= bound
    PROVE  \E m \in S : \A n \in S : n <= m
<1> DEFINE U == {u \in Nat : \A n \in S : n <= u}
<1>1. U \in SUBSET Nat /\ U # {}
  OBVIOUS
<1>2. PICK m \in U : \A u \in U : m <= u
  BY <1>1, LeastOf
<1>3. m \in S
  <2>1. SUFFICES ASSUME m \notin S PROVE FALSE
    OBVIOUS
  <2>2. \A n \in S : n < m
    BY <1>2, <2>1
  <2>3. PICK n \in S : n < m
    BY <2>2
  <2>4. m - 1 \in Nat
    BY <2>3
  <2>5. \A k \in S : k <= m - 1
    BY <2>2
  <2>6. m - 1 \in U
    BY <2>4, <2>5
  <2> QED
    BY <1>2, <2>6
<1> QED
  BY <1>2, <1>3

-----------------------------------------------------------------------------
LEMMA CellType ==
    ASSUME NEW r \in Rows, NEW key \in SPs
    PROVE  Hash[r][key] \in Cells
BY DEF Rows, Cells

LEMMA CountersType ==
    ASSUME NEW cms \in Sketch, NEW key \in SPs
    PROVE  Counters(cms, key) \in SUBSET Nat /\ Counters(cms, key) # {}
<1>1. \A r \in Rows : cms[r][Hash[r][key]] \in Nat
  BY CellType DEF Sketch
<1> QED
  BY <1>1, HashAssumption DEF Counters, Rows

(* The estimate is the smallest counter of its key. *)
LEMMA EstimateIsLeast ==
    ASSUME NEW cms \in Sketch, NEW key \in SPs
    PROVE  /\ Estimate(cms, key) \in Nat
           /\ \E r \in Rows : Estimate(cms, key) = cms[r][Hash[r][key]]
           /\ \A r \in Rows : Estimate(cms, key) <= cms[r][Hash[r][key]]
<1>1. \E n \in Counters(cms, key) : \A m \in Counters(cms, key) : n <= m
  BY CountersType, LeastOf
<1>2. /\ Estimate(cms, key) \in Counters(cms, key)
      /\ \A m \in Counters(cms, key) : Estimate(cms, key) <= m
  BY <1>1 DEF Estimate
<1> QED
  BY <1>2, CountersType DEF Counters

LEMMA UpdatedType ==
    ASSUME NEW cms \in Sketch, NEW key \in SPs, NEW count \in Nat
    PROVE  Updated(cms, key, count) \in Sketch
BY CellType DEF Updated, Sketch

LEMMA NewSketchType == NewSketch \in Sketch
BY DEF NewSketch, Sketch

LEMMA NewSketchIsEmpty == \A key \in SPs : Estimate(NewSketch, key) = 0
BY EstimateIsLeast, NewSketchType, CellType DEF NewSketch

LEMMA CounterUpdated ==
    ASSUME NEW cms \in Sketch, NEW key \in SPs, NEW count \in Nat,
           NEW r \in Rows, NEW k \in SPs
    PROVE  Updated(cms, key, count)[r][Hash[r][k]] =
               IF Hash[r][k] = Hash[r][key] THEN cms[r][Hash[r][k]] + count
               ELSE cms[r][Hash[r][k]]
BY CellType DEF Updated, Sketch

(* Update adds its count to the estimate of its key. That of another key,   *)
(* which may collide with it, grows by at most the count and never sinks.   *)
THEOREM NeverUnderestimates ==
    ASSUME NEW cms \in Sketch, NEW key \in SPs, NEW count \in Nat
    PROVE  /\ Estimate(Updated(cms, key, count), key) = Estimate(cms, key) + count
           /\ \A k \in SPs :
                  /\ Estimate(cms, k) <= Estimate(Updated(cms, key, count), k)
                  /\ Estimate(Updated(cms, key, count), k) <= Estimate(cms, k) + count
<1> DEFINE new == Updated(cms, key, count)
<1>1. new \in Sketch
  BY UpdatedType
<1>2. \A k \in SPs : Estimate(cms, k) <= Estimate(new, k)
  <2> TAKE k \in SPs
  <2>1. PICK r \in Rows : Estimate(new, k) = new[r][Hash[r][k]]
    BY <1>1, EstimateIsLeast
  <2>2. cms[r][Hash[r][k]] \in Nat /\ Estimate(cms, k) \in Nat
        /\ Estimate(cms, k) <= cms[r][Hash[r][k]]
    BY EstimateIsLeast, CellType DEF Sketch
  <2>3. cms[r][Hash[r][k]] <= new[r][Hash[r][k]]
    BY <2>2, CounterUpdated
  <2> QED
    BY <2>1, <2>2, <2>3, <1>1, EstimateIsLeast
<1>3. \A k \in SPs : Estimate(new, k) <= Estimate(cms, k) + count
  <2> TAKE k \in SPs
  <2>1. PICK r \in Rows : Estimate(cms, k) = cms[r][Hash[r][k]]
    BY EstimateIsLeast
  <2>2. Estimate(new, k) <= new[r][Hash[r][k]] /\ Estimate(new, k) \in Nat
    BY <1>1, EstimateIsLeast
  <2>3. cms[r][Hash[r][k]] \in Nat
    BY CellType DEF Sketch
  <2>4. new[r][Hash[r][k]] <= cms[r][Hash[r][k]] + count /\ new[r][Hash[r][k]] \in Nat
    BY <2>3, CounterUpdated
  <2> QED
    BY <2>1, <2>2, <2>3, <2>4
<1>4. Estimate(cms, key) + count <= Estimate(new, key)
  <2>1. PICK r \in Rows : Estimate(new, key) = new[r][Hash[r][key]]
    BY <1>1, EstimateIsLeast
  <2>2. new[r][Hash[r][key]] = cms[r][Hash[r][key]] + count
    BY CounterUpdated
  <2>3. Estimate(cms, key) <= cms[r][Hash[r][key]] /\ Estimate(cms, key) \in Nat
        /\ cms[r][Hash[r][key]] \in Nat
    BY EstimateIsLeast, CellType DEF Sketch
  <2> QED
    BY <2>1, <2>2, <2>3
<1>5. Estimate(cms, key) \in Nat /\ Estimate(new, key) \in Nat
  BY <1>1, EstimateIsLeast
<1> QED
  BY <1>2, <1>3, <1>4, <1>5

-----------------------------------------------------------------------------
(* The rows that tell all pairs apart.                                     *)
Exact == {r \in Rows : \A x, y \in SPs : Hash[r][x] = Hash[r][y] => x = y}

(* A row that tells all pairs apart counts no more than any other.         *)
ExactLeast(cms) == \A r \in Exact, q \in Rows, x \in SPs :
    cms[r][Hash[r][x]] <= cms[q][Hash[q][x]]

LEMMA NewSketchIsExact == ExactLeast(NewSketch)
<1>1. \A r \in Rows, x \in SPs : NewSketch[r][Hash[r][x]] = 0
  BY CellType DEF NewSketch
<1>2. \A r \in Exact : r \in Rows
  BY DEF Exact
<1> QED
  BY <1>1, <1>2 DEF ExactLeast

LEMMA ExactEstimate ==
    ASSUME NEW cms \in Sketch, ExactLeast(cms), NEW r \in Exact, NEW x \in SPs
    PROVE  Estimate(cms, x) = cms[r][Hash[r][x]]
<1>1. r \in Rows
  BY DEF Exact
<1>2. PICK q \in Rows : Estimate(cms, x) = cms[q][Hash[q][x]]
  BY EstimateIsLeast
<1>3. cms[r][Hash[r][x]] \in Nat /\ cms[q][Hash[q][x]] \in Nat
  BY <1>1, CellType DEF Sketch
<1>4. Estimate(cms, x) <= cms[r][Hash[r][x]]
  BY <1>1, EstimateIsLeast
<1>5. cms[r][Hash[r][x]] <= cms[q][Hash[q][x]]
  BY DEF ExactLeast
<1> QED
  BY <1>2, <1>3, <1>4, <1>5

LEMMA ExactUpdated ==
    ASSUME NEW cms \in Sketch, ExactLeast(cms), NEW key \in SPs, NEW count \in Nat
    PROVE  /\ ExactLeast(Updated(cms, key, count))
           /\ Exact # {} => \A x \in SPs : x # key =>
                  Estimate(Updated(cms, key, count), x) = Estimate(cms, x)
<1> DEFINE new == Updated(cms, key, count)
<1>1. ASSUME NEW r \in Exact, NEW q \in Rows, NEW x \in SPs
      PROVE  new[r][Hash[r][x]] <= new[q][Hash[q][x]]
  <2>1. r \in Rows /\ (Hash[r][x] = Hash[r][key] => x = key)
    BY DEF Exact
  <2>2. /\ cms[r][Hash[r][x]] \in Nat /\ cms[q][Hash[q][x]] \in Nat
        /\ cms[r][Hash[r][x]] <= cms[q][Hash[q][x]]
    BY <2>1, CellType DEF Sketch, ExactLeast
  <2>3. new[q][Hash[q][x]] = IF Hash[q][x] = Hash[q][key] THEN cms[q][Hash[q][x]] + count
                             ELSE cms[q][Hash[q][x]]
    BY CounterUpdated
  <2>4. new[r][Hash[r][x]] = IF x = key THEN cms[r][Hash[r][x]] + count
                             ELSE cms[r][Hash[r][x]]
    BY <2>1, CounterUpdated
  <2> QED
    BY <2>2, <2>3, <2>4
<1>2. ExactLeast(new)
  BY <1>1 DEF ExactLeast
<1>3. ASSUME NEW r \in Exact, NEW x \in SPs, x # key
      PROVE  Estimate(new, x) = Estimate(cms, x)
  <2>1. r \in Rows /\ Hash[r][x] # Hash[r][key]
    BY <1>3 DEF Exact
  <2>2. new[r][Hash[r][x]] = IF Hash[r][x] = Hash[r][key] THEN cms[r][Hash[r][x]] + count
                             ELSE cms[r][Hash[r][x]]
    BY <2>1, CounterUpdated
  <2>3. new \in Sketch
    BY UpdatedType
  <2> HIDE DEF new
  <2> QED
    BY <1>2, <2>1, <2>2, <2>3, ExactEstimate
<1> QED
  BY <1>2, <1>3

=============================================================================
