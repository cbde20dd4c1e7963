--------------------------- MODULE CountMinSketch ---------------------------
(***************************************************************************)
(* N3CMS: frequencies of keys, here pairs, in rows of cells. Every row has *)
(* a hash function of its own that says which cell counts a key. Each call *)
(* holds the lock of the sketch, so it is one step of its caller.          *)
(***************************************************************************)
EXTENDS Batches

CONSTANT Hash   \* the hash function of each row: the cell of each key

ASSUME HashAssumption ==
    DOMAIN Hash # {} /\ \A r \in DOMAIN Hash : Hash[r] \in [SPs -> Nat]

Rows  == DOMAIN Hash
Cells == {Hash[r][key] : r \in Rows, key \in SPs}

Sketch == [Rows -> [Cells -> Nat]]

(* What NewN3CMS makes when there is no file. *)
NewSketch == [r \in Rows |-> [c \in Cells |-> 0]]

Counters(cms, key) == {cms[r][Hash[r][key]] : r \in Rows}

(* Mutant: the greatest counter. *)
EstimateMutant(cms, key) ==
    CHOOSE n \in Counters(cms, key) : \A m \in Counters(cms, key) : m <= n

Estimate(cms, key) ==
    CHOOSE n \in Counters(cms, key) : \A m \in Counters(cms, key) : n <= m

Updated(cms, key, count) == [r \in Rows |->
    [cms[r] EXCEPT ![Hash[r][key]] = @ + count]]

=============================================================================
