------------------------------- MODULE Dataset -------------------------------
(***************************************************************************)
(* em_dataset: a bounded set of samples of one width, its sum, and its     *)
(* average without the extremes, in 64-bit arithmetic that wraps around.   *)
(* The width of the samples only bounds their values; the pointers that    *)
(* are checked for NULL are left out.                                      *)
(***************************************************************************)
EXTENDS Integers, Sequences, FiniteSetsExt

CONSTANTS
  ItemsCap,   \* items_cap
  Samples,    \* the values that an item of the set's width can have
  Modulus     \* 2^64, what the sums are taken modulo

ASSUME DatasetAssumption ==
  ItemsCap \in Nat \ {0} /\ Modulus \in Nat \ {0} /\ Samples \subseteq 0..Modulus-1

VARIABLES
  items,      \* buffer, up to items_now
  refused     \* whether the last call was an em_dataset_add that failed

datasetVars == <<items, refused>>

\* em_dataset_init
DatasetInit == items = <<>> /\ refused = FALSE

\* em_dataset_add
DatasetAdd(item) ==
  /\ refused' = (Len(items) >= ItemsCap)
  /\ items' = IF Len(items) >= ItemsCap THEN items ELSE Append(items, item)

\* em_dataset_clear
DatasetClear == items' = <<>> /\ refused' = FALSE

\* em_dataset_sum: uint64_t
DatasetSum ==
  LET upto[n \in 0..Len(items)] ==
        IF n = 0 THEN 0 ELSE (upto[n - 1] + items[n]) % Modulus
  IN upto[Len(items)]

\* The extremes that em_dataset_avg_without_extreme finds, with the values
\* that it starts from
Values == {items[n] : n \in DOMAIN items}
MinItem == Min(Values \cup {Modulus - 1})
MaxItem == Max(Values \cup {0})

\* Fault: the extremes are taken off the sum, not out of the count.
AvgOverAll == ((DatasetSum + 2 * Modulus - MinItem - MaxItem) % Modulus) \div Len(items)

\* em_dataset_avg_without_extreme with 3 items or more; with fewer it
\* returns -2.
AvgWithoutExtreme ==
  ((DatasetSum + 2 * Modulus - MinItem - MaxItem) % Modulus) \div (Len(items) - 2)

DatasetNext == DatasetClear \/ \E x \in Samples : DatasetAdd(x)

-----------------------------------------------------------------------------
(* Properties                                                              *)

\* The i-th sample is a smallest, the j-th another one, a largest.
Extremes(i, j) ==
  /\ i # j
  /\ \A n \in DOMAIN items : items[i] <= items[n] /\ items[n] <= items[j]

\* The sum, of any size, of the samples but the i-th and the j-th
SumBut(i, j) ==
  LET upto[n \in 0..Len(items)] ==
        IF n = 0 THEN 0 ELSE upto[n - 1] + (IF n \in {i, j} THEN 0 ELSE items[n])
  IN upto[Len(items)]

(***************************************************************************)
(* The average is that of the samples but one smallest and one largest     *)
(* (dataset.c:44-117), equal ones, a single value and samples of 64 bits   *)
(* included: that the sum of all of them wraps around does not matter, as  *)
(* long as that of the samples that count fits.                            *)
(***************************************************************************)
AverageOfMiddle ==
  Len(items) >= 3 =>
    /\ \E i, j \in DOMAIN items : Extremes(i, j)
    /\ \A i, j \in DOMAIN items :
         Extremes(i, j) /\ SumBut(i, j) < Modulus =>
           AvgWithoutExtreme = SumBut(i, j) \div (Len(items) - 2)
=============================================================================
