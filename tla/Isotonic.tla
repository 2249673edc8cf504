------------------------------ MODULE Isotonic ------------------------------
(***************************************************************************)
(* models/calibration.py and models/_numeric.py: isotonic recalibration.   *)
(* Outcomes, ordered by the raw probability they were predicted with, are  *)
(* pooled until their means ascend, and a new probability is mapped by     *)
(* interpolating between the pooled means.                                 *)
(*                                                                         *)
(* Raw probabilities are percent.  A mean is a fraction <<sum, count>>,    *)
(* the weights being one.                                                  *)
(***************************************************************************)
EXTENDS StableSort, FiniteSetsExt

Above(p, q) == p[1] * q[2] > q[1] * p[2]
Plus(p, q) == <<p[1] + q[1], p[2] + q[2]>>

\* The block with the last k blocks of the stack pooled into it.
Absorbed(stack, block) ==
  LET pooled[k \in 0..Len(stack)] ==
        IF k = 0 THEN block ELSE Plus(stack[Len(stack) - k + 1], pooled[k - 1])
  IN  pooled

\* Mutant: one neighbour at most is pooled.
PushOnce(stack, block) ==
  LET count == IF stack # <<>> /\ Above(stack[Len(stack)], block) THEN 1 ELSE 0
  IN  Append(SubSeq(stack, 1, Len(stack) - count), Absorbed(stack, block)[count])

\* Pool while the block on top of the stack is above the new one.
Push(stack, block) ==
  LET n == Len(stack)
      count == Min({k \in 0..n : k = n \/ ~Above(stack[n - k], Absorbed(stack, block)[k])})
  IN  Append(SubSeq(stack, 1, n - count), Absorbed(stack, block)[count])

Blocks(y) ==
  LET stack[j \in 0..Len(y)] == IF j = 0 THEN <<>> ELSE Push(stack[j - 1], <<y[j], 1>>)
  IN  stack[Len(y)]

\* pool_adjacent_violators: each place has the mean of its block.
PoolAdjacentViolators(y) ==
  LET blocks == Blocks(y)
      end[b \in 0..Len(blocks)] == IF b = 0 THEN 0 ELSE end[b - 1] + blocks[b][2]
  IN  [i \in DOMAIN y |-> blocks[Min({b \in DOMAIN blocks : i <= end[b]})]]

-----------------------------------------------------------------------------
\* IsotonicCalibrator.fit: knots x and fitted values y.
FitIsotonic(p, outcomes) ==
  LET order == ArgSort(p)
  IN  [x |-> [k \in DOMAIN p |-> p[order[k]]],
       y |-> PoolAdjacentViolators([k \in DOMAIN p |-> outcomes[order[k]]])]

\* np.interp of at least one knot (a fit has ten or more): flat outside the knots,
\* the last of equal ones counts.
Transform(fit, q) ==
  LET n == Len(fit.x)
      below == {k \in 1..n : fit.x[k] <= q}
  IN  IF below = {} THEN fit.y[1]
      ELSE IF Max(below) = n THEN fit.y[n]
      ELSE LET k == Max(below)
               run == fit.x[k + 1] - fit.x[k]
               a == fit.y[k]  b == fit.y[k + 1]
           IN  <<a[1] * b[2] * (run - (q - fit.x[k])) + b[1] * a[2] * (q - fit.x[k]),
                 a[2] * b[2] * run>>

-----------------------------------------------------------------------------
\* Record j is not before i: its raw probability is higher, or as high and it is
\* not recorded earlier.  The stretch from i to j is the records in between.
NotBefore(p, j, i) == p[i] < p[j] \/ (p[i] = p[j] /\ i <= j)
Stretch(p, i, j) == {k \in DOMAIN p : NotBefore(p, k, i) /\ NotBefore(p, j, k)}
Mean(outcomes, S) == <<MapThenSumSet(LAMBDA k : outcomes[k], S), Cardinality(S)>>

\* What a calibrator of outcomes with raw probabilities p should make of them: the
\* monotone least-squares fit, where the fitted value is the greatest, over the
\* beginnings of a stretch around a record, of the least mean of such a stretch.
\* Of records with equal probabilities the last one's value is the one in force.
FitsTheRecord(fit, p, outcomes) ==
  \A i \in DOMAIN p : (\A j \in DOMAIN p : p[j] = p[i] => j <= i) =>
    LET value == Transform(fit, p[i])
        From == {a \in DOMAIN p : NotBefore(p, i, a)}
        To == {b \in DOMAIN p : NotBefore(p, b, i)}
    IN  /\ \A a \in From : \E b \in To : ~Above(Mean(outcomes, Stretch(p, a, b)), value)
        /\ \E a \in From : \A b \in To : ~Above(value, Mean(outcomes, Stretch(p, a, b)))

KeepsOrder(fit, probabilities) ==
  \A q, r \in probabilities : q < r => ~Above(Transform(fit, q), Transform(fit, r))
=============================================================================
