---------------------------- MODULE AnalysisProofs ----------------------------
(***************************************************************************)
(* Analysis: for any resolution of the weights, tolerance, vectors the     *)
(* power iteration may find, ranges and numbers of steps, a sweep only     *)
(* tries positive weights and keeps the ratios of the others; and where    *)
(* equal weights are the only ties, stability intervals leave out no       *)
(* offset at which the ranking is the baseline's.  For layers of any size  *)
(* and any criteria, better units do not score less, and units without a   *)
(* value change nothing for the others.                                    *)
(***************************************************************************)
EXTENDS Analysis, FiniteSetTheorems, TLAPS

\* A sweep is under way for inputs that were validated, with proper weights.
SweepIsSound ==
  stage = "weighed" =>
    /\ request.tool = "sensitivity"
    /\ SensitivityError(request) = {}
    /\ weights \in [DOMAIN request.criteria -> 1 .. Unit - 1]

NothingSwept == stage = "asked" => results = <<>>

IInv ==
  /\ request \in Requests
  /\ request.tool = "sensitivity" => \E S : results \in Seq(S)
  /\ SweepIsSound
  /\ NothingSwept
  /\ SweepIsAdmissible

-------------------------------------------------------------------------------
(* Arithmetic                                                               *)

LEMMA Product ==
  ASSUME NEW a \in Int, NEW b \in Int, a <= b, NEW c \in Nat
  PROVE  c * a <= c * b
OBVIOUS

LEMMA Between ==
  ASSUME NEW low \in Int, NEW high \in Int, low <= high, NEW s \in Nat, NEW t \in 0 .. s
  PROVE  /\ s * low + t * (high - low) \in Int
         /\ s * low <= s * low + t * (high - low)
         /\ s * low + t * (high - low) <= s * high
<1> DEFINE d == high - low
<1>1. d \in Nat /\ high = low + d
  OBVIOUS
<1>2. t * d \in Nat /\ t * d <= s * d
  BY <1>1, Product
<1>3. s * high = s * low + s * d
  BY <1>1
<1> QED BY <1>1, <1>2, <1>3

LEMMA Proportion ==
  ASSUME NEW D, NEW w \in [D -> 1 .. Unit - 1], NEW k \in D
  PROVE  w[k] \in Nat \ {0} /\ Unit - w[k] \in Nat \ {0}
BY UnitAssumption

LEMMA Positive ==
  ASSUME NEW a \in Nat \ {0}, NEW b \in Nat \ {0}
  PROVE  a * b \in Nat \ {0}
OBVIOUS

-------------------------------------------------------------------------------
(* One criterion                                                            *)

\* The clamped range keeps away from the ends, if it is one.
LEMMA ClampBounds ==
  ASSUME NEW D, NEW w \in [D -> 1 .. Unit - 1], NEW k \in D, NEW range,
         range[1] \in Int, range[2] \in Int
  PROVE  /\ Clamp(w, k, range)[1] \in Int /\ Clamp(w, k, range)[1] >= Eps - w[k]
         /\ Clamp(w, k, range)[2] \in Int /\ Clamp(w, k, range)[2] <= Unit - w[k] - Eps
BY UnitAssumption DEF Clamp

\* What is left of a weight, and of the whole, at every offset of a clamped sweep.
LEMMA OffsetBounds ==
  ASSUME NEW wk \in 1 .. Unit - 1, NEW s \in Nat \ {0}, NEW range, NEW i \in 1 .. s + 1,
         range[1] \in Int, range[1] >= Eps - wk,
         range[2] \in Int, range[2] <= Unit - wk - Eps,
         range[1] <= range[2]
  PROVE  LET offset == Offsets(range, s + 1)[i] IN
           s * wk + offset \in Nat \ {0} /\ s * Unit - s * wk - offset \in Nat \ {0}
<1> DEFINE offset == Offsets(range, s + 1)[i]
<1>1. i - 1 \in 0 .. s
  OBVIOUS
<1>2. offset = s * range[1] + (i - 1) * (range[2] - range[1])
  BY DEF Offsets
<1>3. offset \in Int /\ s * range[1] <= offset /\ offset <= s * range[2]
  BY <1>1, <1>2, Between
<1>4. s * (Eps - wk) <= s * range[1] /\ s * range[2] <= s * (Unit - wk - Eps)
  BY Product, UnitAssumption
<1>5. s * (Eps - wk) = s * Eps - s * wk /\ s * (Unit - wk - Eps) = s * Unit - s * wk - s * Eps
  BY UnitAssumption
<1>6. s * Eps \in Nat \ {0} /\ s * wk \in Nat /\ s * Unit \in Nat
  BY Positive, UnitAssumption
<1> HIDE DEF offset
<1>7. s * wk + offset \in Nat \ {0} /\ s * Unit - s * wk - offset \in Nat \ {0}
  BY <1>3, <1>4, <1>5, <1>6
<1> QED BY <1>7 DEF offset

\* Every vector of a sweep is positive, and the others keep their ratios.
LEMMA PerturbedAdmissible ==
  ASSUME NEW D, NEW w \in [D -> 1 .. Unit - 1], NEW k \in D, NEW s \in Nat \ {0}, NEW offset \in Int,
         s * w[k] + offset \in Nat \ {0}, s * Unit - s * w[k] - offset \in Nat \ {0}
  PROVE  LET p == Perturbed(w, k, offset, s) IN
           /\ DOMAIN p = D
           /\ \A j \in D : p[j] > 0
           /\ \A j, l \in D \ {k} : p[j] * w[l] = p[l] * w[j]
<1> DEFINE p == Perturbed(w, k, offset, s)
           left == s * Unit - s * w[k] - offset
<1>1. DOMAIN p = D
  BY DEF Perturbed
<1>2. p[k] > 0
  <2>1. p[k] = (s * w[k] + offset) * (Unit - w[k])
    BY DEF Perturbed
  <2>2. Unit - w[k] \in Nat \ {0}
    BY Proportion
  <2> QED BY <2>1, <2>2, Positive
<1>3. ASSUME NEW j \in D, j # k
      PROVE  p[j] = w[j] * left /\ p[j] > 0
  <2>1. p[j] = w[j] * left
    BY <1>3 DEF Perturbed
  <2>2. w[j] \in Nat \ {0}
    BY Proportion
  <2> QED BY <2>1, <2>2, Positive
<1>4. ASSUME NEW j \in D \ {k}, NEW l \in D \ {k}
      PROVE  p[j] * w[l] = p[l] * w[j]
  <2>1. p[j] = w[j] * left /\ p[l] = w[l] * left
    BY <1>3
  <2>2. w[j] \in Int /\ w[l] \in Int /\ left \in Int
    BY Proportion
  <2> HIDE DEF p, left
  <2> QED BY <2>1, <2>2
<1> QED BY <1>1, <1>2, <1>3, <1>4

LEMMA CriterionAdmissible ==
  ASSUME NEW D, weights \in [D -> 1 .. Unit - 1], NEW k \in D, NEW range, NEW steps \in Nat \ {0, 1},
         range[1] \in Int, range[2] \in Int
  PROVE  Admissible(CriterionSensitivity(weights, k, range, steps))
<1> SUFFICES ASSUME NEW r, r = CriterionSensitivity(weights, k, range, steps) PROVE Admissible(r)
  OBVIOUS
<1> DEFINE clamped == Clamp(weights, k, range)
<1>1. r.range = clamped /\ r.offsets = Offsets(clamped, steps) /\ r.criterion = k
  BY DEF CriterionSensitivity
<1>2. \A i \in DOMAIN r.offsets :
        r.perturbed[i] = Perturbed(weights, k, Offsets(clamped, steps)[i], steps - 1)
  BY <1>1 DEF CriterionSensitivity
<1>3. SUFFICES ASSUME clamped[1] <= clamped[2], NEW i \in 1 .. steps
               PROVE  LET p == Perturbed(weights, k, Offsets(clamped, steps)[i], steps - 1) IN
                        /\ \A j \in DOMAIN p : p[j] > 0
                        /\ \A j, l \in DOMAIN p \ {k} : p[j] * weights[l] = p[l] * weights[j]
  <2>1. DOMAIN r.offsets = 1 .. steps
    BY <1>1 DEF Offsets
  <2> HIDE DEF clamped
  <2> QED BY <1>1, <1>2, <1>3, <2>1 DEF Admissible, Proper
<1>4. /\ clamped[1] \in Int /\ clamped[1] >= Eps - weights[k]
      /\ clamped[2] \in Int /\ clamped[2] <= Unit - weights[k] - Eps
  BY ClampBounds
<1> DEFINE s == steps - 1
           offset == Offsets(clamped, steps)[i]
<1>5. s \in Nat \ {0} /\ steps = s + 1 /\ weights[k] \in 1 .. Unit - 1
  OBVIOUS
<1>6. s * weights[k] + offset \in Nat \ {0} /\ s * Unit - s * weights[k] - offset \in Nat \ {0}
  <2> HIDE DEF s, clamped
  <2> QED BY <1>3, <1>4, <1>5, OffsetBounds
<1>7. offset \in Int
  BY <1>4, <1>5 DEF Offsets
<1> HIDE DEF s, offset
<1>8. /\ DOMAIN Perturbed(weights, k, offset, s) = D
      /\ \A j \in D : Perturbed(weights, k, offset, s)[j] > 0
      /\ \A j, l \in D \ {k} : Perturbed(weights, k, offset, s)[j] * weights[l]
                               = Perturbed(weights, k, offset, s)[l] * weights[j]
  BY <1>5, <1>6, <1>7, PerturbedAdmissible
<1> QED BY <1>8 DEF s, offset

-------------------------------------------------------------------------------
(* Rankings along a sweep                                                   *)

\* The j-th weight is heavier than the i-th by more than the tolerance.
Beats(w, eps, j, i) == w[j] > w[i] + eps

\* Weights are equal, or further apart than the tolerance.
Apart(w) == \A i, j \in DOMAIN w : w[i] > w[j] => Beats(w, Eps, i, j)

\* An offset that leaves both the weight and the rest of the whole positive.
Room(wk, s, offset) ==
  offset \in Int /\ s * wk + offset \in Nat \ {0} /\ s * Unit - s * wk - offset \in Nat \ {0}

\* The tolerance in the parts of a perturbed vector.
Tolerance(wk, s) == Eps * s * (Unit - wk)

\* All comparisons come out as they do for the baseline.
Same(w, k, s, offset) ==
  \A i, j \in DOMAIN w :
    Beats(Perturbed(w, k, offset, s), Tolerance(w[k], s), j, i) <=> Beats(w, Eps, j, i)

LEMMA Ordered ==
  ASSUME NEW a \in Int, NEW b \in Int, NEW c \in Nat \ {0}
  PROVE  a < b => a * c < b * c
OBVIOUS

LEMMA Cancelled ==
  ASSUME NEW a \in Int, NEW b \in Int, NEW c \in Nat \ {0}
  PROVE  a < b <=> a * c < b * c
<1>1. CASE a < b
  BY <1>1, Ordered
<1>2. CASE a = b
  BY <1>2
<1>3. CASE b < a
  <2>1. b * c < a * c
    BY <1>3, Ordered
  <2> QED BY <1>3, <2>1
<1> QED BY <1>1, <1>2, <1>3

\* The vector at an offset, and its tolerance.
LEMMA PerturbedIs ==
  ASSUME NEW D, NEW w \in [D -> 1 .. Unit - 1], NEW k \in D, NEW s \in Nat \ {0}, NEW offset,
         Room(w[k], s, offset)
  PROVE  LET p == Perturbed(w, k, offset, s)
             V == Unit - w[k]
             L == s * Unit - s * w[k] - offset
         IN /\ V \in Nat \ {0} /\ L \in Nat \ {0} /\ s * w[k] + offset \in Nat \ {0}
            /\ Tolerance(w[k], s) \in Nat \ {0}
            /\ p \in [D -> Int]
            /\ p[k] = (s * w[k] + offset) * V
            /\ \A i \in D \ {k} : p[i] = w[i] * L
<1>1. w[k] \in Nat \ {0} /\ Unit - w[k] \in Nat \ {0} /\ \A i \in D : w[i] \in Nat \ {0}
  BY Proportion
<1>2. Eps * s \in Nat \ {0}
  BY UnitAssumption, Positive
<1>3. Tolerance(w[k], s) \in Nat \ {0}
  BY <1>1, <1>2, Positive DEF Tolerance
<1> DEFINE L == s * Unit - s * w[k] - offset
           q == s * w[k] + offset
           V == Unit - w[k]
<1>4. L \in Nat \ {0} /\ q \in Nat \ {0} /\ V \in Nat \ {0}
  BY <1>1 DEF Room
<1>5. Perturbed(w, k, offset, s) = [i \in D |-> IF i = k THEN q * V ELSE w[i] * L]
  BY DEF Perturbed
<1> HIDE DEF L, q, V
<1>6. q * V \in Int /\ \A i \in D : w[i] * L \in Int
  BY <1>1, <1>4
<1>7. /\ Perturbed(w, k, offset, s) \in [D -> Int]
      /\ Perturbed(w, k, offset, s)[k] = q * V
      /\ \A i \in D \ {k} : Perturbed(w, k, offset, s)[i] = w[i] * L
  BY <1>5, <1>6
<1> QED BY <1>3, <1>4, <1>7 DEF L, q, V

\* Nothing changes at the baseline itself.
LEMMA BaselineIsSame ==
  ASSUME NEW D, NEW w \in [D -> 1 .. Unit - 1], NEW k \in D, NEW s \in Nat \ {0}
  PROVE  Room(w[k], s, 0) /\ Same(w, k, s, 0)
<1>1. w[k] \in Nat \ {0} /\ Unit - w[k] \in Nat \ {0} /\ \A i \in D : w[i] \in Nat \ {0}
  BY Proportion
<1> DEFINE V == Unit - w[k]
           c == s * V
           p == Perturbed(w, k, 0, s)
<1>2. V \in Nat \ {0} /\ Unit \in Int /\ Eps \in Int /\ w[k] \in Int
  BY <1>1, UnitAssumption
<1>3. c \in Nat \ {0} /\ s * w[k] \in Nat \ {0} /\ c = s * Unit - s * w[k]
  BY <1>1, <1>2, Positive
<1>4. Room(w[k], s, 0)
  BY <1>2, <1>3 DEF Room
<1>5. p \in [D -> Int] /\ p[k] = (s * w[k] + 0) * V
      /\ \A i \in D \ {k} : p[i] = w[i] * (s * Unit - s * w[k] - 0)
  BY <1>4, PerturbedIs
<1>6. p[k] = w[k] * c
  <2>1. s * w[k] + 0 = s * w[k]
    BY <1>3
  <2>2. (s * w[k]) * V = w[k] * (s * V)
    BY <1>1, <1>2
  <2> HIDE DEF p, V
  <2> QED BY <1>5, <2>1, <2>2
<1>7. \A i \in D : p[i] = w[i] * c
  <2>1. s * Unit - s * w[k] - 0 = c
    BY <1>2, <1>3
  <2> HIDE DEF c, p
  <2> QED BY <1>5, <1>6, <2>1
<1>8. Tolerance(w[k], s) = Eps * c
  BY <1>2 DEF Tolerance
<1> HIDE DEF c, V, p
<1>9. ASSUME NEW i \in D, NEW j \in D
      PROVE  Beats(p, Tolerance(w[k], s), j, i) <=> Beats(w, Eps, j, i)
  <2>1. p[j] = w[j] * c /\ p[i] + Eps * c = (w[i] + Eps) * c
    BY <1>1, <1>2, <1>3, <1>7
  <2>2. w[i] + Eps \in Int /\ w[j] \in Int
    BY <1>1, <1>2
  <2>3. w[i] + Eps < w[j] <=> (w[i] + Eps) * c < w[j] * c
    BY <1>3, <2>2, Cancelled
  <2> QED BY <1>3, <1>8, <2>1, <2>2, <2>3 DEF Beats
<1> QED BY <1>4, <1>9 DEF Same, p

\* A comparison changes at most once along a sweep.
LEMMA ComparisonsAreMonotone ==
  ASSUME NEW D, NEW w \in [D -> 1 .. Unit - 1], NEW k \in D, NEW s \in Nat \ {0},
         NEW i \in D, NEW j \in D,
         NEW a, NEW b, Room(w[k], s, a), Room(w[k], s, b), a <= b
  PROVE  LET before == Beats(Perturbed(w, k, a, s), Tolerance(w[k], s), j, i)
             after == Beats(Perturbed(w, k, b, s), Tolerance(w[k], s), j, i)
         IN /\ j = k => (before => after)
            /\ j # k /\ (i = k \/ w[j] > w[i]) => (after => before)
            /\ j # k /\ i # k /\ w[j] <= w[i] => ~before /\ ~after
<1> DEFINE p == Perturbed(w, k, a, s)
           r == Perturbed(w, k, b, s)
           V == Unit - w[k]
           La == s * Unit - s * w[k] - a
           Lb == s * Unit - s * w[k] - b
           qa == s * w[k] + a
           qb == s * w[k] + b
           T == Tolerance(w[k], s)
<1>1. /\ V \in Nat \ {0} /\ La \in Nat \ {0} /\ qa \in Nat \ {0} /\ T \in Nat \ {0}
      /\ p \in [D -> Int] /\ p[k] = qa * V /\ \A m \in D \ {k} : p[m] = w[m] * La
  BY PerturbedIs
<1>2. /\ Lb \in Nat \ {0} /\ qb \in Nat \ {0}
      /\ r \in [D -> Int] /\ r[k] = qb * V /\ \A m \in D \ {k} : r[m] = w[m] * Lb
  BY PerturbedIs
<1>3. Lb <= La /\ qa <= qb
  <2>1. a \in Int /\ b \in Int /\ s * Unit \in Int /\ s * w[k] \in Int
    BY UnitAssumption DEF Room
  <2> QED BY <2>1
<1>4. w[i] \in Nat \ {0} /\ w[j] \in Nat \ {0}
  BY Proportion
<1> HIDE DEF p, r, V, La, Lb, qa, qb, T
<1>5. p[k] <= r[k]
  <2>1. V * qa <= V * qb
    BY <1>1, <1>2, <1>3, Product
  <2> QED BY <1>1, <1>2, <2>1
<1>6. ASSUME NEW m \in D, m # k PROVE r[m] <= p[m]
  <2>1. w[m] \in Nat
    BY Proportion
  <2>2. w[m] * Lb <= w[m] * La
    BY <1>1, <1>2, <1>3, <2>1, Product
  <2> QED BY <1>1, <1>2, <1>6, <2>2
<1>7. j = k => (Beats(p, T, j, i) => Beats(r, T, j, i))
  <2>1. CASE i = k
    BY <1>1, <2>1 DEF Beats
  <2>2. CASE i # k
    BY <1>1, <1>2, <1>5, <1>6, <2>2 DEF Beats
  <2> QED BY <2>1, <2>2
<1>8. j # k /\ i = k => (Beats(r, T, j, i) => Beats(p, T, j, i))
  BY <1>1, <1>2, <1>5, <1>6 DEF Beats
<1>9. j # k /\ i # k /\ w[j] > w[i] => (Beats(r, T, j, i) => Beats(p, T, j, i))
  <2> SUFFICES ASSUME j # k, i # k, w[j] > w[i], Beats(r, T, j, i) PROVE Beats(p, T, j, i)
    OBVIOUS
  <2> DEFINE d == w[j] - w[i]
  <2>1. d \in Nat
    BY <1>4
  <2>2. w[j] * La = d * La + w[i] * La /\ w[j] * Lb = d * Lb + w[i] * Lb
    BY <1>1, <1>2, <1>4
  <2> HIDE DEF d
  <2>3. d * Lb <= d * La
    BY <1>1, <1>2, <1>3, <2>1, Product
  <2>4. p[j] = w[j] * La /\ p[i] = w[i] * La /\ r[j] = w[j] * Lb /\ r[i] = w[i] * Lb
    BY <1>1, <1>2
  <2>5. p[j] = d * La + p[i] /\ r[j] = d * Lb + r[i]
    BY <2>2, <2>4
  <2>6. d * La \in Int /\ d * Lb \in Int /\ p[i] \in Int /\ r[i] \in Int
    BY <1>1, <1>2, <2>1
  <2> QED BY <1>1, <2>3, <2>5, <2>6 DEF Beats
<1>10. j # k /\ i # k /\ w[j] <= w[i] => ~Beats(p, T, j, i) /\ ~Beats(r, T, j, i)
  <2> SUFFICES ASSUME j # k, i # k, w[j] <= w[i]
               PROVE  ~Beats(p, T, j, i) /\ ~Beats(r, T, j, i)
    OBVIOUS
  <2>1. La * w[j] <= La * w[i] /\ Lb * w[j] <= Lb * w[i]
    BY <1>1, <1>2, <1>4, Product
  <2>2. p[j] <= p[i] /\ r[j] <= r[i]
    BY <1>1, <1>2, <1>4, <2>1
  <2> QED BY <1>1, <1>2, <2>2 DEF Beats
<1> QED BY <1>7, <1>8, <1>9, <1>10 DEF p, r, T

\* What is the same at an offset is the same at every offset between it and the baseline.
LEMMA SameBetween ==
  ASSUME NEW D, NEW w \in [D -> 1 .. Unit - 1], NEW k \in D, NEW s \in Nat \ {0},
         NEW a, NEW b, Room(w[k], s, a), Room(w[k], s, b),
         (b <= a /\ a <= 0) \/ (0 <= a /\ a <= b),
         Same(w, k, s, b)
  PROVE  Same(w, k, s, a)
<1>1. Room(w[k], s, 0) /\ Same(w, k, s, 0)
  BY BaselineIsSame
<1> SUFFICES ASSUME NEW i \in D, NEW j \in D
             PROVE  Beats(Perturbed(w, k, a, s), Tolerance(w[k], s), j, i) <=> Beats(w, Eps, j, i)
  BY DEF Same
<1> DEFINE at(o) == Beats(Perturbed(w, k, o, s), Tolerance(w[k], s), j, i)
<1>2. (at(0) <=> Beats(w, Eps, j, i)) /\ (at(b) <=> Beats(w, Eps, j, i))
  BY <1>1 DEF Same
<1>3. ASSUME NEW x, NEW y, Room(w[k], s, x), Room(w[k], s, y), x <= y
      PROVE  /\ j = k => (at(x) => at(y))
             /\ j # k /\ (i = k \/ w[j] > w[i]) => (at(y) => at(x))
             /\ j # k /\ i # k /\ w[j] <= w[i] => ~at(x) /\ ~at(y)
  BY <1>3, ComparisonsAreMonotone
<1>4. w[i] \in Int /\ w[j] \in Int
  BY UnitAssumption
<1> HIDE DEF at
<1>5. CASE b <= a /\ a <= 0
  BY <1>1, <1>2, <1>3, <1>4, <1>5 DEF at
<1>6. CASE 0 <= a /\ a <= b
  BY <1>1, <1>2, <1>3, <1>4, <1>6 DEF at
<1> QED BY <1>5, <1>6

\* Those that come before the i-th.
Ahead(w, eps, i) == {j \in DOMAIN w : Beats(w, eps, j, i)}

LEMMA RankIsCardinality ==
  ASSUME NEW D, NEW w, DOMAIN w = D, NEW eps
  PROVE  Ranking(w, eps) = [i \in D |-> Cardinality(Ahead(w, eps, i))]
BY DEF Ranking, Ahead, Beats

LEMMA SameRanks ==
  ASSUME NEW D, NEW w \in [D -> 1 .. Unit - 1], NEW k \in D, NEW s \in Nat \ {0},
         NEW a, Room(w[k], s, a), Same(w, k, s, a)
  PROVE  Ranking(Perturbed(w, k, a, s), Tolerance(w[k], s)) = Ranking(w, Eps)
<1> DEFINE p == Perturbed(w, k, a, s)
           T == Tolerance(w[k], s)
<1>1. DOMAIN p = D
  BY DEF Perturbed
<1>2. \A i, j \in D : Beats(p, T, j, i) <=> Beats(w, Eps, j, i)
  BY DEF Same
<1> HIDE DEF p, T
<1>3. \A i \in D : Ahead(p, T, i) = Ahead(w, Eps, i)
  BY <1>1, <1>2 DEF Ahead
<1> QED BY <1>1, <1>3, RankIsCardinality DEF p, T

\* Of comparable sets that are equally large both are the same.
LEMMA EquallyMany ==
  ASSUME NEW D, IsFiniteSet(D), NEW A \in SUBSET D, NEW B \in SUBSET D,
         A \subseteq B \/ B \subseteq A, Cardinality(A) = Cardinality(B)
  PROVE  A = B
<1>1. IsFiniteSet(A) /\ IsFiniteSet(B)
  BY FS_Subset
<1> QED BY <1>1, FS_Subset

\* Where the ranking is the baseline's, every comparison is: two that change cannot make
\* up for each other if equal weights are the only ties.
LEMMA RanksAreSame ==
  ASSUME NEW D, IsFiniteSet(D), NEW w \in [D -> 1 .. Unit - 1], Apart(w),
         NEW k \in D, NEW s \in Nat \ {0}, NEW o, Room(w[k], s, o),
         Ranking(Perturbed(w, k, o, s), Tolerance(w[k], s)) = Ranking(w, Eps)
  PROVE  Same(w, k, s, o)
<1> DEFINE p == Perturbed(w, k, o, s)
           T == Tolerance(w[k], s)
<1>1. p \in [D -> Int] /\ T \in Nat \ {0} /\ w \in [D -> Int] /\ Eps \in Nat \ {0}
  BY PerturbedIs, UnitAssumption
<1>2. Room(w[k], s, 0) /\ Same(w, k, s, 0)
  BY BaselineIsSame
<1>3. \A i \in D : Cardinality(Ahead(p, T, i)) = Cardinality(Ahead(w, Eps, i))
  <2>1. DOMAIN p = D /\ DOMAIN w = D
    BY <1>1
  <2>2. [i \in D |-> Cardinality(Ahead(p, T, i))] = [i \in D |-> Cardinality(Ahead(w, Eps, i))]
    BY <2>1, RankIsCardinality
  <2> QED BY <2>2
<1>4. ASSUME NEW i \in D, Ahead(p, T, i) \subseteq Ahead(w, Eps, i) \/ Ahead(w, Eps, i) \subseteq Ahead(p, T, i)
      PROVE  \A j \in D : Beats(p, T, j, i) <=> Beats(w, Eps, j, i)
  <2>1. Ahead(p, T, i) \in SUBSET D /\ Ahead(w, Eps, i) \in SUBSET D
    BY <1>1 DEF Ahead
  <2>2. Ahead(p, T, i) = Ahead(w, Eps, i)
    BY <1>3, <1>4, <2>1, EquallyMany
  <2> QED BY <1>1, <2>2 DEF Ahead
<1>5. CASE o >= 0
  <2>1. ASSUME NEW i \in D, NEW j \in D
        PROVE  /\ j = k => (Beats(w, Eps, j, i) => Beats(p, T, j, i))
               /\ j # k => (Beats(p, T, j, i) => Beats(w, Eps, j, i))
    <3>1. Beats(Perturbed(w, k, 0, s), T, j, i) <=> Beats(w, Eps, j, i)
      BY <1>2 DEF Same
    <3>2. w[i] \in Int /\ w[j] \in Int /\ 0 <= o
      BY <1>1, <1>5
    <3> QED BY <1>2, <3>1, <3>2, ComparisonsAreMonotone
  <2>2. \A j \in D : Beats(p, T, j, k) <=> Beats(w, Eps, j, k)
    <3>1. ~Beats(p, T, k, k) /\ ~Beats(w, Eps, k, k)
      BY <1>1 DEF Beats
    <3>2. Ahead(p, T, k) \subseteq Ahead(w, Eps, k)
      BY <1>1, <2>1, <3>1 DEF Ahead
    <3> QED BY <1>4, <3>2
  <2>3. ASSUME NEW i \in D PROVE \A j \in D : Beats(p, T, j, i) <=> Beats(w, Eps, j, i)
    <3>1. CASE Beats(p, T, k, i) <=> Beats(w, Eps, k, i)
      <4>1. Ahead(p, T, i) \subseteq Ahead(w, Eps, i)
        BY <1>1, <2>1, <3>1 DEF Ahead
      <4> QED BY <1>4, <4>1
    <3>2. CASE Beats(p, T, k, i) /\ ~Beats(w, Eps, k, i)
      <4>1. ~Beats(p, T, i, k)
        BY <1>1, <3>2 DEF Beats
      <4>2. ~Beats(w, Eps, i, k)
        BY <2>2, <4>1
      <4>3. w[i] = w[k]
        BY <1>1, <3>2, <4>2 DEF Apart, Beats
      <4>4. ASSUME NEW j \in D, Beats(w, Eps, j, i) PROVE Beats(p, T, j, i)
        <5>1. Beats(p, T, j, k)
          BY <2>2, <4>3, <4>4 DEF Beats
        <5> QED BY <1>1, <3>2, <5>1 DEF Beats
      <4>5. Ahead(w, Eps, i) \subseteq Ahead(p, T, i)
        BY <1>1, <4>4 DEF Ahead
      <4> QED BY <1>4, <4>5
    <3> QED BY <2>1, <3>1, <3>2
  <2> QED BY <1>1, <2>3 DEF Same
<1>6. CASE o <= 0
  <2>1. ASSUME NEW i \in D, NEW j \in D
        PROVE  /\ j = k => (Beats(p, T, j, i) => Beats(w, Eps, j, i))
               /\ j # k => (Beats(w, Eps, j, i) => Beats(p, T, j, i))
               /\ j # k /\ i # k => (Beats(p, T, j, i) => Beats(w, Eps, j, i))
    <3>1. Beats(Perturbed(w, k, 0, s), T, j, i) <=> Beats(w, Eps, j, i)
      BY <1>2 DEF Same
    <3>2. w[i] \in Int /\ w[j] \in Int /\ o <= 0
      BY <1>1, <1>6
    <3>3. /\ j = k => (Beats(p, T, j, i) => Beats(w, Eps, j, i))
          /\ j # k /\ (i = k \/ w[j] > w[i]) => (Beats(w, Eps, j, i) => Beats(p, T, j, i))
          /\ j # k /\ i # k /\ w[j] <= w[i] => ~Beats(w, Eps, j, i) /\ ~Beats(p, T, j, i)
      BY <1>2, <3>1, <3>2, ComparisonsAreMonotone
    <3>4. w[j] > w[i] => Beats(w, Eps, j, i)
      BY <1>1 DEF Apart
    <3> QED BY <3>2, <3>3, <3>4
  <2>2. \A j \in D : Beats(p, T, j, k) <=> Beats(w, Eps, j, k)
    <3>1. ~Beats(p, T, k, k) /\ ~Beats(w, Eps, k, k)
      BY <1>1 DEF Beats
    <3>2. Ahead(w, Eps, k) \subseteq Ahead(p, T, k)
      BY <1>1, <2>1, <3>1 DEF Ahead
    <3> QED BY <1>4, <3>2
  <2>3. ASSUME NEW i \in D, i # k PROVE \A j \in D : Beats(p, T, j, i) <=> Beats(w, Eps, j, i)
    <3>1. Ahead(p, T, i) \subseteq Ahead(w, Eps, i)
      BY <1>1, <2>1, <2>3 DEF Ahead
    <3> QED BY <1>4, <3>1
  <2> QED BY <1>1, <2>2, <2>3 DEF Same
<1>7. o \in Int
  BY DEF Room
<1> QED BY <1>5, <1>6, <1>7

\* Offsets at which the ranking is the baseline's are contiguous, with the baseline among
\* them.
LEMMA StableIsContiguous ==
  ASSUME NEW D, IsFiniteSet(D), NEW w \in [D -> 1 .. Unit - 1], Apart(w),
         NEW k \in D, NEW s \in Nat \ {0}, NEW a, NEW b, Room(w[k], s, a), Room(w[k], s, b),
         (b <= a /\ a <= 0) \/ (0 <= a /\ a <= b),
         Ranking(Perturbed(w, k, b, s), Tolerance(w[k], s)) = Ranking(w, Eps)
  PROVE  Ranking(Perturbed(w, k, a, s), Tolerance(w[k], s)) = Ranking(w, Eps)
<1>1. Same(w, k, s, b)
  BY RanksAreSame
<1>2. Same(w, k, s, a)
  BY <1>1, SameBetween
<1> QED BY <1>2, SameRanks

LEMMA Extremes ==
  ASSUME NEW S \in SUBSET Int, NEW x \in S
  PROVE  /\ (\A y \in S : x <= y) => Min(S) = x
         /\ (\A y \in S : y <= x) => Max(S) = x
<1>1. ASSUME \A y \in S : x <= y PROVE Min(S) = x
  <2>1. PICK z : z = Min(S)
    OBVIOUS
  <2>2. z \in S /\ \A y \in S : z <= y
    BY <1>1, <2>1 DEF Min
  <2> QED BY <1>1, <2>1, <2>2
<1>2. ASSUME \A y \in S : y <= x PROVE Max(S) = x
  <2>1. PICK z : z = Max(S)
    OBVIOUS
  <2>2. z \in S /\ \A y \in S : z >= y
    BY <1>2, <2>1 DEF Max
  <2> QED BY <1>2, <2>1, <2>2
<1> QED BY <1>1, <1>2

\* Offsets of a sweep ascend, by the same step at the end as at the start.
Ascending(n, offsets) ==
  /\ offsets \in Seq(Int) /\ Len(offsets) = n
  /\ \A i, j \in 1 .. n : i <= j => offsets[i] <= offsets[j]
  /\ offsets[n] - (offsets[2] - offsets[1]) = offsets[n - 1]

\* Between the baseline and an offset with its ranking, rankings are the baseline's.
Contiguous(n, offsets, rankings, baseline) ==
  \A i, j \in 1 .. n :
    /\ rankings[i] = baseline
    /\ (offsets[i] <= offsets[j] /\ offsets[j] <= 0) \/ (0 <= offsets[j] /\ offsets[j] <= offsets[i])
    => rankings[j] = baseline

\* Scans that stop at the first difference are right where stable offsets are contiguous.
LEMMA IntervalCovers ==
  ASSUME NEW n \in Nat \ {0, 1}, NEW offsets, NEW rankings, NEW baseline,
         Ascending(n, offsets), Contiguous(n, offsets, rankings, baseline),
         NEW i \in 1 .. n, rankings[i] = baseline
  PROVE  LET interval == Interval(offsets, rankings, baseline) IN
           interval[1] <= 2 * offsets[i] /\ 2 * offsets[i] <= interval[2]
<1> DEFINE unstable == {m \in DOMAIN offsets : rankings[m] # baseline}
           below == {m \in unstable : \A j \in 1 .. m : offsets[j] <= 0}
           above == {m \in unstable : \A j \in m .. Len(offsets) : offsets[j] >= 0}
           step == offsets[2] - offsets[1]
           low == IF below = {} THEN 2 * offsets[1]
                  ELSE IF Min(below) = 1 THEN 2 * (offsets[1] + step)
                  ELSE offsets[Min(below) - 1] + offsets[Min(below)]
           high == IF above = {} THEN 2 * offsets[Len(offsets)]
                   ELSE IF Max(above) = Len(offsets) THEN 2 * (offsets[Len(offsets)] - step)
                   ELSE offsets[Max(above) + 1] + offsets[Max(above)]
<1>1. Interval(offsets, rankings, baseline) = <<low, high>>
  BY DEF Interval
<1>2. /\ DOMAIN offsets = 1 .. n /\ \A m \in 1 .. n : offsets[m] \in Int
      /\ unstable \subseteq 1 .. n /\ below \subseteq unstable /\ above \subseteq unstable
  BY DEF Ascending
<1> USE DEF Ascending, Contiguous
<1>3. low <= 2 * offsets[i]
  <2>1. CASE below = {}
    <3>1. offsets[1] <= offsets[i] /\ low = 2 * offsets[1]
      BY <2>1
    <3> HIDE DEF low
    <3> QED BY <1>2, <3>1
  <2>2. CASE below # {}
    <3>1. PICK m \in below : TRUE
      BY <2>2
    <3>2. m \in 1 .. n /\ rankings[m] # baseline /\ offsets[m] <= 0 /\ offsets[1] <= offsets[m]
      BY <1>2, <3>1
    <3>3. offsets[1] <= 0 /\ rankings[1] # baseline
      BY <1>2, <3>2
    <3>4. 1 \in below
      BY <1>2, <3>3
    <3>5. Min(below) = 1
      <4>1. below \in SUBSET Int /\ \A y \in below : 1 <= y
        BY <1>2
      <4> HIDE DEF below
      <4> QED BY <3>4, <4>1, Extremes
    <3>6. low = 2 * (offsets[1] + step)
      BY <2>2, <3>5
    <3>7. i # 1 /\ 2 \in 1 .. n /\ offsets[2] <= offsets[i]
      BY <3>3
    <3> HIDE DEF low
    <3> QED BY <1>2, <3>6, <3>7
  <2> QED BY <2>1, <2>2
<1>4. 2 * offsets[i] <= high
  <2>1. CASE above = {}
    <3>1. offsets[i] <= offsets[n] /\ high = 2 * offsets[n]
      BY <2>1
    <3> HIDE DEF high
    <3> QED BY <1>2, <3>1
  <2>2. CASE above # {}
    <3>1. PICK m \in above : TRUE
      BY <2>2
    <3>2. m \in 1 .. n /\ rankings[m] # baseline /\ offsets[m] >= 0 /\ offsets[m] <= offsets[n]
      BY <1>2, <3>1
    <3>3. offsets[n] >= 0 /\ rankings[n] # baseline
      BY <1>2, <3>2
    <3>4. n \in above
      BY <1>2, <3>3
    <3>5. Max(above) = n
      <4>1. above \in SUBSET Int /\ \A y \in above : y <= n
        BY <1>2
      <4> HIDE DEF above
      <4> QED BY <3>4, <4>1, Extremes
    <3>6. high = 2 * (offsets[n] - step)
      BY <2>2, <3>5
    <3>7. i # n /\ n - 1 \in 1 .. n /\ offsets[i] <= offsets[n - 1]
      BY <3>3
    <3> HIDE DEF high
    <3> QED BY <1>2, <3>6, <3>7
  <2> QED BY <2>1, <2>2
<1> HIDE DEF low, high
<1> QED BY <1>1, <1>3, <1>4

\* The offsets of a sweep.
LEMMA OffsetsAscend ==
  ASSUME NEW range, range[1] \in Int, range[2] \in Int, range[1] <= range[2], NEW steps \in Nat \ {0, 1}
  PROVE  Ascending(steps, Offsets(range, steps))
<1> DEFINE o == Offsets(range, steps)
           d == range[2] - range[1]
           first == (steps - 1) * range[1]
<1>1. o = [i \in 1 .. steps |-> first + (i - 1) * d]
  BY DEF Offsets
<1>2. d \in Nat /\ first \in Int
  OBVIOUS
<1> HIDE DEF o, d, first
<1>3. \A i \in 1 .. steps : first + (i - 1) * d \in Int
  BY <1>2
<1>4. o \in Seq(Int) /\ Len(o) = steps
  BY <1>1, <1>3
<1>5. ASSUME NEW i \in 1 .. steps, NEW j \in 1 .. steps, i <= j PROVE o[i] <= o[j]
  <2>1. d * (i - 1) <= d * (j - 1)
    BY <1>2, <1>5, Product
  <2>2. o[i] = first + (i - 1) * d /\ o[j] = first + (j - 1) * d
    BY <1>1
  <2> QED BY <1>2, <2>1, <2>2
<1>6. o[steps] - (o[2] - o[1]) = o[steps - 1]
  <2>1. /\ o[steps] = first + (steps - 1) * d /\ o[2] = first + 1 * d /\ o[1] = first + 0 * d
        /\ o[steps - 1] = first + (steps - 2) * d
    BY <1>1
  <2>2. (steps - 1) * d = (steps - 2) * d + d
    BY <1>2
  <2>3. 1 * d = d /\ 0 * d = 0 /\ (steps - 2) * d \in Int
    BY <1>2
  <2> QED BY <1>2, <2>1, <2>2, <2>3
<1> QED BY <1>4, <1>5, <1>6 DEF o, Ascending

\* A result whose interval leaves out no offset with the baseline's ranking.
Inside(r) ==
  Proper(r) =>
    \A i \in DOMAIN r.offsets :
      r.rankings[i] = Ranking(weights, Eps) =>
        r.interval[1] <= 2 * r.offsets[i] /\ 2 * r.offsets[i] <= r.interval[2]

LEMMA CriterionInside ==
  ASSUME NEW D, IsFiniteSet(D), weights \in [D -> 1 .. Unit - 1], Apart(weights), NEW k \in D,
         NEW range, NEW steps \in Nat \ {0, 1}, range[1] \in Int, range[2] \in Int
  PROVE  Inside(CriterionSensitivity(weights, k, range, steps))
<1> SUFFICES ASSUME NEW r, r = CriterionSensitivity(weights, k, range, steps) PROVE Inside(r)
  OBVIOUS
<1>0. PICK w : w = weights
  OBVIOUS
<1> DEFINE clamped == Clamp(w, k, range)
           o == Offsets(clamped, steps)
           s == steps - 1
           T == Tolerance(w[k], s)
           baseline == Ranking(w, Eps)
           rankings == [i \in DOMAIN o |-> Ranking(Perturbed(w, k, o[i], s), T)]
<1>1. w \in [D -> 1 .. Unit - 1] /\ Apart(w)
  BY <1>0
<1>2. /\ r.range = clamped /\ r.offsets = o
      /\ r.interval = Interval(o, r.rankings, baseline)
  BY <1>0 DEF CriterionSensitivity
<1>3. r.rankings = rankings
  <2>1. r.rankings = [i \in DOMAIN o |->
          Ranking([m \in DOMAIN o |-> Perturbed(w, k, o[m], s)][i], Eps * (steps - 1) * (Unit - w[k]))]
    BY <1>0 DEF CriterionSensitivity
  <2> HIDE DEF o
  <2>2. \A i \in DOMAIN o : [m \in DOMAIN o |-> Perturbed(w, k, o[m], s)][i] = Perturbed(w, k, o[i], s)
    OBVIOUS
  <2>3. T = Eps * (steps - 1) * (Unit - w[k])
    BY DEF Tolerance
  <2> QED BY <2>1, <2>2, <2>3
<1>4. /\ clamped[1] \in Int /\ clamped[1] >= Eps - w[k]
      /\ clamped[2] \in Int /\ clamped[2] <= Unit - w[k] - Eps
  BY <1>1, ClampBounds
<1>5. s \in Nat \ {0} /\ steps = s + 1 /\ w[k] \in 1 .. Unit - 1
  BY <1>1
<1> HIDE DEF clamped, s
<1> SUFFICES ASSUME clamped[1] <= clamped[2], NEW i \in 1 .. steps, rankings[i] = baseline
             PROVE  r.interval[1] <= 2 * o[i] /\ 2 * o[i] <= r.interval[2]
  <2>1. DOMAIN o = 1 .. steps
    BY DEF Offsets
  <2> HIDE DEF o, rankings, baseline
  <2> QED BY <1>0, <1>2, <1>3, <2>1 DEF Inside, Proper, baseline
<1>6. Ascending(steps, o) /\ \A m \in 1 .. steps : o[m] \in Int
  <2>1. Ascending(steps, o)
    BY <1>4, OffsetsAscend
  <2> HIDE DEF o
  <2> QED BY <2>1 DEF Ascending
<1>7. ASSUME NEW m \in 1 .. steps PROVE Room(w[k], s, o[m])
  <2>1. s * w[k] + o[m] \in Nat \ {0} /\ s * Unit - s * w[k] - o[m] \in Nat \ {0}
    BY <1>4, <1>5, OffsetBounds
  <2>2. o[m] \in Int
    BY <1>6
  <2> QED BY <2>1, <2>2 DEF Room
<1> HIDE DEF o
<1>8. \A m \in 1 .. steps : rankings[m] = Ranking(Perturbed(w, k, o[m], s), T)
  BY <1>6 DEF Ascending
<1>9. ASSUME NEW m \in 1 .. steps, NEW j \in 1 .. steps, rankings[m] = baseline,
             (o[m] <= o[j] /\ o[j] <= 0) \/ (0 <= o[j] /\ o[j] <= o[m])
      PROVE  rankings[j] = baseline
  BY <1>1, <1>5, <1>7, <1>8, <1>9, StableIsContiguous
<1> HIDE DEF rankings, baseline
<1>10. LET interval == Interval(o, rankings, baseline) IN
         interval[1] <= 2 * o[i] /\ 2 * o[i] <= interval[2]
  <2>1. Contiguous(steps, o, rankings, baseline)
    BY <1>9 DEF Contiguous
  <2> QED BY <1>6, <2>1, IntervalCovers
<1> QED BY <1>2, <1>3, <1>10

-------------------------------------------------------------------------------
(* Calls                                                                    *)

\* A matrix that passes has a row for each criterion and values of the scale only.
LEMMA ValidMatrix ==
  ASSUME NEW criteria, NEW matrix, AhpError(criteria, matrix) = {}
  PROVE  Len(criteria) = Len(matrix) /\ Entries(matrix) \subseteq DOMAIN Scale
<1>1. ASSUME Len(criteria) # Len(matrix) PROVE FALSE
  BY <1>1 DEF AhpError
<1>2. ASSUME ~(Entries(matrix) \subseteq DOMAIN Scale) PROVE FALSE
  BY <1>2 DEF AhpError
<1> QED BY <1>1, <1>2

LEMMA ValidSensitivity ==
  ASSUME NEW r, SensitivityError(r) = {}
  PROVE  /\ ~(Len(r.criteria) < 2)
         /\ ~(r.steps < MinSteps)
         /\ r.targets # None => ToSet(r.targets) \subseteq ToSet(r.criteria)
         /\ AhpError(r.criteria, r.matrix) = {}
<1>1. ASSUME Len(r.criteria) < 2 PROVE FALSE
  BY <1>1 DEF SensitivityError
<1>2. ASSUME r.steps < MinSteps PROVE FALSE
  BY <1>2 DEF SensitivityError
<1>3. ASSUME r.targets # None, ~(ToSet(r.targets) \subseteq ToSet(r.criteria)) PROVE FALSE
  BY <1>3 DEF SensitivityError
<1>4. ASSUME AhpError(r.criteria, r.matrix) # {} PROVE FALSE
  BY <1>4 DEF SensitivityError
<1> QED BY <1>1, <1>2, <1>3, <1>4

LEMMA SequenceIsFunction ==
  ASSUME NEW S, NEW v \in Seq(S)
  PROVE  v \in [1 .. Len(v) -> S]
OBVIOUS

LEMMA Appended ==
  ASSUME NEW S, NEW v \in Seq(S), NEW e
  PROVE  Append(v, e) \in Seq(S \cup {e}) /\ ToSet(Append(v, e)) = ToSet(v) \cup {e}
<1>1. Append(v, e) \in Seq(S \cup {e}) /\ DOMAIN Append(v, e) = 1 .. Len(v) + 1 /\ DOMAIN v = 1 .. Len(v)
  OBVIOUS
<1>2. Append(v, e)[Len(v) + 1] = e /\ \A i \in 1 .. Len(v) : Append(v, e)[i] = v[i]
  OBVIOUS
<1>3. 1 .. Len(v) + 1 = (1 .. Len(v)) \cup {Len(v) + 1}
  OBVIOUS
<1> HIDE DEF ToSet
<1> QED BY <1>1, <1>2, <1>3 DEF ToSet

LEMMA WeightsAreProper ==
  ASSUME NEW r \in Requests, r.tool = "sensitivity", SensitivityError(r) = {}, NEW v \in Priorities(r.matrix)
  PROVE  v \in [DOMAIN r.criteria -> 1 .. Unit - 1]
<1> DEFINE n == Len(r.criteria)
<1>1. r.criteria \in Seq(STRING) /\ n \in Nat /\ n >= 2 /\ DOMAIN r.criteria = 1 .. n
  BY RequestsAssumption, ValidSensitivity DEF SensitivityInput
<1>2. Len(r.matrix) = n /\ Entries(r.matrix) \subseteq DOMAIN Scale
  BY ValidSensitivity, ValidMatrix
<1> HIDE DEF n
<1>3. CASE n = 2
  <2> DEFINE a == Scale[r.matrix[1][2]]
  <2>1. r.matrix[1][2] \in {"one", "three", "third", "nine", "ninth"}
    BY <1>2, <1>3 DEF Scale, Entries
  <2>2. a \in {<<1, 1>>, <<3, 1>>, <<1, 3>>, <<9, 1>>, <<1, 9>>}
    BY <2>1 DEF Scale
  <2>3. v = <<(Unit * a[1]) \div (a[1] + a[2]), (Unit * a[2]) \div (a[1] + a[2])>>
    BY <1>2, <1>3 DEF Priorities
  <2> HIDE DEF a
  <2>4. v[1] \in 1 .. Unit - 1 /\ v[2] \in 1 .. Unit - 1 /\ v = <<v[1], v[2]>>
    BY <2>2, <2>3, UnitAssumption
  <2> QED BY <1>1, <1>3, <2>4
<1>4. CASE n # 2
  <2>1. v \in Vectors /\ Len(v) = n
    <3>1. Len(r.matrix) # 1 /\ Len(r.matrix) # 2
      BY <1>1, <1>2, <1>4
    <3>2. Priorities(r.matrix) = {u \in Vectors : Len(u) = Len(r.matrix)}
      BY <3>1, Zenon DEF Priorities
    <3> QED BY <1>2, <3>2
  <2>2. v \in Seq(1 .. Unit - 1)
    BY <2>1, VectorsAssumption
  <2>3. v \in [1 .. n -> 1 .. Unit - 1]
    BY <2>1, <2>2, SequenceIsFunction
  <2> QED BY <1>1, <2>3
<1> QED BY <1>3, <1>4

LEMMA PositionOfTarget ==
  ASSUME NEW r \in Requests, r.tool = "sensitivity", SensitivityError(r) = {}, NEW i \in 1 .. Len(Targets(r))
  PROVE  Position(r, Targets(r)[i]) \in DOMAIN r.criteria
<1>1. r.criteria \in Seq(STRING) /\ (r.targets = None \/ r.targets \in Seq(STRING))
  BY RequestsAssumption DEF SensitivityInput
<1>2. Targets(r)[i] \in ToSet(Targets(r))
  BY <1>1 DEF Targets, ToSet
<1>3. ToSet(Targets(r)) \subseteq ToSet(r.criteria)
  BY ValidSensitivity DEF Targets
<1> QED BY <1>2, <1>3 DEF Position, ToSet

LEMMA InitIInv == Init => IInv
<1> SUFFICES ASSUME Init PROVE IInv
  OBVIOUS
<1>1. results \in Seq({}) /\ ToSet(results) = {}
  BY DEF Init, ToSet
<1> QED BY <1>1 DEF Init, IInv, SweepIsSound, NothingSwept, SweepIsAdmissible, Swept

\* What neither changes results nor weights, nor goes back to a sweep, keeps the invariant.
LEMMA EndIInv ==
  ASSUME IInv, stage' \notin {"asked", "weighed"},
         request' = request, weights' = weights,
         request.tool = "sensitivity" => results' = results
  PROVE  IInv'
BY DEF IInv, SweepIsSound, NothingSwept, SweepIsAdmissible, Swept, Admissible

LEMMA StepIInv == IInv /\ [Next]_vars => IInv'
<1> SUFFICES ASSUME IInv, [Next]_vars PROVE IInv'
  OBVIOUS
<1>1. CASE Refuse
  BY <1>1, EndIInv DEF Refuse
<1>2. CASE NoVector
  BY <1>2, EndIInv DEF NoVector
<1>3. CASE Weigh
  <2>1. request' = request /\ results' = results /\ results = <<>> /\ stage' \in {"done", "weighed"}
    BY <1>3 DEF Weigh, IInv, NothingSwept
  <2>2. ToSet(results') = {}
    BY <2>1 DEF ToSet
  <2>3. ASSUME stage' = "weighed" PROVE SweepIsSound'
    <3>1. request.tool = "sensitivity"
      BY <2>3, <1>3, RequestsAssumption DEF Weigh, IInv, SensitivityInput
    <3>2. SensitivityError(request) = {} /\ weights' \in Priorities(request.matrix)
      BY <3>1, <1>3 DEF Weigh, ErrorOf
    <3>3. weights' \in [DOMAIN request.criteria -> 1 .. Unit - 1]
      BY <3>1, <3>2, WeightsAreProper DEF IInv
    <3> QED BY <2>1, <3>1, <3>2, <3>3 DEF SweepIsSound
  <2> QED BY <2>1, <2>2, <2>3 DEF IInv, SweepIsSound, NothingSwept, SweepIsAdmissible, Swept
<1>4. CASE Sweep
  <2> DEFINE k == Position(request, Targets(request)[Len(results) + 1])
             result == CriterionSensitivity(weights, k, request.range, request.steps)
  <2>1. /\ stage = "weighed" /\ Len(results) < Len(Targets(request))
        /\ results' = Append(results, result)
        /\ request' = request /\ stage' = stage /\ weights' = weights
    BY <1>4 DEF Sweep
  <2>2. /\ request \in Requests /\ request.tool = "sensitivity" /\ SensitivityError(request) = {}
        /\ weights \in [DOMAIN request.criteria -> 1 .. Unit - 1]
    BY <2>1 DEF IInv, SweepIsSound
  <2>3. PICK S : results \in Seq(S)
    BY <2>2 DEF IInv
  <2>4. Len(results) + 1 \in 1 .. Len(Targets(request))
    <3>1. Len(Targets(request)) \in Nat /\ Len(results) \in Nat
      BY <2>2, <2>3, RequestsAssumption DEF Targets, SensitivityInput
    <3> QED BY <2>1, <3>1
  <2>5. k \in DOMAIN request.criteria
    BY <2>2, <2>4, PositionOfTarget
  <2>6. request.steps \in Nat \ {0, 1} /\ request.range[1] \in Int /\ request.range[2] \in Int
    BY <2>2, ValidSensitivity, RequestsAssumption, StepsAssumption DEF SensitivityInput
  <2>7. Admissible(result)
    BY <2>2, <2>5, <2>6, CriterionAdmissible
  <2> HIDE DEF result, k
  <2>8. results' \in Seq(S \cup {result}) /\ ToSet(results') = ToSet(results) \cup {result}
    BY <2>1, <2>3, Appended
  <2>9. \A r : Admissible(r) => Admissible(r)'
    BY <2>1 DEF Admissible
  <2>10. SweepIsAdmissible'
    BY <2>1, <2>2, <2>7, <2>8, <2>9 DEF IInv, SweepIsAdmissible, Swept
  <2> QED BY <2>1, <2>2, <2>8, <2>10 DEF IInv, SweepIsSound, NothingSwept
<1>5. CASE EndSweep
  BY <1>5, EndIInv DEF EndSweep
<1>6. CASE ScoreUnits
  BY <1>6, EndIInv DEF ScoreUnits
<1>7. CASE BuildOutput
  BY <1>7, EndIInv DEF BuildOutput
<1>8. CASE UNCHANGED vars
  BY <1>8 DEF vars, IInv, SweepIsSound, NothingSwept, SweepIsAdmissible, Swept, Admissible
<1> QED BY <1>1, <1>2, <1>3, <1>4, <1>5, <1>6, <1>7, <1>8 DEF Next

LEMMA Invariance == Spec => []IInv
BY InitIInv, StepIInv, PTL DEF Spec

\* Wherever the clamp leaves a range, a sweep tries positive weights only, and the weights
\* it does not move keep their ratios (_clamp_perturbation_range and _perturb_weights_oat,
\* sensitivity.py:170-221, for the baseline of any matrix that validates).
THEOREM SweepsAreAdmissible == Spec => []SweepIsAdmissible
<1>1. IInv => SweepIsAdmissible
  BY DEF IInv
<1> QED BY Invariance, <1>1, PTL

\* What the swept results have to show, where equal weights are the only ties.
StableIfApart == Apart(weights) => \A r \in Swept : Inside(r)

LEMMA StepStableIfApart == IInv /\ StableIfApart /\ [Next]_vars => StableIfApart'
<1> SUFFICES ASSUME IInv, StableIfApart, [Next]_vars PROVE StableIfApart'
  OBVIOUS
<1>1. CASE Sweep
  <2> DEFINE k == Position(request, Targets(request)[Len(results) + 1])
             result == CriterionSensitivity(weights, k, request.range, request.steps)
  <2>1. /\ stage = "weighed" /\ Len(results) < Len(Targets(request))
        /\ results' = Append(results, result)
        /\ request' = request /\ weights' = weights
    BY <1>1 DEF Sweep
  <2>2. /\ request \in Requests /\ request.tool = "sensitivity" /\ SensitivityError(request) = {}
        /\ weights \in [DOMAIN request.criteria -> 1 .. Unit - 1]
    BY <2>1 DEF IInv, SweepIsSound
  <2>3. PICK S : results \in Seq(S)
    BY <2>2 DEF IInv
  <2>4. Len(results) + 1 \in 1 .. Len(Targets(request))
    <3>1. Len(Targets(request)) \in Nat /\ Len(results) \in Nat
      BY <2>2, <2>3, RequestsAssumption DEF Targets, SensitivityInput
    <3> QED BY <2>1, <3>1
  <2>5. k \in DOMAIN request.criteria
    BY <2>2, <2>4, PositionOfTarget
  <2>6. request.steps \in Nat \ {0, 1} /\ request.range[1] \in Int /\ request.range[2] \in Int
    BY <2>2, ValidSensitivity, RequestsAssumption, StepsAssumption DEF SensitivityInput
  <2>7. IsFiniteSet(DOMAIN request.criteria)
    <3>1. PICK n \in Nat : DOMAIN request.criteria = 1 .. n
      BY <2>2, RequestsAssumption DEF SensitivityInput
    <3> QED BY <3>1, FS_Interval
  <2>8. Apart(weights) => Inside(result)
    BY <2>2, <2>5, <2>6, <2>7, CriterionInside
  <2> HIDE DEF result, k
  <2>9. ToSet(results') = ToSet(results) \cup {result}
    BY <2>1, <2>3, Appended
  <2>10. \A r : Inside(r) => Inside(r)'
    BY <2>1 DEF Inside
  <2> QED BY <2>1, <2>2, <2>8, <2>9, <2>10 DEF StableIfApart, Swept
<1>2. CASE Weigh
  <2>1. results' = <<>>
    BY <1>2 DEF Weigh, IInv, NothingSwept
  <2>2. ToSet(results') = {}
    BY <2>1 DEF ToSet
  <2> QED BY <2>2 DEF StableIfApart, Swept
<1>3. CASE /\ request' = request /\ weights' = weights
           /\ request.tool = "sensitivity" => results' = results
  <2>1. \A r : Inside(r) => Inside(r)'
    BY <1>3 DEF Inside
  <2>2. Swept' = Swept
    BY <1>3 DEF Swept
  <2> QED BY <1>3, <2>1, <2>2 DEF StableIfApart
<1> QED BY <1>1, <1>2, <1>3 DEF Next, Refuse, NoVector, EndSweep, ScoreUnits, BuildOutput, vars

\* Where no two weights differ by the tolerance or less without being equal, the interval
\* leaves out no swept offset at which the ranking is the baseline's: such offsets are
\* contiguous, which the scans of _compute_stability_interval take for granted
\* (sensitivity.py:224-273).
THEOREM IntervalsCoverStableOffsets == Spec => [](Apart(weights) => StableStaysInside)
<1>1. Init => StableIfApart
  <2> SUFFICES ASSUME Init PROVE StableIfApart
    OBVIOUS
  <2>1. ToSet(results) = {}
    BY DEF Init, ToSet
  <2> QED BY <2>1 DEF StableIfApart, Swept
<1>2. StableIfApart => (Apart(weights) => StableStaysInside)
  BY DEF StableIfApart, StableStaysInside, Inside
<1> QED BY Invariance, StepStableIfApart, <1>1, <1>2, PTL DEF Spec

-------------------------------------------------------------------------------
(* Sums and products, by induction over their length                         *)

LEMMA LeastNatural ==
  ASSUME NEW T \in SUBSET Nat, T # {}
  PROVE  \E n \in T : \A m \in T : n <= m
<1> DEFINE R == OpToRel(<, Nat)
<1>1. IsWellFoundedOn(R, Nat)
  BY NatLessThanWellFounded
<1>2. \A m, n \in Nat : m < n => <<m, n>> \in R
  BY DEF OpToRel
<1> HIDE DEF R
<1>3. PICK x \in T : \A y \in T : ~ (<<y, x>> \in R)
  BY <1>1, WFMin
<1>4. ASSUME NEW y \in T PROVE x <= y
  <2>1. x \in Nat /\ y \in Nat /\ ~(<<y, x>> \in R)
    BY <1>3
  <2>2. ~(y < x)
    BY <1>2, <2>1
  <2> QED BY <2>1, <2>2
<1> QED BY <1>3, <1>4

\* Induction over the elements of a set instead of an operator.
LEMMA SetInduction ==
  ASSUME NEW T, 0 \in T, \A n \in Nat : n \in T => n + 1 \in T
  PROVE  Nat \subseteq T
<1> SUFFICES ASSUME Nat \ T # {} PROVE FALSE
  OBVIOUS
<1>1. PICK n \in Nat \ T : \A m \in Nat \ T : n <= m
  BY LeastNatural
<1>2. PICK p \in Nat : p + 1 = n
  <2>1. n # 0 /\ n - 1 \in Nat /\ (n - 1) + 1 = n
    BY <1>1
  <2> QED BY <2>1
<1>3. p \in T
  BY <1>1, <1>2
<1>4. p + 1 \in T
  BY <1>3
<1> QED BY <1>1, <1>2, <1>4


\* The partial sums of a sequence, of the first m of its elements.
PartialSums(f, m, numbers) ==
  /\ f \in [0 .. m -> Int]
  /\ f[0] = 0
  /\ \A i \in 1 .. m : f[i] = f[i - 1] + numbers[i]

LEMMA SumIsLast ==
  ASSUME NEW numbers \in Seq(Int)
  PROVE  \E f : PartialSums(f, Len(numbers), numbers) /\ SumOf(numbers) = f[Len(numbers)]
<1> DEFINE n == Len(numbers)
           T == {m \in Nat : m <= n => \E f : PartialSums(f, m, numbers)}
<1>1. n \in Nat /\ \A i \in 1 .. n : numbers[i] \in Int
  OBVIOUS
<1> HIDE DEF n
<1>2. 0 \in T
  <2>1. PICK f : f = [i \in 0 .. 0 |-> 0]
    OBVIOUS
  <2>2. PartialSums(f, 0, numbers)
    BY <2>1 DEF PartialSums
  <2> QED BY <2>2
<1>3. ASSUME NEW m \in Nat, m \in T PROVE m + 1 \in T
  <2> SUFFICES ASSUME m + 1 <= n
               PROVE  \E f : PartialSums(f, m + 1, numbers)
    OBVIOUS
  <2>0. PICK f : PartialSums(f, m, numbers)
    BY <1>1, <1>3
  <2>1. f \in [0 .. m -> Int] /\ f[0] = 0 /\ \A i \in 1 .. m : f[i] = f[i - 1] + numbers[i]
    BY <2>0 DEF PartialSums
  <2>2. PICK g : g = [i \in 0 .. m + 1 |-> IF i = m + 1 THEN f[m] + numbers[m + 1] ELSE f[i]]
    OBVIOUS
  <2>3. f[m] + numbers[m + 1] \in Int
    BY <1>1, <2>1
  <2>4. g \in [0 .. m + 1 -> Int]
    BY <2>1, <2>2, <2>3
  <2>5. g[0] = 0
    BY <2>1, <2>2
  <2>6. ASSUME NEW i \in 1 .. m + 1 PROVE g[i] = g[i - 1] + numbers[i]
    <3>1. CASE i = m + 1
      BY <2>2, <3>1
    <3>2. CASE i # m + 1
      BY <2>1, <2>2, <3>2
    <3> QED BY <3>1, <3>2
  <2> QED BY <2>4, <2>5, <2>6 DEF PartialSums
<1>4. n \in T
  <2> HIDE DEF T
  <2>1. Nat \subseteq T
    BY <1>2, <1>3, SetInduction
  <2> QED BY <1>1, <2>1
<1>a. PICK f : PartialSums(f, n, numbers)
  <2>1. n <= n => \E f : PartialSums(f, n, numbers)
    BY <1>4
  <2> QED BY <1>1, <2>1
<1>5. f \in [0 .. n -> Int] /\ f[0] = 0 /\ \A i \in 1 .. n : f[i] = f[i - 1] + numbers[i]
  BY <1>a DEF PartialSums
<1> DEFINE last == CHOOSE g : g = [i \in 0 .. n |-> IF i = 0 THEN 0 ELSE g[i - 1] + numbers[i]]
<1>6. SumOf(numbers) = last[n]
  BY DEF SumOf, n
<1>7. f = [i \in 0 .. n |-> IF i = 0 THEN 0 ELSE f[i - 1] + numbers[i]]
  BY <1>1, <1>5
<1>8. last = [i \in 0 .. n |-> IF i = 0 THEN 0 ELSE last[i - 1] + numbers[i]]
  BY <1>7
<1> HIDE DEF last
<1>9. PartialSums(last, n, numbers)
  <2> DEFINE U == {m \in Nat : m <= n => last[m] = f[m]}
  <2>1. 0 \in U
    BY <1>1, <1>5, <1>8
  <2>2. ASSUME NEW m \in Nat, m \in U PROVE m + 1 \in U
    <3> SUFFICES ASSUME m + 1 <= n PROVE last[m + 1] = f[m + 1]
      OBVIOUS
    <3>1. last[m + 1] = last[m] + numbers[m + 1]
      BY <1>1, <1>8
    <3>2. f[m + 1] = f[m] + numbers[m + 1]
      BY <1>1, <1>5
    <3> QED BY <1>1, <2>2, <3>1, <3>2
  <2> HIDE DEF U
  <2>3. Nat \subseteq U
    BY <2>1, <2>2, SetInduction
  <2>4. \A m \in 0 .. n : last[m] = f[m]
    BY <1>1, <2>3 DEF U
  <2>5. last = f
    BY <1>5, <1>8, <2>4
  <2> QED BY <1>5, <2>5 DEF PartialSums
<1> QED BY <1>6, <1>9 DEF n

\* The partial products of a sequence, of the first m of its elements.
PartialProducts(f, m, numbers) ==
  /\ f \in [0 .. m -> Int]
  /\ f[0] = 1
  /\ \A i \in 1 .. m : f[i] = f[i - 1] * numbers[i]

LEMMA ProductIsLast ==
  ASSUME NEW numbers \in Seq(Int)
  PROVE  \E f : PartialProducts(f, Len(numbers), numbers) /\ ProductOf(numbers) = f[Len(numbers)]
<1> DEFINE n == Len(numbers)
           T == {m \in Nat : m <= n => \E f : PartialProducts(f, m, numbers)}
<1>1. n \in Nat /\ \A i \in 1 .. n : numbers[i] \in Int
  OBVIOUS
<1> HIDE DEF n
<1>2. 0 \in T
  <2>1. PICK f : f = [i \in 0 .. 0 |-> 1]
    OBVIOUS
  <2>2. PartialProducts(f, 0, numbers)
    BY <2>1 DEF PartialProducts
  <2> QED BY <2>2
<1>3. ASSUME NEW m \in Nat, m \in T PROVE m + 1 \in T
  <2> SUFFICES ASSUME m + 1 <= n
               PROVE  \E f : PartialProducts(f, m + 1, numbers)
    OBVIOUS
  <2>0. PICK f : PartialProducts(f, m, numbers)
    BY <1>1, <1>3
  <2>1. f \in [0 .. m -> Int] /\ f[0] = 1 /\ \A i \in 1 .. m : f[i] = f[i - 1] * numbers[i]
    BY <2>0 DEF PartialProducts
  <2>2. PICK g : g = [i \in 0 .. m + 1 |-> IF i = m + 1 THEN f[m] * numbers[m + 1] ELSE f[i]]
    OBVIOUS
  <2>3. f[m] * numbers[m + 1] \in Int
    BY <1>1, <2>1
  <2>4. g \in [0 .. m + 1 -> Int]
    BY <2>1, <2>2, <2>3
  <2>5. g[0] = 1
    BY <2>1, <2>2
  <2>6. ASSUME NEW i \in 1 .. m + 1 PROVE g[i] = g[i - 1] * numbers[i]
    <3>1. CASE i = m + 1
      BY <2>2, <3>1
    <3>2. CASE i # m + 1
      BY <2>1, <2>2, <3>2
    <3> QED BY <3>1, <3>2
  <2> QED BY <2>4, <2>5, <2>6 DEF PartialProducts
<1>4. n \in T
  <2> HIDE DEF T
  <2>1. Nat \subseteq T
    BY <1>2, <1>3, SetInduction
  <2> QED BY <1>1, <2>1
<1>a. PICK f : PartialProducts(f, n, numbers)
  <2>1. n <= n => \E f : PartialProducts(f, n, numbers)
    BY <1>4
  <2> QED BY <1>1, <2>1
<1>5. f \in [0 .. n -> Int] /\ f[0] = 1 /\ \A i \in 1 .. n : f[i] = f[i - 1] * numbers[i]
  BY <1>a DEF PartialProducts
<1> DEFINE last == CHOOSE g : g = [i \in 0 .. n |-> IF i = 0 THEN 1 ELSE g[i - 1] * numbers[i]]
<1>6. ProductOf(numbers) = last[n]
  BY DEF ProductOf, n
<1>7. f = [i \in 0 .. n |-> IF i = 0 THEN 1 ELSE f[i - 1] * numbers[i]]
  BY <1>1, <1>5
<1>8. last = [i \in 0 .. n |-> IF i = 0 THEN 1 ELSE last[i - 1] * numbers[i]]
  BY <1>7
<1> HIDE DEF last
<1>9. PartialProducts(last, n, numbers)
  <2> DEFINE U == {m \in Nat : m <= n => last[m] = f[m]}
  <2>1. 0 \in U
    BY <1>1, <1>5, <1>8
  <2>2. ASSUME NEW m \in Nat, m \in U PROVE m + 1 \in U
    <3> SUFFICES ASSUME m + 1 <= n PROVE last[m + 1] = f[m + 1]
      OBVIOUS
    <3>1. last[m + 1] = last[m] * numbers[m + 1]
      BY <1>1, <1>8
    <3>2. f[m + 1] = f[m] * numbers[m + 1]
      BY <1>1, <1>5
    <3> QED BY <1>1, <2>2, <3>1, <3>2
  <2> HIDE DEF U
  <2>3. Nat \subseteq U
    BY <2>1, <2>2, SetInduction
  <2>4. \A m \in 0 .. n : last[m] = f[m]
    BY <1>1, <2>3 DEF U
  <2>5. last = f
    BY <1>5, <1>8, <2>4
  <2> QED BY <1>5, <2>5 DEF PartialProducts
<1> QED BY <1>6, <1>9 DEF n

LEMMA SumsCompare ==
  ASSUME NEW a \in Seq(Int), NEW b \in Seq(Int), Len(a) = Len(b), \A i \in 1 .. Len(a) : a[i] <= b[i]
  PROVE  SumOf(a) \in Int /\ SumOf(b) \in Int /\ SumOf(a) <= SumOf(b)
<1>1. PICK n \in Nat : n = Len(a) /\ n = Len(b)
  OBVIOUS
<1>2. PICK f : PartialSums(f, n, a) /\ SumOf(a) = f[n]
  BY <1>1, SumIsLast
<1>3. PICK g : PartialSums(g, n, b) /\ SumOf(b) = g[n]
  BY <1>1, SumIsLast
<1>4. \A i \in 0 .. n : f[i] \in Int /\ g[i] \in Int
  BY <1>2, <1>3 DEF PartialSums
<1> DEFINE T == {m \in Nat : m <= n => f[m] <= g[m]}
<1>5. 0 \in T
  BY <1>2, <1>3 DEF PartialSums
<1>6. ASSUME NEW m \in Nat, m \in T PROVE m + 1 \in T
  <2> SUFFICES ASSUME m + 1 <= n PROVE f[m + 1] <= g[m + 1]
    OBVIOUS
  <2>1. PICK i \in 1 .. n : i = m + 1 /\ i - 1 = m
    BY <1>1
  <2>2. f[i] = f[m] + a[i] /\ g[i] = g[m] + b[i]
    BY <1>2, <1>3, <2>1 DEF PartialSums
  <2>3. f[m] \in Int /\ g[m] \in Int /\ f[m] <= g[m]
    BY <1>1, <1>4, <1>6, <2>1
  <2>4. a[i] \in Int /\ b[i] \in Int /\ a[i] <= b[i]
    BY <1>1
  <2>5. f[m] + a[i] <= g[m] + b[i]
    BY <2>3, <2>4
  <2> QED BY <2>1, <2>2, <2>5
<1> HIDE DEF T
<1>7. Nat \subseteq T
  BY <1>5, <1>6, SetInduction
<1>8. f[n] <= g[n] /\ n \in 0 .. n
  BY <1>1, <1>7 DEF T
<1> QED BY <1>2, <1>3, <1>4, <1>8

LEMMA SumsScale ==
  ASSUME NEW a \in Seq(Int), NEW b \in Seq(Int), NEW c \in Int,
         Len(a) = Len(b), \A i \in 1 .. Len(a) : b[i] = a[i] * c
  PROVE  SumOf(a) \in Int /\ SumOf(b) = SumOf(a) * c
<1>1. PICK n \in Nat : n = Len(a) /\ n = Len(b)
  OBVIOUS
<1>2. PICK f : PartialSums(f, n, a) /\ SumOf(a) = f[n]
  BY <1>1, SumIsLast
<1>3. PICK g : PartialSums(g, n, b) /\ SumOf(b) = g[n]
  BY <1>1, SumIsLast
<1>4. \A i \in 0 .. n : f[i] \in Int /\ g[i] \in Int
  BY <1>2, <1>3 DEF PartialSums
<1> DEFINE T == {m \in Nat : m <= n => g[m] = f[m] * c}
<1>5. 0 \in T
  BY <1>2, <1>3 DEF PartialSums
<1>6. ASSUME NEW m \in Nat, m \in T PROVE m + 1 \in T
  <2> SUFFICES ASSUME m + 1 <= n PROVE g[m + 1] = f[m + 1] * c
    OBVIOUS
  <2>1. PICK i \in 1 .. n : i = m + 1 /\ i - 1 = m
    BY <1>1
  <2>2. f[i] = f[m] + a[i] /\ g[i] = g[m] + b[i]
    BY <1>2, <1>3, <2>1 DEF PartialSums
  <2>3. f[m] \in Int /\ g[m] = f[m] * c
    BY <1>1, <1>4, <1>6, <2>1
  <2>4. a[i] \in Int /\ b[i] = a[i] * c
    BY <1>1
  <2>5. g[m] + b[i] = (f[m] + a[i]) * c
    BY <2>3, <2>4
  <2> QED BY <2>1, <2>2, <2>5
<1> HIDE DEF T
<1>7. Nat \subseteq T
  BY <1>5, <1>6, SetInduction
<1>8. g[n] = f[n] * c /\ n \in 0 .. n
  BY <1>1, <1>7 DEF T
<1> QED BY <1>2, <1>3, <1>4, <1>8

LEMMA ProductsArePositive ==
  ASSUME NEW a \in Seq(Int), \A i \in 1 .. Len(a) : a[i] > 0
  PROVE  ProductOf(a) \in Nat \ {0}
<1>1. PICK n \in Nat : n = Len(a)
  OBVIOUS
<1>2. PICK f : PartialProducts(f, n, a) /\ ProductOf(a) = f[n]
  BY <1>1, ProductIsLast
<1>3. \A i \in 0 .. n : f[i] \in Int
  BY <1>2 DEF PartialProducts
<1> DEFINE T == {m \in Nat : m <= n => f[m] > 0}
<1>5. 0 \in T
  BY <1>2 DEF PartialProducts
<1>6. ASSUME NEW m \in Nat, m \in T PROVE m + 1 \in T
  <2> SUFFICES ASSUME m + 1 <= n PROVE f[m + 1] > 0
    OBVIOUS
  <2>1. PICK i \in 1 .. n : i = m + 1 /\ i - 1 = m
    BY <1>1
  <2>2. f[i] = f[m] * a[i]
    BY <1>2, <2>1 DEF PartialProducts
  <2>3. f[m] \in Int /\ f[m] > 0
    BY <1>1, <1>3, <1>6, <2>1
  <2>4. a[i] \in Int /\ a[i] > 0
    BY <1>1
  <2>5. f[m] * a[i] > 0
    BY <2>3, <2>4
  <2> QED BY <2>1, <2>2, <2>5
<1> HIDE DEF T
<1>7. Nat \subseteq T
  BY <1>5, <1>6, SetInduction
<1>8. f[n] > 0 /\ n \in 0 .. n
  BY <1>1, <1>7 DEF T
<1> QED BY <1>2, <1>3, <1>8

\* A factor can be taken out.
LEMMA ProductsFactor ==
  ASSUME NEW a \in Seq(Int), NEW k \in 1 .. Len(a)
  PROVE  ProductOf([a EXCEPT ![k] = 1]) \in Int /\ ProductOf(a) = a[k] * ProductOf([a EXCEPT ![k] = 1])
<1>1. PICK n \in Nat : n = Len(a)
  OBVIOUS
<1>2. PICK b : b = [a EXCEPT ![k] = 1]
  OBVIOUS
<1>3. b \in Seq(Int) /\ Len(b) = n /\ b[k] = 1 /\ \A i \in 1 .. n : i # k => b[i] = a[i]
  BY <1>1, <1>2
<1>4. PICK f : PartialProducts(f, n, a) /\ ProductOf(a) = f[n]
  BY <1>1, ProductIsLast
<1>5. PICK g : PartialProducts(g, n, b) /\ ProductOf(b) = g[n]
  BY <1>3, ProductIsLast
<1>6. \A i \in 0 .. n : f[i] \in Int /\ g[i] \in Int
  BY <1>4, <1>5 DEF PartialProducts
<1>7. a[k] \in Int /\ k \in 1 .. n
  BY <1>1
<1> DEFINE T == {m \in Nat : m <= n => /\ m < k => f[m] = g[m]
                                       /\ m >= k => f[m] = a[k] * g[m]}
<1>8. 0 \in T
  BY <1>4, <1>5, <1>7 DEF PartialProducts
<1>9. ASSUME NEW m \in Nat, m \in T PROVE m + 1 \in T
  <2> SUFFICES ASSUME m + 1 <= n
               PROVE  /\ m + 1 < k => f[m + 1] = g[m + 1]
                      /\ m + 1 >= k => f[m + 1] = a[k] * g[m + 1]
    OBVIOUS
  <2>1. PICK i \in 1 .. n : i = m + 1 /\ i - 1 = m
    BY <1>1
  <2>2. f[i] = f[m] * a[i] /\ g[i] = g[m] * b[i]
    BY <1>4, <1>5, <2>1 DEF PartialProducts
  <2>3. f[m] \in Int /\ g[m] \in Int /\ a[i] \in Int /\ b[i] \in Int
    BY <1>1, <1>3, <1>6, <2>1
  <2>4. (m < k => f[m] = g[m]) /\ (m >= k => f[m] = a[k] * g[m])
    BY <1>9, <2>1
  <2>5. CASE i < k
    BY <1>3, <1>7, <2>1, <2>2, <2>4, <2>5
  <2>6. CASE i = k
    BY <1>3, <1>7, <2>1, <2>2, <2>3, <2>4, <2>6
  <2>7. CASE i > k
    <3>1. f[m] = a[k] * g[m] /\ b[i] = a[i]
      BY <1>3, <1>7, <2>1, <2>4, <2>7
    <3>2. (a[k] * g[m]) * a[i] = a[k] * (g[m] * a[i])
      BY <1>7, <2>3
    <3> QED BY <1>7, <2>1, <2>2, <2>7, <3>1, <3>2
  <2> QED BY <1>7, <2>1, <2>5, <2>6, <2>7
<1> HIDE DEF T
<1>10. Nat \subseteq T
  BY <1>8, <1>9, SetInduction
<1>11. n \in 0 .. n /\ n >= k /\ f[n] = a[k] * g[n]
  BY <1>1, <1>7, <1>10 DEF T
<1> QED BY <1>2, <1>4, <1>5, <1>6, <1>11

-------------------------------------------------------------------------------
(* Sorting: a finite set has one sequence in a strict order, of all of it    *)

StrictOrder(S, R) ==
  /\ \A x \in S : <<x, x>> \notin R
  /\ \A x, y \in S : x # y => <<x, y>> \in R \/ <<y, x>> \in R
  /\ \A x, y, z \in S : <<x, y>> \in R /\ <<y, z>> \in R => <<x, z>> \in R

InOrder(seq, n, S, R) ==
  /\ seq \in [1 .. n -> S]
  /\ \A i, j \in 1 .. n : i < j => <<seq[i], seq[j]>> \in R

IsLast(x, S, R) == x \in S /\ \A y \in S \ {x} : <<y, x>> \in R

LEMMA SubOrder ==
  ASSUME NEW S, NEW R, StrictOrder(S, R), NEW Q \in SUBSET S
  PROVE  StrictOrder(Q, R)
BY DEF StrictOrder

LEMMA LastExists ==
  ASSUME NEW S, IsFiniteSet(S), S # {}, NEW R, StrictOrder(S, R)
  PROVE  \E x \in S : IsLast(x, S, R)
<1> DEFINE T == {n \in Nat : \A Q \in SUBSET S : Cardinality(Q) = n /\ Q # {} => \E x \in Q : IsLast(x, Q, R)}
<1>1. 0 \in T
  <2>1. ASSUME NEW Q \in SUBSET S, Cardinality(Q) = 0 PROVE Q = {}
    BY <2>1, FS_Subset, FS_EmptySet
  <2> QED BY <2>1
<1>2. ASSUME NEW n \in Nat, n \in T PROVE n + 1 \in T
  <2> SUFFICES ASSUME NEW Q \in SUBSET S, Cardinality(Q) = n + 1, Q # {}
               PROVE  \E x \in Q : IsLast(x, Q, R)
    OBVIOUS
  <2>1. PICK z \in Q : TRUE
    OBVIOUS
  <2>2. Q \ {z} \in SUBSET S /\ Cardinality(Q \ {z}) = n
    <3>1. IsFiniteSet(Q)
      BY FS_Subset
    <3>2. Cardinality(Q \ {z}) = (n + 1) - 1
      BY <2>1, <3>1, FS_RemoveElement
    <3> QED BY <3>2
  <2>3. CASE Q \ {z} = {}
    BY <2>1, <2>3 DEF IsLast
  <2>4. CASE Q \ {z} # {}
    <3>1. PICK x \in Q \ {z} : IsLast(x, Q \ {z}, R)
      BY <1>2, <2>2, <2>4
    <3>2. x # z /\ x \in S /\ z \in S
      BY <2>1
    <3>3. CASE <<z, x>> \in R
      BY <3>1, <3>3 DEF IsLast
    <3>4. CASE <<x, z>> \in R
      <4>1. ASSUME NEW y \in Q \ {z} PROVE <<y, z>> \in R
        <5>1. y = x \/ <<y, x>> \in R
          BY <3>1 DEF IsLast
        <5> QED BY <3>2, <3>4, <5>1 DEF StrictOrder
      <4> QED BY <2>1, <4>1 DEF IsLast
    <3> QED BY <3>2, <3>3, <3>4 DEF StrictOrder
  <2> QED BY <2>3, <2>4
<1> HIDE DEF T
<1>3. Nat \subseteq T
  BY <1>1, <1>2, SetInduction
<1>4. Cardinality(S) \in Nat
  BY FS_CardinalityType
<1> QED BY <1>3, <1>4 DEF T

LEMMA OrderExists ==
  ASSUME NEW S, IsFiniteSet(S), NEW R, StrictOrder(S, R)
  PROVE  \E seq : InOrder(seq, Cardinality(S), S, R)
<1> DEFINE T == {n \in Nat : \A Q \in SUBSET S : Cardinality(Q) = n => \E seq : InOrder(seq, n, Q, R)}
<1>1. 0 \in T
  <2> SUFFICES ASSUME NEW Q \in SUBSET S PROVE \E seq : InOrder(seq, 0, Q, R)
    OBVIOUS
  <2>1. PICK seq : seq = [i \in 1 .. 0 |-> i]
    OBVIOUS
  <2>2. InOrder(seq, 0, Q, R)
    BY <2>1 DEF InOrder
  <2> QED BY <2>2
<1>2. ASSUME NEW n \in Nat, n \in T PROVE n + 1 \in T
  <2> SUFFICES ASSUME NEW Q \in SUBSET S, Cardinality(Q) = n + 1
               PROVE  \E seq : InOrder(seq, n + 1, Q, R)
    OBVIOUS
  <2>1. IsFiniteSet(Q)
    BY FS_Subset
  <2>2. PICK x \in Q : IsLast(x, Q, R)
    BY <2>1, FS_EmptySet, SubOrder, LastExists
  <2>3. Cardinality(Q \ {x}) = n
    <3>1. Cardinality(Q \ {x}) = (n + 1) - 1
      BY <2>1, <2>2, FS_RemoveElement
    <3> QED BY <3>1
  <2>4. PICK f : InOrder(f, n, Q \ {x}, R)
    BY <1>2, <2>3
  <2>5. PICK g : g = [i \in 1 .. n + 1 |-> IF i = n + 1 THEN x ELSE f[i]]
    OBVIOUS
  <2>6. f \in [1 .. n -> Q \ {x}] /\ \A i, j \in 1 .. n : i < j => <<f[i], f[j]>> \in R
    BY <2>4 DEF InOrder
  <2>7. \A i \in 1 .. n + 1 : (i = n + 1 => g[i] = x) /\ (i # n + 1 => i \in 1 .. n /\ g[i] = f[i] /\ f[i] \in Q \ {x})
    BY <2>5, <2>6
  <2>8. g \in [1 .. n + 1 -> Q]
    BY <2>2, <2>5, <2>7
  <2>9. ASSUME NEW i \in 1 .. n + 1, NEW j \in 1 .. n + 1, i < j PROVE <<g[i], g[j]>> \in R
    <3>1. i # n + 1
      BY <2>9
    <3>2. CASE j = n + 1
      BY <2>2, <2>7, <3>1, <3>2 DEF IsLast
    <3>3. CASE j # n + 1
      BY <2>6, <2>7, <2>9, <3>1, <3>3
    <3> QED BY <3>2, <3>3
  <2> QED BY <2>8, <2>9 DEF InOrder
<1> HIDE DEF T
<1>3. Nat \subseteq T
  BY <1>1, <1>2, SetInduction
<1>4. Cardinality(S) \in Nat
  BY FS_CardinalityType
<1> QED BY <1>3, <1>4 DEF T

LEMMA SortedIsInOrder ==
  ASSUME NEW S, IsFiniteSet(S), NEW R, StrictOrder(S, R)
  PROVE  InOrder(Sorted(S, R), Cardinality(S), S, R)
<1>1. PICK seq : InOrder(seq, Cardinality(S), S, R)
  BY OrderExists
<1>2. \E f \in [1 .. Cardinality(S) -> S] : \A n, m \in DOMAIN f : n < m => <<f[n], f[m]>> \in R
  BY <1>1 DEF InOrder
<1> DEFINE f == Sorted(S, R)
<1>3. f \in [1 .. Cardinality(S) -> S] /\ \A n, m \in DOMAIN f : n < m => <<f[n], f[m]>> \in R
  BY <1>2 DEF Sorted
<1> QED BY <1>3 DEF InOrder

LEMMA OrderCovers ==
  ASSUME NEW S, IsFiniteSet(S), NEW R, StrictOrder(S, R), NEW f, InOrder(f, Cardinality(S), S, R)
  PROVE  /\ \A i, j \in 1 .. Cardinality(S) : f[i] = f[j] => i = j
         /\ \A x \in S : \E i \in 1 .. Cardinality(S) : f[i] = x
<1>1. PICK n \in Nat : n = Cardinality(S)
  BY FS_CardinalityType
<1>2. f \in [1 .. n -> S] /\ \A i, j \in 1 .. n : i < j => <<f[i], f[j]>> \in R
  BY <1>1 DEF InOrder
<1>3. ASSUME NEW i \in 1 .. n, NEW j \in 1 .. n, f[i] = f[j] PROVE i = j
  <2>1. ~(i < j) /\ ~(j < i)
    BY <1>2, <1>3 DEF StrictOrder
  <2> QED BY <2>1
<1>4. f \in Injection(1 .. n, S)
  BY <1>2, <1>3 DEF Injection, IsInjective
<1>5. Cardinality(1 .. n) = n
  BY FS_Interval
<1>6. f \in Surjection(1 .. n, S)
  BY <1>1, <1>4, <1>5, FS_Injection
<1> QED BY <1>1, <1>3, <1>6 DEF Surjection

LEMMA OrderIsUnique ==
  ASSUME NEW S, IsFiniteSet(S), NEW R, StrictOrder(S, R),
         NEW f, InOrder(f, Cardinality(S), S, R), NEW g, InOrder(g, Cardinality(S), S, R)
  PROVE  f = g
<1>1. PICK n \in Nat : n = Cardinality(S)
  BY FS_CardinalityType
<1>2. f \in [1 .. n -> S] /\ \A i, j \in 1 .. n : i < j => <<f[i], f[j]>> \in R
  BY <1>1 DEF InOrder
<1>3. g \in [1 .. n -> S] /\ \A i, j \in 1 .. n : i < j => <<g[i], g[j]>> \in R
  BY <1>1 DEF InOrder
<1> SUFFICES ASSUME {i \in 1 .. n : f[i] # g[i]} # {} PROVE FALSE
  BY <1>2, <1>3
<1>4. PICK i \in 1 .. n : f[i] # g[i] /\ \A j \in 1 .. n : f[j] # g[j] => i <= j
  <2>1. {i \in 1 .. n : f[i] # g[i]} \in SUBSET Nat
    OBVIOUS
  <2> QED BY <2>1, LeastNatural
<1>5. \A j, l \in 1 .. n : (f[j] = f[l] => j = l) /\ (g[j] = g[l] => j = l)
  BY <1>1, OrderCovers
<1>6. PICK j \in 1 .. n : g[j] = f[i]
  <2>1. f[i] \in S
    BY <1>2
  <2> QED BY <1>1, <2>1, OrderCovers
<1>7. PICK l \in 1 .. n : f[l] = g[i]
  <2>1. g[i] \in S
    BY <1>3
  <2> QED BY <1>1, <2>1, OrderCovers
<1>8. i < j
  <2>1. i # j
    BY <1>4, <1>6
  <2>2. ~(j < i)
    <3> SUFFICES ASSUME j < i PROVE FALSE
      OBVIOUS
    <3>1. f[j] = g[j]
      BY <1>4
    <3> QED BY <1>5, <1>6, <2>1, <3>1
  <2> QED BY <2>1, <2>2
<1>9. i < l
  <2>1. i # l
    BY <1>4, <1>7
  <2>2. ~(l < i)
    <3> SUFFICES ASSUME l < i PROVE FALSE
      OBVIOUS
    <3>1. f[l] = g[l]
      BY <1>4
    <3> QED BY <1>5, <1>7, <2>1, <3>1
  <2> QED BY <2>1, <2>2
<1>10. <<g[i], f[i]>> \in R /\ <<f[i], g[i]>> \in R /\ f[i] \in S /\ g[i] \in S
  BY <1>2, <1>3, <1>6, <1>7, <1>8, <1>9
<1> QED BY <1>10 DEF StrictOrder

-------------------------------------------------------------------------------
(* Scores of a layer that is accepted                                        *)

LEMMA BoundsExist ==
  ASSUME NEW S \in SUBSET Int, IsFiniteSet(S), S # {}
  PROVE  /\ Min(S) \in S /\ Max(S) \in S
         /\ \A x \in S : Min(S) <= x /\ x <= Max(S)
<1>1. PICK up : up = {p \in S \X S : p[1] < p[2]}
  OBVIOUS
<1>2. PICK down : down = {p \in S \X S : p[2] < p[1]}
  OBVIOUS
<1>3. \A x, y \in S : (<<x, y>> \in up <=> x < y) /\ (<<x, y>> \in down <=> y < x)
  BY <1>1, <1>2
<1>4. StrictOrder(S, up) /\ StrictOrder(S, down)
  BY <1>3 DEF StrictOrder
<1>5. PICK high \in S : IsLast(high, S, up)
  BY <1>4, LastExists
<1>6. PICK low \in S : IsLast(low, S, down)
  BY <1>4, LastExists
<1>7. ASSUME NEW y \in S PROVE low <= y /\ y <= high
  <2>1. y = high \/ <<y, high>> \in up
    BY <1>5 DEF IsLast
  <2>2. y = low \/ <<y, low>> \in down
    BY <1>6 DEF IsLast
  <2>3. y \in Int /\ low \in Int /\ high \in Int
    OBVIOUS
  <2> QED BY <1>3, <2>1, <2>2, <2>3
<1>8. Min(S) = low /\ Max(S) = high
  BY <1>7, Extremes
<1> QED BY <1>7, <1>8

\* What the validation says of a layer.
Accepted(units, criteria) == SuitabilityInput(units, criteria) /\ SuitabilityError(units, criteria) = {}

LEMMA AcceptedIs ==
  ASSUME NEW units, NEW criteria, Accepted(units, criteria)
  PROVE  /\ units # <<>> /\ criteria # <<>>
         /\ SumOf([k \in DOMAIN criteria |-> criteria[k].weight]) = Unit
         /\ Usable(units, criteria) # {}
         /\ \A k \in DOMAIN criteria : Span(units, criteria, k) # 0
<1>1. SuitabilityError(units, criteria) = {} /\ {"no-units"} # {} /\ {"no-criteria"} # {} /\ {"weights"} # {}
      /\ {"no-scorable-units"} # {} /\ {"constant"} # {}
  BY DEF Accepted
<1>2. units # <<>> /\ criteria # <<>>
  BY <1>1 DEF SuitabilityError
<1>3. SumOf([k \in DOMAIN criteria |-> criteria[k].weight]) = Unit
  BY <1>1, <1>2 DEF SuitabilityError
<1>4. Usable(units, criteria) # {}
  BY <1>1, <1>2, <1>3 DEF SuitabilityError
<1>5. ~ \E k \in DOMAIN criteria : Span(units, criteria, k) = 0
  BY <1>1, <1>2, <1>3, <1>4 DEF SuitabilityError
<1> QED BY <1>2, <1>3, <1>4, <1>5

LEMMA UsableAreFinite ==
  ASSUME NEW units, NEW criteria, SuitabilityInput(units, criteria)
  PROVE  /\ IsFiniteSet(Usable(units, criteria))
         /\ Usable(units, criteria) \in SUBSET DOMAIN units /\ DOMAIN units = 1 .. Len(units) /\ Len(units) \in Nat
         /\ DOMAIN criteria = 1 .. Len(criteria) /\ Len(criteria) \in Nat
<1>1. DOMAIN units = 1 .. Len(units) /\ Len(units) \in Nat
  BY DEF SuitabilityInput
<1>2. DOMAIN criteria = 1 .. Len(criteria) /\ Len(criteria) \in Nat
  BY DEF SuitabilityInput
<1>3. Usable(units, criteria) \in SUBSET DOMAIN units
  BY DEF Usable
<1>4. IsFiniteSet(1 .. Len(units))
  BY <1>1, FS_Interval
<1>5. IsFiniteSet(Usable(units, criteria))
  BY <1>1, <1>3, <1>4, FS_Subset
<1> QED BY <1>1, <1>2, <1>3, <1>5

LEMMA ValuesAreInts ==
  ASSUME NEW units, NEW criteria, SuitabilityInput(units, criteria),
         NEW k \in DOMAIN criteria, NEW u \in Usable(units, criteria)
  PROVE  units[u][criteria[k].field] \in Int
BY DEF SuitabilityInput, Usable

LEMMA ColumnBounds ==
  ASSUME NEW units, NEW criteria, SuitabilityInput(units, criteria), Usable(units, criteria) # {},
         NEW k \in DOMAIN criteria
  PROVE  LET C == Column(units, criteria, k) IN
           /\ C \in SUBSET Int /\ Min(C) \in C /\ Max(C) \in C
           /\ \A x \in C : Min(C) <= x /\ x <= Max(C)
<1> DEFINE S == Usable(units, criteria)
           C == Column(units, criteria, k)
           f == [u \in S |-> units[u][criteria[k].field]]
<1>1. IsFiniteSet(S)
  BY UsableAreFinite
<1>2. f \in Surjection(S, C)
  BY DEF Surjection, Column
<1>3. IsFiniteSet(C)
  BY <1>1, <1>2, FS_Surjection
<1>4. C \in SUBSET Int /\ C # {}
  BY ValuesAreInts DEF Column
<1> HIDE DEF C
<1>5. /\ Min(C) \in C /\ Max(C) \in C
      /\ \A x \in C : Min(C) <= x /\ x <= Max(C)
  BY <1>3, <1>4, BoundsExist
<1> QED BY <1>4, <1>5 DEF C

LEMMA NormBounds ==
  ASSUME NEW units, NEW criteria, Accepted(units, criteria), NEW k \in DOMAIN criteria
  PROVE  /\ Span(units, criteria, k) \in Nat \ {0}
         /\ \A u \in Usable(units, criteria) : Norm(units, criteria, u, k) \in 0 .. Span(units, criteria, k)
<1> DEFINE C == Column(units, criteria, k)
           low == Min(C)
           high == Max(C)
<1>1. Usable(units, criteria) # {} /\ SuitabilityInput(units, criteria) /\ Span(units, criteria, k) # 0
  BY AcceptedIs DEF Accepted
<1>2. C \in SUBSET Int /\ low \in C /\ high \in C /\ \A x \in C : low <= x /\ x <= high
  BY <1>1, ColumnBounds
<1>3. \A u \in Usable(units, criteria) : units[u][criteria[k].field] \in C
  BY DEF Column
<1>4. /\ Span(units, criteria, k) = high - low
      /\ \A u \in Usable(units, criteria) :
           \/ Norm(units, criteria, u, k) = units[u][criteria[k].field] - low
           \/ Norm(units, criteria, u, k) = high - units[u][criteria[k].field]
  BY DEF Span, Norm
<1> HIDE DEF low, high, C
<1>5. low \in Int /\ high \in Int /\ low <= high
  BY <1>2
<1>6. ASSUME NEW u \in Usable(units, criteria)
      PROVE  Norm(units, criteria, u, k) \in 0 .. Span(units, criteria, k)
  <2>1. PICK x \in Int : x = units[u][criteria[k].field] /\ low <= x /\ x <= high
    BY <1>2, <1>3
  <2>2. x - low \in 0 .. high - low /\ high - x \in 0 .. high - low
    BY <1>5, <2>1
  <2> QED BY <1>4, <2>1, <2>2
<1>7. Span(units, criteria, k) \in Nat \ {0}
  BY <1>1, <1>4, <1>5
<1> QED BY <1>6, <1>7

\* The spans of the other criteria.
OthersOf(units, criteria, k) == ProductOf([Spans(units, criteria) EXCEPT ![k] = 1])

LEMMA WholeIs ==
  ASSUME NEW units, NEW criteria, Accepted(units, criteria)
  PROVE  /\ ProductOf(Spans(units, criteria)) \in Nat \ {0}
         /\ Denominator(units, criteria) \in Nat \ {0}
         /\ \A k \in DOMAIN criteria :
              /\ OthersOf(units, criteria, k) \in Nat \ {0}
              /\ ProductOf(Spans(units, criteria)) = Span(units, criteria, k) * OthersOf(units, criteria, k)
<1>1. PICK spans : spans = Spans(units, criteria)
  OBVIOUS
<1>2. PICK n \in Nat : n = Len(criteria) /\ DOMAIN criteria = 1 .. n
  BY UsableAreFinite DEF Accepted
<1>3. \A k \in 1 .. n : spans[k] = Span(units, criteria, k) /\ spans[k] \in Nat \ {0}
  BY <1>1, <1>2, NormBounds DEF Spans
<1>4. spans \in Seq(Int) /\ Len(spans) = n
  BY <1>1, <1>2, <1>3 DEF Spans
<1>5. ProductOf(spans) \in Nat \ {0}
  BY <1>3, <1>4, ProductsArePositive
<1>6. ASSUME NEW k \in 1 .. n
      PROVE  /\ ProductOf([spans EXCEPT ![k] = 1]) \in Nat \ {0}
             /\ ProductOf(spans) = Span(units, criteria, k) * ProductOf([spans EXCEPT ![k] = 1])
  <2>1. PICK others : others = [spans EXCEPT ![k] = 1]
    OBVIOUS
  <2>2. others \in Seq(Int) /\ Len(others) = n /\ \A i \in 1 .. n : others[i] > 0
    BY <1>3, <1>4, <2>1
  <2>3. ProductOf(others) \in Nat \ {0}
    BY <2>2, ProductsArePositive
  <2>4. ProductOf(spans) = spans[k] * ProductOf([spans EXCEPT ![k] = 1])
    BY <1>4, ProductsFactor
  <2> QED BY <1>3, <2>1, <2>3, <2>4
<1>7. Denominator(units, criteria) \in Nat \ {0}
  BY <1>1, <1>5, UnitAssumption, Positive DEF Denominator
<1> QED BY <1>1, <1>2, <1>5, <1>6, <1>7 DEF OthersOf

Parts(units, criteria, u) == [k \in DOMAIN criteria |-> Part(units, criteria, u, k)]

LEMMA PartsAreInts ==
  ASSUME NEW units, NEW criteria, Accepted(units, criteria), NEW u \in Usable(units, criteria)
  PROVE  /\ Parts(units, criteria, u) \in Seq(Int) /\ Len(Parts(units, criteria, u)) = Len(criteria)
         /\ SumOf(Parts(units, criteria, u)) \in Int
         /\ Score(units, criteria, u) \in Nat /\ Score(units, criteria, u) <= Denominator(units, criteria)
<1>1. PICK n \in Nat : n = Len(criteria) /\ DOMAIN criteria = 1 .. n
  BY UsableAreFinite DEF Accepted
<1>2. ASSUME NEW k \in 1 .. n PROVE Part(units, criteria, u, k) \in Int
  <2>1. criteria[k].weight \in Int
    BY <1>1 DEF Accepted, SuitabilityInput
  <2>2. Norm(units, criteria, u, k) \in Int
    <3>1. Span(units, criteria, k) \in Nat \ {0} /\ Norm(units, criteria, u, k) \in 0 .. Span(units, criteria, k)
      BY <1>1, NormBounds
    <3> QED BY <3>1
  <2>3. OthersOf(units, criteria, k) \in Int
    BY <1>1, WholeIs
  <2>4. Part(units, criteria, u, k) = (criteria[k].weight * Norm(units, criteria, u, k)) * OthersOf(units, criteria, k)
    BY DEF Part, OthersOf
  <2> QED BY <2>1, <2>2, <2>3, <2>4
<1>3. Parts(units, criteria, u) \in Seq(Int) /\ Len(Parts(units, criteria, u)) = n
  BY <1>1, <1>2 DEF Parts
<1>4. SumOf(Parts(units, criteria, u)) \in Int
  BY <1>3, SumsCompare
<1>5. Denominator(units, criteria) \in Nat \ {0}
  BY WholeIs
<1>6. Score(units, criteria, u) =
        IF SumOf(Parts(units, criteria, u)) < 0 THEN 0
        ELSE IF SumOf(Parts(units, criteria, u)) > Denominator(units, criteria) THEN Denominator(units, criteria)
        ELSE SumOf(Parts(units, criteria, u))
  BY DEF Score, Parts
<1> QED BY <1>1, <1>3, <1>4, <1>5, <1>6

\* The order of units by score is strict.
LEMMA ScoreOrderIsStrict ==
  ASSUME NEW units, NEW criteria, Accepted(units, criteria)
  PROVE  LET S == Usable(units, criteria)
             R == ScoreOrder(units, criteria)
         IN /\ StrictOrder(S, R)
            /\ \A u, v \in S : <<u, v>> \in R <=>
                 \/ Score(units, criteria, u) > Score(units, criteria, v)
                 \/ Score(units, criteria, u) = Score(units, criteria, v) /\ u < v
<1> DEFINE S == Usable(units, criteria)
           R == ScoreOrder(units, criteria)
<1>1. PICK score : score = [u \in S |-> Score(units, criteria, u)]
  OBVIOUS
<1>2. \A u \in S : u \in Nat /\ score[u] \in Nat /\ score[u] = Score(units, criteria, u)
  <2>1. ASSUME NEW u \in S PROVE u \in Nat /\ Score(units, criteria, u) \in Nat
    <3>1. S \in SUBSET (1 .. Len(units)) /\ Len(units) \in Nat
      BY UsableAreFinite DEF Accepted
    <3>2. Score(units, criteria, u) \in Nat
      BY PartsAreInts
    <3> QED BY <3>1, <3>2
  <2> QED BY <1>1, <2>1
<1>3. R = {p \in S \X S : score[p[1]] > score[p[2]] \/ (score[p[1]] = score[p[2]] /\ p[1] < p[2])}
  BY <1>1 DEF ScoreOrder
<1> HIDE DEF S, R
<1>4. \A u, v \in S : <<u, v>> \in R <=> score[u] > score[v] \/ (score[u] = score[v] /\ u < v)
  BY <1>3
<1>5. StrictOrder(S, R)
  BY <1>2, <1>4 DEF StrictOrder
<1> QED BY <1>2, <1>4, <1>5 DEF S, R

\* The units of the scores, best first.
Ranked(units, criteria) == Sorted(Usable(units, criteria), ScoreOrder(units, criteria))

LEMMA RankedIs ==
  ASSUME NEW units, NEW criteria, Accepted(units, criteria)
  PROVE  LET S == Usable(units, criteria)
             f == Ranked(units, criteria)
         IN /\ IsFiniteSet(S) /\ InOrder(f, Cardinality(S), S, ScoreOrder(units, criteria))
            /\ Cardinality(S) \in Nat /\ DOMAIN f = 1 .. Cardinality(S)
            /\ \A i \in DOMAIN f : f[i] \in S
            /\ \A u \in S : \E i \in DOMAIN f : f[i] = u
<1> DEFINE S == Usable(units, criteria)
           R == ScoreOrder(units, criteria)
           f == Ranked(units, criteria)
<1>1. IsFiniteSet(S)
  BY UsableAreFinite DEF Accepted
<1>2. StrictOrder(S, R)
  BY ScoreOrderIsStrict
<1>3. f = Sorted(S, R)
  BY DEF Ranked
<1> HIDE DEF S, R, f
<1>4. InOrder(f, Cardinality(S), S, R)
  BY <1>1, <1>2, <1>3, SortedIsInOrder
<1>5. f \in [1 .. Cardinality(S) -> S]
  BY <1>4 DEF InOrder
<1>6. \A u \in S : \E i \in 1 .. Cardinality(S) : f[i] = u
  BY <1>1, <1>2, <1>4, OrderCovers
<1>7. Cardinality(S) \in Nat
  BY <1>1, FS_CardinalityType
<1> QED BY <1>1, <1>4, <1>5, <1>6, <1>7 DEF S, R, f

LEMMA ScoresAre ==
  ASSUME NEW units, NEW criteria, Accepted(units, criteria)
  PROVE  LET f == Ranked(units, criteria)
             whole == Denominator(units, criteria)
         IN /\ DOMAIN Scores(units, criteria) = DOMAIN f
            /\ Len(Scores(units, criteria)) = Cardinality(Usable(units, criteria))
            /\ \A n \in DOMAIN f :
                 /\ Scores(units, criteria)[n].key = f[n]
                 /\ Scores(units, criteria)[n].score = Score(units, criteria, f[n])
                 /\ Scores(units, criteria)[n].whole = whole
                 /\ Scores(units, criteria)[n].class = ClassOf(Score(units, criteria, f[n]), whole)
<1> DEFINE f == Ranked(units, criteria)
           whole == Denominator(units, criteria)
<1>1. PICK score : score = [u \in Usable(units, criteria) |-> Score(units, criteria, u)]
  OBVIOUS
<1>2. Scores(units, criteria) =
        [n \in DOMAIN f |-> [key |-> f[n], score |-> score[f[n]], whole |-> whole,
                             class |-> ClassOf(score[f[n]], whole)]]
  BY <1>1 DEF Scores, Ranked
<1>3. \A n \in DOMAIN f : score[f[n]] = Score(units, criteria, f[n])
  BY <1>1, RankedIs
<1>a. PICK N \in Nat : N = Cardinality(Usable(units, criteria)) /\ DOMAIN f = 1 .. N
  BY RankedIs
<1> HIDE DEF f, whole
<1>4. /\ DOMAIN Scores(units, criteria) = DOMAIN f
      /\ \A n \in DOMAIN f :
           /\ Scores(units, criteria)[n].key = f[n]
           /\ Scores(units, criteria)[n].score = Score(units, criteria, f[n])
           /\ Scores(units, criteria)[n].whole = whole
           /\ Scores(units, criteria)[n].class = ClassOf(Score(units, criteria, f[n]), whole)
  BY <1>2, <1>3
<1>5. Len(Scores(units, criteria)) = N
  BY <1>2, <1>a
<1> QED BY <1>4, <1>5, <1>a DEF f, whole

-------------------------------------------------------------------------------
(* Better units                                                              *)

LEMMA Quotients ==
  ASSUME NEW a \in Nat, NEW b \in Nat, a <= b, NEW c \in Nat \ {0}
  PROVE  /\ (5 * a) \div c \in Nat /\ (5 * b) \div c \in Nat
         /\ (5 * a) \div c <= (5 * b) \div c
OBVIOUS

LEMMA ClassesCompare ==
  ASSUME NEW a \in Nat, NEW b \in Nat, a <= b, NEW c \in Nat \ {0}
  PROVE  ClassOf(a, c) \in Nat /\ ClassOf(b, c) \in Nat /\ ClassOf(a, c) <= ClassOf(b, c)
BY Quotients DEF ClassOf

LEMMA ClassExtremes ==
  ASSUME NEW c \in Nat \ {0}
  PROVE  ClassOf(c, c) = 4 /\ ClassOf(0, c) = 0
<1>1. (5 * c) \div c = 5
  OBVIOUS
<1>2. (5 * 0) \div c = 0
  OBVIOUS
<1> QED BY <1>1, <1>2 DEF ClassOf

LEMMA PartIs ==
  ASSUME NEW units, NEW criteria, NEW u, NEW k
  PROVE  Part(units, criteria, u, k) =
           criteria[k].weight * Norm(units, criteria, u, k) * OthersOf(units, criteria, k)
BY DEF Part, OthersOf

\* Where no weight is negative, values that are no worse make a score that is no less.
LEMMA ScoresCompare ==
  ASSUME NEW units, NEW criteria, Accepted(units, criteria), \A k \in DOMAIN criteria : criteria[k].weight >= 0,
         NEW u \in Usable(units, criteria), NEW v \in Usable(units, criteria),
         \A k \in DOMAIN criteria : Norm(units, criteria, v, k) <= Norm(units, criteria, u, k)
  PROVE  Score(units, criteria, v) <= Score(units, criteria, u)
<1>1. PICK n \in Nat : n = Len(criteria) /\ DOMAIN criteria = 1 .. n
  BY UsableAreFinite DEF Accepted
<1>2. ASSUME NEW k \in 1 .. n PROVE Part(units, criteria, v, k) <= Part(units, criteria, u, k)
  <2>1. PICK w \in Nat : w = criteria[k].weight
    BY <1>1 DEF Accepted, SuitabilityInput
  <2>2. PICK a \in Int, b \in Int : a = Norm(units, criteria, v, k) /\ b = Norm(units, criteria, u, k) /\ a <= b
    <3>1. /\ Span(units, criteria, k) \in Nat \ {0}
          /\ Norm(units, criteria, v, k) \in 0 .. Span(units, criteria, k)
          /\ Norm(units, criteria, u, k) \in 0 .. Span(units, criteria, k)
      BY <1>1, NormBounds
    <3> QED BY <1>1, <3>1
  <2>3. PICK o \in Nat : o = OthersOf(units, criteria, k)
    BY <1>1, WholeIs
  <2>4. w * a \in Int /\ w * b \in Int /\ w * a <= w * b
    BY <2>2, Product
  <2>5. o * (w * a) <= o * (w * b)
    BY <2>4, Product
  <2>6. o * (w * a) = w * a * o /\ o * (w * b) = w * b * o
    BY <2>2
  <2> QED BY <2>1, <2>2, <2>3, <2>5, <2>6, PartIs
<1>3. PICK p, q : p = Parts(units, criteria, v) /\ q = Parts(units, criteria, u)
  OBVIOUS
<1>4. p \in Seq(Int) /\ q \in Seq(Int) /\ Len(p) = n /\ Len(q) = n
  BY <1>1, <1>3, PartsAreInts
<1>5. \A k \in 1 .. n : p[k] <= q[k]
  BY <1>1, <1>2, <1>3 DEF Parts
<1>6. SumOf(p) \in Int /\ SumOf(q) \in Int /\ SumOf(p) <= SumOf(q)
  BY <1>4, <1>5, SumsCompare
<1>7. Denominator(units, criteria) \in Nat \ {0}
  BY WholeIs
<1> QED BY <1>3, <1>6, <1>7 DEF Score, Parts

\* The best in all scores the whole, the worst nothing, whatever the weights are.
LEMMA ScoreExtremes ==
  ASSUME NEW units, NEW criteria, Accepted(units, criteria), NEW u \in Usable(units, criteria)
  PROVE  /\ (\A k \in DOMAIN criteria : Norm(units, criteria, u, k) = Span(units, criteria, k))
              => Score(units, criteria, u) = Denominator(units, criteria)
         /\ (\A k \in DOMAIN criteria : Norm(units, criteria, u, k) = 0) => Score(units, criteria, u) = 0
<1>1. PICK n \in Nat : n = Len(criteria) /\ DOMAIN criteria = 1 .. n
  BY UsableAreFinite DEF Accepted
<1>2. PICK ws : ws = [k \in DOMAIN criteria |-> criteria[k].weight]
  OBVIOUS
<1>3. \A k \in 1 .. n : ws[k] = criteria[k].weight /\ ws[k] \in Int
  BY <1>1, <1>2 DEF Accepted, SuitabilityInput
<1>4. ws \in Seq(Int) /\ Len(ws) = n /\ SumOf(ws) = Unit
  BY <1>1, <1>2, <1>3, AcceptedIs
<1>5. PICK p : p = Parts(units, criteria, u)
  OBVIOUS
<1>6. p \in Seq(Int) /\ Len(p) = n /\ \A k \in 1 .. n : p[k] = Part(units, criteria, u, k)
  BY <1>1, <1>5, PartsAreInts DEF Parts
<1>7. PICK whole \in Nat \ {0} : whole = Denominator(units, criteria)
  BY WholeIs
<1>8. PICK P \in Nat \ {0} : P = ProductOf(Spans(units, criteria)) /\ whole = Unit * P
  BY <1>7, WholeIs DEF Denominator
<1>9. Score(units, criteria, u) = IF SumOf(p) < 0 THEN 0 ELSE IF SumOf(p) > whole THEN whole ELSE SumOf(p)
  BY <1>5, <1>7 DEF Score, Parts
<1>10. ASSUME \A k \in DOMAIN criteria : Norm(units, criteria, u, k) = Span(units, criteria, k)
       PROVE  Score(units, criteria, u) = whole
  <2>1. ASSUME NEW k \in 1 .. n PROVE p[k] = ws[k] * P
    <3>1. PICK s \in Nat, o \in Nat : s = Span(units, criteria, k) /\ o = OthersOf(units, criteria, k) /\ P = s * o
      BY <1>1, <1>8, NormBounds, WholeIs
    <3>2. p[k] = ws[k] * s * o
      BY <1>1, <1>3, <1>6, <1>10, <3>1, PartIs
    <3>3. ws[k] * s * o = ws[k] * (s * o)
      BY <1>3
    <3> QED BY <3>1, <3>2, <3>3
  <2>2. SumOf(p) = SumOf(ws) * P
    BY <1>4, <1>6, <2>1, SumsScale
  <2>3. SumOf(p) = whole
    BY <1>4, <1>8, <2>2
  <2> QED BY <1>9, <2>3
<1>11. ASSUME \A k \in DOMAIN criteria : Norm(units, criteria, u, k) = 0
       PROVE  Score(units, criteria, u) = 0
  <2>1. PICK z \in Int : z = 0
    OBVIOUS
  <2>2. ASSUME NEW k \in 1 .. n PROVE p[k] = ws[k] * z
    <3>1. PICK o \in Nat : o = OthersOf(units, criteria, k)
      BY <1>1, WholeIs
    <3>2. p[k] = ws[k] * 0 * o
      BY <1>1, <1>3, <1>6, <1>11, <3>1, PartIs
    <3> QED BY <1>3, <2>1, <3>2
  <2>3. SumOf(ws) \in Int /\ SumOf(p) = SumOf(ws) * z
    BY <1>4, <1>6, <2>2, SumsScale
  <2>4. \A x \in Int : x * 0 = 0
    OBVIOUS
  <2>5. SumOf(p) = 0
    BY <2>1, <2>3, <2>4
  <2> QED BY <1>7, <1>9, <2>5
<1> QED BY <1>7, <1>10, <1>11

AsGood(units, criteria, u, v, k) ==
  IF criteria[k].direction = "benefit"
  THEN units[u][criteria[k].field] >= units[v][criteria[k].field]
  ELSE units[u][criteria[k].field] <= units[v][criteria[k].field]

LEMMA NormsCompare ==
  ASSUME NEW units, NEW criteria, Accepted(units, criteria), NEW k \in DOMAIN criteria,
         NEW u \in Usable(units, criteria)
  PROVE  /\ \A v \in Usable(units, criteria) : AsGood(units, criteria, u, v, k)
              => Norm(units, criteria, v, k) <= Norm(units, criteria, u, k)
         /\ (\A v \in Usable(units, criteria) : AsGood(units, criteria, u, v, k))
              => Norm(units, criteria, u, k) = Span(units, criteria, k)
         /\ (\A v \in Usable(units, criteria) : AsGood(units, criteria, v, u, k))
              => Norm(units, criteria, u, k) = 0
<1> DEFINE S == Usable(units, criteria)
           C == Column(units, criteria, k)
           low == Min(C)
           high == Max(C)
           value(v) == units[v][criteria[k].field]
<1>1. SuitabilityInput(units, criteria) /\ S # {}
  BY AcceptedIs DEF Accepted
<1>2. C \in SUBSET Int /\ low \in C /\ high \in C /\ \A x \in C : low <= x /\ x <= high
  BY <1>1, ColumnBounds
<1>3. \A v \in S : value(v) \in C
  BY DEF Column
<1>4. (\E v \in S : low = value(v)) /\ (\E v \in S : high = value(v))
  BY <1>2 DEF Column
<1>5. Span(units, criteria, k) = high - low
  BY DEF Span
<1>6. \A v \in S : Norm(units, criteria, v, k) =
                     IF criteria[k].direction = "benefit" THEN value(v) - low ELSE high - value(v)
  BY DEF Norm
<1>7. \A v, w \in S : AsGood(units, criteria, v, w, k) <=>
                        IF criteria[k].direction = "benefit" THEN value(v) >= value(w) ELSE value(v) <= value(w)
  BY DEF AsGood
<1>8. low \in Int /\ high \in Int /\ \A v \in S : value(v) \in Int /\ low <= value(v) /\ value(v) <= high
  BY <1>2, <1>3
<1> HIDE DEF low, high, value, C, S
<1>9. ASSUME NEW v \in S, AsGood(units, criteria, u, v, k)
      PROVE  Norm(units, criteria, v, k) <= Norm(units, criteria, u, k)
  BY <1>6, <1>7, <1>8, <1>9 DEF S
<1>10. ASSUME \A v \in S : AsGood(units, criteria, u, v, k)
       PROVE  Norm(units, criteria, u, k) = Span(units, criteria, k)
  BY <1>4, <1>5, <1>6, <1>7, <1>8, <1>10 DEF S
<1>11. ASSUME \A v \in S : AsGood(units, criteria, v, u, k)
       PROVE  Norm(units, criteria, u, k) = 0
  BY <1>4, <1>6, <1>7, <1>8, <1>11 DEF S
<1> QED BY <1>9, <1>10, <1>11 DEF S

-------------------------------------------------------------------------------
(* Units without a value                                                     *)

LEMMA SizeOfInterval ==
  ASSUME NEW n \in Nat
  PROVE  Cardinality(1 .. n) = n
BY FS_Interval

\* compact is a layer of the n usable units alone, in their order.
Compacts(units, criteria, n, kept, compact) ==
  /\ n \in Nat /\ n = Cardinality(Usable(units, criteria))
  /\ kept \in [1 .. n -> Usable(units, criteria)]
  /\ \A u \in Usable(units, criteria) : \E m \in 1 .. n : kept[m] = u
  /\ \A i, j \in 1 .. n : i < j => kept[i] < kept[j]
  /\ compact = [m \in 1 .. n |-> units[kept[m]]]

\* A layer of the usable units alone has the same columns, and so the same scores.
LEMMA CompactIsSame ==
  ASSUME NEW units, NEW criteria, Accepted(units, criteria), NEW n, NEW kept, NEW compact,
         Compacts(units, criteria, n, kept, compact)
  PROVE  /\ Usable(compact, criteria) = 1 .. n
         /\ Accepted(compact, criteria)
         /\ Denominator(compact, criteria) = Denominator(units, criteria)
         /\ \A m \in 1 .. n : Score(compact, criteria, m) = Score(units, criteria, kept[m])
<1> DEFINE S == Usable(units, criteria)
<1>0. n \in Nat /\ \A u \in S : \E m \in 1 .. n : kept[m] = u
  BY DEF Compacts
<1>1. \A m \in 1 .. n : compact[m] = units[kept[m]] /\ kept[m] \in S
  BY DEF Compacts
<1>2. DOMAIN compact = 1 .. n /\ Len(compact) = n
  BY DEF Compacts
<1>3. Usable(compact, criteria) = 1 .. n
  <2>1. \A u \in S : \A k \in DOMAIN criteria : units[u][criteria[k].field] # None
    BY DEF Usable
  <2> HIDE DEF S
  <2>2. \A m \in 1 .. n : \A k \in DOMAIN criteria : compact[m][criteria[k].field] # None
    BY <1>1, <2>1
  <2> QED BY <1>2, <2>2 DEF Usable
<1>4. ASSUME NEW k \in DOMAIN criteria PROVE Column(compact, criteria, k) = Column(units, criteria, k)
  <2>1. Column(compact, criteria, k) = {compact[m][criteria[k].field] : m \in 1 .. n}
    BY <1>3 DEF Column
  <2>2. Column(units, criteria, k) = {units[u][criteria[k].field] : u \in S}
    BY DEF Column
  <2> HIDE DEF S
  <2>3. ASSUME NEW u \in S PROVE \E m \in 1 .. n : units[u][criteria[k].field] = compact[m][criteria[k].field]
    BY <1>0, <1>1
  <2>4. Column(compact, criteria, k) \subseteq Column(units, criteria, k)
    <3> SUFFICES ASSUME NEW m \in 1 .. n PROVE compact[m][criteria[k].field] \in Column(units, criteria, k)
      BY <2>1
    <3>1. compact[m] = units[kept[m]] /\ kept[m] \in S
      BY <1>1
    <3> QED BY <2>2, <3>1
  <2>5. Column(units, criteria, k) \subseteq Column(compact, criteria, k)
    BY <2>1, <2>2, <2>3
  <2> QED BY <2>4, <2>5
<1>5. \A k \in DOMAIN criteria : Span(compact, criteria, k) = Span(units, criteria, k)
  BY <1>4 DEF Span
<1>6. Spans(compact, criteria) = Spans(units, criteria)
  BY <1>5 DEF Spans
<1>7. Denominator(compact, criteria) = Denominator(units, criteria)
  BY <1>6 DEF Denominator
<1>8. ASSUME NEW m \in 1 .. n PROVE Score(compact, criteria, m) = Score(units, criteria, kept[m])
  <2>1. ASSUME NEW k \in DOMAIN criteria PROVE Part(compact, criteria, m, k) = Part(units, criteria, kept[m], k)
    <3>1. Norm(compact, criteria, m, k) = Norm(units, criteria, kept[m], k)
      BY <1>1, <1>4 DEF Norm
    <3> QED BY <1>6, <3>1 DEF Part
  <2>2. [k \in DOMAIN criteria |-> Part(compact, criteria, m, k)]
          = [k \in DOMAIN criteria |-> Part(units, criteria, kept[m], k)]
    BY <2>1
  <2> QED BY <1>7, <2>2 DEF Score
<1>9. SuitabilityInput(compact, criteria)
  <2>1. \A m \in 1 .. n : compact[m] \in ToSet(compact)
    BY <1>2 DEF ToSet
  <2>2. compact \in Seq(ToSet(compact))
    <3>1. compact = [m \in 1 .. n |-> units[kept[m]]]
      BY DEF Compacts
    <3> QED BY <1>0, <2>1, <3>1
  <2>3. \A k \in DOMAIN criteria : \A m \in 1 .. n : compact[m][criteria[k].field] \in Int
    BY <1>1, ValuesAreInts DEF Accepted
  <2> QED BY <1>2, <2>2, <2>3 DEF Accepted, SuitabilityInput
<1>10. SuitabilityError(compact, criteria) = {}
  <2>1. n # 0
    <3>1. S # {}
      BY AcceptedIs
    <3>2. \E m \in 1 .. n : TRUE
      BY <1>0, <3>1
    <3> QED BY <3>2
  <2>a. Len(<<>>) = 0 /\ 1 \in 1 .. n
    BY <1>0, <2>1
  <2>2. compact # <<>> /\ Usable(compact, criteria) # {}
    BY <1>2, <1>3, <2>1, <2>a
  <2>3. /\ criteria # <<>>
        /\ SumOf([k \in DOMAIN criteria |-> criteria[k].weight]) = Unit
        /\ ~ \E k \in DOMAIN criteria : Span(compact, criteria, k) = 0
    BY <1>5, AcceptedIs
  <2> QED BY <2>2, <2>3 DEF SuitabilityError
<1> QED BY <1>3, <1>7, <1>8, <1>9, <1>10 DEF Accepted

\* The ranks of the compact layer are the ranks of the units.
LEMMA CompactRanks ==
  ASSUME NEW units, NEW criteria, Accepted(units, criteria), NEW n, NEW kept, NEW compact,
         Compacts(units, criteria, n, kept, compact)
  PROVE  /\ DOMAIN Ranked(units, criteria) = 1 .. n /\ DOMAIN Ranked(compact, criteria) = 1 .. n
         /\ \A m \in 1 .. n : /\ Ranked(compact, criteria)[m] \in 1 .. n
                              /\ Ranked(units, criteria)[m] = kept[Ranked(compact, criteria)[m]]
<1> DEFINE S == Usable(units, criteria)
           R == ScoreOrder(units, criteria)
           Q == ScoreOrder(compact, criteria)
           f == Ranked(units, criteria)
           a == Ranked(compact, criteria)
<1>0. /\ n \in Nat /\ n = Cardinality(S) /\ kept \in [1 .. n -> S]
      /\ \A i, j \in 1 .. n : i < j => kept[i] < kept[j]
  BY DEF Compacts
<1>1. /\ Usable(compact, criteria) = 1 .. n
      /\ Accepted(compact, criteria)
      /\ \A m \in 1 .. n : Score(compact, criteria, m) = Score(units, criteria, kept[m])
  BY CompactIsSame
<1>2. IsFiniteSet(S) /\ InOrder(f, n, S, R)
  BY <1>0, RankedIs
<1>3. InOrder(a, n, 1 .. n, Q)
  <2>1. Cardinality(1 .. n) = n
    BY <1>0, SizeOfInterval
  <2>2. InOrder(a, Cardinality(Usable(compact, criteria)), Usable(compact, criteria), Q)
    BY <1>1, RankedIs
  <2> QED BY <1>1, <2>1, <2>2
<1>4. /\ StrictOrder(S, R)
      /\ \A u, v \in S : <<u, v>> \in R <=>
           \/ Score(units, criteria, u) > Score(units, criteria, v)
           \/ Score(units, criteria, u) = Score(units, criteria, v) /\ u < v
  BY ScoreOrderIsStrict
<1>5. \A u, v \in 1 .. n : <<u, v>> \in Q <=>
        \/ Score(compact, criteria, u) > Score(compact, criteria, v)
        \/ Score(compact, criteria, u) = Score(compact, criteria, v) /\ u < v
  <2>1. \A u, v \in Usable(compact, criteria) : <<u, v>> \in Q <=>
          \/ Score(compact, criteria, u) > Score(compact, criteria, v)
          \/ Score(compact, criteria, u) = Score(compact, criteria, v) /\ u < v
    BY <1>1, ScoreOrderIsStrict
  <2> QED BY <1>1, <2>1
<1> HIDE DEF S, R, Q, f, a
<1>6. f \in [1 .. n -> S]
  BY <1>2 DEF InOrder
<1>7. a \in [1 .. n -> 1 .. n] /\ \A i, j \in 1 .. n : i < j => <<a[i], a[j]>> \in Q
  BY <1>3 DEF InOrder
<1>8. \A m \in 1 .. n : kept[m] \in S
  BY <1>0
<1>9. ASSUME NEW u \in 1 .. n, NEW v \in 1 .. n, <<u, v>> \in Q PROVE <<kept[u], kept[v]>> \in R
  <2>1. kept[u] \in S /\ kept[v] \in S
    BY <1>8
  <2>2. /\ Score(compact, criteria, u) = Score(units, criteria, kept[u])
        /\ Score(compact, criteria, v) = Score(units, criteria, kept[v])
    BY <1>1
  <2>3. \/ Score(compact, criteria, u) > Score(compact, criteria, v)
        \/ Score(compact, criteria, u) = Score(compact, criteria, v) /\ u < v
    BY <1>5, <1>9
  <2>4. \/ Score(units, criteria, kept[u]) > Score(units, criteria, kept[v])
        \/ Score(units, criteria, kept[u]) = Score(units, criteria, kept[v]) /\ kept[u] < kept[v]
    BY <1>0, <2>2, <2>3
  <2> QED BY <1>4, <2>1, <2>4
<1>10. PICK h : h = [m \in 1 .. n |-> kept[a[m]]]
  OBVIOUS
<1>11. InOrder(h, n, S, R)
  <2>1. h \in [1 .. n -> S]
    BY <1>7, <1>8, <1>10
  <2>2. ASSUME NEW i \in 1 .. n, NEW j \in 1 .. n, i < j PROVE <<h[i], h[j]>> \in R
    <3>1. a[i] \in 1 .. n /\ a[j] \in 1 .. n /\ <<a[i], a[j]>> \in Q
      BY <1>7, <2>2
    <3>2. h[i] = kept[a[i]] /\ h[j] = kept[a[j]]
      BY <1>10
    <3> QED BY <1>9, <3>1, <3>2
  <2> QED BY <2>1, <2>2 DEF InOrder
<1>12. f = h
  BY <1>0, <1>2, <1>4, <1>11, OrderIsUnique
<1>13. /\ DOMAIN f = 1 .. n /\ DOMAIN a = 1 .. n
       /\ \A m \in 1 .. n : a[m] \in 1 .. n /\ f[m] = kept[a[m]]
  BY <1>6, <1>7, <1>10, <1>12
<1> QED BY <1>13 DEF f, a

-------------------------------------------------------------------------------
(* Scored layers                                                             *)

\* Results of a suitability call are the engine's, for an input that was accepted.
ScoredAsComputed ==
  request.tool = "suitability" /\ results # <<>> =>
    /\ Accepted(request.units, request.criteria)
    /\ results = Scores(request.units, request.criteria)

LEMMA StepScored == IInv /\ ScoredAsComputed /\ [Next]_vars => ScoredAsComputed'
<1> SUFFICES ASSUME IInv, ScoredAsComputed, [Next]_vars PROVE ScoredAsComputed'
  OBVIOUS
<1>1. CASE ScoreUnits
  <2>1. request.tool = "suitability" /\ request \in Requests /\ SuitabilityError(request.units, request.criteria) = {}
    BY <1>1 DEF ScoreUnits, IInv, ErrorOf
  <2>2. SuitabilityInput(request.units, request.criteria)
    BY <2>1, RequestsAssumption
  <2>3. request' = request /\ results' = Scores(request.units, request.criteria)
    BY <1>1 DEF ScoreUnits
  <2> QED BY <2>1, <2>2, <2>3 DEF ScoredAsComputed, Accepted
<1>2. CASE Sweep
  <2>1. request.tool = "sensitivity" /\ request' = request
    BY <1>2 DEF Sweep, IInv, SweepIsSound
  <2> QED BY <2>1 DEF ScoredAsComputed
<1>3. CASE request' = request /\ results' = results
  BY <1>3 DEF ScoredAsComputed
<1> QED BY <1>1, <1>2, <1>3 DEF Next, Refuse, NoVector, Weigh, EndSweep, BuildOutput, vars

LEMMA Scored == Spec => []ScoredAsComputed
<1>1. Init => ScoredAsComputed
  BY DEF Init, ScoredAsComputed
<1> QED BY Invariance, StepScored, <1>1, PTL DEF Spec

LEMMA BetterScoresAreNotLower ==
  ASSUME NEW units, NEW criteria, Accepted(units, criteria), \A k \in DOMAIN criteria : criteria[k].weight >= 0,
         NEW scores, scores = Scores(units, criteria), NEW n \in DOMAIN scores
  PROVE  LET dominates(i, j) == \A k \in DOMAIN criteria : AsGood(units, criteria, scores[i].key, scores[j].key, k)
         IN /\ \A m \in DOMAIN scores : dominates(n, m) =>
                 /\ scores[n].score >= scores[m].score
                 /\ scores[n].class >= scores[m].class
                 /\ scores[n].score > scores[m].score => n < m
            /\ (\A m \in DOMAIN scores : dominates(n, m)) => scores[n].class = 4
            /\ (\A m \in DOMAIN scores : dominates(m, n)) => scores[n].class = 0
<1> DEFINE S == Usable(units, criteria)
           f == Ranked(units, criteria)
           score(i) == Score(units, criteria, f[i])
<1>1. PICK whole \in Nat \ {0} : whole = Denominator(units, criteria)
  BY WholeIs
<1>2. PICK N \in Nat : /\ DOMAIN f = 1 .. N /\ InOrder(f, N, S, ScoreOrder(units, criteria))
                       /\ \A i \in 1 .. N : f[i] \in S
                       /\ \A u \in S : \E i \in 1 .. N : f[i] = u
  BY RankedIs
<1>3. /\ DOMAIN scores = 1 .. N
      /\ \A i \in 1 .. N : /\ scores[i].key = f[i] /\ scores[i].score = score(i)
                           /\ scores[i].class = ClassOf(score(i), whole)
  BY <1>1, <1>2, ScoresAre
<1>4. \A i \in 1 .. N : score(i) \in Nat
  BY <1>2, PartsAreInts
<1>5. ASSUME NEW i \in 1 .. N, NEW j \in 1 .. N, i < j PROVE score(i) >= score(j)
  <2>1. <<f[i], f[j]>> \in ScoreOrder(units, criteria) /\ f[i] \in S /\ f[j] \in S
    BY <1>2, <1>5 DEF InOrder
  <2>2. score(i) > score(j) \/ score(i) = score(j)
    BY <2>1, ScoreOrderIsStrict
  <2> QED BY <1>4, <2>2
<1>6. ASSUME NEW m \in 1 .. N, \A k \in DOMAIN criteria : AsGood(units, criteria, f[n], f[m], k)
      PROVE  /\ score(m) <= score(n)
             /\ ClassOf(score(m), whole) <= ClassOf(score(n), whole)
             /\ ClassOf(score(m), whole) \in Nat /\ ClassOf(score(n), whole) \in Nat
             /\ score(n) > score(m) => n < m
  <2>1. n \in 1 .. N /\ f[n] \in S /\ f[m] \in S
    BY <1>2, <1>3
  <2>2. \A k \in DOMAIN criteria : Norm(units, criteria, f[m], k) <= Norm(units, criteria, f[n], k)
    BY <1>6, <2>1, NormsCompare
  <2>3. score(m) <= score(n)
    BY <2>1, <2>2, ScoresCompare
  <2>4. score(m) \in Nat /\ score(n) \in Nat
    BY <1>4, <2>1
  <2> HIDE DEF score
  <2>5. /\ ClassOf(score(m), whole) <= ClassOf(score(n), whole)
        /\ ClassOf(score(m), whole) \in Nat /\ ClassOf(score(n), whole) \in Nat
    BY <2>3, <2>4, ClassesCompare
  <2>6. ASSUME score(n) > score(m) PROVE n < m
    <3>1. n # m
      BY <2>4, <2>6
    <3>2. ~(m < n)
      BY <1>5, <2>1, <2>4, <2>6
    <3> QED BY <2>1, <3>1, <3>2
  <2> QED BY <2>3, <2>5, <2>6
<1>7. ASSUME \A m \in 1 .. N : \A k \in DOMAIN criteria : AsGood(units, criteria, f[n], f[m], k)
      PROVE  ClassOf(score(n), whole) = 4
  <2>1. f[n] \in S
    BY <1>2, <1>3
  <2>2. \A k \in DOMAIN criteria : \A v \in S : AsGood(units, criteria, f[n], v, k)
    BY <1>2, <1>7
  <2>3. \A k \in DOMAIN criteria : Norm(units, criteria, f[n], k) = Span(units, criteria, k)
    BY <2>1, <2>2, NormsCompare
  <2>4. score(n) = whole
    BY <1>1, <2>1, <2>3, ScoreExtremes
  <2> QED BY <2>4, ClassExtremes
<1>8. ASSUME \A m \in 1 .. N : \A k \in DOMAIN criteria : AsGood(units, criteria, f[m], f[n], k)
      PROVE  ClassOf(score(n), whole) = 0
  <2>1. f[n] \in S
    BY <1>2, <1>3
  <2>2. \A k \in DOMAIN criteria : \A v \in S : AsGood(units, criteria, v, f[n], k)
    BY <1>2, <1>8
  <2>3. \A k \in DOMAIN criteria : Norm(units, criteria, f[n], k) = 0
    BY <2>1, <2>2, NormsCompare
  <2>4. score(n) = 0
    BY <2>1, <2>3, ScoreExtremes
  <2> QED BY <2>4, ClassExtremes
<1> HIDE DEF f, score, S
<1>9. n \in 1 .. N /\ score(n) \in Nat
  BY <1>3, <1>4
<1>10. ASSUME NEW m \in DOMAIN scores,
              \A k \in DOMAIN criteria : AsGood(units, criteria, scores[n].key, scores[m].key, k)
       PROVE  /\ scores[n].score >= scores[m].score
              /\ scores[n].class >= scores[m].class
              /\ scores[n].score > scores[m].score => n < m
  <2>1. m \in 1 .. N /\ score(m) \in Nat
    BY <1>3, <1>4
  <2>2. \A k \in DOMAIN criteria : AsGood(units, criteria, f[n], f[m], k)
    BY <1>3, <1>9, <1>10, <2>1
  <2> QED BY <1>3, <1>6, <1>9, <2>1, <2>2
<1>11. ASSUME \A m \in DOMAIN scores :
                \A k \in DOMAIN criteria : AsGood(units, criteria, scores[n].key, scores[m].key, k)
       PROVE  scores[n].class = 4
  <2>1. \A m \in 1 .. N : \A k \in DOMAIN criteria : AsGood(units, criteria, f[n], f[m], k)
    BY <1>3, <1>9, <1>11
  <2> QED BY <1>3, <1>7, <1>9, <2>1
<1>12. ASSUME \A m \in DOMAIN scores :
                \A k \in DOMAIN criteria : AsGood(units, criteria, scores[m].key, scores[n].key, k)
       PROVE  scores[n].class = 0
  <2>1. \A m \in 1 .. N : \A k \in DOMAIN criteria : AsGood(units, criteria, f[m], f[n], k)
    BY <1>3, <1>9, <1>12
  <2> QED BY <1>3, <1>8, <1>9, <2>1
<1> QED BY <1>10, <1>11, <1>12

\* A unit that is at least as good in every criterion never scores less, whatever the
\* values and the weights, if none is negative; and the extreme classes are reached by
\* the best and the worst in all (compute_suitability_scores, suitability.py:144-166).
THEOREM BetterUnitsAreNotLower == Spec => []BetterIsNotLower
<1>1. ASSUME ScoredAsComputed PROVE BetterIsNotLower
  <2> SUFFICES ASSUME request.tool = "suitability", results # <<>>,
                      \A k \in DOMAIN request.criteria : request.criteria[k].weight >= 0
               PROVE  BetterIsNotLower
    BY DEF BetterIsNotLower
  <2>1. PICK units, criteria : units = request.units /\ criteria = request.criteria
    OBVIOUS
  <2>2. Accepted(units, criteria) /\ results = Scores(units, criteria)
    BY <1>1, <2>1 DEF ScoredAsComputed
  <2>3. \A n \in DOMAIN results :
          /\ \A m \in DOMAIN results :
               (\A k \in DOMAIN criteria : AsGood(units, criteria, results[n].key, results[m].key, k)) =>
                 /\ results[n].score >= results[m].score
                 /\ results[n].class >= results[m].class
                 /\ results[n].score > results[m].score => n < m
          /\ (\A m \in DOMAIN results :
                \A k \in DOMAIN criteria : AsGood(units, criteria, results[n].key, results[m].key, k))
               => results[n].class = 4
          /\ (\A m \in DOMAIN results :
                \A k \in DOMAIN criteria : AsGood(units, criteria, results[m].key, results[n].key, k))
               => results[n].class = 0
    BY <2>1, <2>2, BetterScoresAreNotLower
  <2> QED BY <2>1, <2>3 DEF BetterIsNotLower, AsGood
<1> QED BY Scored, <1>1, PTL

LEMMA KeptCompact ==
  ASSUME NEW units, NEW criteria, Accepted(units, criteria), NEW kept, NEW compact,
         kept = Sorted(Usable(units, criteria),
                       {p \in Usable(units, criteria) \X Usable(units, criteria) : p[1] < p[2]}),
         compact = [n \in DOMAIN kept |-> units[kept[n]]]
  PROVE  Compacts(units, criteria, Cardinality(Usable(units, criteria)), kept, compact)
<1> DEFINE S == Usable(units, criteria)
<1>1. PICK up : up = {p \in S \X S : p[1] < p[2]}
  OBVIOUS
<1>2. IsFiniteSet(S) /\ S \in SUBSET Nat
  BY UsableAreFinite DEF Accepted
<1>3. PICK n \in Nat : n = Cardinality(S)
  BY <1>2, FS_CardinalityType
<1>4. kept = Sorted(S, up)
  BY <1>1
<1>5. compact = [m \in DOMAIN kept |-> units[kept[m]]]
  OBVIOUS
<1> HIDE DEF S
<1>6. \A u, v \in S : <<u, v>> \in up <=> u < v
  BY <1>1
<1>7. StrictOrder(S, up)
  BY <1>2, <1>6 DEF StrictOrder
<1>8. InOrder(kept, n, S, up)
  BY <1>2, <1>3, <1>4, <1>7, SortedIsInOrder
<1>9. kept \in [1 .. n -> S] /\ \A i, j \in 1 .. n : i < j => <<kept[i], kept[j]>> \in up
  BY <1>8 DEF InOrder
<1>10. \A u \in S : \E m \in 1 .. n : kept[m] = u
  BY <1>2, <1>3, <1>7, <1>8, OrderCovers
<1>11. \A i, j \in 1 .. n : i < j => kept[i] < kept[j]
  BY <1>6, <1>9
<1>12. compact = [m \in 1 .. n |-> units[kept[m]]]
  BY <1>5, <1>9
<1> QED BY <1>3, <1>9, <1>10, <1>11, <1>12 DEF Compacts, S

LEMMA CompactScores ==
  ASSUME NEW units, NEW criteria, Accepted(units, criteria), NEW N, NEW kept, NEW compact,
         Compacts(units, criteria, N, kept, compact),
         NEW scores, scores = Scores(units, criteria), NEW alone, alone = Scores(compact, criteria)
  PROVE  /\ SuitabilityError(compact, criteria) = {}
         /\ Len(scores) = Len(alone)
         /\ \A n \in DOMAIN scores :
              /\ scores[n].key = kept[alone[n].key]
              /\ scores[n].score * alone[n].whole = alone[n].score * scores[n].whole
              /\ scores[n].class = alone[n].class
<1>1. N \in Nat /\ N = Cardinality(Usable(units, criteria))
  BY DEF Compacts
<1>2. /\ Usable(compact, criteria) = 1 .. N /\ Accepted(compact, criteria)
      /\ Denominator(compact, criteria) = Denominator(units, criteria)
      /\ \A m \in 1 .. N : Score(compact, criteria, m) = Score(units, criteria, kept[m])
  BY CompactIsSame
<1>3. PICK f, a : f = Ranked(units, criteria) /\ a = Ranked(compact, criteria)
  OBVIOUS
<1>4. DOMAIN f = 1 .. N /\ DOMAIN a = 1 .. N /\ \A m \in 1 .. N : a[m] \in 1 .. N /\ f[m] = kept[a[m]]
  BY <1>3, CompactRanks
<1>5. PICK whole : whole = Denominator(units, criteria)
  OBVIOUS
<1>6. /\ DOMAIN scores = 1 .. N /\ Len(scores) = N
      /\ \A n \in 1 .. N : /\ scores[n].key = f[n] /\ scores[n].score = Score(units, criteria, f[n])
                           /\ scores[n].whole = whole /\ scores[n].class = ClassOf(Score(units, criteria, f[n]), whole)
  BY <1>1, <1>3, <1>4, <1>5, ScoresAre
<1>7. /\ Len(alone) = N
      /\ \A n \in 1 .. N : /\ alone[n].key = a[n] /\ alone[n].score = Score(compact, criteria, a[n])
                           /\ alone[n].whole = whole /\ alone[n].class = ClassOf(Score(compact, criteria, a[n]), whole)
  <2>1. Cardinality(Usable(compact, criteria)) = N
    BY <1>1, <1>2, SizeOfInterval
  <2> QED BY <1>2, <1>3, <1>4, <1>5, <2>1, ScoresAre
<1>8. \A n \in 1 .. N : Score(units, criteria, f[n]) = Score(compact, criteria, a[n])
  BY <1>2, <1>4
<1>9. \A n \in 1 .. N : /\ scores[n].key = kept[alone[n].key]
                        /\ scores[n].score * alone[n].whole = alone[n].score * scores[n].whole
                        /\ scores[n].class = alone[n].class
  BY <1>4, <1>6, <1>7, <1>8
<1> QED BY <1>2, <1>6, <1>7, <1>9 DEF Accepted

\* Units without a value leave no trace in the others' ranks, scores and classes: a layer
\* without them is accepted too, and scores alike (suitability.py:111-130).
THEOREM ExcludedUnitsChangeNothing == Spec => []NullsChangeNothing
<1>1. ASSUME ScoredAsComputed PROVE NullsChangeNothing
  <2> SUFFICES ASSUME request.tool = "suitability", results # <<>> PROVE NullsChangeNothing
    BY DEF NullsChangeNothing
  <2> DEFINE units == request.units
             criteria == request.criteria
             usable == Usable(units, criteria)
             kept == Sorted(usable, {p \in usable \X usable : p[1] < p[2]})
             compact == [n \in DOMAIN kept |-> units[kept[n]]]
             alone == Scores(compact, criteria)
  <2>1. Accepted(units, criteria) /\ results = Scores(units, criteria)
    BY <1>1 DEF ScoredAsComputed
  <2>2. Compacts(units, criteria, Cardinality(usable), kept, compact)
    BY <2>1, KeptCompact
  <2>3. /\ SuitabilityError(compact, criteria) = {}
        /\ Len(results) = Len(alone)
        /\ \A n \in DOMAIN results :
             /\ results[n].key = kept[alone[n].key]
             /\ results[n].score * alone[n].whole = alone[n].score * results[n].whole
             /\ results[n].class = alone[n].class
    <3> HIDE DEF kept, compact
    <3> QED BY <2>1, <2>2, CompactScores
  <2> QED BY <2>3 DEF NullsChangeNothing
<1> QED BY Scored, <1>1, PTL
===============================================================================
