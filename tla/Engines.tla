-------------------------------- MODULE Engines --------------------------------
(***************************************************************************)
(* The analysis engines: analysis/ahp.py, sensitivity.py, suitability.py.  *)
(*                                                                         *)
(* Arithmetic is exact, on integers: weights are parts of Unit (1.0), and  *)
(* the tolerance of comparisons is Eps parts.  The principal eigenvector   *)
(* of a matrix of three or more criteria is not computed; Vectors stands   *)
(* for what the power iteration may find, and it is checked there to be    *)
(* positive and to sum to 1.                                               *)
(***************************************************************************)
EXTENDS Integers, Sequences, SequencesExt, FiniteSets, FiniteSetsExt

CONSTANTS
  Unit,      \* 1.0
  Eps,       \* FLOAT_COMPARE_EPS
  Vectors,   \* weights of three or more criteria: sequences of positive parts of Unit
  MaxN,      \* MAX_N of both engines
  MinSteps, MaxSteps,  \* num_steps
  None

\* The weights a pair of the scale may have are whole parts, and the tolerance is not 0.
ASSUME UnitAssumption == Unit \in Nat \ {0} /\ Unit % 20 = 0 /\ Eps \in Nat \ {0}
ASSUME VectorsAssumption == \A v \in Vectors : v \in Seq(1 .. Unit - 1)
ASSUME StepsAssumption == MinSteps \in Nat \ {0, 1} /\ MaxSteps \in Nat

-------------------------------------------------------------------------------
(* AHP                                                                       *)

\* A part of SAATY_SCALE, with the numerator and denominator of each value.
Scale == [one |-> <<1, 1>>, three |-> <<3, 1>>, third |-> <<1, 3>>, nine |-> <<9, 1>>, ninth |-> <<1, 9>>]

\* Entries that are no finite positive numbers; "true" equals 1 in a comparison.
Unnumbered == {"true", "text", "infinite", "zero"}

\* The code of the first row that is no row of n values.
ShapeError(matrix) ==
  LET wrong == {i \in DOMAIN matrix : Len(matrix[i]) # Len(matrix) \/ Contains(matrix[i], None)} IN
  IF matrix = <<>> THEN {"NON_SQUARE_MATRIX"}
  ELSE IF wrong = {} THEN {}
  ELSE IF Len(matrix[Min(wrong)]) # Len(matrix) THEN {"NON_SQUARE_MATRIX"} ELSE {"INCOMPLETE_MATRIX"}

\* The code of the first name that is blank, no string, or a name before it.
NameError(criteria) ==
  LET wrong == {i \in DOMAIN criteria :
                  criteria[i] \in {"blank", "number"} \/ \E j \in 1 .. i - 1 : criteria[j] = criteria[i]} IN
  IF wrong = {} THEN {}
  ELSE IF criteria[Min(wrong)] \in {"blank", "number"} THEN {"EMPTY_CRITERION_NAME"} ELSE {"DUPLICATE_CRITERION"}

Reciprocal(a, b) == Scale[a][1] * Scale[b][1] = Scale[a][2] * Scale[b][2]

Entries(matrix) == {matrix[i][j] : i, j \in 1 .. Len(matrix)}

\* validate_ahp_input: the code of the first failure, {} if there is none.
AhpError(criteria, matrix) ==
  LET n == Len(matrix) IN
     IF ShapeError(matrix) # {} THEN ShapeError(matrix)
     ELSE IF n > MaxN THEN {"UNSUPPORTED_MATRIX_SIZE"}
     ELSE IF Len(criteria) # n THEN {"NON_SQUARE_MATRIX"}
     ELSE IF NameError(criteria) # {} THEN NameError(criteria)
     ELSE IF \E i \in 1 .. n : matrix[i][i] \notin {"one", "true"} THEN {"INVALID_DIAGONAL"}
     ELSE IF Entries(matrix) \cap Unnumbered # {} THEN {"INVALID_NUMERIC_VALUE"}
     ELSE IF ~(Entries(matrix) \subseteq DOMAIN Scale) THEN {"OFF_SCALE_VALUE"}
     ELSE IF \E i, j \in 1 .. n : i < j /\ ~Reciprocal(matrix[i][j], matrix[j][i]) THEN {"RECIPROCITY_VIOLATION"}
     ELSE {}

\* One weight is 1; two are a / (1 + a) and 1 / (1 + a).
Priorities(matrix) ==
  LET a == Scale[matrix[1][Len(matrix)]] IN
  IF Len(matrix) = 1 THEN {<<Unit>>}
  ELSE IF Len(matrix) = 2 THEN {<<(Unit * a[1]) \div (a[1] + a[2]), (Unit * a[2]) \div (a[1] + a[2])>>}
  ELSE {v \in Vectors : Len(v) = Len(matrix)}

\* The flag of a consistency ratio, in hundredths.
Flag(n, cr) ==
  IF n < 3 \/ cr <= 10 THEN "ACCEPTABLE"
  ELSE IF cr <= 20 THEN "ACCEPTABLE_WITH_WARNING" ELSE "REVISE_REQUIRED"

-------------------------------------------------------------------------------
(* Sensitivity: one weight at a time                                         *)

\* How many are heavier by more than the tolerance: 0 is the heaviest.
Ranking(weights, eps) ==
  [i \in DOMAIN weights |-> Cardinality({j \in DOMAIN weights : weights[j] > weights[i] + eps})]

\* Mutant: only the upper end is clamped.
ClampUpper(weights, k, range) ==
  LET high == Unit - weights[k] - Eps IN <<range[1], IF range[2] < high THEN range[2] ELSE high>>

Clamp(weights, k, range) ==
  LET low == Eps - weights[k]
      high == Unit - weights[k] - Eps
  IN <<IF range[1] > low THEN range[1] ELSE low, IF range[2] < high THEN range[2] ELSE high>>

\* The offsets of a sweep, in parts of Unit * (steps - 1).
Offsets(range, steps) == [i \in 1 .. steps |-> (steps - 1) * range[1] + (i - 1) * (range[2] - range[1])]

\* The weights with the k-th offset and the others scaled to what is left, in parts of
\* Unit * s * (Unit - weights[k]), s = steps - 1.  They sum to 1, normalised as they are.
Perturbed(weights, k, offset, s) ==
  [i \in DOMAIN weights |->
     IF i = k THEN (s * weights[k] + offset) * (Unit - weights[k])
     ELSE weights[i] * (s * Unit - s * weights[k] - offset)]

\* Mutant: scans begin at the first offset that differs and go one step too far.
IntervalOneShort(offsets, rankings, baseline) ==
  LET unstable == {i \in DOMAIN offsets : rankings[i] # baseline}
      below == {i \in unstable : offsets[i] <= 0}
      above == {i \in unstable : offsets[i] >= 0}
      last == Len(offsets)
  IN <<IF below = {} THEN 2 * offsets[1] ELSE 2 * offsets[Max(below)] + 2 * (offsets[2] - offsets[1]) + 1,
       IF above = {} THEN 2 * offsets[last] ELSE 2 * offsets[Min(above)] - 2 * (offsets[2] - offsets[1]) - 1>>

\* _compute_stability_interval, in halves of an offset: the scans start at the far ends.
Interval(offsets, rankings, baseline) ==
  LET unstable == {i \in DOMAIN offsets : rankings[i] # baseline}
      last == Len(offsets)
      below == {i \in unstable : \A j \in 1 .. i : offsets[j] <= 0}
      above == {i \in unstable : \A j \in i .. last : offsets[j] >= 0}
      step == offsets[2] - offsets[1]
  IN <<IF below = {} THEN 2 * offsets[1]
       ELSE IF Min(below) = 1 THEN 2 * (offsets[1] + step)
       ELSE offsets[Min(below) - 1] + offsets[Min(below)],
       IF above = {} THEN 2 * offsets[last]
       ELSE IF Max(above) = last THEN 2 * (offsets[last] - step)
       ELSE offsets[Max(above) + 1] + offsets[Max(above)]>>

Crossovers(offsets, rankings, baseline) ==
  SelectSeq([i \in DOMAIN offsets |-> IF rankings[i] = baseline THEN None ELSE offsets[i]], LAMBDA o : o # None)

\* The result for one criterion.
CriterionSensitivity(weights, k, range, steps) ==
  LET clamped == Clamp(weights, k, range)
      offsets == Offsets(clamped, steps)
      perturbed == [i \in DOMAIN offsets |-> Perturbed(weights, k, offsets[i], steps - 1)]
      rankings == [i \in DOMAIN offsets |-> Ranking(perturbed[i], Eps * (steps - 1) * (Unit - weights[k]))]
      baseline == Ranking(weights, Eps)
  IN [criterion |-> k, range |-> clamped, offsets |-> offsets, perturbed |-> perturbed,
      rankings |-> rankings, interval |-> Interval(offsets, rankings, baseline),
      crossovers |-> Crossovers(offsets, rankings, baseline)]

Within(x) == -Unit < x /\ x < Unit

\* The first failure of the method, of _validate_sensitivity_input, of the engine.
SensitivityError(r) ==
  IF r.method \notin {"OAT_WEIGHT", "OAT_PAIRWISE"} THEN {"INVALID_METHOD"}
  ELSE IF Len(r.criteria) < 2 \/ Len(r.criteria) > MaxN THEN {"INVALID_INPUT"}
  ELSE IF r.method # "OAT_WEIGHT" THEN {"INVALID_METHOD"}
  ELSE IF ~Within(r.range[1]) \/ ~Within(r.range[2]) \/ r.range[1] >= r.range[2]
       THEN {"INVALID_PERTURBATION_RANGE"}
  ELSE IF r.steps < MinSteps \/ r.steps > MaxSteps THEN {"INVALID_NUM_STEPS"}
  ELSE IF r.targets # None /\ ~(ToSet(r.targets) \subseteq ToSet(r.criteria)) THEN {"INVALID_TARGET_CRITERION"}
  ELSE IF AhpError(r.criteria, r.matrix) # {} THEN {"MATRIX_VALIDATION_FAILED"}
  ELSE {}

-------------------------------------------------------------------------------
(* Suitability: weighted linear combination                                  *)

SumOf(numbers) ==
  LET sum[n \in 0 .. Len(numbers)] == IF n = 0 THEN 0 ELSE sum[n - 1] + numbers[n] IN sum[Len(numbers)]

ProductOf(numbers) ==
  LET product[n \in 0 .. Len(numbers)] == IF n = 0 THEN 1 ELSE product[n - 1] * numbers[n]
  IN product[Len(numbers)]

\* Units with a value in every field of the criteria.
Usable(units, criteria) ==
  {u \in DOMAIN units : \A k \in DOMAIN criteria : units[u][criteria[k].field] # None}

\* Mutant: values enter their columns before the unit's later fields are looked at.
ColumnAtOnce(units, criteria, k) ==
  {units[u][criteria[k].field] :
     u \in {v \in DOMAIN units : \A j \in 1 .. k : units[v][criteria[j].field] # None}}

\* The values of a criterion: of usable units only.
Column(units, criteria, k) == {units[u][criteria[k].field] : u \in Usable(units, criteria)}

Span(units, criteria, k) == Max(Column(units, criteria, k)) - Min(Column(units, criteria, k))

SuitabilityError(units, criteria) ==
  IF units = <<>> THEN {"no-units"}
  ELSE IF criteria = <<>> THEN {"no-criteria"}
  ELSE IF SumOf([k \in DOMAIN criteria |-> criteria[k].weight]) # Unit THEN {"weights"}
  ELSE IF Usable(units, criteria) = {} THEN {"no-scorable-units"}
  ELSE IF \E k \in DOMAIN criteria : Span(units, criteria, k) = 0 THEN {"constant"}
  ELSE {}

\* Mutant: a cost is a benefit.
NormOfBenefit(units, criteria, u, k) == units[u][criteria[k].field] - Min(Column(units, criteria, k))

\* Normalised value, in parts of the span.
Norm(units, criteria, u, k) ==
  IF criteria[k].direction = "benefit"
  THEN units[u][criteria[k].field] - Min(Column(units, criteria, k))
  ELSE Max(Column(units, criteria, k)) - units[u][criteria[k].field]

Spans(units, criteria) == [k \in DOMAIN criteria |-> Span(units, criteria, k)]

\* Unit times the product of the spans: what scores are parts of.
Denominator(units, criteria) == Unit * ProductOf(Spans(units, criteria))

\* What a criterion adds: its weight, the normalised value, and the spans of the others.
Part(units, criteria, u, k) ==
  criteria[k].weight * Norm(units, criteria, u, k) * ProductOf([Spans(units, criteria) EXCEPT ![k] = 1])

Score(units, criteria, u) ==
  LET whole == Denominator(units, criteria)
      sum == SumOf([k \in DOMAIN criteria |-> Part(units, criteria, u, k)])
  IN IF sum < 0 THEN 0 ELSE IF sum > whole THEN whole ELSE sum

\* CLASS_LABELS, 0 to 4.
ClassOf(score, whole) == IF (5 * score) \div whole > 4 THEN 4 ELSE (5 * score) \div whole

\* The elements of a set in the order of a relation.
Sorted(S, order) ==
  CHOOSE seq \in [1 .. Cardinality(S) -> S] : \A n, m \in DOMAIN seq : n < m => <<seq[n], seq[m]>> \in order

\* Best first, ties by key; units are numbered in the order of their keys as texts.
ScoreOrder(units, criteria) ==
  LET usable == Usable(units, criteria)
      score == [u \in usable |-> Score(units, criteria, u)]
  IN {p \in usable \X usable : score[p[1]] > score[p[2]] \/ (score[p[1]] = score[p[2]] /\ p[1] < p[2])}

Scores(units, criteria) ==
  LET whole == Denominator(units, criteria)
      order == Sorted(Usable(units, criteria), ScoreOrder(units, criteria))
      score == [u \in Usable(units, criteria) |-> Score(units, criteria, u)]
  IN [n \in DOMAIN order |->
        [key |-> order[n], score |-> score[order[n]], whole |-> whole, class |-> ClassOf(score[order[n]], whole)]]
================================================================================
