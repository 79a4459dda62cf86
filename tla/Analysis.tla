-------------------------------- MODULE Analysis -------------------------------
(***************************************************************************)
(* Calls of the analysis tools: analysis/tools.py, sensitivity_tools.py    *)
(* and suitability_tools.py over the engines of Engines.  A call is        *)
(* validated, weighs its criteria, sweeps them one after the other or      *)
(* scores a layer, and ends with a result or an error code.                *)
(***************************************************************************)
EXTENDS Engines

CONSTANTS
  Requests,   \* inputs of the tools
  Ratios      \* consistency ratios a matrix may have, in hundredths

\* Inputs have the types their schemas ask for; a unit may lack a value.
SensitivityInput(r) ==
  /\ r.criteria \in Seq(STRING)
  /\ r.targets = None \/ r.targets \in Seq(STRING)
  /\ r.range[1] \in Int /\ r.range[2] \in Int
  /\ r.steps \in Int

SuitabilityInput(units, criteria) ==
  /\ units \in Seq(ToSet(units)) /\ criteria \in Seq(ToSet(criteria))
  /\ \A k \in DOMAIN criteria :
       /\ criteria[k].weight \in Int
       /\ \A u \in DOMAIN units : units[u][criteria[k].field] = None \/ units[u][criteria[k].field] \in Int

ASSUME RequestsAssumption ==
  \A r \in Requests :
    \/ r.tool = "ahp"
    \/ r.tool = "sensitivity" /\ SensitivityInput(r)
    \/ r.tool = "suitability" /\ SuitabilityInput(r.units, r.criteria)

VARIABLES
  request,   \* the call's input
  stage,     \* what it is at: "asked", "weighed", "scored" or "done"
  weights,   \* baseline weights
  results,   \* sensitivity: results of the criteria; suitability: scored units
  outcome    \* what the call returned

vars == <<request, stage, weights, results, outcome>>

Pending == [ok |-> FALSE, error |-> None, flag |-> None, count |-> 0]
Failure(code) == [Pending EXCEPT !.error = code]

ErrorOf(r) ==
  IF r.tool = "ahp" THEN AhpError(r.criteria, r.matrix)
  ELSE IF r.tool = "sensitivity" THEN SensitivityError(r)
  ELSE SuitabilityError(r.units, r.criteria)

\* The targets of a sweep, all criteria if none are given.
Targets(r) == IF r.targets = None THEN r.criteria ELSE r.targets

\* Names of criteria that pass the validation differ.
Position(r, name) == CHOOSE i \in DOMAIN r.criteria : r.criteria[i] = name

-------------------------------------------------------------------------------

Refuse ==
  /\ stage = "asked"
  /\ \E code \in ErrorOf(request) : outcome' = Failure(code)
  /\ stage' = "done"
  /\ UNCHANGED <<request, weights, results>>

\* The power iteration may not converge, or find no proper vector.
NoVector ==
  /\ stage = "asked"
  /\ request.tool # "suitability"
  /\ ErrorOf(request) = {}
  /\ Len(request.matrix) >= 3
  /\ outcome' = Failure(IF request.tool = "ahp" THEN "NUMERICAL_FAILURE" ELSE "MATRIX_VALIDATION_FAILED")
  /\ stage' = "done"
  /\ UNCHANGED <<request, weights, results>>

\* An inconsistent matrix is flagged, and weighed all the same.
Weigh ==
  /\ stage = "asked"
  /\ request.tool # "suitability"
  /\ ErrorOf(request) = {}
  /\ weights' \in Priorities(request.matrix)
  /\ \E cr \in Ratios :
       outcome' = [Pending EXCEPT !.ok = request.tool = "ahp", !.flag = Flag(Len(request.matrix), cr)]
  /\ stage' = IF request.tool = "ahp" THEN "done" ELSE "weighed"
  /\ UNCHANGED <<request, results>>

\* One round of the loop over the targets.
Sweep ==
  /\ stage = "weighed"
  /\ Len(results) < Len(Targets(request))
  /\ LET k == Position(request, Targets(request)[Len(results) + 1]) IN
       results' = Append(results, CriterionSensitivity(weights, k, request.range, request.steps))
  /\ UNCHANGED <<request, stage, weights, outcome>>

EndSweep ==
  /\ stage = "weighed"
  /\ Len(results) = Len(Targets(request))
  /\ outcome' = [outcome EXCEPT !.ok = TRUE, !.count = Len(results)]
  /\ stage' = "done"
  /\ UNCHANGED <<request, weights, results>>

\* The layer is read and scored.
ScoreUnits ==
  /\ stage = "asked"
  /\ request.tool = "suitability"
  /\ ErrorOf(request) = {}
  /\ results' = Scores(request.units, request.criteria)
  /\ stage' = "scored"
  /\ UNCHANGED <<request, weights, outcome>>

\* The layer is read again and scored features are added to the output, where each
\* may be refused; or building the output fails.
BuildOutput ==
  /\ stage = "scored"
  /\ \/ \E added \in SUBSET (1 .. Len(results)) :
          outcome' = [Pending EXCEPT !.ok = TRUE, !.count = Cardinality(added)]
     \/ outcome' = Failure("output")
  /\ stage' = "done"
  /\ UNCHANGED <<request, weights, results>>

-------------------------------------------------------------------------------

Init ==
  /\ request \in Requests
  /\ stage = "asked"
  /\ weights = <<>>
  /\ results = <<>>
  /\ outcome = Pending

Next == Refuse \/ NoVector \/ Weigh \/ Sweep \/ EndSweep \/ ScoreUnits \/ BuildOutput

Spec == Init /\ [][Next]_vars

-------------------------------------------------------------------------------
(* Properties                                                               *)

Swept == IF request.tool = "sensitivity" THEN ToSet(results) ELSE {}

\* The clamp leaves something of the range.
Proper(r) == r.range[1] <= r.range[2]

Admissible(r) ==
  Proper(r) =>
    \A i \in DOMAIN r.offsets :
      LET p == r.perturbed[i]
          others == DOMAIN p \ {r.criterion}
      IN /\ \A j \in DOMAIN p : p[j] > 0
         /\ \A j, l \in others : p[j] * weights[l] = p[l] * weights[j]

\* However far a weight is moved within the clamped range, all stay positive, and the
\* others keep their ratios, so that they never cross each other (sensitivity.py:170-221).
SweepIsAdmissible == \A r \in Swept : Admissible(r)

\* The reported interval leaves out no swept offset at which the ranking is still the
\* baseline's: the scans may stop at the first difference only because those offsets
\* are contiguous (sensitivity.py:224-273).  They are for weights that are equal or apart
\* by more than the tolerance, and need not be for others: see AnalysisProofs.
StableStaysInside ==
  \A r \in Swept : Proper(r) =>
    \A i \in DOMAIN r.offsets :
      r.rankings[i] = Ranking(weights, Eps) =>
        r.interval[1] <= 2 * r.offsets[i] /\ 2 * r.offsets[i] <= r.interval[2]

\* "The stability interval is the range of delta where the entire ranking remains
\* unchanged from the baseline" (sensitivity.py:231): no swept offset within it differs.
IntervalIsStable ==
  \A r \in Swept : Proper(r) =>
    \A i \in DOMAIN r.offsets :
      r.interval[1] <= 2 * r.offsets[i] /\ 2 * r.offsets[i] <= r.interval[2] =>
        r.rankings[i] = Ranking(weights, Eps)

\* The scores of the others are the same with and without the units that are excluded
\* for a missing value, in whichever criterion it is missing (suitability.py:111-130).
NullsChangeNothing ==
  request.tool = "suitability" /\ results # <<>> =>
    LET usable == Usable(request.units, request.criteria)
        kept == Sorted(usable, {p \in usable \X usable : p[1] < p[2]})
        compact == [n \in DOMAIN kept |-> request.units[kept[n]]]
        alone == Scores(compact, request.criteria)
    IN /\ SuitabilityError(compact, request.criteria) = {}
       /\ Len(results) = Len(alone)
       /\ \A n \in DOMAIN results :
            /\ results[n].key = kept[alone[n].key]
            /\ results[n].score * alone[n].whole = alone[n].score * results[n].whole
            /\ results[n].class = alone[n].class

\* A unit that is at least as good in every criterion never scores less, and comes first
\* where it scores more; the best in all is "Very high", the worst in all "Very low"
\* (suitability.py:144-166).
BetterIsNotLower ==
  request.tool = "suitability" /\ results # <<>> /\ (\A k \in DOMAIN request.criteria : request.criteria[k].weight >= 0) =>
    LET value(n, k) == request.units[results[n].key][request.criteria[k].field]
        better(n, m, k) == IF request.criteria[k].direction = "benefit" THEN value(n, k) >= value(m, k)
                           ELSE value(n, k) <= value(m, k)
        dominates(n, m) == \A k \in DOMAIN request.criteria : better(n, m, k)
    IN \A n \in DOMAIN results :
         /\ \A m \in DOMAIN results : dominates(n, m) =>
              /\ results[n].score >= results[m].score
              /\ results[n].class >= results[m].class
              /\ results[n].score > results[m].score => n < m
         /\ (\A m \in DOMAIN results : dominates(n, m)) => results[n].class = 4
         /\ (\A m \in DOMAIN results : dominates(m, n)) => results[n].class = 0
================================================================================
