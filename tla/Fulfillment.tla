------------------------------ MODULE Fulfillment -------------------------------
(***************************************************************************)
(* From a requirement to data known to meet it: data.check_requirement     *)
(* classifies a snapshot and plans (data_tools.py, fulfillment.py), QGIS   *)
(* validates a layer (validation_qgis.py), and satisfy_requirement and     *)
(* evaluate_join_values (contracts.py) judge what validation found.        *)
(*                                                                         *)
(* The functions of the three files repeat each other's comparisons over   *)
(* different views of a layer, a snapshot's record or a report; the        *)
(* properties say that they agree.                                         *)
(***************************************************************************)
EXTENDS Requirements

CONSTANTS
  Asked,     \* the requirements asked for
  Snapshots, \* sequences of layer records
  Columns,   \* the values of a join key in the rows of a layer, None for null
  ScanCap    \* JOIN_SCAN_CAP: the rows of a layer whose values are compared

Values(column) == {column[k] : k \in DOMAIN column}

ASSUME AskedAssumption == Asked \subseteq Requirement
ASSUME SnapshotsAssumption == Snapshots \subseteq Seq(LayerRecord)
ASSUME ColumnsAssumption == ScanCap \in Nat /\ \A column \in Columns : column \in Seq(Values(column))

VARIABLES
  requirement, \* DataRequirement
  inventory,   \* LayerInventory: its records
  truncated,   \* LayerInventory.truncated
  plan,        \* FulfillmentPlan
  subject,     \* the layer that was validated
  found,       \* history: that layer as its getters answered
  report,      \* ValidationReport
  satisfied,   \* SatisfactionResult
  joinReport   \* JoinKeyReport, and the columns of the two layers

input == <<requirement, inventory, truncated>>
validation == <<subject, found, report, satisfied>>
vars == <<input, plan, validation, joinReport>>

NormalizedTypes == {NormalizeFieldType(name) : name \in TypeNames}

ASSUME NoFieldsAssumption == None \notin PartialFunctions(FieldNames, NormalizedTypes)

Report ==
  [verdict : {"valid", "empty", "invalid"},
   geometry : Families \cup {"Unknown"},
   fields : PartialFunctions(FieldNames, NormalizedTypes) \cup {None},
   crs : Crs \cup {None}, crsKnown : BOOLEAN,
   extent : BOOLEAN,
   validity : {"FULL", "PARTIAL", "UNCHECKED"},
   coverage : BOOLEAN \cup {None},
   hasTime : BOOLEAN \cup {None}]

-------------------------------------------------------------------------------
(* Validation                                                               *)

\* A record that discover_project makes of a layer: geometry in QGIS's numbers,
\* none for a raster, which has no fields and no features either, and an extent in
\* the layer's CRS.
Discovered(r) ==
  /\ r.geometry \in QgisGeometries \cup {None}
  /\ r.geometry = None => r.fields = None /\ r.empty = None
  /\ r.extent # None => r.extent.crs = r.crs
  /\ r.unreachable => ~r.valid

Reread(v, S) == IF v = None THEN S \cup {None} ELSE {v}

\* The layer of a record as its getters may answer validation, which asks them all
\* again: what was open may be answered now or not, and what was known is the same.
ReadAnew(r) ==
  {a \in [geometry : {r.geometry}, unreachable : {r.unreachable}, valid : {r.valid},
          fields : IF r.geometry = None THEN {None} ELSE Reread(r.fields, PartialFunctions(FieldNames, TypeNames)),
          empty : IF r.geometry = None THEN {None} ELSE Reread(r.empty, BOOLEAN),
          crs : Reread(r.crs, Crs), extent : Reread(r.extent, Extent),
          hasTime : Reread(r.hasTime, BOOLEAN)] :
     a.extent # None => a.extent.crs = a.crs}

\* The report on a layer that cannot be opened.
Unopened ==
  [verdict |-> "invalid", geometry |-> "Unknown", fields |-> None, crs |-> None,
   crsKnown |-> FALSE, extent |-> FALSE, validity |-> "UNCHECKED", coverage |-> None,
   hasTime |-> None]

\* Whether QGIS knows the CRS: it may not, even where there is an authid.
Known(r) == IF r.crs = None THEN {FALSE} ELSE BOOLEAN

\* _read_field_list: types come under their own names.
Normalized(fields) ==
  IF fields = None THEN None ELSE [f \in DOMAIN fields |-> NormalizeFieldType(fields[f])]

\* The reports that tell of a layer what its getters answer.
Reports(r, verdict, known, extent, validity, coverage) ==
  [verdict : {verdict}, geometry : {CanonicalizeGeometry(r.geometry)}, fields : {Normalized(r.fields)},
   crs : {r.crs}, crsKnown : {known}, extent : {extent}, validity : validity,
   coverage : coverage, hasTime : {r.hasTime}]

\* _sample_validity: rasters have no features to look at, a scan may fail or be
\* capped, and a geometry may be invalid.
Samples(r) == IF r.geometry = None THEN {"UNCHECKED"} ELSE {"FULL", "PARTIAL", "UNCHECKED"}

\* The coverage of an open layer: containment is exact within a CRS and QGIS's
\* business across, and where the box contains the extent features may be missing.
Coverages(q, r, known) ==
  CASE q.extent = None -> {TRUE}
    [] q.extent # None /\ ~known -> {None}
    [] OTHER -> CASE BboxContainsNative(r.extent, q.extent) = FALSE -> {FALSE}
                  [] BboxContainsNative(r.extent, q.extent) = TRUE -> BOOLEAN
                  [] OTHER -> BOOLEAN \cup {None}

\* _validate_open_layer on a layer, as far as it ends early: not opened, known to be
\* empty, an invalid geometry among those it looked at, no extent.
EndsEarly(r) ==
  IF ~r.valid THEN {Unopened}
  ELSE IF r.empty = TRUE THEN UNION {Reports(r, "empty", known, FALSE, {"UNCHECKED"}, {None}) : known \in Known(r)}
  ELSE UNION {Reports(r, "invalid", known, FALSE,
                      IF r.extent = None THEN Samples(r) ELSE Samples(r) \ {"UNCHECKED"}, {None}) :
                known \in Known(r)}

\* ... and as far as it gets to the end, where a failed coverage is no failure.
RunsThrough(q, r) ==
  IF ~r.valid \/ r.empty = TRUE \/ r.extent = None THEN {}
  ELSE UNION {Reports(r, "valid", known, TRUE, Samples(r), Coverages(q, r, known)) : known \in Known(r)}

Validate(q, r) == EndsEarly(r) \cup RunsThrough(q, r)

-------------------------------------------------------------------------------
(* Judgement of reports                                                     *)

\* Mutant: a coverage that is not known is not looked at.
DeferredUnasked(q, rep) ==
  \/ q.crs # None /\ ~rep.crsKnown
  \/ q.required # {} /\ rep.fields = None

\* A dimension that is asked for and that the report could not determine.
Deferred(q, rep) ==
  \/ q.extent # None /\ (~rep.extent \/ rep.coverage = None)
  \/ q.crs # None /\ ~rep.crsKnown
  \/ q.required # {} /\ rep.fields = None

\* satisfy_requirement, with the reason.
SatisfyRequirement(q, rep) ==
  CASE rep.verdict = "invalid" -> <<"not-satisfied", "invalid">>
    [] rep.verdict = "empty" -> <<"not-satisfied", "empty-dataset">>
    [] OTHER ->
         IF Deferred(q, rep) THEN <<"unknown-deferred", "deferred">>
         ELSE IF rep.validity = "PARTIAL" THEN <<"partial", "partial-validity">>
         ELSE IF ~GeometrySatisfies(q.geometry, rep.geometry) THEN <<"not-satisfied", "geometry-mismatch">>
         ELSE IF \E f \in q.required : ~FieldFits(q, rep.fields, f) THEN <<"not-satisfied", "schema-gap">>
         ELSE IF q.crs \notin {None, rep.crs} THEN <<"not-satisfied", "crs-mismatch">>
         ELSE IF q.extent # None /\ rep.coverage = FALSE THEN <<"not-satisfied", "coverage-gap">>
         ELSE IF q.hasTime # None /\ rep.hasTime = None THEN <<"unknown-deferred", "deferred">>
         ELSE IF q.hasTime \notin {None, rep.hasTime} THEN <<"not-satisfied", "temporal-mismatch">>
         ELSE <<"satisfied", "none">>

\* collect: the values to compare and whether they are all there.  A scan may fail; it
\* stops one row beyond the cap, and sorting by id decides which of its rows is left out.
\* The count of the layer, where it is known, has the last word on completeness.
Collected(column) ==
  LET rows == IF Len(column) <= ScanCap THEN {column}
              ELSE {[j \in 1 .. ScanCap |-> column[IF j < k THEN j ELSE j + 1]] : k \in 1 .. ScanCap + 1}
  IN {[values |-> <<>>, complete |-> FALSE]} \cup
     [values : rows, complete : IF Len(column) <= ScanCap + 1 THEN BOOLEAN ELSE {FALSE}]

\* Mutant: values are compared with those of the other side only.
LookedAcross(scan, value, others) ==
  [seen |-> scan.seen \cup {value}, twice |-> scan.twice \/ value \in others]

\* The next value of a scan, which ends at one seen before or among the others.
Looked(scan, value, others) ==
  IF scan.twice THEN scan
  ELSE IF value \in scan.seen \cup others THEN [seen |-> scan.seen, twice |-> TRUE]
  ELSE [seen |-> scan.seen \cup {value}, twice |-> FALSE]

\* The values of one side in turn.
Scan(values, others) ==
  LET scan[n \in 0 .. Len(values)] ==
        IF n = 0 THEN [seen |-> {}, twice |-> FALSE] ELSE Looked(scan[n - 1], values[n], others)
  IN scan[Len(values)]

\* evaluate_join_values for a key that both sides have with fitting types: nulls
\* first, then the left side, and where it repeats nothing, the right one.
EvaluateJoinValues(left, right) ==
  IF None \in Values(left) \cup Values(right) THEN "nulls"
  ELSE IF Scan(left, {}).twice THEN "duplicates"
  ELSE IF Scan(right, Scan(left, {}).seen).twice THEN "duplicates"
  ELSE "valid"

-------------------------------------------------------------------------------
(* The specification                                                        *)

Init ==
  /\ requirement \in Asked
  /\ inventory \in Snapshots
  /\ truncated \in BOOLEAN
  /\ plan = None
  /\ subject = None /\ found = None /\ report = None /\ satisfied = None
  /\ joinReport = None

CheckRequirement ==
  /\ plan = None
  /\ plan' = PlanFulfillment(requirement, inventory, truncated)
  /\ UNCHANGED <<input, validation, joinReport>>

\* validate_dataset on a layer of the project.
ValidateDataset(k) ==
  /\ plan # None /\ report = None
  /\ Discovered(inventory[k])
  /\ subject' = k
  /\ found' \in ReadAnew(inventory[k])
  /\ report' \in Validate(requirement, found')
  /\ UNCHANGED <<input, plan, satisfied, joinReport>>

Satisfy ==
  /\ report # None /\ satisfied = None
  /\ satisfied' = SatisfyRequirement(requirement, report)
  /\ UNCHANGED <<input, plan, subject, found, report, joinReport>>

\* validate_join_key on the layers of a proposed join.
ValidateJoinKey(left, right) ==
  /\ plan # None /\ plan.step # None /\ plan.step.op = "join" /\ joinReport = None
  /\ \E l \in Collected(left), r \in Collected(right) :
       joinReport' = [columns |-> <<left, right>>, complete |-> l.complete /\ r.complete,
                      verdict |-> EvaluateJoinValues(l.values, r.values)]
  /\ UNCHANGED <<input, plan, validation>>

Next ==
  \/ CheckRequirement
  \/ \E k \in DOMAIN inventory : ValidateDataset(k)
  \/ Satisfy
  \/ \E left, right \in Columns : ValidateJoinKey(left, right)

Spec == Init /\ [][Next]_vars

-------------------------------------------------------------------------------
(* Properties                                                               *)

\* What it means for a layer to meet a requirement, of whichever way it is known.
Meets(q, r) ==
  /\ q.geometry \in {"Any", CanonicalizeGeometry(r.geometry)}
  /\ \A f \in q.required : f \in DOMAIN r.fields /\ (f \in DOMAIN q.types => TypeCompatible(r.fields[f], q.types[f]))
  /\ q.crs # None => r.crs = q.crs
  /\ q.extent # None => r.extent.crs = q.extent.crs /\ q.extent.box \subseteq r.extent.box
  /\ q.hasTime # None => r.hasTime = q.hasTime

\* What a layer may turn out to be where its record does not know.
Completions(r) ==
  [geometry : IF CanonicalizeGeometry(r.geometry) = "Unknown" THEN OpaqueGeometries ELSE {r.geometry},
   fields : IF r.fields = None THEN PartialFunctions(FieldNames, TypeNames) ELSE {r.fields},
   crs : IF r.crs = None THEN Crs ELSE {r.crs},
   extent : IF r.extent = None THEN Extent ELSE {r.extent},
   hasTime : IF r.hasTime = None THEN BOOLEAN ELSE {r.hasTime}]

\* A layer is called available only if it meets the requirement whatever its
\* unknown geometry, fields, CRS, extent and time support turn out to be
\* (classify_requirement: "UNKNOWN states never satisfy a check").  The check on
\* emptiness is not of that kind: it lets an unknown number of features pass.
AvailableIsCertain ==
  plan # None /\ plan.kind = "local-layer" =>
    LET r == inventory[plan.layer] IN
    /\ r.valid /\ r.empty # TRUE /\ ~r.unreachable
    /\ \A c \in Completions(r) : Meets(requirement, c)

\* What a reprojection makes of a layer; its box keeps the ground it covers.
Reprojected(r, target) ==
  [r EXCEPT !.crs = target,
            !.extent = IF r.extent = None THEN None ELSE [r.extent EXCEPT !.crs = target]]

\* A planned reprojection repairs all that is wrong with its layer: what it makes
\* passes every check, save that a box in another CRS than it was asked in is not
\* compared (_member_ok against _check_layer).
ReprojectionRepairs ==
  plan # None /\ plan.step # None /\ plan.step.op \in {"reproject-vector", "reproject-raster"} =>
    LET r == Reprojected(inventory[plan.layer], requirement.crs) IN
    \/ Failures(requirement, r) = {}
    \/ Failures(requirement, r) = {5} /\ requirement.extent.crs # requirement.crs

\* Where the project is an accepted source and has layers, a download is proposed
\* only if no step would do and the layer that comes closest, passing most checks in
\* their order, cannot meet the requirement, whatever its record leaves open
\* (plan_fulfillment: what is unknown or invalid is to be looked at again).  A layer of
\* unknown geometry counts as one of another geometry.  Only the closest layer is
\* asked: one behind it may leave values open.
ProposalFillsGap ==
  plan # None /\ plan.kind = "provider-proposal" /\ requirement.local /\ inventory # <<>> =>
    /\ Steps(requirement, inventory) = {}
    /\ \E k \in DOMAIN inventory :
         /\ \A j \in DOMAIN inventory : Passes(requirement, inventory[j]) <= Passes(requirement, inventory[k])
         /\ \/ CanonicalizeGeometry(inventory[k].geometry) = "Unknown"
            \/ \A c \in Completions(inventory[k]) : ~Meets(requirement, c)

\* Data are called satisfying only if the layer itself, as its getters answered
\* validation, meets the requirement; of a box in another CRS QGIS must have said
\* that it covers the one asked for.  satisfy_requirement promises more, that it
\* "Never claims SATISFIED from UNKNOWN states": an unknown number of features and
\* geometries nobody could look at (UNCHECKED) do not keep it from it.
SatisfiedIsMeasured ==
  satisfied # None /\ satisfied[1] = "satisfied" =>
    /\ found.valid /\ found.empty # TRUE
    /\ Meets([requirement EXCEPT !.extent = None], found)
    /\ requirement.extent # None =>
         /\ found.extent # None /\ BboxContainsNative(found.extent, requirement.extent) # FALSE
         /\ report.coverage = TRUE

\* Validation of the layer that was called available finds nothing in it that its
\* record had shown otherwise: what asks for geometry, fields, CRS and time still
\* fits, it is empty only if its count was unknown, and nothing asked for is open
\* but a CRS that QGIS does not know.
ValidationAgrees ==
  satisfied # None /\ plan.kind = "local-layer" /\ subject = plan.layer =>
    /\ satisfied[2] \notin {"geometry-mismatch", "schema-gap", "crs-mismatch", "temporal-mismatch"}
    /\ satisfied[2] = "empty-dataset" => inventory[subject].empty = None
    /\ satisfied[1] = "unknown-deferred" => ~report.crsKnown

\* No two rows of a layer have the same value.
Distinct(column) == \A j, k \in DOMAIN column : column[j] = column[k] => j = k

\* A join key that is found valid by complete scans tells the rows of either layer
\* apart, all of them (evaluate_join_values).  A layer of one row more than the cap is
\* the exception: it counts as complete although one row was not looked at.
KeysIdentify ==
  joinReport # None /\ joinReport.verdict = "valid" /\ joinReport.complete =>
    \A side \in 1 .. 2 : LET column == joinReport.columns[side] IN
      Len(column) # ScanCap + 1 => Distinct(column) /\ None \notin Values(column)
================================================================================
