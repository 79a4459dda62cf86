------------------------------ MODULE Requirements ------------------------------
(***************************************************************************)
(* data/contracts.py and data/fulfillment.py: what a data requirement asks, *)
(* how the layers of a snapshot are classified against it, and which plan   *)
(* follows.  All of it is pure: the operators below are the functions of    *)
(* the source, on abstract data.                                           *)
(*                                                                         *)
(* A box is the set of cells it covers, so containment is inclusion; boxes  *)
(* of different CRS are never compared.  Layers are numbered in the order   *)
(* of their ids, fields in the order of their names.                       *)
(***************************************************************************)
EXTENDS Integers, Sequences

CONSTANTS
  Crs,        \* CRS authids
  Cells,      \* pieces of ground
  FieldNames, \* field names
  TypeNames,  \* names of field types, as providers give them
  Providers,  \* provider ids
  None        \* an absent or unknown value

ASSUME NamesAssumption == FieldNames \subseteq Nat

-------------------------------------------------------------------------------
(* Vocabulary                                                               *)

Families == {"Point", "LineString", "Polygon", "Raster", "Table"}

\* str(layer.geometryType()) in QGIS 4, and the names other sources use.
QgisGeometries == {"0", "1", "2", "3", "4"}
OpaqueGeometries == QgisGeometries \cup Families

CanonicalizeGeometry(g) ==
  CASE g \in {"0", "Point"} -> "Point"
    [] g \in {"1", "LineString"} -> "LineString"
    [] g \in {"2", "Polygon"} -> "Polygon"
    [] g \in {"Raster", "Table"} -> g
    [] OTHER -> "Unknown"

GeometrySatisfies(asked, canonical) == asked \in {"Any", canonical}

QVariantSubset == {"String", "Int", "Double", "Date", "DateTime", "Bool", "StringList"}

Coercible == {<<t, t>> : t \in QVariantSubset} \cup {<<"Int", "Double">>}

\* FIELD_TYPE_NORMALIZATION, without regard to case ("string" is "String" here);
\* names nobody knows stay as they are.
NormalizeFieldType(name) ==
  CASE name \in {"integer", "long", "short", "int64"} -> "Int"
    [] name \in {"float", "real", "numeric"} -> "Double"
    [] name \in {"str", "qstring", "text"} -> "String"
    [] name \in {"timestamp", "time"} -> "DateTime"
    [] name = "boolean" -> "Bool"
    [] name = "qstringlist" -> "StringList"
    [] OTHER -> name

TypeCompatible(name, asked) == <<NormalizeFieldType(name), asked>> \in Coercible

Extent == [box : (SUBSET Cells) \ {{}}, crs : Crs]

ASSUME NoneAssumption == None \notin BOOLEAN \cup Extent

\* Contained as far as can be said without QGIS; None across CRS.
BboxContainsNative(outer, inner) ==
  IF outer.crs # inner.crs THEN None ELSE inner.box \subseteq outer.box

\* The order breaks ties between chains.
TransformOps == <<"reproject-vector", "reproject-raster", "clip", "filter", "join",
                  "raster-to-vector", "vector-to-raster">>
Ops == {TransformOps[k] : k \in DOMAIN TransformOps}
EmitOps == Ops \ {"clip", "filter"}

PartialFunctions(S, T) == UNION {[D -> T] : D \in SUBSET S}

\* What parse_requirement accepts.  partial: the coverage threshold is below 1;
\* local: the project is an acceptable source; provider: the first provider that is.
Requirement ==
  [geometry : Families \cup {"Any"},
   required : SUBSET FieldNames,
   types : PartialFunctions(FieldNames, QVariantSubset),
   crs : Crs \cup {None},
   extent : Extent \cup {None},
   partial : BOOLEAN,
   hasTime : BOOLEAN \cup {None},
   local : BOOLEAN,
   provider : Providers \cup {None},
   allowed : SUBSET Ops]

\* One layer of a snapshot.  empty: it has no features, None where the count is not known.
LayerRecord ==
  [geometry : OpaqueGeometries \cup {None},
   fields : PartialFunctions(FieldNames, TypeNames) \cup {None},
   crs : Crs \cup {None},
   unreachable : BOOLEAN,
   extent : Extent \cup {None},
   valid : BOOLEAN,
   empty : BOOLEAN \cup {None},
   hasTime : BOOLEAN \cup {None}]

First(S) == CHOOSE k \in S : \A j \in S : k <= j

-------------------------------------------------------------------------------
(* _check_layer: seven checks, the first to fail decides                     *)

Pass == "pass"

GeometryCheck(q, r) ==
  IF GeometrySatisfies(q.geometry, CanonicalizeGeometry(r.geometry)) THEN Pass ELSE "no-layer"

\* The part of check 2 that concerns one required field.
FieldFits(q, fields, f) ==
  /\ f \in DOMAIN fields
  /\ f \in DOMAIN q.types => TypeCompatible(fields[f], q.types[f])

\* Mutant: types are not compared.
FieldsPresent(q, r) ==
  IF q.required = {} THEN Pass
  ELSE IF r.fields = None THEN "unknown-deferred"
  ELSE IF q.required \subseteq DOMAIN r.fields THEN Pass
  ELSE "schema-gap"

FieldsCheck(q, r) ==
  IF q.required = {} THEN Pass
  ELSE IF r.fields = None THEN "unknown-deferred"
  ELSE IF \A f \in q.required : FieldFits(q, r.fields, f) THEN Pass
  ELSE "schema-gap"

CrsCheck(q, r) ==
  IF q.crs \in {None, r.crs} THEN Pass
  ELSE IF r.crs = None THEN "unknown-deferred" ELSE "crs-gap"

ReachabilityCheck(q, r) == IF r.unreachable THEN "invalid-candidate" ELSE Pass

\* Mutant: a box in another CRS counts as covering.
CoverageCheckLoose(q, r) ==
  IF q.extent = None THEN Pass
  ELSE IF r.extent = None THEN "unknown-deferred"
  ELSE IF BboxContainsNative(r.extent, q.extent) # FALSE THEN Pass
  ELSE IF q.partial THEN "unknown-deferred" ELSE "coverage-gap"

CoverageCheck(q, r) ==
  IF q.extent = None THEN Pass
  ELSE IF r.extent = None THEN "unknown-deferred"
  ELSE IF BboxContainsNative(r.extent, q.extent) = None THEN "unknown-deferred"
  ELSE IF BboxContainsNative(r.extent, q.extent) THEN Pass
  ELSE IF q.partial THEN "unknown-deferred" ELSE "coverage-gap"

ValidityCheck(q, r) == IF r.valid /\ r.empty # TRUE THEN Pass ELSE "invalid-candidate"

TemporalCheck(q, r) ==
  IF q.hasTime \in {None, r.hasTime} THEN Pass
  ELSE IF r.hasTime = None THEN "unknown-deferred" ELSE "no-layer"

Checks(q, r) ==
  <<GeometryCheck(q, r), FieldsCheck(q, r), CrsCheck(q, r), ReachabilityCheck(q, r),
    CoverageCheck(q, r), ValidityCheck(q, r), TemporalCheck(q, r)>>

Failures(q, r) == {k \in 1 .. 7 : Checks(q, r)[k] # Pass}

\* The number of checks that pass, and why the layer fails.
Passes(q, r) == First(Failures(q, r)) - 1
Failure(q, r) == Checks(q, r)[First(Failures(q, r))]

-------------------------------------------------------------------------------
(* _single_step_chains                                                      *)

CoverageEstimateOk(q, r) ==
  q.extent # None => r.extent # None /\ BboxContainsNative(r.extent, q.extent) = TRUE

\* Mutant: the temporal constraint is forgotten.
MemberOkAnyTime(q, r) ==
  /\ r.valid /\ ~r.unreachable /\ r.empty # TRUE
  /\ CoverageEstimateOk(q, r)

\* _member_ok, without the two comparisons that depend on the operation.
MemberOk(q, r) ==
  /\ r.valid /\ ~r.unreachable /\ r.empty # TRUE
  /\ q.hasTime # None => r.hasTime = q.hasTime
  /\ CoverageEstimateOk(q, r)

MemberGeometryOk(q, r) == GeometrySatisfies(q.geometry, CanonicalizeGeometry(r.geometry))
MemberCrsOk(q, r) == q.crs # None => r.crs = q.crs

FieldsOk(q, fields) ==
  q.required # {} => fields # None /\ \A f \in q.required : FieldFits(q, fields, f)

\* Everything matches except the CRS, and both are known.
ReprojectionOk(q, r) ==
  /\ MemberOk(q, r) /\ MemberGeometryOk(q, r)
  /\ q.crs # None /\ r.crs \notin {None, q.crs}
  /\ FieldsOk(q, r.fields)

ConversionOk(q, r) == MemberOk(q, r) /\ MemberCrsOk(q, r) /\ FieldsOk(q, r.fields)

\* Whether an operation on one layer would do.
Applies(op, q, r) ==
  LET canonical == CanonicalizeGeometry(r.geometry) IN
  \/ op = "reproject-vector" /\ canonical # "Raster" /\ ReprojectionOk(q, r)
  \/ op = "reproject-raster" /\ "Raster" \in {canonical, q.geometry} /\ ReprojectionOk(q, r)
  \/ /\ op = "raster-to-vector" /\ canonical = "Raster"
     /\ q.geometry \in {"Point", "LineString", "Polygon", "Table"} /\ ConversionOk(q, r)
  \/ /\ op = "vector-to-raster" /\ q.geometry = "Raster"
     /\ canonical \in {"Point", "LineString", "Polygon"} /\ ConversionOk(q, r)

\* Common fields of types one of which widens to the other.
JoinKeys(left, right) ==
  {f \in DOMAIN left \cap DOMAIN right :
     LET a == NormalizeFieldType(left[f])
         b == NormalizeFieldType(right[f])
     IN <<a, b>> \in Coercible \/ <<b, a>> \in Coercible}

\* Two layers that have the required fields between them.
JoinApplies(q, left, right) ==
  /\ q.required # {}
  /\ \A r \in {left, right} :
       MemberOk(q, r) /\ MemberGeometryOk(q, r) /\ MemberCrsOk(q, r) /\ r.fields # None
  /\ q.required \subseteq DOMAIN left.fields \cup DOMAIN right.fields
  /\ JoinKeys(left.fields, right.fields) # {}

\* A step: its operation, its input layers, and the key of a join.
Step == [op : EmitOps, refs : Seq(Nat), key : FieldNames \cup {None}]

SingleSteps(q, records) ==
  {s \in [op : EmitOps \cap q.allowed, refs : {<<k>> : k \in DOMAIN records}, key : {None}] :
     Applies(s.op, q, records[s.refs[1]])}

\* The pairs of layers to join, in the order of their ids.
Pairs(q, records) ==
  {p \in (DOMAIN records) \X (DOMAIN records) :
     p[1] < p[2] /\ JoinApplies(q, records[p[1]], records[p[2]])}

\* The key is the first field that will do.
JoinStep(records, p) ==
  [op |-> "join", refs |-> p, key |-> First(JoinKeys(records[p[1]].fields, records[p[2]].fields))]

JoinSteps(q, records) ==
  {JoinStep(records, p) : p \in IF "join" \in q.allowed THEN Pairs(q, records) ELSE {}}

Steps(q, records) == SingleSteps(q, records) \cup JoinSteps(q, records)

OpIndex(op) == CHOOSE k \in DOMAIN TransformOps : TransformOps[k] = op

\* The order of chains of one step: operation, then input layers.
NotAfter(s, t) ==
  \/ OpIndex(s.op) < OpIndex(t.op)
  \/ /\ s.op = t.op
     /\ \/ s.refs[1] < t.refs[1]
        \/ s.refs[1] = t.refs[1] /\ s.refs[Len(s.refs)] <= t.refs[Len(t.refs)]

ChosenStep(q, records) ==
  CHOOSE s \in Steps(q, records) : \A t \in Steps(q, records) : NotAfter(s, t)

-------------------------------------------------------------------------------
(* classify_requirement and plan_fulfillment                                 *)

Verdict == [state : {"available", "derivable", "missing"}, layer : Nat \cup {None},
            step : Step \cup {None}, reason : STRING \cup {None}]

Missing(layer, reason) ==
  [state |-> "missing", layer |-> layer, step |-> None, reason |-> reason]

\* Mutant: the first layer that fails gives the reason.
FirstCandidate(q, records) == First(DOMAIN records)

\* The first of the layers that pass most checks.
BestCandidate(q, records) ==
  First({k \in DOMAIN records : \A j \in DOMAIN records : Passes(q, records[k]) >= Passes(q, records[j])})

Available(q, records) == {k \in DOMAIN records : Failures(q, records[k]) = {}}

MissingReason(q, records, truncated) ==
  LET reason == Failure(q, records[BestCandidate(q, records)])
  IN IF truncated /\ reason = "no-layer" THEN "truncated-inventory" ELSE reason

Classify(q, records, truncated) ==
  IF ~q.local THEN Missing(None, "no-layer")
  ELSE IF Available(q, records) # {}
  THEN [state |-> "available", layer |-> First(Available(q, records)), step |-> None, reason |-> None]
  ELSE IF records = <<>>
  THEN Missing(None, IF truncated THEN "truncated-inventory" ELSE "no-layer")
  ELSE IF Steps(q, records) # {}
  THEN [state |-> "derivable", layer |-> ChosenStep(q, records).refs[1],
        step |-> ChosenStep(q, records), reason |-> None]
  ELSE Missing(BestCandidate(q, records), MissingReason(q, records, truncated))

Gaps == {"no-layer", "schema-gap", "coverage-gap", "crs-gap"}

Plan == [kind : {"local-layer", "derivation-chain", "provider-proposal", "missing"},
         layer : Nat \cup {None}, step : Step \cup {None},
         provider : Providers \cup {None}, reason : STRING \cup {None}]

\* Only a gap is filled from outside; what is unknown is to be asked again.
PlanFulfillment(q, records, truncated) ==
  LET verdict == Classify(q, records, truncated)
      provider == IF verdict.reason \in Gaps THEN q.provider ELSE None
      kind == CASE verdict.state = "available" -> "local-layer"
                [] verdict.state = "derivable" -> "derivation-chain"
                [] verdict.state = "missing" /\ provider # None -> "provider-proposal"
                [] OTHER -> "missing"
  IN [kind |-> kind, layer |-> IF verdict.state = "missing" THEN None ELSE verdict.layer,
      step |-> verdict.step, provider |-> provider, reason |-> verdict.reason]
================================================================================
