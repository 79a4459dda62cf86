--------------------------- MODULE FulfillmentProofs ---------------------------
(***************************************************************************)
(* Fulfillment for every vocabulary, every requirement and every snapshot: *)
(* what is called available, and what is called satisfying, is.            *)
(***************************************************************************)
EXTENDS Fulfillment, TLAPS, WellFoundedInduction

(* The least of a set of numbers, by which layers are chosen.               *)
LEMMA FirstIsLeast ==
  ASSUME NEW S \in SUBSET Nat, S # {}
  PROVE  First(S) \in S /\ \A j \in S : First(S) <= j
<1> DEFINE Less == {pair \in Nat \X Nat : pair[1] < pair[2]}
<1>1. IsWellFoundedOn(Less, Nat)
  BY NatLessThanWellFounded DEF OpToRel
<1>2. PICK k \in S : \A j \in S : <<j, k>> \notin Less
  <2> HIDE DEF Less
  <2> QED
    BY <1>1, WFMin
<1>3. ASSUME NEW j \in S PROVE k <= j
  <2>1. <<j, k>> \notin Less
    BY <1>2
  <2>2. ~ (j < k)
    BY <2>1
  <2> QED
    BY <2>2
<1> QED
  BY <1>3 DEF First

-------------------------------------------------------------------------------
(* Classification                                                           *)

LEMMA RecordsAreTyped ==
  ASSUME NEW records \in Snapshots, NEW k \in DOMAIN records
  PROVE  records[k] \in LayerRecord /\ DOMAIN records \subseteq Nat
BY SnapshotsAssumption

(* A layer without failures passes each of the checks.                       *)
LEMMA NoFailures ==
  ASSUME NEW q, NEW r, Failures(q, r) = {}
  PROVE  /\ GeometryCheck(q, r) = Pass
         /\ FieldsCheck(q, r) = Pass
         /\ CrsCheck(q, r) = Pass
         /\ ReachabilityCheck(q, r) = Pass
         /\ CoverageCheck(q, r) = Pass
         /\ ValidityCheck(q, r) = Pass
         /\ TemporalCheck(q, r) = Pass
<1>1. \A k \in 1 .. 7 : Checks(q, r)[k] = Pass
  BY DEF Failures
<1> HIDE DEF Pass
<1> QED
  BY <1>1 DEF Checks

(* A plan that names a local layer names one without failures.                *)
LEMMA LocalLayerIsAvailable ==
  ASSUME NEW q \in Requirement, NEW records \in Snapshots, NEW cut \in BOOLEAN,
         PlanFulfillment(q, records, cut).kind = "local-layer"
  PROVE  LET k == PlanFulfillment(q, records, cut).layer
         IN k \in DOMAIN records /\ Failures(q, records[k]) = {}
<1> DEFINE verdict == Classify(q, records, cut)
<1>1. verdict.state = "available" /\ PlanFulfillment(q, records, cut).layer = verdict.layer
  <2>1. verdict.state = "available"
    BY DEF PlanFulfillment
  <2> QED
    BY <2>1 DEF PlanFulfillment
<1>2. Available(q, records) # {} /\ verdict.layer = First(Available(q, records))
  BY <1>1 DEF Classify, Missing
<1>3. Available(q, records) \in SUBSET Nat
  BY RecordsAreTyped DEF Available
<1>4. verdict.layer \in Available(q, records)
  BY <1>2, <1>3, FirstIsLeast
<1> QED
  BY <1>1, <1>4 DEF Available

(* A layer without failures can be used, and whatever its record does not     *)
(* know is not asked for.                                                     *)
LEMMA AvailableMeets ==
  ASSUME NEW q \in Requirement, NEW r \in LayerRecord, Failures(q, r) = {}
  PROVE  /\ r.valid /\ r.empty # TRUE /\ ~r.unreachable
         /\ \A c \in Completions(r) : Meets(q, c)
<1>1. r.valid /\ r.empty # TRUE /\ ~r.unreachable
  BY NoFailures DEF ValidityCheck, ReachabilityCheck, Pass
<1>2. ASSUME NEW c \in Completions(r) PROVE Meets(q, c)
  <2>1. /\ CanonicalizeGeometry(r.geometry) # "Unknown" => c.geometry = r.geometry
        /\ r.fields # None => c.fields = r.fields
        /\ r.crs # None => c.crs = r.crs
        /\ r.extent # None => c.extent = r.extent
        /\ r.hasTime # None => c.hasTime = r.hasTime
    BY <1>2 DEF Completions
  <2>2. q.geometry \in {"Any", CanonicalizeGeometry(c.geometry)}
    <3>1. q.geometry \in {"Any", CanonicalizeGeometry(r.geometry)} /\ q.geometry # "Unknown"
      BY NoFailures DEF GeometryCheck, GeometrySatisfies, Pass, Requirement, Families
    <3>2. CASE q.geometry = "Any"
      BY <3>2
    <3>3. CASE q.geometry = CanonicalizeGeometry(r.geometry)
      BY <2>1, <3>1, <3>3
    <3> QED
      BY <3>1, <3>2, <3>3
  <2>3. \A n \in q.required :
          n \in DOMAIN c.fields /\ (n \in DOMAIN q.types => TypeCompatible(c.fields[n], q.types[n]))
    BY NoFailures, <2>1 DEF FieldsCheck, FieldFits, Pass
  <2>4. q.crs # None => c.crs = q.crs
    BY NoFailures, <2>1 DEF CrsCheck, Pass
  <2>5. q.extent # None => c.extent.crs = q.extent.crs /\ q.extent.box \subseteq c.extent.box
    BY NoFailures, <2>1 DEF CoverageCheck, BboxContainsNative, Pass
  <2>6. q.hasTime # None => c.hasTime = q.hasTime
    BY NoFailures, <2>1 DEF TemporalCheck, Pass
  <2> QED
    BY <2>2, <2>3, <2>4, <2>5, <2>6 DEF Meets
<1> QED
  BY <1>1, <1>2

-------------------------------------------------------------------------------
(* Derivation chains                                                        *)

LEMMA OperationsAreOrdered ==
  /\ \A op \in Ops : OpIndex(op) \in Nat
  /\ \A a, b \in Ops : OpIndex(a) = OpIndex(b) => a = b
<1>1. \A op \in Ops : OpIndex(op) \in DOMAIN TransformOps /\ TransformOps[OpIndex(op)] = op
  BY DEF Ops, OpIndex
<1>2. DOMAIN TransformOps \subseteq Nat
  BY DEF TransformOps
<1> QED
  BY <1>1, <1>2

(* What the order of steps compares.                                          *)
LEMMA StepsAreComparable ==
  ASSUME NEW q \in Requirement, NEW records \in Snapshots, NEW s \in Steps(q, records)
  PROVE  /\ s.op \in Ops /\ s.refs[1] \in DOMAIN records
         /\ s.refs[1] \in Nat /\ s.refs[Len(s.refs)] \in Nat
<1>1. DOMAIN records \subseteq Nat
  BY SnapshotsAssumption
<1>2. CASE s \in SingleSteps(q, records)
  <2>1. s.op \in Ops /\ \E k \in DOMAIN records : s.refs = <<k>>
    BY <1>2 DEF SingleSteps, EmitOps
  <2> QED
    BY <1>1, <2>1
<1>3. CASE s \in JoinSteps(q, records)
  <2>1. PICK p \in (DOMAIN records) \X (DOMAIN records) : s.op = "join" /\ s.refs = p
    BY <1>3 DEF JoinSteps, JoinStep, Pairs
  <2>2. "join" \in Ops
    <3>1. 5 \in DOMAIN TransformOps /\ TransformOps[5] = "join"
      BY DEF TransformOps
    <3> QED
      BY <3>1 DEF Ops
  <2>3. Len(p) = 2 /\ p[1] \in DOMAIN records /\ p[2] \in DOMAIN records
    OBVIOUS
  <2> QED
    BY <1>1, <2>1, <2>2, <2>3
<1> QED
  BY <1>2, <1>3 DEF Steps

(* The order has a first step, which is the one chosen: the operation is the   *)
(* least, then the first layer, then the last one.                            *)
LEMMA ChosenIsAStep ==
  ASSUME NEW q \in Requirement, NEW records \in Snapshots, Steps(q, records) # {}
  PROVE  /\ ChosenStep(q, records) \in Steps(q, records)
         /\ \A t \in Steps(q, records) : NotAfter(ChosenStep(q, records), t)
<1> DEFINE S == Steps(q, records)
           S1 == {s \in S : OpIndex(s.op) = First({OpIndex(t.op) : t \in S})}
           S2 == {s \in S1 : s.refs[1] = First({t.refs[1] : t \in S1})}
           S3 == {s \in S2 : s.refs[Len(s.refs)] = First({t.refs[Len(t.refs)] : t \in S2})}
<1>0. \A s \in S : /\ s.op \in Ops /\ OpIndex(s.op) \in Nat
                   /\ s.refs[1] \in Nat /\ s.refs[Len(s.refs)] \in Nat
  BY StepsAreComparable, OperationsAreOrdered
<1> HIDE DEF S
<1>1. S1 # {} /\ \A s \in S1, t \in S : OpIndex(s.op) <= OpIndex(t.op)
  <2> DEFINE I == {OpIndex(t.op) : t \in S}
  <2>1. I \in SUBSET Nat /\ I # {}
    BY <1>0 DEF S
  <2> HIDE DEF I
  <2>2. First(I) \in I /\ \A j \in I : First(I) <= j
    BY <2>1, FirstIsLeast
  <2> QED
    BY <2>2 DEF I
<1>2. S1 \subseteq S
  OBVIOUS
<1> HIDE DEF S1
<1>3. S2 # {} /\ \A s \in S2, t \in S1 : s.refs[1] <= t.refs[1]
  <2> DEFINE I == {t.refs[1] : t \in S1}
  <2>1. I \in SUBSET Nat /\ I # {}
    BY <1>0, <1>1, <1>2
  <2> HIDE DEF I
  <2>2. First(I) \in I /\ \A j \in I : First(I) <= j
    BY <2>1, FirstIsLeast
  <2> QED
    BY <2>2 DEF I
<1>4. S2 \subseteq S1
  OBVIOUS
<1> HIDE DEF S2
<1>5. S3 # {} /\ \A s \in S3, t \in S2 : s.refs[Len(s.refs)] <= t.refs[Len(t.refs)]
  <2> DEFINE I == {t.refs[Len(t.refs)] : t \in S2}
  <2>1. I \in SUBSET Nat /\ I # {}
    BY <1>0, <1>2, <1>3, <1>4
  <2> HIDE DEF I
  <2>2. First(I) \in I /\ \A j \in I : First(I) <= j
    BY <2>1, FirstIsLeast
  <2> QED
    BY <2>2 DEF I
<1>6. PICK s \in S3 : TRUE
  BY <1>5
<1>7. s \in S2 /\ s \in S1 /\ s \in S
  BY <1>2, <1>4
<1>8. ASSUME NEW t \in S PROVE NotAfter(s, t)
  <2>1. CASE OpIndex(s.op) < OpIndex(t.op)
    BY <2>1 DEF NotAfter
  <2>2. CASE OpIndex(s.op) = OpIndex(t.op)
    <3>1. s.op = t.op /\ t \in S1
      BY <1>0, <1>7, <2>2, OperationsAreOrdered DEF S1
    <3>2. CASE s.refs[1] < t.refs[1]
      BY <3>1, <3>2 DEF NotAfter
    <3>3. CASE s.refs[1] = t.refs[1]
      <4>1. t \in S2
        BY <1>7, <3>1, <3>3 DEF S2
      <4> QED
        BY <1>5, <3>1, <3>3, <4>1 DEF NotAfter
    <3> QED
      BY <1>0, <1>3, <1>7, <3>1, <3>2, <3>3
  <2> QED
    BY <1>0, <1>1, <1>7, <2>1, <2>2
<1>9. \E u \in S : \A t \in S : NotAfter(u, t)
  BY <1>7, <1>8
<1> QED
  BY <1>9 DEF ChosenStep, S

(* A reprojected layer passes every check, but for a box in another CRS.       *)
LEMMA ReprojectionPasses ==
  ASSUME NEW q \in Requirement, NEW r \in LayerRecord, ReprojectionOk(q, r)
  PROVE  \/ Failures(q, Reprojected(r, q.crs)) = {}
         \/ /\ Failures(q, Reprojected(r, q.crs)) = {5}
            /\ q.extent.crs # q.crs
<1> DEFINE r1 == Reprojected(r, q.crs)
<1>1. /\ r1.geometry = r.geometry /\ r1.fields = r.fields /\ r1.crs = q.crs
      /\ r1.unreachable = r.unreachable /\ r1.valid = r.valid /\ r1.empty = r.empty
      /\ r1.hasTime = r.hasTime
      /\ r1.extent = IF r.extent = None THEN None ELSE [r.extent EXCEPT !.crs = q.crs]
  BY DEF Reprojected, LayerRecord
<1> HIDE DEF r1
<1>2. GeometryCheck(q, r1) = Pass
  BY <1>1 DEF ReprojectionOk, MemberGeometryOk, GeometryCheck
<1>3. FieldsCheck(q, r1) = Pass
  BY <1>1 DEF ReprojectionOk, FieldsOk, FieldsCheck
<1>4. CrsCheck(q, r1) = Pass /\ ReachabilityCheck(q, r1) = Pass /\ ValidityCheck(q, r1) = Pass
  BY <1>1 DEF ReprojectionOk, MemberOk, CrsCheck, ReachabilityCheck, ValidityCheck
<1>5. TemporalCheck(q, r1) = Pass
  BY <1>1 DEF ReprojectionOk, MemberOk, TemporalCheck
<1>6. CoverageCheck(q, r1) = Pass \/ q.extent.crs # q.crs
  <2>1. CASE q.extent = None
    BY <2>1 DEF CoverageCheck
  <2>2. CASE q.extent # None /\ q.extent.crs = q.crs
    <3>1. r.extent # None /\ BboxContainsNative(r.extent, q.extent) = TRUE
      BY <2>2 DEF ReprojectionOk, MemberOk, CoverageEstimateOk
    <3>2. q.extent.box \subseteq r.extent.box
      BY <3>1, NoneAssumption DEF BboxContainsNative
    <3>3. r.extent \in Extent
      BY <3>1 DEF LayerRecord
    <3>4. r1.extent.crs = q.crs /\ r1.extent.box = r.extent.box
      BY <1>1, <3>1, <3>3 DEF Extent
    <3>5. r1.extent # None
      <4>1. q.crs \in Crs
        BY DEF ReprojectionOk, Requirement
      <4>2. r1.extent \in Extent
        BY <1>1, <3>1, <3>3, <4>1 DEF Extent
      <4> QED
        BY <4>2, NoneAssumption
    <3>6. BboxContainsNative(r1.extent, q.extent) = TRUE
      BY <2>2, <3>2, <3>4 DEF BboxContainsNative
    <3> QED
      BY <2>2, <3>5, <3>6, NoneAssumption DEF CoverageCheck
  <2> QED
    BY <2>1, <2>2
<1> HIDE DEF Pass
<1>7. \A k \in 1 .. 7 : k # 5 => Checks(q, r1)[k] = Pass
  BY <1>2, <1>3, <1>4, <1>5 DEF Checks
<1>8. Checks(q, r1)[5] = CoverageCheck(q, r1)
  BY DEF Checks
<1>9. Failures(q, r1) \subseteq {5} /\ (CoverageCheck(q, r1) = Pass => 5 \notin Failures(q, r1))
  BY <1>7, <1>8 DEF Failures
<1> QED
  BY <1>6, <1>9 DEF r1

(* A plan whose step is a reprojection: the layer it starts from, and why.     *)
LEMMA PlannedReprojection ==
  ASSUME NEW q \in Requirement, NEW records \in Snapshots, NEW cut \in BOOLEAN,
         NEW p, p = PlanFulfillment(q, records, cut), p.step # None,
         p.step.op \in {"reproject-vector", "reproject-raster"}
  PROVE  p.layer \in DOMAIN records /\ ReprojectionOk(q, records[p.layer])
<1> DEFINE verdict == Classify(q, records, cut)
           s == ChosenStep(q, records)
<1>1. p.step = verdict.step /\ (verdict.state # "missing" => p.layer = verdict.layer)
  BY DEF PlanFulfillment
<1>2. /\ Steps(q, records) # {} /\ verdict.state = "derivable"
      /\ verdict.layer = s.refs[1] /\ verdict.step = s
  BY <1>1 DEF Classify, Missing
<1>3. s \in Steps(q, records) /\ s.refs[1] \in DOMAIN records
  BY <1>2, ChosenIsAStep, StepsAreComparable
<1>4. s \notin JoinSteps(q, records)
  BY <1>1, <1>2 DEF JoinSteps, JoinStep
<1>5. Applies(s.op, q, records[s.refs[1]])
  BY <1>3, <1>4 DEF Steps, SingleSteps
<1>6. s.op \in {"reproject-vector", "reproject-raster"} /\ p.layer = s.refs[1]
  BY <1>1, <1>2
<1> HIDE DEF s
<1> QED
  BY <1>3, <1>5, <1>6 DEF Applies

-------------------------------------------------------------------------------
(* Gaps                                                                     *)

(* A layer that fails a check has a first one that it fails.                  *)
LEMMA FailuresAreCounted ==
  ASSUME NEW q, NEW r, Failures(q, r) # {}
  PROVE  First(Failures(q, r)) \in Failures(q, r) /\ First(Failures(q, r)) \in 1 .. 7
<1>1. Failures(q, r) \in SUBSET Nat /\ Failures(q, r) \subseteq 1 .. 7
  BY DEF Failures
<1> QED
  BY <1>1, FirstIsLeast

(* The best candidate is a layer, and none passes more checks.               *)
LEMMA CandidateIsClosest ==
  ASSUME NEW q, NEW records \in Snapshots, records # <<>>, Available(q, records) = {}
  PROVE  /\ BestCandidate(q, records) \in DOMAIN records
         /\ \A j \in DOMAIN records : Passes(q, records[j]) <= Passes(q, records[BestCandidate(q, records)])
<1> DEFINE D == DOMAIN records
           P(j) == Passes(q, records[j])
           M == {k \in D : \A j \in D : P(k) >= P(j)}
<1>1. D \in SUBSET Nat /\ D # {}
  <2>1. records \in Seq(LayerRecord)
    BY SnapshotsAssumption
  <2>2. Len(records) \in Nat /\ D = 1 .. Len(records) /\ Len(records) # 0
    BY <2>1
  <2>3. 1 \in D
    BY <2>2
  <2> QED
    BY <2>2, <2>3
<1>2. ASSUME NEW j \in D PROVE P(j) \in 0 .. 6
  <2>1. Failures(q, records[j]) # {}
    BY DEF Available
  <2> QED
    BY <2>1, FailuresAreCounted DEF Passes
<1>3. M # {}
  <2> DEFINE I == {6 - P(j) : j \in D}
  <2> HIDE DEF P
  <2>1. I \in SUBSET Nat /\ I # {}
    BY <1>1, <1>2
  <2> HIDE DEF I
  <2>2. First(I) \in I /\ \A i \in I : First(I) <= i
    BY <2>1, FirstIsLeast
  <2>3. PICK k \in D : 6 - P(k) = First(I)
    BY <2>2 DEF I
  <2>4. ASSUME NEW j \in D PROVE P(k) >= P(j)
    <3>1. 6 - P(k) <= 6 - P(j)
      BY <2>2, <2>3 DEF I
    <3> QED
      BY <1>2, <3>1
  <2> QED
    BY <2>4
<1>4. First(M) \in M
  BY <1>1, <1>3, FirstIsLeast
<1>5. BestCandidate(q, records) = First(M)
  BY DEF BestCandidate
<1>6. \A j \in D : P(First(M)) >= P(j)
  <2> HIDE DEF P
  <2> QED
    BY <1>4
<1> QED
  BY <1>2, <1>4, <1>5, <1>6

(* A layer whose first failure is a gap does not meet the requirement, however its *)
(* open values turn out: what the gap is about is known.                       *)
LEMMA GapIsDefinite ==
  ASSUME NEW q \in Requirement, NEW r \in LayerRecord, Failures(q, r) # {}, Failure(q, r) \in Gaps,
         CanonicalizeGeometry(r.geometry) # "Unknown", NEW c \in Completions(r)
  PROVE  ~Meets(q, c)
<1>1. /\ c.geometry = r.geometry
      /\ r.fields # None => c.fields = r.fields
      /\ r.crs # None => c.crs = r.crs
      /\ r.extent # None => c.extent = r.extent
      /\ r.hasTime # None => c.hasTime = r.hasTime
  BY DEF Completions
<1>2. PICK k \in 1 .. 7 : Checks(q, r)[k] \in Gaps
  BY FailuresAreCounted DEF Failure
<1>3. \/ GeometryCheck(q, r) \in Gaps \/ FieldsCheck(q, r) \in Gaps \/ CrsCheck(q, r) \in Gaps
      \/ ReachabilityCheck(q, r) \in Gaps \/ CoverageCheck(q, r) \in Gaps
      \/ ValidityCheck(q, r) \in Gaps \/ TemporalCheck(q, r) \in Gaps
  <2> HIDE DEF Gaps
  <2> QED
    BY <1>2 DEF Checks
<1>4. CASE GeometryCheck(q, r) \in Gaps
  BY <1>1, <1>4 DEF GeometryCheck, GeometrySatisfies, Gaps, Pass, Meets
<1>5. CASE FieldsCheck(q, r) \in Gaps
  <2>1. r.fields # None /\ \E f \in q.required : ~FieldFits(q, r.fields, f)
    BY <1>5 DEF FieldsCheck, Gaps, Pass
  <2> QED
    BY <1>1, <2>1 DEF FieldFits, Meets
<1>6. CASE CrsCheck(q, r) \in Gaps
  BY <1>1, <1>6 DEF CrsCheck, Gaps, Pass, Meets
<1>7. CASE ReachabilityCheck(q, r) \in Gaps
  BY <1>7 DEF ReachabilityCheck, Gaps, Pass
<1>8. CASE CoverageCheck(q, r) \in Gaps
  <2>1. q.extent # None /\ r.extent # None /\ BboxContainsNative(r.extent, q.extent) # TRUE
    BY <1>8 DEF CoverageCheck, Gaps, Pass
  <2>2. ~ (r.extent.crs = q.extent.crs /\ q.extent.box \subseteq r.extent.box)
    BY <2>1 DEF BboxContainsNative
  <2> QED
    BY <1>1, <2>1, <2>2 DEF Meets
<1>9. CASE ValidityCheck(q, r) \in Gaps
  BY <1>9 DEF ValidityCheck, Gaps, Pass
<1>10. CASE TemporalCheck(q, r) \in Gaps
  BY <1>1, <1>10 DEF TemporalCheck, Gaps, Pass, Meets
<1> QED
  BY <1>3, <1>4, <1>5, <1>6, <1>7, <1>8, <1>9, <1>10

(* A plan that turns to a provider although the project has layers: none is     *)
(* available, no step applies, and the best candidate has a gap.                *)
LEMMA PlannedProvider ==
  ASSUME NEW q \in Requirement, NEW records \in Snapshots, NEW cut \in BOOLEAN,
         PlanFulfillment(q, records, cut).kind = "provider-proposal", q.local, records # <<>>
  PROVE  /\ Available(q, records) = {} /\ Steps(q, records) = {}
         /\ Failure(q, records[BestCandidate(q, records)]) \in Gaps
<1> DEFINE verdict == Classify(q, records, cut)
<1>1. verdict.state = "missing" /\ verdict.reason \in Gaps
  <2> HIDE DEF verdict
  <2> DEFINE provider == IF verdict.reason \in Gaps THEN q.provider ELSE None
  <2>1. verdict.state = "missing" /\ provider # None
    BY DEF PlanFulfillment, verdict
  <2> QED
    BY <2>1
<1>2. /\ Available(q, records) = {} /\ Steps(q, records) = {}
      /\ verdict = Missing(BestCandidate(q, records), MissingReason(q, records, cut))
  BY <1>1 DEF Classify
<1>3. MissingReason(q, records, cut) \in Gaps
  BY <1>1, <1>2 DEF Missing
<1>4. "truncated-inventory" \notin Gaps
  BY DEF Gaps
<1> QED
  BY <1>2, <1>3, <1>4 DEF MissingReason

-------------------------------------------------------------------------------
(* Validation and judgement                                                 *)

(* The types a report gives fit where those of the record do.                 *)
LEMMA NormalizedTypesFit ==
  ASSUME NEW q, NEW fields, fields # None, NEW f, FieldFits(q, fields, f)
  PROVE  FieldFits(q, Normalized(fields), f)
<1>1. NormalizeFieldType(NormalizeFieldType(fields[f])) = NormalizeFieldType(fields[f])
  BY DEF NormalizeFieldType
<1>2. f \in DOMAIN Normalized(fields) /\ Normalized(fields)[f] = NormalizeFieldType(fields[f])
  BY DEF FieldFits, Normalized
<1> QED
  BY <1>1, <1>2 DEF FieldFits, TypeCompatible

(* ... and those of the record where those of a report do.                    *)
LEMMA TypesOfReportFit ==
  ASSUME NEW q, NEW fields, fields # None, NEW f, FieldFits(q, Normalized(fields), f)
  PROVE  FieldFits(q, fields, f)
<1>1. f \in DOMAIN fields /\ Normalized(fields)[f] = NormalizeFieldType(fields[f])
  BY DEF FieldFits, Normalized
<1>2. NormalizeFieldType(NormalizeFieldType(fields[f])) = NormalizeFieldType(fields[f])
  BY DEF NormalizeFieldType
<1> QED
  BY <1>1, <1>2 DEF FieldFits, TypeCompatible

(* Fields that are known are known to a report.                               *)
LEMMA KnownFieldsAreReported ==
  ASSUME NEW fields \in PartialFunctions(FieldNames, TypeNames), fields # None
  PROVE  Normalized(fields) # None
<1>1. PICK D \in SUBSET FieldNames : fields \in [D -> TypeNames]
  BY DEF PartialFunctions
<1>2. Normalized(fields) \in [D -> NormalizedTypes]
  BY <1>1 DEF Normalized, NormalizedTypes
<1>3. Normalized(fields) \in PartialFunctions(FieldNames, NormalizedTypes)
  BY <1>2 DEF PartialFunctions
<1> QED
  BY <1>3, NoFieldsAssumption

(* What a record knows of a layer is the same when the layer is read anew.     *)
LEMMA KnownStaysKnown ==
  ASSUME NEW r \in LayerRecord, Discovered(r), NEW a \in ReadAnew(r)
  PROVE  /\ a.geometry = r.geometry /\ a.valid = r.valid
         /\ r.fields # None => a.fields = r.fields
         /\ r.crs # None => a.crs = r.crs
         /\ r.extent # None => a.extent = r.extent
         /\ r.empty # None => a.empty = r.empty
         /\ r.hasTime # None => a.hasTime = r.hasTime
         /\ a.fields \in PartialFunctions(FieldNames, TypeNames) \cup {None}
BY DEF ReadAnew, Reread, Discovered, LayerRecord

(* What a report on an open layer says is what its getters answered.           *)
Tells(q, a, rep) ==
  /\ rep.geometry = CanonicalizeGeometry(a.geometry)
  /\ rep.fields = Normalized(a.fields) /\ rep.crs = a.crs /\ rep.hasTime = a.hasTime
  /\ rep.verdict \in {"valid", "empty", "invalid"}
  /\ rep.verdict = "empty" => a.empty = TRUE
  /\ rep.verdict = "valid" =>
       /\ a.empty # TRUE /\ a.extent # None /\ rep.extent = TRUE
       /\ rep.coverage \in Coverages(q, a, rep.crsKnown)

LEMMA ReportsTellTheLayer ==
  ASSUME NEW q, NEW a, a.valid, NEW rep \in Validate(q, a)
  PROVE  Tells(q, a, rep)
<1>1. CASE rep \in EndsEarly(a) /\ a.empty = TRUE
  <2>1. PICK known : rep \in Reports(a, "empty", known, FALSE, {"UNCHECKED"}, {None})
    BY <1>1 DEF EndsEarly
  <2> QED
    BY <1>1, <2>1 DEF Reports, Tells
<1>2. CASE rep \in EndsEarly(a) /\ a.empty # TRUE
  <2>1. PICK known, validity : rep \in Reports(a, "invalid", known, FALSE, validity, {None})
    BY <1>2 DEF EndsEarly
  <2> QED
    BY <2>1 DEF Reports, Tells
<1>3. CASE rep \in RunsThrough(q, a)
  <2>1. a.empty # TRUE /\ a.extent # None
    BY <1>3 DEF RunsThrough
  <2>2. PICK known : rep \in Reports(a, "valid", known, TRUE, Samples(a), Coverages(q, a, known))
    BY <1>3, <2>1 DEF RunsThrough
  <2> HIDE DEF Coverages
  <2> QED
    BY <2>1, <2>2 DEF Reports, Tells
<1> QED
  BY <1>1, <1>2, <1>3 DEF Validate

(* A layer that cannot be opened is not satisfying.                            *)
LEMMA UnopenedIsInvalid ==
  ASSUME NEW q, NEW a, ~a.valid, NEW rep \in Validate(q, a)
  PROVE  rep.verdict = "invalid"
BY DEF Validate, EndsEarly, RunsThrough, Unopened

-------------------------------------------------------------------------------
(* Join keys                                                                *)

LEMMA SetInduction ==
  ASSUME NEW T, 0 \in T, \A n \in Nat : n \in T => n + 1 \in T
  PROVE  Nat \subseteq T
<1> SUFFICES ASSUME Nat \ T # {} PROVE FALSE
  OBVIOUS
<1>1. PICK n : n \in Nat \ T /\ \A m \in Nat \ T : n <= m
  <2>1. Nat \ T \in SUBSET Nat
    OBVIOUS
  <2> QED
    BY <2>1, FirstIsLeast
<1>2. n # 0 /\ n - 1 \in Nat /\ (n - 1) + 1 = n
  BY <1>1
<1>3. n - 1 \in T
  BY <1>1, <1>2
<1> QED
  BY <1>1, <1>2, <1>3

(* The scans of the first n values of a sequence.                              *)
Scans(f, n, values, others) ==
  /\ f = [k \in 0 .. n |-> f[k]]
  /\ f[0] = [seen |-> {}, twice |-> FALSE]
  /\ \A k \in 1 .. n : f[k] = Looked(f[k - 1], values[k], others)

LEMMA SomeScans ==
  ASSUME NEW n \in Nat, NEW values, NEW others
  PROVE  \E f : Scans(f, n, values, others)
<1> DEFINE T == {m \in Nat : \E f : Scans(f, m, values, others)}
<1>1. 0 \in T
  <2> DEFINE f == [k \in 0 .. 0 |-> [seen |-> {}, twice |-> FALSE]]
  <2>1. f = [k \in 0 .. 0 |-> f[k]] /\ f[0] = [seen |-> {}, twice |-> FALSE] /\ 1 .. 0 = {}
    OBVIOUS
  <2> HIDE DEF f
  <2> QED
    BY <2>1 DEF Scans
<1>2. ASSUME NEW m \in Nat, m \in T PROVE m + 1 \in T
  <2>1. PICK f : Scans(f, m, values, others)
    BY <1>2
  <2> DEFINE g == [k \in 0 .. m + 1 |-> IF k = m + 1 THEN Looked(f[m], values[m + 1], others) ELSE f[k]]
  <2>2. /\ g[m + 1] = Looked(f[m], values[m + 1], others)
        /\ \A k \in 0 .. m : g[k] = f[k]
        /\ g = [k \in 0 .. m + 1 |-> g[k]]
    OBVIOUS
  <2> HIDE DEF g
  <2>3. g[0] = [seen |-> {}, twice |-> FALSE]
    <3>1. 0 \in 0 .. m
      OBVIOUS
    <3> QED
      BY <2>1, <2>2, <3>1 DEF Scans
  <2>4. ASSUME NEW k \in 1 .. m + 1 PROVE g[k] = Looked(g[k - 1], values[k], others)
    <3>1. k - 1 \in 0 .. m
      OBVIOUS
    <3>2. CASE k = m + 1
      <4>1. k - 1 = m
        BY <3>2
      <4> QED
        BY <2>2, <3>1, <3>2, <4>1
    <3>3. CASE k # m + 1
      <4>1. k \in 1 .. m /\ k \in 0 .. m
        BY <3>3
      <4>2. f[k] = Looked(f[k - 1], values[k], others)
        BY <2>1, <4>1 DEF Scans
      <4> QED
        BY <2>2, <3>1, <4>1, <4>2
    <3> QED
      BY <3>2, <3>3
  <2>5. Scans(g, m + 1, values, others)
    BY <2>2, <2>3, <2>4 DEF Scans
  <2> QED
    BY <2>5
<1>3. Nat \subseteq T
  BY <1>1, <1>2, SetInduction
<1> QED
  BY <1>3

LEMMA ScanIsLast ==
  ASSUME NEW S, NEW values \in Seq(S), NEW others
  PROVE  \E f : Scans(f, Len(values), values, others) /\ Scan(values, others) = f[Len(values)]
<1> DEFINE n == Len(values)
           start == [seen |-> {}, twice |-> FALSE]
           body(g, k) == IF k = 0 THEN start ELSE Looked(g[k - 1], values[k], others)
           last == CHOOSE g : g = [k \in 0 .. n |-> body(g, k)]
<1>1. Scan(values, others) = last[n]
  BY DEF Scan
<1>2. n \in Nat
  OBVIOUS
<1> HIDE DEF n
<1>3. PICK f : Scans(f, n, values, others)
  BY <1>2, SomeScans
<1>4. \A k \in 0 .. n : f[k] = body(f, k)
  <2>1. \A k \in 0 .. n : k = 0 \/ (k \in 1 .. n /\ k # 0)
    BY <1>2
  <2> QED BY <1>3, <2>1 DEF Scans
<1>5. f = [k \in 0 .. n |-> f[k]]
  BY <1>3 DEF Scans
<1>6. f = [k \in 0 .. n |-> body(f, k)]
  <2> HIDE DEF body
  <2> QED BY <1>4, <1>5
<1>7. last = [k \in 0 .. n |-> body(last, k)]
  <2> HIDE DEF body
  <2> QED BY <1>6
<1> HIDE DEF last
<1>8. Scans(last, n, values, others)
  <2>1. 0 \in 0 .. n /\ \A k \in 1 .. n : k \in 0 .. n /\ k # 0
    BY <1>2
  <2>2. last = [k \in 0 .. n |-> last[k]]
    <3> HIDE DEF body
    <3> QED BY <1>7
  <2>3. \A k \in 0 .. n : last[k] = body(last, k)
    <3> HIDE DEF body
    <3> QED BY <1>7
  <2> QED BY <2>1, <2>2, <2>3 DEF Scans
<1> QED BY <1>1, <1>8 DEF n

(* A scan that finds nothing twice has seen different values only.             *)
LEMMA ScanSeesDistinct ==
  ASSUME NEW S, NEW values \in Seq(S), NEW others, ~Scan(values, others).twice
  PROVE  Distinct(values)
<1> DEFINE n == Len(values)
<1>1. PICK f : Scans(f, n, values, others) /\ Scan(values, others) = f[n]
  BY ScanIsLast
<1>2. n \in Nat /\ DOMAIN values = 1 .. n /\ ~f[n].twice
  BY <1>1
<1> HIDE DEF n
<1> DEFINE Apart(k) == \A i, j \in 1 .. k : values[i] = values[j] => i = j
           T == {k \in Nat : k <= n /\ ~f[k].twice =>
                               f[k].seen = {values[i] : i \in 1 .. k} /\ Apart(k)}
<1>3. 0 \in T
  BY <1>1 DEF Scans
<1>4. ASSUME NEW k \in Nat, k \in T PROVE k + 1 \in T
  <2> SUFFICES ASSUME k + 1 <= n, ~f[k + 1].twice
               PROVE  f[k + 1].seen = {values[i] : i \in 1 .. k + 1} /\ Apart(k + 1)
    OBVIOUS
  <2>1. k + 1 \in 1 .. n /\ (k + 1) - 1 = k /\ k <= n
    BY <1>2
  <2>2. f[k + 1] = Looked(f[k], values[k + 1], others)
    BY <1>1, <2>1 DEF Scans
  <2>3. /\ ~f[k].twice /\ values[k + 1] \notin f[k].seen
        /\ f[k + 1].seen = f[k].seen \cup {values[k + 1]}
    BY <2>2 DEF Looked
  <2>4. f[k].seen = {values[i] : i \in 1 .. k} /\ Apart(k)
    BY <1>4, <2>1, <2>3
  <2>5. 1 .. k + 1 = (1 .. k) \cup {k + 1}
    OBVIOUS
  <2>6. {values[i] : i \in 1 .. k + 1} = {values[i] : i \in 1 .. k} \cup {values[k + 1]}
    BY <2>5
  <2>7. Apart(k + 1)
    BY <2>3, <2>4, <2>5
  <2> QED
    BY <2>3, <2>4, <2>6, <2>7
<1>5. n \in T
  BY <1>2, <1>3, <1>4, SetInduction
<1> QED
  BY <1>2, <1>5 DEF Distinct

(* What a scan collects: nothing, everything, or all but one of the first rows.  *)
LEMMA CollectedKinds ==
  ASSUME NEW column \in Columns, NEW l \in Collected(column)
  PROVE  \/ l.values = <<>> /\ l.complete = FALSE
         \/ l.values = column /\ Len(column) <= ScanCap
         \/ /\ Len(column) > ScanCap
            /\ l.complete = TRUE => Len(column) <= ScanCap + 1
            /\ \E k \in 1 .. ScanCap + 1 :
                 l.values = [j \in 1 .. ScanCap |-> column[IF j < k THEN j ELSE j + 1]]
<1> DEFINE short(k) == [j \in 1 .. ScanCap |-> column[IF j < k THEN j ELSE j + 1]]
           rows == IF Len(column) <= ScanCap THEN {column} ELSE {short(k) : k \in 1 .. ScanCap + 1}
           whole == IF Len(column) <= ScanCap + 1 THEN BOOLEAN ELSE {FALSE}
<1>1. Len(column) \in Nat /\ ScanCap \in Nat
  BY ColumnsAssumption
<1>2. l \in {[values |-> <<>>, complete |-> FALSE]} \cup [values : rows, complete : whole]
  BY DEF Collected
<1>3. CASE l = [values |-> <<>>, complete |-> FALSE]
  BY <1>3
<1>4. CASE l \in [values : rows, complete : whole]
  <2> HIDE DEF rows, whole
  <2>1. l.values \in rows /\ l.complete \in whole
    BY <1>4
  <2>2. l.complete = TRUE => Len(column) <= ScanCap + 1
    BY <2>1 DEF whole
  <2>3. CASE Len(column) <= ScanCap
    BY <2>1, <2>3 DEF rows
  <2>4. CASE ~ (Len(column) <= ScanCap)
    <3>1. \E k \in 1 .. ScanCap + 1 : l.values = short(k)
      BY <2>1, <2>4 DEF rows
    <3> QED
      BY <1>1, <2>2, <2>4, <3>1
  <2> QED
    BY <2>3, <2>4
<1> QED
  BY <1>2, <1>3, <1>4

(* A complete scan has the values of all rows, save of a layer of one row more  *)
(* than the cap.                                                              *)
LEMMA CompleteIsWhole ==
  ASSUME NEW column \in Columns, NEW l \in Collected(column), l.complete = TRUE, Len(column) # ScanCap + 1
  PROVE  l.values = column
<1>1. Len(column) \in Nat /\ ScanCap \in Nat
  BY ColumnsAssumption
<1>2. ~ (Len(column) > ScanCap /\ Len(column) <= ScanCap + 1)
  BY <1>1
<1> QED
  BY <1>2, CollectedKinds

(* What is collected are values of the layer.                                  *)
LEMMA CollectedAreValues ==
  ASSUME NEW left \in Columns, NEW right \in Columns,
         NEW l \in Collected(left), NEW r \in Collected(right)
  PROVE  \E S : l.values \in Seq(S) /\ r.values \in Seq(S)
<1> DEFINE S == Values(left) \cup Values(right)
<1>1. ASSUME NEW column \in Columns, NEW T, Values(column) \subseteq T, NEW m \in Collected(column)
      PROVE  m.values \in Seq(T)
  <2>1. column \in Seq(T) /\ ScanCap \in Nat /\ Len(column) \in Nat /\ DOMAIN column = 1 .. Len(column)
    <3>1. column \in Seq(Values(column))
      BY ColumnsAssumption
    <3>2. \A k \in 1 .. Len(column) : column[k] \in T
      BY <1>1, <3>1 DEF Values
    <3> QED
      BY <3>1, <3>2, ColumnsAssumption
  <2>2. CASE m.values = <<>> \/ m.values = column
    <3>1. <<>> \in Seq(T)
      OBVIOUS
    <3> QED
      BY <2>1, <2>2, <3>1
  <2>3. CASE ~ (m.values = <<>> \/ m.values = column)
    <3>1. /\ Len(column) > ScanCap
          /\ \E k \in 1 .. ScanCap + 1 :
               m.values = [j \in 1 .. ScanCap |-> column[IF j < k THEN j ELSE j + 1]]
      BY <2>3, CollectedKinds
    <3>2. PICK k \in 1 .. ScanCap + 1 :
            m.values = [j \in 1 .. ScanCap |-> column[IF j < k THEN j ELSE j + 1]]
      BY <3>1
    <3>3. \A j \in 1 .. ScanCap : (IF j < k THEN j ELSE j + 1) \in 1 .. Len(column)
      BY <2>1, <3>1
    <3>4. m.values \in [1 .. ScanCap -> T]
      BY <2>1, <3>2, <3>3
    <3> QED
      BY <2>1, <3>4
  <2> QED
    BY <2>2, <2>3
<1>2. l.values \in Seq(S) /\ r.values \in Seq(S)
  BY <1>1
<1> QED
  BY <1>2

(* Values found valid are all different on either side, and none is null.      *)
LEMMA ValidValuesAreDistinct ==
  ASSUME NEW S, NEW left \in Seq(S), NEW right \in Seq(S), EvaluateJoinValues(left, right) = "valid"
  PROVE  /\ Distinct(left) /\ None \notin Values(left)
         /\ Distinct(right) /\ None \notin Values(right)
BY ScanSeesDistinct DEF EvaluateJoinValues

-------------------------------------------------------------------------------
(* The invariant: each result is what its function makes of the inputs.      *)

Joined(left, right) ==
  \E l \in Collected(left), r \in Collected(right) :
    joinReport = [columns |-> <<left, right>>, complete |-> l.complete /\ r.complete,
                  verdict |-> EvaluateJoinValues(l.values, r.values)]

IInv ==
  /\ requirement \in Asked /\ inventory \in Snapshots /\ truncated \in BOOLEAN
  /\ plan # None => plan = PlanFulfillment(requirement, inventory, truncated)
  /\ report # None => /\ plan # None /\ subject \in DOMAIN inventory
                      /\ Discovered(inventory[subject]) /\ found \in ReadAnew(inventory[subject])
                      /\ report \in Validate(requirement, found)
  /\ satisfied # None => report # None /\ satisfied = SatisfyRequirement(requirement, report)
  /\ joinReport # None =>
       \E left, right \in Columns : Joined(left, right)

LEMMA InitEstablishes == Init => IInv
BY DEF Init, IInv

LEMMA StepPreserves == IInv /\ [Next]_vars => IInv'
<1> SUFFICES ASSUME IInv, [Next]_vars PROVE IInv'
  OBVIOUS
<1>1. CASE CheckRequirement
  BY <1>1 DEF CheckRequirement, IInv, Joined, input, validation
<1>2. ASSUME NEW k \in DOMAIN inventory, ValidateDataset(k) PROVE IInv'
  BY <1>2 DEF ValidateDataset, IInv, Joined, input
<1>3. CASE Satisfy
  BY <1>3 DEF Satisfy, IInv, Joined, input
<1>4. ASSUME NEW left \in Columns, NEW right \in Columns, ValidateJoinKey(left, right) PROVE IInv'
  <2>1. Joined(left, right)'
    BY <1>4 DEF ValidateJoinKey, Joined
  <2> QED
    BY <1>4, <2>1 DEF ValidateJoinKey, IInv, input, validation
<1>5. CASE UNCHANGED vars
  BY <1>5 DEF vars, IInv, Joined, input, validation
<1> QED
  BY <1>1, <1>2, <1>3, <1>4, <1>5 DEF Next

LEMMA Invariance == Spec => []IInv
BY InitEstablishes, StepPreserves, PTL DEF Spec

(* Of a plan for a local layer and the layer it names.                        *)
LEMMA PlannedLayer ==
  ASSUME IInv, plan # None, plan.kind = "local-layer"
  PROVE  /\ plan.layer \in DOMAIN inventory
         /\ Failures(requirement, inventory[plan.layer]) = {}
         /\ inventory[plan.layer] \in LayerRecord /\ requirement \in Requirement
BY LocalLayerIsAvailable, RecordsAreTyped, AskedAssumption DEF IInv

-------------------------------------------------------------------------------
(* Theorems                                                                 *)

(* A layer called available meets the requirement whatever its unknown values *)
(* turn out to be (classify_requirement).                                     *)
THEOREM AvailableLayersFit == Spec => []AvailableIsCertain
<1>1. IInv => AvailableIsCertain
  BY PlannedLayer, AvailableMeets DEF AvailableIsCertain
<1> QED
  BY <1>1, Invariance, PTL

(* A planned reprojection starts from a layer of the snapshot, and what it makes *)
(* of it passes every check but perhaps the one on a box in another CRS       *)
(* (_single_step_chains against _check_layer).                                *)
THEOREM ReprojectionsRepair == Spec => []ReprojectionRepairs
<1>1. IInv => ReprojectionRepairs
  <2> SUFFICES ASSUME IInv, plan # None, plan.step # None,
                      plan.step.op \in {"reproject-vector", "reproject-raster"}
               PROVE  LET r == Reprojected(inventory[plan.layer], requirement.crs) IN
                      \/ Failures(requirement, r) = {}
                      \/ Failures(requirement, r) = {5} /\ requirement.extent.crs # requirement.crs
    BY DEF ReprojectionRepairs
  <2>1. plan.layer \in DOMAIN inventory /\ ReprojectionOk(requirement, inventory[plan.layer])
    BY PlannedReprojection, AskedAssumption DEF IInv
  <2>2. inventory[plan.layer] \in LayerRecord /\ requirement \in Requirement
    BY <2>1, RecordsAreTyped, AskedAssumption DEF IInv
  <2> QED
    BY <2>1, <2>2, ReprojectionPasses
<1> QED
  BY <1>1, Invariance, PTL

(* Where the project has layers, a download is proposed only if no step would do *)
(* and the closest layer cannot meet the requirement (plan_fulfillment).       *)
THEOREM ProposalsFillGaps == Spec => []ProposalFillsGap
<1>1. IInv => ProposalFillsGap
  <2> SUFFICES ASSUME IInv, plan # None, plan.kind = "provider-proposal", requirement.local,
                      inventory # <<>>
               PROVE  ProposalFillsGap
    BY DEF ProposalFillsGap
  <2> DEFINE q == requirement
             best == BestCandidate(q, inventory)
  <2>1. q \in Requirement /\ inventory \in Snapshots
    BY AskedAssumption DEF IInv
  <2>2. Available(q, inventory) = {} /\ Steps(q, inventory) = {} /\ Failure(q, inventory[best]) \in Gaps
    BY <2>1, PlannedProvider DEF IInv
  <2>3. /\ best \in DOMAIN inventory
        /\ \A j \in DOMAIN inventory : Passes(q, inventory[j]) <= Passes(q, inventory[best])
    BY <2>1, <2>2, CandidateIsClosest
  <2>4. inventory[best] \in LayerRecord /\ Failures(q, inventory[best]) # {}
    BY <2>1, <2>2, <2>3, RecordsAreTyped DEF Available
  <2>5. \/ CanonicalizeGeometry(inventory[best].geometry) = "Unknown"
        \/ \A c \in Completions(inventory[best]) : ~Meets(q, c)
    BY <2>1, <2>2, <2>4, GapIsDefinite
  <2> HIDE DEF best
  <2> QED
    BY <2>2, <2>3, <2>5 DEF ProposalFillsGap
<1> QED
  BY <1>1, Invariance, PTL

(* Validation finds of a layer called available what its record showed: it is   *)
(* unfit in nothing the record knew, empty only if the count was unknown, and   *)
(* open only in a CRS that QGIS does not know (_check_layer against            *)
(* satisfy_requirement).                                                      *)
THEOREM ValidationConfirms == Spec => []ValidationAgrees
<1>1. IInv => ValidationAgrees
  <2> SUFFICES ASSUME IInv, plan # None, satisfied # None, plan.kind = "local-layer", subject = plan.layer
               PROVE  /\ satisfied[2] \notin {"geometry-mismatch", "schema-gap", "crs-mismatch",
                                              "temporal-mismatch"}
                      /\ satisfied[2] = "empty-dataset" => inventory[subject].empty = None
                      /\ satisfied[1] = "unknown-deferred" => ~report.crsKnown
    BY DEF ValidationAgrees, IInv
  <2> DEFINE q == requirement
             r == inventory[subject]
  <2>1. Failures(q, r) = {} /\ r \in LayerRecord
    BY PlannedLayer
  <2>2. report \in Validate(q, found) /\ satisfied = SatisfyRequirement(q, report)
    BY DEF IInv
  <2>3. /\ found.geometry = r.geometry /\ found.valid = r.valid
        /\ r.fields # None => found.fields = r.fields
        /\ r.crs # None => found.crs = r.crs
        /\ r.extent # None => found.extent = r.extent
        /\ r.empty # None => found.empty = r.empty
        /\ r.hasTime # None => found.hasTime = r.hasTime
        /\ found.fields \in PartialFunctions(FieldNames, TypeNames) \cup {None}
    BY <2>1, KnownStaysKnown DEF IInv
  <2>4. r.valid /\ r.empty # TRUE /\ found.valid
    BY <2>1, <2>3, NoFailures DEF ValidityCheck, Pass
  <2>5. /\ report.geometry = CanonicalizeGeometry(found.geometry)
        /\ report.fields = Normalized(found.fields) /\ report.crs = found.crs
        /\ report.hasTime = found.hasTime
        /\ report.verdict \in {"valid", "empty", "invalid"}
        /\ report.verdict = "empty" => found.empty = TRUE
        /\ report.verdict = "valid" =>
             /\ found.empty # TRUE /\ found.extent # None /\ report.extent = TRUE
             /\ report.coverage \in Coverages(q, found, report.crsKnown)
    <3>1. Tells(q, found, report)
      BY <2>2, <2>4, ReportsTellTheLayer
    <3> QED
      BY <3>1 DEF Tells
  <2>6. GeometrySatisfies(q.geometry, report.geometry)
    BY <2>1, <2>3, <2>5, NoFailures DEF GeometryCheck, Pass
  <2>7. \A f \in q.required : FieldFits(q, report.fields, f) /\ report.fields # None
    <3> SUFFICES ASSUME NEW f \in q.required
                 PROVE  FieldFits(q, report.fields, f) /\ report.fields # None
      OBVIOUS
    <3>1. r.fields # None /\ FieldFits(q, r.fields, f)
      BY <2>1, NoFailures DEF FieldsCheck, Pass
    <3> QED
      BY <2>3, <2>5, <3>1, NormalizedTypesFit, KnownFieldsAreReported
  <2>8. q.crs \in {None, report.crs}
    BY <2>1, <2>3, <2>5, NoFailures DEF CrsCheck, Pass
  <2>9. q.hasTime \in {None, report.hasTime}
    BY <2>1, <2>3, <2>5, NoFailures DEF TemporalCheck, Pass
  <2>10. report.verdict = "valid" /\ q.extent # None /\ report.coverage = None => ~report.crsKnown
    <3> SUFFICES ASSUME report.verdict = "valid", q.extent # None, report.crsKnown
                 PROVE  report.coverage # None
      OBVIOUS
    <3>1. r.extent # None /\ BboxContainsNative(r.extent, q.extent) = TRUE
      <4>1. CoverageCheck(q, r) = Pass
        BY <2>1, NoFailures
      <4>2. r.extent # None /\ r.extent \in Extent
        BY <2>1, <4>1 DEF CoverageCheck, Pass, LayerRecord
      <4>3. BboxContainsNative(r.extent, q.extent) \in BOOLEAN \cup {None}
        BY DEF BboxContainsNative
      <4> QED
        BY <4>1, <4>2, <4>3, NoneAssumption DEF CoverageCheck, Pass
    <3>2. report.coverage \in BOOLEAN
      BY <2>3, <2>5, <3>1 DEF Coverages
    <3> QED
      BY <3>2, NoneAssumption
  <2>11. satisfied[2] \notin {"geometry-mismatch", "schema-gap", "crs-mismatch", "temporal-mismatch"}
    BY <2>2, <2>6, <2>7, <2>8, <2>9 DEF SatisfyRequirement
  <2>12. satisfied[2] = "empty-dataset" => r.empty = None
    <3>1. satisfied[2] = "empty-dataset" => report.verdict = "empty"
      BY <2>2 DEF SatisfyRequirement
    <3> QED
      BY <2>3, <2>4, <2>5, <3>1
  <2>13. satisfied[1] = "unknown-deferred" => ~report.crsKnown
    <3> SUFFICES ASSUME satisfied[1] = "unknown-deferred" PROVE ~report.crsKnown
      OBVIOUS
    <3>1. report.verdict = "valid"
      BY <2>2, <2>5 DEF SatisfyRequirement
    <3>2. Deferred(q, report)
      <4>1. Deferred(q, report) \/ (q.hasTime # None /\ report.hasTime = None)
        BY <2>2, <3>1 DEF SatisfyRequirement
      <4> QED
        BY <2>9, <4>1
    <3> QED
      BY <2>5, <2>7, <2>10, <3>1, <3>2 DEF Deferred
  <2> QED
    BY <2>11, <2>12, <2>13
<1> QED
  BY <1>1, Invariance, PTL

(* Data are called satisfying only if the layer, as it was read, meets the       *)
(* requirement (satisfy_requirement on _validate_open_layer).                  *)
THEOREM SatisfyingDataAreMeasured == Spec => []SatisfiedIsMeasured
<1>1. IInv => SatisfiedIsMeasured
  <2> SUFFICES ASSUME IInv, satisfied # None, satisfied[1] = "satisfied"
               PROVE  SatisfiedIsMeasured
    BY DEF SatisfiedIsMeasured
  <2> DEFINE q == requirement
  <2>1. /\ satisfied = SatisfyRequirement(q, report) /\ report \in Validate(q, found)
        /\ q \in Requirement
    BY AskedAssumption DEF IInv
  <2>2. /\ report.verdict \notin {"invalid", "empty"} /\ ~Deferred(q, report)
        /\ GeometrySatisfies(q.geometry, report.geometry)
        /\ \A f \in q.required : FieldFits(q, report.fields, f)
        /\ q.crs \in {None, report.crs}
        /\ ~ (q.extent # None /\ report.coverage = FALSE)
        /\ q.hasTime \in {None, report.hasTime}
    BY <2>1 DEF SatisfyRequirement
  <2>3. found.valid
    BY <2>1, <2>2, UnopenedIsInvalid
  <2>4. /\ report.geometry = CanonicalizeGeometry(found.geometry)
        /\ report.fields = Normalized(found.fields) /\ report.crs = found.crs
        /\ report.hasTime = found.hasTime
        /\ found.empty # TRUE /\ found.extent # None
        /\ report.coverage \in Coverages(q, found, report.crsKnown)
    <3>1. Tells(q, found, report)
      BY <2>1, <2>3, ReportsTellTheLayer
    <3> QED
      BY <2>2, <3>1 DEF Tells
  <2>5. \A f \in q.required : FieldFits(q, found.fields, f)
    <3>1. q.required # {} => found.fields # None
      BY <2>2, <2>4 DEF Deferred, Normalized
    <3> QED
      BY <2>2, <2>4, <3>1, TypesOfReportFit
  <2>6. q.extent # None =>
          report.coverage = TRUE /\ BboxContainsNative(found.extent, q.extent) # FALSE
    <3> SUFFICES ASSUME q.extent # None
                 PROVE  report.coverage = TRUE /\ BboxContainsNative(found.extent, q.extent) # FALSE
      OBVIOUS
    <3>1. report.coverage \notin {None, FALSE}
      BY <2>2 DEF Deferred
    <3> QED
      BY <2>4, <3>1 DEF Coverages
  <2> DEFINE p == [q EXCEPT !.extent = None]
  <2>7. /\ p.geometry = q.geometry /\ p.required = q.required /\ p.types = q.types
        /\ p.crs = q.crs /\ p.extent = None /\ p.hasTime = q.hasTime
    BY <2>1 DEF Requirement
  <2> HIDE DEF p
  <2>8. Meets(p, found)
    BY <2>2, <2>4, <2>5, <2>7 DEF Meets, FieldFits, GeometrySatisfies
  <2> QED
    BY <2>3, <2>4, <2>6, <2>8 DEF SatisfiedIsMeasured, p
<1> QED
  BY <1>1, Invariance, PTL

(* A join key found valid by complete scans tells the rows of either layer apart *)
(* (validate_join_key, evaluate_join_values), for any cap and any columns.      *)
THEOREM JoinKeysIdentify == Spec => []KeysIdentify
<1>1. IInv => KeysIdentify
  <2> SUFFICES ASSUME IInv, joinReport # None, joinReport.verdict = "valid", joinReport.complete,
                      NEW side \in 1 .. 2, Len(joinReport.columns[side]) # ScanCap + 1
               PROVE  Distinct(joinReport.columns[side]) /\ None \notin Values(joinReport.columns[side])
    BY DEF KeysIdentify
  <2>1. PICK left, right \in Columns : Joined(left, right)
    BY DEF IInv
  <2>2. PICK l \in Collected(left), r \in Collected(right) :
          joinReport = [columns |-> <<left, right>>, complete |-> l.complete /\ r.complete,
                        verdict |-> EvaluateJoinValues(l.values, r.values)]
    BY <2>1 DEF Joined
  <2>3. l.complete /\ r.complete /\ EvaluateJoinValues(l.values, r.values) = "valid"
    BY <2>2
  <2>4. PICK S : l.values \in Seq(S) /\ r.values \in Seq(S)
    BY CollectedAreValues
  <2>5. /\ Distinct(l.values) /\ None \notin Values(l.values)
        /\ Distinct(r.values) /\ None \notin Values(r.values)
    BY <2>3, <2>4, ValidValuesAreDistinct
  <2>6. CASE side = 1
    BY <2>2, <2>3, <2>5, <2>6, CompleteIsWhole
  <2>7. CASE side = 2
    BY <2>2, <2>3, <2>5, <2>7, CompleteIsWhole
  <2> QED
    BY <2>6, <2>7
<1> QED
  BY <1>1, Invariance, PTL
================================================================================
