---------------------------- MODULE TransformChain ----------------------------
(***************************************************************************)
(* data/transforms.py, data/transform_qgis.py, data/transform_tools.py and *)
(* analysis/gis_tools.py: chains of transformation steps and single        *)
(* analyses, proposed by the assistant, confirmed by the user and run by   *)
(* native algorithms on QGIS's main thread.  Between the proposal and the  *)
(* run the user may change the project.                                    *)
(*                                                                         *)
(* What a data set contains is written down as its derivation: <<layer>>   *)
(* for a layer of the project, <<op, input>> or <<op, input, overlay>> for *)
(* what an algorithm makes, <<>> for a file that was overwritten while it  *)
(* was read.  A file is named by the call whose sandbox it is in and its   *)
(* path there.                                                             *)
(***************************************************************************)
EXTENDS Integers, Sequences

CONSTANTS
  LayerIds,   \* ids of project layers
  Requests,   \* calls that may be proposed: chains of steps, and single analyses
  Blank,      \* the empty reference
  Repr,       \* the text of a Python layer object, "<QgsVectorLayer: ...>"
  Scalar,     \* in place of references: a value that cannot be iterated over
  None,       \* nothing
  MaxCalls    \* bound: calls

ASSUME CallsAssumption == MaxCalls \in Nat \ {0}
ASSUME ChainsAssumption == \A r \in Requests : r.tool = "chain" => DOMAIN r.steps = 1 .. Len(r.steps)
ASSUME VerdictAssumption == None # "ok"

VARIABLES
  project,   \* QgsProject: the layers it holds
  disk,      \* files in the sandboxes: what they contain
  calls,     \* number of the latest call
  request,   \* its arguments
  stage,     \* "idle", "proposed", "running"
  sandbox,   \* whether it has a sandbox directory
  current,   \* the layer the step before has returned
  outputs,   \* what it reports
  verdict    \* how the latest call ended

vars == <<project, disk, calls, request, stage, sandbox, current, outputs, verdict>>

-------------------------------------------------------------------------------
(* Steps and their validation (transforms.py)                               *)

\* Values of parameters, by what the checks tell apart.
Strings == {"text", "empty", "comparison", "one-to-one"}
IsString(v) == v \in Strings \cup LayerIds \cup {Blank}

\* PARAM_SCHEMAS: required and optional parameters of an operation, and which of
\* them are numbers.
Schemas ==
  [op \in {"reproject-vector", "reproject-raster", "clip", "filter", "join",
           "raster-to-vector", "vector-to-raster"} |->
   CASE op = "reproject-vector" ->
          [required |-> {"target_crs"}, optional |-> {}]
     [] op = "reproject-raster" ->
          [required |-> {"target_crs", "resampling"}, optional |-> {"target_resolution", "nodata"}]
     [] op = "clip" ->
          [required |-> {"overlay_layer_id"}, optional |-> {}]
     [] op = "filter" ->
          [required |-> {"field", "op"}, optional |-> {"value"}]
     [] op = "join" ->
          [required |-> {"join_layer_id", "join_field", "target_field"}, optional |-> {"join_type"}]
     [] op = "raster-to-vector" ->
          [required |-> {"field"}, optional |-> {"threshold", "nodata"}]
     [] op = "vector-to-raster" ->
          [required |-> {"target_resolution"},
           optional |-> {"attribute_field", "burn_value", "nodata"}]]

Numbers == {"target_resolution", "nodata", "threshold", "burn_value"}

\* A field and an operator that are there, the operator one of FILTER_OPERATORS.
ValidFilterPredicate(params) ==
  /\ params["field"] \notin {"empty", Blank}
  /\ params["op"] = "comparison"

\* validate_step finds no error.
ValidateStep(step) ==
  /\ step.op \in DOMAIN Schemas
  /\ LET schema == Schemas[step.op] IN
       /\ schema.required \subseteq DOMAIN step.params
       /\ DOMAIN step.params \subseteq schema.required \cup schema.optional
       /\ \A name \in DOMAIN step.params :
            IF name \in Numbers THEN step.params[name] = "number" ELSE IsString(step.params[name])
  /\ step.op = "filter" => ValidFilterPredicate(step.params)
  /\ step.op = "join" /\ "join_type" \in DOMAIN step.params => step.params["join_type"] = "one-to-one"
  /\ step.refs # <<>>
  /\ \A i \in DOMAIN step.refs : step.refs[i] # Blank

MaxChainSteps == 3

\* Mutant: the first step speaks for the chain.
ValidateHead(steps) ==
  /\ Len(steps) \in 1 .. MaxChainSteps
  /\ ValidateStep(steps[1])

\* validate_chain finds no error.
ValidateChain(steps) ==
  /\ Len(steps) \in 1 .. MaxChainSteps
  /\ \A i \in DOMAIN steps : ValidateStep(steps[i])

\* tuple() of such references raises out of validate_chain and of the handler.
Uniterable(steps) == \E i \in DOMAIN steps : steps[i].refs = Scalar

-------------------------------------------------------------------------------
(* References and targets (transform_qgis.py)                               *)

\* realpath drops "." from a path.
Normal(ref) == SelectSeq(ref, LAMBDA part : part # ".")

\* An output reference is the sequence of its components; "~" stands for those
\* that begin with it, "a:b" for those with a colon.  The result is the path
\* below the sandbox, <<>> the sandbox itself, or None.
SafeOutputPath(ref) ==
  IF \E i \in DOMAIN ref : ref[i] \in {"..", "a:b"} \/ (i = 1 /\ ref[i] = "~") THEN None
  ELSE Normal(ref)

\* Overlay of a clip or a join.
OverlayKey(op) ==
  CASE op = "clip" -> "overlay_layer_id" [] op = "join" -> "join_layer_id" [] OTHER -> None

\* A data set handed to an algorithm, and what is in it.
Memory(content) == [file |-> None, content |-> content]
Read(layer) == IF layer.file = None THEN layer.content ELSE disk[layer.file]

\* A layer of the project; else the reference itself, for QGIS to open as a file.
\* None: there is nothing to resolve, or nothing QGIS can open.
ResolveRef(ref) ==
  IF ref \in project THEN Memory(<<ref>>)
  ELSE IF ref \in DOMAIN disk THEN [file |-> ref, content |-> disk[ref]]
  ELSE None

\* Mutant: each step starts from its own reference.
SourceByRef(step) == ResolveRef(step.refs[1])

\* The previous step's layer; references count for the first step only.
Source(step) == IF current # None THEN current ELSE ResolveRef(step.refs[1])

Overlay(step) ==
  IF OverlayKey(step.op) = None THEN None ELSE ResolveRef(step.params[OverlayKey(step.op)])

\* The file a step writes, None for a memory layer.
Target(step) ==
  IF sandbox /\ step.out # None THEN SafeOutputPath(step.out) ELSE None

\* What keeps a step from running whatever the algorithm does.
Obstructed(step) ==
  \/ ~ValidateStep(step)
  \/ Source(step) = None
  \/ OverlayKey(step.op) # None /\ Overlay(step) = None
  \/ sandbox /\ step.out # None /\ SafeOutputPath(step.out) \in {None, <<>>}

\* What the algorithm of an operation makes of its input (and overlay).
Derived(op, input, overlay) ==
  IF overlay = None THEN <<op, input>> ELSE <<op, input, overlay>>

Idle == stage = "idle"
Steps == request.steps
Index == Len(outputs) + 1

-------------------------------------------------------------------------------
(* A call: proposed, then confirmed and run                                  *)

Propose(r) ==
  /\ Idle
  /\ calls < MaxCalls
  /\ stage' = "proposed"
  /\ calls' = calls + 1
  /\ request' = r
  /\ sandbox' = FALSE
  /\ current' = None
  /\ outputs' = <<>>
  /\ verdict' = None
  /\ UNCHANGED <<project, disk>>

\* The user adds or removes a layer before confirming.
ChangeProject(l) ==
  /\ stage = "proposed"
  /\ project' = IF l \in project THEN project \ {l} ELSE project \cup {l}
  /\ UNCHANGED <<disk, calls, request, stage, sandbox, current, outputs, verdict>>

Finish(v) ==
  /\ stage' = "idle"
  /\ verdict' = v
  /\ current' = None
  /\ UNCHANGED <<project, calls, request, sandbox>>

RaiseOut ==
  /\ stage = "proposed"
  /\ request.tool = "chain"
  /\ Uniterable(Steps)
  /\ Finish("raised")
  /\ UNCHANGED <<disk, outputs>>

RefuseChain ==
  /\ stage = "proposed"
  /\ request.tool = "chain"
  /\ ~Uniterable(Steps)
  /\ ~ValidateChain(Steps)
  /\ Finish("invalid")
  /\ UNCHANGED <<disk, outputs>>

\* mkdtemp in the workspace directory may fail; the chain then runs without.
BeginChain ==
  /\ stage = "proposed"
  /\ request.tool = "chain"
  /\ ~Uniterable(Steps)
  /\ ValidateChain(Steps)
  /\ stage' = "running"
  /\ sandbox' \in {FALSE, request.workspace}
  /\ UNCHANGED <<project, disk, calls, request, current, outputs, verdict>>

\* What a step leaves on disk and hands on, as its target is a file or not.
WriteFile(step, path, content) ==
  /\ disk' = [f \in DOMAIN disk \cup {path} |-> IF f = path THEN content ELSE disk[f]]
  /\ current' = [file |-> path, content |-> content]
  /\ outputs' = Append(outputs, [ref |-> path, content |-> content])

WriteMemory(content) ==
  /\ current' = Memory(content)
  /\ outputs' = Append(outputs, [ref |-> Repr, content |-> content])
  /\ UNCHANGED disk

\* Mutant: the second run of a workspace writes where the first one did.
SharedPath(step) == <<1, Target(step)>>

Path(step) == <<calls, Target(step)>>

\* The algorithm succeeds.  One that reads the file it writes spoils it.
RunStep ==
  /\ stage = "running"
  /\ Index <= Len(Steps)
  /\ LET step == Steps[Index]
         made == Derived(step.op, Read(Source(step)),
                         IF Overlay(step) = None THEN None ELSE Read(Overlay(step)))
     IN /\ ~Obstructed(step)
        /\ IF Target(step) = None THEN WriteMemory(made)
           ELSE WriteFile(step, Path(step), IF Source(step).file = Path(step) THEN <<>> ELSE made)
  /\ UNCHANGED <<project, calls, request, stage, sandbox, verdict>>

\* An algorithm may raise for reasons of its own, at any step.
StepFails ==
  /\ stage = "running"
  /\ Index <= Len(Steps)
  /\ Finish("failed")
  /\ UNCHANGED <<disk, outputs>>

EndChain ==
  /\ stage = "running"
  /\ Index > Len(Steps)
  /\ Finish("ok")
  /\ UNCHANGED <<disk, outputs>>

-------------------------------------------------------------------------------
(* Single analyses (gis_tools.py): one algorithm, always into memory         *)

Predicates == {"intersects", "contains", "within", "touches", "overlaps"}

\* A layer that is not there, or a predicate nobody knows.
GisRefused(r) ==
  \/ \E i \in DOMAIN r.layers : r.layers[i] \notin project
  \/ r.tool = "spatial_join" /\ r.predicate \notin Predicates

RefuseGis ==
  /\ stage = "proposed"
  /\ request.tool # "chain"
  /\ GisRefused(request)
  /\ Finish("refused")
  /\ UNCHANGED <<disk, outputs>>

RunGis ==
  /\ stage = "proposed"
  /\ request.tool # "chain"
  /\ ~GisRefused(request)
  /\ \/ /\ outputs' = <<[ref |-> Repr, content |-> <<request.tool>> \o request.layers]>>
        /\ Finish("ok")
     \/ /\ UNCHANGED outputs
        /\ Finish("failed")
  /\ UNCHANGED disk

-------------------------------------------------------------------------------

Init ==
  /\ project \in SUBSET LayerIds
  /\ disk = <<>>
  /\ calls = 0
  /\ request = None
  /\ stage = "idle"
  /\ sandbox = FALSE
  /\ current = None
  /\ outputs = <<>>
  /\ verdict = None

Next ==
  \/ \E r \in Requests : Propose(r)
  \/ \E l \in LayerIds : ChangeProject(l)
  \/ RaiseOut \/ RefuseChain \/ BeginChain
  \/ RunStep \/ StepFails \/ EndChain
  \/ RefuseGis \/ RunGis

Spec == Init /\ [][Next]_vars

-------------------------------------------------------------------------------
(* Properties                                                               *)

\* A step that is wrong anywhere in a chain keeps the whole chain from running: the
\* steps before it, which are right, leave neither outputs nor files.
InvalidRunsNothing ==
  calls > 0 /\ request.tool = "chain" =>
    \/ /\ ~Uniterable(Steps)
       /\ Len(Steps) \in 1 .. MaxChainSteps
       /\ \A i \in DOMAIN Steps : ValidateStep(Steps[i])
    \/ outputs = <<>> /\ \A f \in DOMAIN disk : f[1] # calls

\* What a reference contains when the chain runs.
Contents(ref) == IF ref \in project THEN <<ref>> ELSE disk[ref]

\* What the first n steps of a chain make, by definition: each step transforms what
\* the one before made, the first one its first reference.
ChainResult(n) ==
  LET result[k \in 1 .. n] ==
        Derived(Steps[k].op,
                IF k = 1 THEN Contents(Steps[1].refs[1]) ELSE result[k - 1],
                IF OverlayKey(Steps[k].op) = None THEN None
                ELSE Contents(Steps[k].params[OverlayKey(Steps[k].op)]))
  IN result[n]

TargetsDiffer ==
  \A i, j \in DOMAIN Steps :
    Steps[i].out # None /\ Steps[j].out # None /\ i # j => Normal(Steps[i].out) # Normal(Steps[j].out)

\* Unless two steps name the same file, the n-th reported output is what the first n
\* steps make of the data as they were when the chain ran, whatever the user did to
\* the project before; a file among them still holds it; and "ok" means every step.
ResultIsTheChain ==
  calls > 0 /\ request.tool = "chain" /\ outputs # <<>> =>
    /\ TargetsDiffer =>
         \A n \in DOMAIN outputs :
           /\ outputs[n].content = ChainResult(n)
           /\ outputs[n].ref # Repr => disk[outputs[n].ref] = outputs[n].content
    /\ verdict = "ok" => Len(outputs) = Len(Steps)

\* No run of a chain touches a file that an earlier run, of the same request in the
\* same workspace even, has written: every run has a sandbox of its own.
EarlierResultsStay ==
  [][\A f \in DOMAIN disk : f[1] < calls => f \in DOMAIN disk' /\ disk'[f] = disk[f]]_vars

================================================================================
