-------------------------- MODULE TransformChainProofs -------------------------
(***************************************************************************)
(* TransformChain: for any layers, requests and number of calls, chains    *)
(* that do not validate run nothing, files of earlier runs stay, and what  *)
(* a chain reports is what its steps make.                                 *)
(***************************************************************************)
EXTENDS TransformChain, TLAPS

\* Files are in sandboxes of calls that were made.
FilesOfCalls ==
  /\ calls \in Nat
  /\ stage # "idle" => calls > 0
  /\ \A f \in DOMAIN disk : f[1] \in 1 .. calls

\* A call that is waiting has neither outputs nor files; what runs was validated.
WaitingIsClean ==
  stage = "proposed" => outputs = <<>> /\ \A f \in DOMAIN disk : f[1] # calls

RunningIsValid ==
  stage = "running" => request.tool = "chain" /\ ~Uniterable(Steps) /\ ValidateChain(Steps)

\* The inductive invariant: the call under way in its two stages, and what is claimed,
\* which has to outlive the call.
IInv == FilesOfCalls /\ WaitingIsClean /\ RunningIsValid /\ InvalidRunsNothing

-------------------------------------------------------------------------------

LEMMA InitIInv == Init => IInv
BY DEF Init, IInv, FilesOfCalls, WaitingIsClean, RunningIsValid, InvalidRunsNothing

\* Whatever ends a call leaves its files alone, and its outputs if it is a chain.
LEMMA EndIInv ==
  ASSUME IInv, stage' = "idle", request' = request, calls' = calls, disk' = disk,
         request.tool = "chain" => outputs' = outputs
  PROVE  IInv'
BY DEF IInv, FilesOfCalls, WaitingIsClean, RunningIsValid, InvalidRunsNothing, Steps

LEMMA StepIInv == IInv /\ [Next]_vars => IInv'
<1> SUFFICES ASSUME IInv, [Next]_vars PROVE IInv'
  OBVIOUS
<1> USE DEF IInv
<1>1. ASSUME NEW r \in Requests, Propose(r) PROVE IInv'
  BY <1>1 DEF Propose, Idle, FilesOfCalls, WaitingIsClean, RunningIsValid, InvalidRunsNothing, Steps
<1>2. ASSUME NEW l \in LayerIds, ChangeProject(l) PROVE IInv'
  BY <1>2 DEF ChangeProject, FilesOfCalls, WaitingIsClean, RunningIsValid, InvalidRunsNothing, Steps
<1>3. CASE RaiseOut
  BY <1>3, EndIInv DEF RaiseOut, Finish
<1>4. CASE RefuseChain
  BY <1>4, EndIInv DEF RefuseChain, Finish
<1>5. CASE BeginChain
  BY <1>5 DEF BeginChain, FilesOfCalls, WaitingIsClean, RunningIsValid, InvalidRunsNothing, Steps
<1>6. CASE RunStep
  <2> DEFINE path == Path(Steps[Index])
  <2>1. stage = "running" /\ calls' = calls /\ request' = request /\ stage' = stage
    BY <1>6 DEF RunStep
  <2>2. \A f \in DOMAIN disk' : f \in DOMAIN disk \/ f = path
    BY <1>6 DEF RunStep, WriteFile, WriteMemory
  <2>3. path[1] = calls
    BY DEF Path
  <2>4. request.tool = "chain" /\ ~Uniterable(Steps) /\ ValidateChain(Steps)
    BY <2>1 DEF RunningIsValid
  <2>5. calls > 0
    BY <2>1 DEF FilesOfCalls
  <2>6. FilesOfCalls'
    BY <2>1, <2>2, <2>3, <2>5 DEF FilesOfCalls
  <2>7. WaitingIsClean' /\ RunningIsValid'
    BY <2>1, <2>4 DEF WaitingIsClean, RunningIsValid, Steps
  <2>8. InvalidRunsNothing'
    BY <2>1, <2>4 DEF InvalidRunsNothing, ValidateChain, Steps
  <2> QED BY <2>6, <2>7, <2>8
<1>7. CASE StepFails
  BY <1>7, EndIInv DEF StepFails, Finish
<1>8. CASE EndChain
  BY <1>8, EndIInv DEF EndChain, Finish
<1>9. CASE RefuseGis
  BY <1>9, EndIInv DEF RefuseGis, Finish
<1>10. CASE RunGis
  BY <1>10, EndIInv DEF RunGis, Finish
<1>11. CASE UNCHANGED vars
  BY <1>11 DEF vars, FilesOfCalls, WaitingIsClean, RunningIsValid, InvalidRunsNothing, Steps
<1> QED BY <1>1, <1>2, <1>3, <1>4, <1>5, <1>6, <1>7, <1>8, <1>9, <1>10, <1>11 DEF Next

LEMMA Invariance == Spec => []IInv
BY InitIInv, StepIInv, PTL DEF Spec

\* A chain with a wrong step, or of a wrong length, leaves neither outputs nor files
\* (validate_chain before run_chain, transform_tools.py:83-125).
THEOREM InvalidChainsRunNothing == Spec => []InvalidRunsNothing
<1>1. IInv => InvalidRunsNothing
  BY DEF IInv
<1> QED BY Invariance, <1>1, PTL

\* A run never changes or removes a file of an earlier run: it writes in a sandbox that
\* is named by its own call (transform_tools.py:105-111).
THEOREM EarlierFilesStay == Spec => EarlierResultsStay
<1> DEFINE Stays == \A f \in DOMAIN disk : f[1] < calls => f \in DOMAIN disk' /\ disk'[f] = disk[f]
<1>1. IInv /\ [Next]_vars => [Stays]_vars
  <2> SUFFICES ASSUME IInv, Next PROVE Stays
    OBVIOUS
  <2>1. CASE RunStep
    <3> DEFINE path == Path(Steps[Index])
    <3>1. path[1] = calls /\ calls \in Nat /\ \A f \in DOMAIN disk : f[1] \in 1 .. calls
      BY DEF Path, IInv, FilesOfCalls
    <3>2. \/ disk' = disk
          \/ \E c : disk' = [f \in DOMAIN disk \cup {path} |-> IF f = path THEN c ELSE disk[f]]
      BY <2>1 DEF RunStep, WriteFile, WriteMemory
    <3> QED BY <3>1, <3>2
  <2>2. CASE disk' = disk
    BY <2>2
  <2> QED BY <2>1, <2>2 DEF Next, Propose, ChangeProject, RaiseOut, RefuseChain, BeginChain, StepFails,
                             EndChain, RefuseGis, RunGis
<1> QED BY Invariance, <1>1, PTL DEF Spec, EarlierResultsStay

-------------------------------------------------------------------------------
(* What a chain makes, step by step                                          *)

\* What the k-th step makes of an input.
Makes(k, input) ==
  Derived(Steps[k].op, input,
          IF OverlayKey(Steps[k].op) = None THEN None
          ELSE Contents(Steps[k].params[OverlayKey(Steps[k].op)]))

\* The recursion of ChainResult: for chains of the length that is allowed, the function
\* it defines exists.
Unfolds ==
  \A n \in 1 .. 3 :
    ChainResult(n) = Makes(n, IF n = 1 THEN Contents(Steps[1].refs[1]) ELSE ChainResult(n - 1))

LEMMA ChainUnfolds == Unfolds
<1> DEFINE first == Contents(Steps[1].refs[1])
           one == Makes(1, first)
           two == Makes(2, one)
           three == Makes(3, two)
<1>1. ASSUME NEW n \in 1 .. 3
      PROVE  ChainResult(n) = IF n = 1 THEN one ELSE IF n = 2 THEN two ELSE three
  <2> DEFINE body(g, k) ==
        Derived(Steps[k].op,
                IF k = 1 THEN Contents(Steps[1].refs[1]) ELSE g[k - 1],
                IF OverlayKey(Steps[k].op) = None THEN None
                ELSE Contents(Steps[k].params[OverlayKey(Steps[k].op)]))
             h == [k \in 1 .. n |-> IF k = 1 THEN one ELSE IF k = 2 THEN two ELSE three]
             f == CHOOSE g : g = [k \in 1 .. n |-> body(g, k)]
  <2>1. ASSUME NEW g, NEW k \in 1 .. n
        PROVE  body(g, k) = Makes(k, IF k = 1 THEN first ELSE g[k - 1])
    BY DEF Makes
  <2>2. ChainResult(n) = f[n]
    BY DEF ChainResult
  <2> HIDE DEF body, first
  <2>3. h = [k \in 1 .. n |-> body(h, k)]
    <3>1. ASSUME NEW k \in 1 .. n PROVE h[k] = body(h, k)
      <4>1. CASE k = 1
        BY <2>1, <4>1
      <4>2. CASE k = 2
        BY <2>1, <4>2
      <4>3. CASE k = 3
        BY <2>1, <4>3
      <4> QED BY <4>1, <4>2, <4>3
    <3> QED BY <3>1
  <2> HIDE DEF h
  <2>4. f = [k \in 1 .. n |-> body(f, k)]
    BY <2>3
  <2> HIDE DEF f
  <2>5. \A k \in 1 .. n : f[k] = Makes(k, IF k = 1 THEN first ELSE f[k - 1])
    BY <2>1, <2>4
  <2>6. f[1] = one /\ (n > 1 => f[2] = two) /\ (n > 2 => f[3] = three)
    BY <2>5
  <2> QED BY <2>2, <2>6
<1> HIDE DEF first, one, two, three
<1>2. one = Makes(1, first) /\ two = Makes(2, one) /\ three = Makes(3, two)
  BY DEF one, two, three
<1> QED BY <1>1, <1>2 DEF first, Unfolds


\* The chain of the latest call, from the confirmation on.
ChainCall == calls > 0 /\ request.tool = "chain" /\ stage # "proposed"

\* The values of a sequence, for its type: contents have none of their own.
ValuesOf(seq) == {seq[i] : i \in DOMAIN seq}

Resolvable(ref) == ref \in project \/ ref \in DOMAIN disk

\* Outputs are those of the first steps of the chain.
OutputsOfSteps ==
  /\ outputs \in Seq(ValuesOf(outputs))
  /\ calls > 0 => request \in Requests
  /\ ChainCall /\ outputs # <<>> => Len(Steps) \in 1 .. 3 /\ Len(outputs) <= Len(Steps)

\* A file in the sandbox of the call is one of their targets.
FilesOfSteps ==
  ChainCall => \A f \in DOMAIN disk : f[1] = calls =>
    \E j \in 1 .. Len(outputs) : Steps[j].out # None /\ f = <<calls, Normal(Steps[j].out)>>

\* What they read can still be read.
InputsStay ==
  ChainCall => \A j \in 1 .. Len(outputs) :
    /\ j = 1 => Resolvable(Steps[1].refs[1])
    /\ OverlayKey(Steps[j].op) # None => Resolvable(Steps[j].params[OverlayKey(Steps[j].op)])

\* What the next step finds: the last output, in memory or in its file.
CurrentIsLast ==
  /\ stage = "proposed" \/ outputs = <<>> => current = None
  /\ stage = "running" /\ outputs # <<>> =>
       \E file : /\ current = [file |-> file, content |-> outputs[Len(outputs)].content]
                 /\ file # None =>
                      /\ file \in DOMAIN disk
                      /\ TargetsDiffer => disk[file] = outputs[Len(outputs)].content

OutputsAreRight ==
  ChainCall /\ TargetsDiffer =>
    \A n \in DOMAIN outputs :
      /\ outputs[n].content = ChainResult(n)
      /\ outputs[n].ref # Repr =>
           outputs[n].ref \in DOMAIN disk /\ disk[outputs[n].ref] = outputs[n].content

OkIsWhole ==
  /\ stage # "idle" => verdict # "ok"
  /\ ChainCall /\ outputs # <<>> /\ verdict = "ok" => Len(outputs) = Len(Steps)

\* Inductive together with IInv: to follow what is read one has to know that whatever
\* was read is still there, and that a target is a new file.
ChainIInv ==
  /\ OutputsOfSteps /\ FilesOfSteps /\ InputsStay
  /\ CurrentIsLast /\ OutputsAreRight /\ OkIsWhole


\* None is no data set and no file.
NoneIsApart == \A x, y : None # [file |-> x, content |-> y] /\ None # <<x, y>>

LEMMA AppendValues ==
  ASSUME NEW seq, seq \in Seq(ValuesOf(seq)), NEW e
  PROVE  LET more == Append(seq, e) IN
         /\ more \in Seq(ValuesOf(more)) /\ Len(more) = Len(seq) + 1 /\ more # <<>>
         /\ \A i \in 1 .. Len(seq) : more[i] = seq[i]
         /\ more[Len(seq) + 1] = e
         /\ DOMAIN more = 1 .. Len(seq) + 1 /\ DOMAIN seq = 1 .. Len(seq) /\ Len(seq) \in Nat
<1> DEFINE S == ValuesOf(seq) \cup {e}
           more == Append(seq, e)
<1>1. seq \in Seq(S) /\ e \in S
  <2>1. /\ seq \in [1 .. Len(seq) -> ValuesOf(seq)] /\ Len(seq) \in Nat
    OBVIOUS
  <2> HIDE DEF S
  <2>2. ValuesOf(seq) \subseteq S /\ e \in S
    BY DEF S
  <2> QED BY <2>1, <2>2
<1> HIDE DEF S
<1>2. /\ more \in Seq(S) /\ Len(more) = Len(seq) + 1 /\ Len(seq) \in Nat
      /\ \A i \in 1 .. Len(seq) : more[i] = seq[i]
      /\ more[Len(seq) + 1] = e
      /\ DOMAIN more = 1 .. Len(seq) + 1 /\ DOMAIN seq = 1 .. Len(seq)
  BY <1>1
<1> HIDE DEF more
<1>3. more \in Seq(ValuesOf(more))
  <2>1. more \in [1 .. Len(more) -> ValuesOf(more)] /\ Len(more) \in Nat
    BY <1>2 DEF ValuesOf
  <2> QED BY <2>1
<1>4. more # <<>>
  BY <1>2
<1> QED BY <1>2, <1>3, <1>4 DEF more

LEMMA ReadIsContents ==
  ASSUME NEW ref, ResolveRef(ref) # None
  PROVE  /\ Resolvable(ref) /\ Read(ResolveRef(ref)) = Contents(ref)
         /\ ResolveRef(ref).file = None \/ ResolveRef(ref).file \in DOMAIN disk
BY DEF ResolveRef, Resolvable, Read, Memory, Contents

\* What has been read stays as it was while files are only added.
LEMMA ResultsStay ==
  ASSUME project' = project, request' = request,
         \A f \in DOMAIN disk : f \in DOMAIN disk' /\ disk'[f] = disk[f],
         NEW m \in 0 .. 3, m > 0 => Resolvable(Steps[1].refs[1]),
         \A j \in 1 .. m : OverlayKey(Steps[j].op) # None =>
                             Resolvable(Steps[j].params[OverlayKey(Steps[j].op)])
  PROVE  \A n \in 1 .. m : ChainResult(n)' = ChainResult(n)
<1>1. Unfolds
  BY ChainUnfolds
<1>2. Unfolds'
  BY ChainUnfolds, PTL
<1>3. Steps' = Steps
  BY DEF Steps
<1>4. \A ref : Resolvable(ref) => Contents(ref)' = Contents(ref)
  BY DEF Resolvable, Contents
<1>5. m > 0 => Contents(Steps[1].refs[1])' = Contents(Steps[1].refs[1])
  BY <1>3, <1>4 DEF Contents, Resolvable
<1>6. ASSUME NEW k \in 1 .. m, NEW input PROVE Makes(k, input)' = Makes(k, input)
  BY <1>3 DEF Makes, Contents, Resolvable
<1> QED BY <1>1, <1>2, <1>5, <1>6 DEF Unfolds


\* A step that can run reads its inputs, and makes of them what it should.
LEMMA StepReads ==
  ASSUME NoneIsApart, ChainIInv, ChainCall, stage = "running",
         NEW k, k = Index, NEW step, step = Steps[k], k \in 1 .. 3, ~Obstructed(step)
  PROVE  /\ k = 1 => Resolvable(Steps[1].refs[1])
         /\ OverlayKey(step.op) # None => Resolvable(step.params[OverlayKey(step.op)])
         /\ Source(step).file = None \/ Source(step).file \in DOMAIN disk
         /\ TargetsDiffer =>
              Derived(step.op, Read(Source(step)),
                      IF Overlay(step) = None THEN None ELSE Read(Overlay(step)))
                = Makes(k, IF k = 1 THEN Contents(Steps[1].refs[1]) ELSE ChainResult(k - 1))
<1>1. /\ outputs \in Seq(ValuesOf(outputs)) /\ Len(outputs) \in Nat /\ Len(outputs) = k - 1
      /\ (k = 1) = (outputs = <<>>) /\ DOMAIN outputs = 1 .. Len(outputs)
  BY DEF ChainIInv, OutputsOfSteps, Index
<1>2. /\ Source(step) # None
      /\ OverlayKey(step.op) # None => Overlay(step) # None
  BY DEF Obstructed
<1>3. CASE k = 1
  <2>1. Source(step) = ResolveRef(Steps[1].refs[1])
    BY <1>1, <1>3 DEF ChainIInv, CurrentIsLast, Source
  <2> QED BY <1>2, <1>3, <2>1, ReadIsContents DEF Overlay, Makes
<1>4. CASE k # 1
  <2>1. PICK file : /\ current = [file |-> file, content |-> outputs[Len(outputs)].content]
                    /\ file # None =>
                         /\ file \in DOMAIN disk
                         /\ TargetsDiffer => disk[file] = outputs[Len(outputs)].content
    BY <1>1, <1>4 DEF ChainIInv, CurrentIsLast
  <2>2. Source(step) = current /\ current.file = file
        /\ current.content = outputs[Len(outputs)].content
    BY <2>1 DEF Source, NoneIsApart
  <2>3. TargetsDiffer => Read(Source(step)) = outputs[Len(outputs)].content
    BY <2>1, <2>2 DEF Read
  <2>4. TargetsDiffer => outputs[Len(outputs)].content = ChainResult(k - 1)
    <3>1. Len(outputs) \in DOMAIN outputs
      BY <1>1, <1>4
    <3> QED BY <1>1, <3>1 DEF ChainIInv, OutputsAreRight
  <2>5. OverlayKey(step.op) # None =>
          /\ Resolvable(step.params[OverlayKey(step.op)])
          /\ Read(Overlay(step)) = Contents(step.params[OverlayKey(step.op)])
    BY <1>2, ReadIsContents DEF Overlay
  <2>6. OverlayKey(step.op) = None => Overlay(step) = None
    BY DEF Overlay
  <2> QED BY <1>2, <1>4, <2>1, <2>2, <2>3, <2>4, <2>5, <2>6 DEF Makes
<1> QED BY <1>3, <1>4

\* A step that has a target of its own writes a new file.
LEMMA TargetIsNew ==
  ASSUME ChainIInv, ChainCall, NEW k, k = Index, NEW step, step = Steps[k],
         k \in 1 .. Len(Steps), Len(Steps) \in 1 .. 3,
         ~Obstructed(step), Target(step) # None
  PROVE  /\ step.out # None /\ Path(step) = <<calls, Normal(step.out)>>
         /\ TargetsDiffer => Path(step) \notin DOMAIN disk
<1>1. step.out # None /\ Target(step) = Normal(step.out)
  BY DEF Target, Obstructed, SafeOutputPath
<1>2. Path(step) = <<calls, Normal(step.out)>>
  BY <1>1 DEF Path
<1>3. ASSUME TargetsDiffer, Path(step) \in DOMAIN disk PROVE FALSE
  <2>1. PICK j \in 1 .. Len(outputs) :
          Steps[j].out # None /\ Path(step) = <<calls, Normal(Steps[j].out)>>
    BY <1>2, <1>3 DEF ChainIInv, FilesOfSteps
  <2>2. Normal(Steps[j].out) = Normal(step.out)
    BY <1>2, <2>1
  <2>3. Len(outputs) \in Nat
    BY DEF ChainIInv, OutputsOfSteps
  <2>4. j \in 1 .. Len(Steps) /\ j # k
    BY <2>3 DEF Index
  <2>5. DOMAIN Steps = 1 .. Len(Steps)
    BY ChainsAssumption DEF ChainIInv, OutputsOfSteps, ChainCall, Steps
  <2> QED BY <1>1, <1>3, <2>1, <2>2, <2>4, <2>5 DEF TargetsDiffer
<1> QED BY <1>1, <1>2, <1>3

\* What a step adds: one output, and its file if it has one.
Adds(step, content, ref, file) ==
  /\ outputs' = Append(outputs, [ref |-> ref, content |-> content])
  /\ current' = [file |-> file, content |-> content]
  /\ TargetsDiffer =>
       content = Derived(step.op, Read(Source(step)),
                         IF Overlay(step) = None THEN None ELSE Read(Overlay(step)))
  /\ \/ file = None /\ ref = Repr /\ disk' = disk
     \/ /\ file = ref /\ ref = <<calls, Normal(step.out)>> /\ step.out # None
        /\ TargetsDiffer => ref \notin DOMAIN disk
        /\ disk' = [f \in DOMAIN disk \cup {ref} |-> IF f = ref THEN content ELSE disk[f]]

LEMMA RunStepAdds ==
  ASSUME NoneIsApart, ChainIInv, ChainCall, RunStep, Len(Steps) \in 1 .. 3,
         NEW k, k = Index, NEW step, step = Steps[k]
  PROVE  /\ k \in 1 .. Len(Steps) /\ ~Obstructed(step)
         /\ project' = project /\ request' = request /\ calls' = calls
         /\ stage' = "running" /\ verdict' = verdict
         /\ \E content, ref, file : Adds(step, content, ref, file)
<1> DEFINE made == Derived(step.op, Read(Source(step)),
                           IF Overlay(step) = None THEN None ELSE Read(Overlay(step)))
<1>1. /\ k <= Len(Steps) /\ ~Obstructed(step) /\ stage = "running"
      /\ IF Target(step) = None THEN WriteMemory(made)
         ELSE WriteFile(step, Path(step), IF Source(step).file = Path(step) THEN <<>> ELSE made)
  BY DEF RunStep
<1> HIDE DEF made
<1>2. k \in 1 .. Len(Steps)
  BY <1>1 DEF Index, ChainIInv, OutputsOfSteps
<1>3. /\ project' = project /\ request' = request /\ calls' = calls
      /\ stage' = "running" /\ verdict' = verdict
  BY <1>1 DEF RunStep
<1>4. CASE Target(step) = None
  <2>1. Adds(step, made, Repr, None)
    BY <1>1, <1>4 DEF WriteMemory, Memory, made, Adds
  <2> QED BY <1>1, <1>2, <1>3, <2>1
<1>5. CASE Target(step) # None
  <2>1. /\ step.out # None /\ Path(step) = <<calls, Normal(step.out)>>
        /\ TargetsDiffer => Path(step) \notin DOMAIN disk
    BY <1>1, <1>2, <1>5, TargetIsNew
  <2>2. TargetsDiffer => Source(step).file # Path(step)
    <3>1. Source(step).file = None \/ Source(step).file \in DOMAIN disk
      BY <1>1, <1>2, StepReads
    <3> QED BY <2>1, <3>1 DEF NoneIsApart
  <2>3. PICK content : /\ content = IF Source(step).file = Path(step) THEN <<>> ELSE made
                       /\ WriteFile(step, Path(step), content)
    BY <1>1, <1>5
  <2>4. PICK ref : ref = Path(step)
    OBVIOUS
  <2>5. /\ disk' = [f \in DOMAIN disk \cup {ref} |-> IF f = ref THEN content ELSE disk[f]]
        /\ current' = [file |-> ref, content |-> content]
        /\ outputs' = Append(outputs, [ref |-> ref, content |-> content])
    BY <2>3, <2>4 DEF WriteFile
  <2>6. TargetsDiffer => content = made
    BY <2>2, <2>3
  <2>7. Adds(step, content, ref, ref)
    BY <2>1, <2>4, <2>5, <2>6 DEF made, Adds
  <2> QED BY <1>1, <1>2, <1>3, <2>7
<1> QED BY <1>4, <1>5


LEMMA RunStepChainIInv ==
  ASSUME NoneIsApart, IInv, ChainIInv, RunStep
  PROVE  ChainIInv'
<1>1. ChainCall /\ Len(Steps) \in 1 .. 3 /\ stage = "running"
  BY DEF RunStep, IInv, FilesOfCalls, RunningIsValid, ChainCall, ValidateChain, MaxChainSteps
<1>2. PICK k : k = Index
  OBVIOUS
<1>3. PICK step : step = Steps[k]
  OBVIOUS
<1>4. /\ k \in 1 .. Len(Steps) /\ ~Obstructed(step)
      /\ project' = project /\ request' = request /\ calls' = calls
      /\ stage' = "running" /\ verdict' = verdict
  BY <1>1, <1>2, <1>3, RunStepAdds
<1>5. PICK content, ref, file : Adds(step, content, ref, file)
  BY <1>1, <1>2, <1>3, RunStepAdds
<1>6. /\ outputs' \in Seq(ValuesOf(outputs')) /\ Len(outputs') = k /\ outputs' # <<>>
      /\ \A i \in 1 .. k - 1 : outputs'[i] = outputs[i]
      /\ outputs'[k] = [ref |-> ref, content |-> content]
      /\ DOMAIN outputs' = 1 .. k /\ DOMAIN outputs = 1 .. k - 1
      /\ Len(outputs) = k - 1 /\ k \in 1 .. 3
  <2>1. PICK e : e = [ref |-> ref, content |-> content]
    OBVIOUS
  <2>2. PICK old : old = outputs /\ old \in Seq(ValuesOf(old))
    BY DEF ChainIInv, OutputsOfSteps
  <2>3. outputs' = Append(old, e)
    BY <1>5, <2>1, <2>2 DEF Adds
  <2>4. PICK more : more = Append(old, e)
    OBVIOUS
  <2>5. /\ more \in Seq(ValuesOf(more)) /\ Len(more) = Len(old) + 1 /\ more # <<>>
        /\ \A i \in 1 .. Len(old) : more[i] = old[i]
        /\ more[Len(old) + 1] = e
        /\ DOMAIN more = 1 .. Len(old) + 1 /\ DOMAIN old = 1 .. Len(old) /\ Len(old) \in Nat
    BY <2>2, <2>4, AppendValues
  <2>6. k = Len(old) + 1 /\ k \in 1 .. 3
    <3>1. k = Len(outputs) + 1
      BY <1>2 DEF Index
    <3>2. PICK long : long = Len(Steps) /\ long \in 1 .. 3 /\ k \in 1 .. long
      BY <1>1, <1>4
    <3> QED BY <2>2, <3>1, <3>2
  <2> QED BY <2>1, <2>2, <2>3, <2>4, <2>5, <2>6
<1>7. Steps' = Steps /\ (TargetsDiffer' => TargetsDiffer) /\ (ChainCall' => calls > 0)
  BY <1>4 DEF Steps, TargetsDiffer, ChainCall
<1>8. /\ \A f \in DOMAIN disk : f \in DOMAIN disk' /\ (TargetsDiffer => disk'[f] = disk[f])
      /\ \A f \in DOMAIN disk' :
           f \in DOMAIN disk \/ (f = <<calls, Normal(step.out)>> /\ step.out # None)
      /\ file # None => file \in DOMAIN disk' /\ disk'[file] = content
      /\ ref # Repr => ref \in DOMAIN disk' /\ disk'[ref] = content
  <2>1. CASE file = None /\ ref = Repr /\ disk' = disk
    BY <2>1
  <2>2. CASE /\ file = ref /\ ref = <<calls, Normal(step.out)>> /\ step.out # None
             /\ TargetsDiffer => ref \notin DOMAIN disk
             /\ disk' = [f \in DOMAIN disk \cup {ref} |-> IF f = ref THEN content ELSE disk[f]]
    BY <2>2
  <2> QED BY <1>5, <2>1, <2>2 DEF Adds
<1>9. /\ k = 1 => Resolvable(Steps[1].refs[1])
      /\ OverlayKey(step.op) # None => Resolvable(step.params[OverlayKey(step.op)])
      /\ TargetsDiffer =>
           content = Makes(k, IF k = 1 THEN Contents(Steps[1].refs[1]) ELSE ChainResult(k - 1))
  BY <1>1, <1>2, <1>3, <1>4, <1>5, <1>6, StepReads DEF Adds
<1>10. /\ Resolvable(Steps[1].refs[1])
       /\ \A j \in 1 .. k : OverlayKey(Steps[j].op) # None =>
                              Resolvable(Steps[j].params[OverlayKey(Steps[j].op)])
  BY <1>1, <1>3, <1>6, <1>9 DEF ChainIInv, InputsStay
<1>11. OutputsOfSteps'
  BY <1>1, <1>4, <1>6, <1>7 DEF ChainIInv, OutputsOfSteps, ChainCall
<1>12. FilesOfSteps'
  BY <1>1, <1>3, <1>4, <1>6, <1>7, <1>8 DEF ChainIInv, FilesOfSteps, ChainCall
<1>13. InputsStay'
  <2>1. \A r : Resolvable(r) => Resolvable(r)'
    BY <1>4, <1>8 DEF Resolvable
  <2>2. Resolvable(Steps[1].refs[1])'
    BY <1>4, <1>7, <1>8, <1>10 DEF Resolvable
  <2>3. \A j \in 1 .. k : OverlayKey(Steps[j].op) # None =>
                            Resolvable(Steps[j].params[OverlayKey(Steps[j].op)])'
    BY <1>4, <1>7, <1>8, <1>10 DEF Resolvable
  <2> QED BY <1>6, <1>7, <2>2, <2>3 DEF InputsStay
<1>14. CurrentIsLast'
  <2>1. current' = [file |-> file, content |-> outputs'[Len(outputs')].content]
    BY <1>5, <1>6 DEF Adds
  <2>2. file # None => file \in DOMAIN disk' /\ disk'[file] = outputs'[Len(outputs')].content
    BY <1>6, <1>8
  <2> QED BY <1>4, <1>6, <2>1, <2>2 DEF CurrentIsLast
<1>15. OutputsAreRight'
  <2> SUFFICES ASSUME TargetsDiffer, NEW n \in 1 .. k
               PROVE  /\ outputs'[n].content = ChainResult(n)'
                      /\ outputs'[n].ref # Repr =>
                           /\ outputs'[n].ref \in DOMAIN disk'
                           /\ disk'[outputs'[n].ref] = outputs'[n].content
    BY <1>6, <1>7 DEF OutputsAreRight
  <2>1. \A j \in 1 .. k : ChainResult(j)' = ChainResult(j)
    BY <1>4, <1>6, <1>8, <1>10, ResultsStay
  <2>2. CASE n = k
    <3>1. content = ChainResult(k)
      BY <1>6, <1>9, ChainUnfolds DEF Unfolds
    <3> QED BY <1>6, <1>8, <2>1, <2>2, <3>1
  <2>3. CASE n # k
    <3>1. n \in DOMAIN outputs /\ outputs'[n] = outputs[n]
      BY <1>6, <2>3
    <3> QED BY <1>1, <1>8, <2>1, <3>1 DEF ChainIInv, OutputsAreRight
  <2> QED BY <2>2, <2>3
<1>16. OkIsWhole'
  BY <1>1, <1>4 DEF ChainIInv, OkIsWhole
<1> QED BY <1>11, <1>12, <1>13, <1>14, <1>15, <1>16 DEF ChainIInv

LEMMA InitChainIInv == Init => ChainIInv
BY DEF Init, ChainIInv, OutputsOfSteps, FilesOfSteps, InputsStay, CurrentIsLast, OutputsAreRight,
       OkIsWhole, ChainCall, ValuesOf

\* A call that leaves its proposal behind without outputs has nothing to account for.
LEMMA LeavesChainIInv ==
  ASSUME IInv, ChainIInv, stage = "proposed", current' = None,
         outputs' = outputs, disk' = disk, calls' = calls, request' = request,
         stage' # "idle" => verdict' # "ok"
  PROVE  ChainIInv'
<1>1. outputs = <<>> /\ \A f \in DOMAIN disk : f[1] # calls
  BY DEF IInv, WaitingIsClean
<1>2. OutputsOfSteps' /\ CurrentIsLast' /\ OkIsWhole'
  BY <1>1 DEF ChainIInv, OutputsOfSteps, CurrentIsLast, OkIsWhole, ValuesOf
<1>3. FilesOfSteps'
  BY <1>1 DEF FilesOfSteps
<1>4. InputsStay' /\ OutputsAreRight'
  BY <1>1 DEF InputsStay, OutputsAreRight
<1> QED BY <1>2, <1>3, <1>4 DEF ChainIInv

\* A step that only ends or holds up the call leaves what was reported right.
LEMMA KeepsChainIInv ==
  ASSUME IInv, ChainIInv, project' = project, disk' = disk, calls' = calls, request' = request,
         outputs' = outputs, (stage = "proposed") = (stage' = "proposed"),
         stage' # "idle" => verdict' # "ok",
         CurrentIsLast',
         ChainCall /\ outputs # <<>> /\ verdict' = "ok" => Len(outputs) = Len(Steps)
  PROVE  ChainIInv'
<1>1. /\ Steps' = Steps /\ TargetsDiffer' = TargetsDiffer /\ ChainCall' = ChainCall
      /\ \A r : Resolvable(r)' = Resolvable(r)
  BY DEF Steps, TargetsDiffer, ChainCall, Resolvable
<1>2. OutputsOfSteps' /\ FilesOfSteps' /\ OkIsWhole'
  BY <1>1 DEF ChainIInv, OutputsOfSteps, FilesOfSteps, OkIsWhole
<1>3. InputsStay'
  BY <1>1 DEF ChainIInv, InputsStay, Resolvable
<1>4. OutputsAreRight'
  <2> SUFFICES ASSUME ChainCall, TargetsDiffer, NEW n \in DOMAIN outputs
               PROVE  outputs[n].content = ChainResult(n)'
    BY <1>1 DEF ChainIInv, OutputsAreRight
  <2>1. outputs # <<>> /\ DOMAIN outputs = 1 .. Len(outputs) /\ Len(outputs) \in Nat
    BY DEF ChainIInv, OutputsOfSteps
  <2>2. Len(Steps) \in 1 .. 3 /\ Len(outputs) <= Len(Steps)
    BY <2>1 DEF ChainIInv, OutputsOfSteps
  <2>3. PICK m : m = Len(outputs) /\ m \in 0 .. 3
    <3>1. PICK long : long = Len(Steps) /\ long \in 1 .. 3
      BY <2>2
    <3>2. PICK m : m = Len(outputs) /\ m \in Nat /\ m <= long
      BY <2>1, <2>2, <3>1
    <3>3. m \in 0 .. 3
      BY <3>1, <3>2
    <3> QED BY <3>2, <3>3
  <2>4. /\ m > 0 => Resolvable(Steps[1].refs[1])
        /\ \A j \in 1 .. m : OverlayKey(Steps[j].op) # None =>
                               Resolvable(Steps[j].params[OverlayKey(Steps[j].op)])
    BY <2>3 DEF ChainIInv, InputsStay
  <2>5. ChainResult(n)' = ChainResult(n)
    BY <2>1, <2>3, <2>4, ResultsStay
  <2> QED BY <2>5 DEF ChainIInv, OutputsAreRight
<1> QED BY <1>2, <1>3, <1>4 DEF ChainIInv

LEMMA StepChainIInv == NoneIsApart /\ IInv /\ ChainIInv /\ [Next]_vars => ChainIInv'
<1> SUFFICES ASSUME NoneIsApart, IInv, ChainIInv, [Next]_vars PROVE ChainIInv'
  OBVIOUS
<1>0. /\ stage = "running" /\ outputs = <<>> => current = None
      /\ stage # "idle" => verdict # "ok"
      /\ None # "ok"
  BY VerdictAssumption DEF ChainIInv, CurrentIsLast, OkIsWhole
<1>1. ASSUME NEW r \in Requests, Propose(r) PROVE ChainIInv'
  <2>1. /\ stage' = "proposed" /\ outputs' = <<>> /\ current' = None /\ verdict' = None
        /\ request' \in Requests
    BY <1>1 DEF Propose
  <2> QED BY <1>0, <2>1 DEF ChainIInv, OutputsOfSteps, FilesOfSteps, InputsStay, CurrentIsLast,
                            OutputsAreRight, OkIsWhole, ChainCall, ValuesOf
<1>2. ASSUME NEW l \in LayerIds, ChangeProject(l) PROVE ChainIInv'
  <2>1. /\ stage = "proposed" /\ stage' = stage /\ outputs' = outputs /\ current' = current
        /\ verdict' = verdict /\ calls' = calls /\ request' = request
    BY <1>2 DEF ChangeProject
  <2>2. outputs = <<>>
    BY <2>1 DEF IInv, WaitingIsClean
  <2> QED BY <2>1, <2>2 DEF ChainIInv, OutputsOfSteps, FilesOfSteps, InputsStay, CurrentIsLast,
                            OutputsAreRight, OkIsWhole, ChainCall, ValuesOf
<1>3. CASE RaiseOut
  BY <1>3, LeavesChainIInv DEF RaiseOut, Finish
<1>4. CASE RefuseChain
  BY <1>4, LeavesChainIInv DEF RefuseChain, Finish
<1>5. CASE BeginChain
  <2>1. /\ stage = "proposed" /\ stage' = "running" /\ current' = current /\ verdict' = verdict
        /\ outputs' = outputs /\ disk' = disk /\ calls' = calls /\ request' = request
    BY <1>5 DEF BeginChain
  <2>2. current = None
    BY <2>1 DEF ChainIInv, CurrentIsLast
  <2> QED BY <1>0, <2>1, <2>2, LeavesChainIInv
<1>6. CASE RunStep
  BY <1>6, RunStepChainIInv
<1>7. CASE StepFails
  <2>1. CurrentIsLast'
    BY <1>7 DEF StepFails, Finish, CurrentIsLast
  <2> QED BY <1>7, <2>1, KeepsChainIInv DEF StepFails, Finish
<1>8. CASE EndChain
  <2>1. CurrentIsLast'
    BY <1>8 DEF EndChain, Finish, CurrentIsLast
  <2>2. ChainCall /\ outputs # <<>> => Len(outputs) = Len(Steps)
    <3>1. Index > Len(Steps)
      BY <1>8 DEF EndChain
    <3>2. Len(outputs) \in Nat
      BY DEF ChainIInv, OutputsOfSteps
    <3> QED BY <3>1, <3>2 DEF ChainIInv, OutputsOfSteps, Index
  <2> QED BY <1>8, <2>1, <2>2, KeepsChainIInv DEF EndChain, Finish
<1>9. CASE RefuseGis
  BY <1>9, LeavesChainIInv DEF RefuseGis, Finish
<1>10. CASE RunGis
  <2>1. CASE outputs' = outputs
    BY <1>10, <2>1, LeavesChainIInv DEF RunGis, Finish
  <2>2. CASE outputs' = <<[ref |-> Repr, content |-> <<request.tool>> \o request.layers]>>
    <3>1. PICK e : outputs' = <<e>>
      BY <2>2
    <3>2. /\ request.tool # "chain" /\ stage = "proposed" /\ stage' = "idle"
          /\ current' = None /\ calls' = calls /\ request' = request
      BY <1>10 DEF RunGis, Finish
    <3>3. outputs' \in Seq(ValuesOf(outputs'))
      BY <3>1 DEF ValuesOf
    <3>4. calls > 0 => request \in Requests
      BY DEF ChainIInv, OutputsOfSteps
    <3> QED BY <3>2, <3>3, <3>4 DEF ChainIInv, OutputsOfSteps, FilesOfSteps, InputsStay,
                                    CurrentIsLast, OutputsAreRight, OkIsWhole, ChainCall
  <2> QED BY <1>10, <2>1, <2>2 DEF RunGis
<1>11. CASE UNCHANGED vars
  <2>1. /\ project' = project /\ disk' = disk /\ calls' = calls /\ request' = request
        /\ stage' = stage /\ current' = current /\ outputs' = outputs /\ verdict' = verdict
    BY <1>11 DEF vars
  <2>2. TargetsDiffer' = TargetsDiffer
    BY <2>1 DEF TargetsDiffer, Steps
  <2>3. CurrentIsLast'
    BY <2>1, <2>2 DEF ChainIInv, CurrentIsLast
  <2> QED BY <1>0, <2>1, <2>3, KeepsChainIInv DEF ChainIInv, OkIsWhole
<1> QED BY <1>1, <1>2, <1>3, <1>4, <1>5, <1>6, <1>7, <1>8, <1>9, <1>10, <1>11 DEF Next

\* What a chain reports is what its steps make, one after the other, of the project as
\* it was when the chain ran, its files still hold it, and "ok" means every step
\* (run_chain, transform_qgis.py:109-179, transform_tools.py:83-125).
THEOREM ChainsMakeTheirResults == NoneIsApart /\ Spec => []ResultIsTheChain
<1> SUFFICES ASSUME NoneIsApart PROVE Spec => []ResultIsTheChain
  OBVIOUS
<1>1. Init => ChainIInv
  BY InitChainIInv
<1>2. IInv /\ ChainIInv /\ [Next]_vars => ChainIInv'
  BY StepChainIInv
<1>3. IInv /\ ChainIInv => ResultIsTheChain
  BY DEF IInv, WaitingIsClean, ChainIInv, OutputsAreRight, OkIsWhole, ChainCall, ResultIsTheChain
<1> QED BY Invariance, <1>1, <1>2, <1>3, PTL DEF Spec

===============================================================================
