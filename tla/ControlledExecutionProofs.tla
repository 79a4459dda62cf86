----------------------- MODULE ControlledExecutionProofs -----------------------
(***************************************************************************)
(* Theorems about ControlledExecution, for any number of invocations,      *)
(* tools, inputs and contexts and any policies.                            *)
(***************************************************************************)
EXTENDS ControlledExecution, TLAPS

\* Where an invocation stands, label by label.
BeforeIntent == {"resolve", "policy", "handler", "input", "confirm", "intent"}
PastPolicy == {"handler", "input", "confirm", "intent", "invoke", "running",
               "terminal", "interrupted"}
PastHandlerCheck == PastPolicy \ {"handler"}
PastInputCheck == PastHandlerCheck \ {"input"}
PastConfirmation == PastInputCheck \ {"confirm"}
InOrPastHandler == {"running", "terminal", "interrupted"}
Over == {"returned", "escaped"}

IntentTrail(i) == <<Record("started", tool[i].version, "allow")>>

\* The trail and the effects an invocation has at each label.
ProgressInv(i) ==
  /\ pc[i] = "idle" => call[i] = None
  /\ pc[i] # "idle" => call[i] \in Call
  /\ pc[i] \in {"idle"} \cup BeforeIntent => trail[i] = <<>> /\ effects[i] = 0
  /\ pc[i] = "invoke" => trail[i] = IntentTrail(i) /\ effects[i] = 0
  /\ pc[i] \in InOrPastHandler => trail[i] = IntentTrail(i) /\ effects[i] = 1
  /\ pc[i] # "returned" => outcome[i] = None
  /\ pc[i] = "returned" => outcome[i] # None

\* What the checks passed so far have established.
AuthorityInv(i) ==
  /\ pc[i] \in PastPolicy \cup {"policy"} =>
       tool[i] \in Specs /\ tool[i].name = call[i].name
  /\ pc[i] \in PastPolicy => tool[i].risk \in AllowedRisks
  /\ pc[i] \in PastHandlerCheck => tool[i].handler
  /\ pc[i] \in PastInputCheck => call[i].input \in tool[i].accepts
  /\ pc[i] \in PastConfirmation =>
       (tool[i].risk \in ConfirmRisks =>
          call[i].confirmation = ArtifactFor(tool[i], call[i].input, call[i].context))
  /\ call[i] # None => call[i].confirmation \in artifacts \cup {None}
  /\ effects[i] = 1 => [tool |-> tool[i], call |-> call[i]] \in Licences

\* What a call leaves behind.
ClosingInv(i) ==
  /\ pc[i] \in Over => (HasRecord(i, "started") <=> effects[i] = 1)
  /\ pc[i] = "returned" =>
       /\ outcome[i] = "success" <=> HasRecord(i, "succeeded")
       /\ outcome[i] = "success" => effects[i] = 1
       /\ outcome[i] \in {"denied", "no_handler", "confirmation_required", "blocked"} =>
            effects[i] = 0

\* The inductive invariant.
IInv ==
  /\ TypeOK
  /\ \A i \in Invocations : ProgressInv(i) /\ AuthorityInv(i) /\ ClosingInv(i)

-------------------------------------------------------------------------------
(* Lemmas about trails and the steps' shared parts                          *)

\* An empty trail records nothing.
LEMMA NothingRecorded == \A event : ~Recorded(<<>>, event)
  BY DEF Recorded

\* Appending a record adds its event and loses none.
LEMMA RecordAppended ==
  ASSUME NEW records \in Seq(AuditRecord), NEW r \in AuditRecord, NEW event
  PROVE  Recorded(Append(records, r), event) <=>
           Recorded(records, event) \/ r.event = event
<1>1. /\ Len(Append(records, r)) = Len(records) + 1
      /\ \A k \in 1..Len(records) : Append(records, r)[k] = records[k]
      /\ Append(records, r)[Len(records) + 1] = r
  OBVIOUS
<1>2. DOMAIN records = 1..Len(records) /\ Len(records) \in Nat
  OBVIOUS
<1>3. DOMAIN Append(records, r) = 1..(Len(records) + 1)
  BY <1>1, <1>2
<1>4. QED
  BY <1>1, <1>2, <1>3 DEF Recorded

\* What a registered tool is.
LEMMA SpecFields ==
  ASSUME NEW s \in Specs
  PROVE  /\ s # None
         /\ s \in ToolSpec
         /\ s.name \in Names /\ s.version \in Versions
         /\ \A input \in Inputs, context \in Contexts :
              ArtifactFor(s, input, context) \in Artifact
  BY SpecsAssumption, NoneAssumption DEF ToolSpec, Artifact, ArtifactFor

\* Every record execute() writes is an AuditRecord with the event asked for.
LEMMA RecordFields ==
  ASSUME NEW event \in Events, NEW version \in Versions \cup {None},
         NEW permission \in {"allow", "deny"}
  PROVE  /\ Record(event, version, permission) \in AuditRecord
         /\ Record(event, version, permission).event = event
  BY DEF Record, AuditRecord

-------------------------------------------------------------------------------
(* A step of invocation i leaves the others as they are                     *)

Others(i) == \A j \in Invocations \ {i} :
  /\ pc'[j] = pc[j] /\ call'[j] = call[j] /\ tool'[j] = tool[j]
  /\ effects'[j] = effects[j] /\ trail'[j] = trail[j] /\ outcome'[j] = outcome[j]

\* It is enough to look at the invocation that moved.
LEMMA FrameStep ==
  ASSUME IInv, NEW i \in Invocations, Others(i), TypeOK', artifacts' = artifacts,
         ProgressInv(i)', AuthorityInv(i)', ClosingInv(i)'
  PROVE  IInv'
<1> SUFFICES ASSUME NEW j \in Invocations \ {i}
             PROVE  ProgressInv(j)' /\ AuthorityInv(j)' /\ ClosingInv(j)'
  BY DEF IInv
<1>1. ProgressInv(j) /\ AuthorityInv(j) /\ ClosingInv(j)
  BY DEF IInv
<1>2. /\ pc'[j] = pc[j] /\ call'[j] = call[j] /\ tool'[j] = tool[j]
      /\ effects'[j] = effects[j] /\ trail'[j] = trail[j] /\ outcome'[j] = outcome[j]
  BY DEF Others
<1>3. ProgressInv(j)'
  BY <1>1, <1>2 DEF ProgressInv, IntentTrail
<1>4. AuthorityInv(j)'
  BY <1>1, <1>2 DEF AuthorityInv
<1>5. ClosingInv(j)'
  BY <1>1, <1>2 DEF ClosingInv, HasRecord
<1>6. QED
  BY <1>3, <1>4, <1>5

\* Every way of failing: a record that is neither an intent nor a success may
\* be written, and the call is over without success.
LEMMA FailureStep ==
  ASSUME IInv, NEW i \in Invocations,
         NEW r \in AuditRecord, r.event \notin {"started", "succeeded"},
         NEW o \in Outcomes \ {"success"},
         effects[i] = 0 \/ o \in {"unknown_tool", "failed"},
         pc[i] \in BeforeIntent \cup {"running"},
         Audit(i, r),
         Return(i, o) \/ (Goto(i, "escaped") /\ UNCHANGED outcome),
         tool' \in [Invocations -> Specs \cup {None}],
         \A j \in Invocations \ {i} : tool'[j] = tool[j],
         pc[i] # "resolve" => tool' = tool,
         UNCHANGED <<registry, artifacts, call, effects>>
  PROVE  IInv'
<1>1. TypeOK /\ ProgressInv(i) /\ AuthorityInv(i) /\ ClosingInv(i)
  BY DEF IInv
<1>2. r.event \in Events /\ trail[i] \in Seq(AuditRecord)
  BY <1>1 DEF TypeOK, AuditRecord
<1>3. trail'[i] \in {trail[i], Append(trail[i], r)}
  BY <1>1 DEF TypeOK, Audit
<1>4. /\ pc'[i] \in Over
      /\ pc'[i] = "returned" => outcome'[i] = o
      /\ pc'[i] = "escaped" => outcome'[i] = None
      /\ pc[i] # "idle" /\ outcome[i] = None
  BY <1>1 DEF TypeOK, Return, Goto, Over, ProgressInv, BeforeIntent
<1>5. TypeOK'
  <2>1. trail' \in [Invocations -> Seq(AuditRecord)]
    <3>1. Append(trail[i], r) \in Seq(AuditRecord)
      BY <1>2
    <3>2. QED
      BY <1>1, <3>1 DEF TypeOK, Audit
  <2>2. pc' \in [Invocations -> Labels] /\ outcome' \in [Invocations -> Outcomes \cup {None}]
    <3>1. "returned" \in Labels /\ "escaped" \in Labels
      BY DEF Labels
    <3>2. CASE Return(i, o)
      BY <1>1, <3>1, <3>2 DEF TypeOK, Return
    <3>3. CASE Goto(i, "escaped") /\ UNCHANGED outcome
      BY <1>1, <3>1, <3>3 DEF TypeOK, Goto
    <3>4. QED
      BY <3>2, <3>3
  <2>3. QED
    BY <1>1, <2>1, <2>2 DEF TypeOK
<1>6. Others(i)
  BY <1>1 DEF Others, TypeOK, Audit, Return, Goto
<1>7. /\ HasRecord(i, "started") <=> effects[i] = 1
      /\ ~HasRecord(i, "succeeded")
  <2>1. CASE pc[i] \in BeforeIntent
    <3>1. trail[i] = <<>> /\ effects[i] = 0
      BY <1>1, <2>1 DEF ProgressInv
    <3>2. QED
      BY <3>1, NothingRecorded DEF HasRecord
  <2>2. CASE pc[i] = "running"
    <3>1. trail[i] = IntentTrail(i) /\ effects[i] = 1
      BY <1>1, <2>2 DEF ProgressInv, InOrPastHandler
    <3>2. QED
      BY <3>1 DEF HasRecord, Recorded, IntentTrail, Record
  <2>3. QED
    BY <2>1, <2>2
<1>8. /\ HasRecord(i, "started")' <=> effects'[i] = 1
      /\ ~HasRecord(i, "succeeded")'
  <2>1. \A event \in {"started", "succeeded"} :
          Recorded(Append(trail[i], r), event) <=> Recorded(trail[i], event)
    BY <1>2, RecordAppended
  <2>2. \A event \in {"started", "succeeded"} :
          Recorded(trail'[i], event) <=> Recorded(trail[i], event)
    BY <1>3, <2>1
  <2>3. QED
    BY <1>7, <2>2 DEF HasRecord
<1>9. ProgressInv(i)'
  BY <1>1, <1>4, NoneAssumption DEF ProgressInv, Over, BeforeIntent, InOrPastHandler, Outcomes
<1>10. AuthorityInv(i)'
  <2>1. effects[i] = 1 => tool' = tool
    BY <1>1 DEF ProgressInv, BeforeIntent
  <2>2. QED
    BY <1>1, <1>4, <2>1 DEF AuthorityInv, Over, PastPolicy, PastHandlerCheck,
       PastInputCheck, PastConfirmation
<1>11. ClosingInv(i)'
  BY <1>4, <1>8 DEF ClosingInv, Over
<1>12. QED
  BY <1>5, <1>6, <1>9, <1>10, <1>11, FrameStep

-------------------------------------------------------------------------------
(* The steps that do not end a call                                         *)

\* A step of i within the call: it moves on, possibly with a new trail, tool,
\* effect or outcome of its own, and the registry stays.
LEMMA QuietStep ==
  ASSUME IInv, NEW i \in Invocations,
         NEW l \in Labels \ {"idle", "returned", "escaped"}, Goto(i, l),
         pc[i] # "idle", pc[i] # "returned", pc[i] # "escaped",
         UNCHANGED <<registry, artifacts, call, tool, effects, trail, outcome>>,
         pc[i] \in BeforeIntent <=> l \in BeforeIntent,
         pc[i] = "invoke" <=> l = "invoke",
         pc[i] \in InOrPastHandler <=> l \in InOrPastHandler,
         AuthorityInv(i)'
  PROVE  IInv'
<1>1. TypeOK /\ ProgressInv(i) /\ ClosingInv(i)
  BY DEF IInv
<1>2. pc' = [pc EXCEPT ![i] = l] /\ pc'[i] = l
  BY <1>1 DEF Goto, TypeOK
<1>3. TypeOK'
  BY <1>1, <1>2 DEF TypeOK
<1>4. Others(i)
  BY <1>1, <1>2 DEF Others, TypeOK
<1>5. ProgressInv(i)'
  BY <1>1, <1>2 DEF ProgressInv, IntentTrail
<1>6. ClosingInv(i)'
  BY <1>2 DEF ClosingInv, Over
<1>7. QED
  BY <1>3, <1>4, <1>5, <1>6, FrameStep

\* Step 1: a resolved tool is one of Specs and bears the name asked for.
LEMMA ResolveStep ==
  ASSUME IInv, NEW i \in Invocations, Resolve(i)
  PROVE  IInv'
<1> USE DEF Resolve
<1>1. TypeOK /\ ProgressInv(i) /\ AuthorityInv(i)
  BY DEF IInv
<1>2. call[i] \in Call /\ call[i].name \in Names
  BY <1>1 DEF ProgressInv, Call
<1>3. tool' \in [Invocations -> Specs \cup {None}]
  BY <1>1, <1>2 DEF TypeOK
<1>4. \A j \in Invocations \ {i} : tool'[j] = tool[j]
  BY <1>1 DEF TypeOK
<1>5. pc[i] \in BeforeIntent /\ effects[i] = 0 /\ trail[i] = <<>> /\ outcome[i] = None
  BY <1>1 DEF ProgressInv, BeforeIntent
<1>6. CASE registry[call[i].name] = None
  <2>1. Record("unknown_tool", None, "deny") \in AuditRecord
        /\ Record("unknown_tool", None, "deny").event = "unknown_tool"
    BY RecordFields DEF Events
  <2>2. "unknown_tool" \in Outcomes \ {"success"}
    BY DEF Outcomes
  <2>3. QED
    BY <1>3, <1>4, <1>5, <1>6, <2>1, <2>2, FailureStep DEF UnknownTool
<1>7. CASE registry[call[i].name] # None
  <2>1. /\ pc' = [pc EXCEPT ![i] = "policy"] /\ pc'[i] = "policy"
        /\ tool'[i] = registry[call[i].name]
        /\ tool'[i] \in Specs /\ tool'[i].name = call[i].name
    BY <1>1, <1>2, <1>7 DEF Goto, TypeOK
  <2>2. TypeOK'
    BY <1>1, <1>3, <1>7, <2>1 DEF TypeOK, Labels
  <2>3. Others(i)
    BY <1>1, <1>4, <1>7, <2>1 DEF Others, TypeOK
  <2>4. ProgressInv(i)'
    BY <1>2, <1>5, <1>7, <2>1 DEF ProgressInv, BeforeIntent, InOrPastHandler
  <2>5. AuthorityInv(i)'
    BY <1>1, <1>5, <1>7, <2>1 DEF AuthorityInv, PastPolicy, PastHandlerCheck,
       PastInputCheck, PastConfirmation
  <2>6. ClosingInv(i)'
    BY <2>1 DEF ClosingInv, Over
  <2>7. QED
    BY <1>7, <2>2, <2>3, <2>4, <2>5, <2>6, FrameStep
<1>8. QED
  BY <1>6, <1>7

-------------------------------------------------------------------------------
(* The checks before the handler, and the ways out of them                  *)

Checking == {"policy", "handler", "input", "confirm"}

\* At the checks and in the handler the local `tool` is a registered spec.
LEMMA ToolKnown ==
  ASSUME IInv, NEW i \in Invocations, pc[i] \in PastPolicy \cup {"policy"}
  PROVE  tool[i] \in Specs /\ tool[i].version \in Versions
  BY SpecFields DEF IInv, AuthorityInv

\* The `except Exception` clause ends the call as a failure.
LEMMA FailedStep ==
  ASSUME IInv, NEW i \in Invocations, pc[i] \in Checking \cup {"running"},
         NEW permission \in {"allow", "deny"}, NEW message,
         Failed(i, permission, message),
         UNCHANGED <<registry, artifacts, call, tool, effects>>
  PROVE  IInv'
<1> DEFINE r == Record("failed", tool[i].version, permission)
<1>1. tool[i].version \in Versions
  BY ToolKnown DEF Checking, PastPolicy
<1>2. r \in AuditRecord /\ r.event = "failed"
  BY <1>1, RecordFields DEF Events
<1>3. "failed" \in Outcomes \ {"success"}
  BY DEF Outcomes
<1>4. Return(i, "failed") \/ (Goto(i, "escaped") /\ UNCHANGED outcome)
  BY DEF Failed
<1>5. pc[i] \in BeforeIntent \cup {"running"}
  BY DEF Checking, BeforeIntent
<1>6. Audit(i, r)
  BY DEF Failed
<1>7. tool' \in [Invocations -> Specs \cup {None}]
  BY DEF IInv, TypeOK
<1>8. QED
  BY <1>2, <1>3, <1>4, <1>5, <1>6, <1>7, FailureStep

\* An exception of any kind ends the call as a failure.
LEMMA ExceptionStep ==
  ASSUME IInv, NEW i \in Invocations, pc[i] \in Checking \cup {"running"},
         NEW kind \in Exceptions, NEW permission \in {"allow", "deny"},
         Exception(i, kind, permission),
         UNCHANGED <<registry, artifacts, call, tool, effects>>
  PROVE  IInv'
<1>1. CASE kind = "KeyError"
  <2> DEFINE r == Record("unknown_tool", None, "deny")
  <2>1. r \in AuditRecord /\ r.event = "unknown_tool"
    BY RecordFields DEF Events
  <2>2. "unknown_tool" \in Outcomes \ {"success"}
    BY DEF Outcomes
  <2>3. Audit(i, r) /\ Return(i, "unknown_tool")
    BY <1>1 DEF Exception, UnknownTool
  <2>4. pc[i] \in BeforeIntent \cup {"running"}
    BY DEF Checking, BeforeIntent
  <2>5. tool' \in [Invocations -> Specs \cup {None}]
    BY DEF IInv, TypeOK
  <2>6. QED
    BY <2>1, <2>2, <2>3, <2>4, <2>5, FailureStep
<1>2. CASE kind # "KeyError"
  <2>1. \E message : Failed(i, permission, message)
    BY <1>2 DEF Exception, Exceptions
  <2>2. QED
    BY <2>1, FailedStep
<1>3. QED
  BY <1>1, <1>2

\* A refusal before the intent record: denied, no handler, not confirmed.
LEMMA RefusalStep ==
  ASSUME IInv, NEW i \in Invocations, pc[i] \in Checking,
         NEW event \in Events \ {"started", "succeeded"},
         NEW permission \in {"allow", "deny"},
         NEW o \in Outcomes \ {"success"},
         Audit(i, Record(event, tool[i].version, permission)), Return(i, o),
         UNCHANGED <<registry, artifacts, call, tool, effects>>
  PROVE  IInv'
<1> DEFINE r == Record(event, tool[i].version, permission)
<1>1. tool[i].version \in Versions
  BY ToolKnown DEF Checking, PastPolicy
<1>2. r \in AuditRecord /\ r.event = event
  BY <1>1, RecordFields
<1>3. pc[i] \in BeforeIntent
  BY DEF Checking, BeforeIntent
<1>4. effects[i] = 0
  BY <1>3 DEF IInv, ProgressInv
<1>5. tool' \in [Invocations -> Specs \cup {None}]
  BY DEF IInv, TypeOK
<1>6. QED
  BY <1>2, <1>3, <1>4, <1>5, FailureStep

-------------------------------------------------------------------------------
(* The actions of execute()                                                 *)

\* Step 3: past the policy the risk is allowed.
LEMMA EvaluatePolicyStep ==
  ASSUME IInv, NEW i \in Invocations, EvaluatePolicy(i)
  PROVE  IInv'
<1> USE DEF EvaluatePolicy
<1>1. pc[i] \in Checking
  BY DEF Checking
<1>2. CASE Permitted(tool[i])
  <2>1. Goto(i, "handler") /\ pc' = [pc EXCEPT ![i] = "handler"]
    BY <1>2 DEF Goto
  <2>2. pc'[i] = "handler" /\ tool'[i] = tool[i]
    BY <2>1 DEF IInv, TypeOK
  <2>3. AuthorityInv(i)'
    BY <1>2, <2>2 DEF IInv, AuthorityInv, Permitted, PastPolicy, PastHandlerCheck,
       PastInputCheck, PastConfirmation
  <2>4. QED
    BY <1>2, <2>1, <2>3, QuietStep DEF Labels, BeforeIntent, InOrPastHandler
<1>3. CASE ~Permitted(tool[i])
  BY <1>1, <1>3, RefusalStep DEF Events, Outcomes
<1>4. QED
  BY <1>2, <1>3

\* Step 3, when a policy raises: the call is over without an effect.
LEMMA PolicyRaisesStep ==
  ASSUME IInv, NEW i \in Invocations, PolicyRaises(i)
  PROVE  IInv'
  BY ExceptionStep DEF PolicyRaises, Checking

\* Step 4: past it the tool has a handler.
LEMMA CheckHandlerStep ==
  ASSUME IInv, NEW i \in Invocations, CheckHandler(i)
  PROVE  IInv'
<1> USE DEF CheckHandler
<1>1. pc[i] \in Checking
  BY DEF Checking
<1>2. CASE tool[i].handler
  <2>1. Goto(i, "input") /\ pc' = [pc EXCEPT ![i] = "input"]
    BY <1>2 DEF Goto
  <2>2. pc'[i] = "input" /\ tool'[i] = tool[i]
    BY <2>1 DEF IInv, TypeOK
  <2>3. AuthorityInv(i)'
    BY <1>2, <2>2 DEF IInv, AuthorityInv, PastPolicy, PastHandlerCheck,
       PastInputCheck, PastConfirmation
  <2>4. QED
    BY <1>2, <2>1, <2>3, QuietStep DEF Labels, BeforeIntent, InOrPastHandler
<1>3. CASE ~tool[i].handler
  BY <1>1, <1>3, RefusalStep DEF Events, Outcomes
<1>4. QED
  BY <1>2, <1>3

\* Step 5: past it the schema accepts the input.
LEMMA ValidateInputStep ==
  ASSUME IInv, NEW i \in Invocations, ValidateInput(i)
  PROVE  IInv'
<1> USE DEF ValidateInput
<1>1. CASE call[i].input \in tool[i].accepts
  <2>1. Goto(i, "confirm") /\ pc' = [pc EXCEPT ![i] = "confirm"]
    BY <1>1 DEF Goto
  <2>2. pc'[i] = "confirm" /\ tool'[i] = tool[i] /\ call'[i] = call[i]
    BY <2>1 DEF IInv, TypeOK
  <2>3. AuthorityInv(i)'
    BY <1>1, <2>2 DEF IInv, AuthorityInv, PastPolicy, PastHandlerCheck,
       PastInputCheck, PastConfirmation
  <2>4. QED
    BY <1>1, <2>1, <2>3, QuietStep DEF Labels, BeforeIntent, InOrPastHandler
<1>2. CASE call[i].input \notin tool[i].accepts
  BY <1>2, FailedStep DEF Checking
<1>3. QED
  BY <1>1, <1>2

\* Steps 6 and 7: past them a tool that asks for it is confirmed.
LEMMA CheckConfirmationStep ==
  ASSUME IInv, NEW i \in Invocations, CheckConfirmation(i)
  PROVE  IInv'
<1> USE DEF CheckConfirmation
<1>1. pc[i] \in Checking
  BY DEF Checking
<1> DEFINE Missing == NeedsConfirmation(tool[i]) /\ ~ValidConfirmation(call[i], tool[i])
<1>2. CASE ~Missing
  <2>1. Goto(i, "intent") /\ pc' = [pc EXCEPT ![i] = "intent"]
    BY <1>2 DEF Goto
  <2>2. pc'[i] = "intent" /\ tool'[i] = tool[i] /\ call'[i] = call[i]
    BY <1>2, <2>1 DEF IInv, TypeOK
  <2>3. AuthorityInv(i)'
    BY <1>2, <2>2 DEF IInv, AuthorityInv, NeedsConfirmation, ValidConfirmation,
       PastPolicy, PastHandlerCheck, PastInputCheck, PastConfirmation
  <2>4. QED
    BY <1>2, <2>1, <2>3, QuietStep DEF Labels, BeforeIntent, InOrPastHandler
<1>3. CASE Missing
  BY <1>1, <1>3, RefusalStep DEF Events, Outcomes
<1>4. QED
  BY <1>2, <1>3

\* Past the confirmation check everything a licence asks for is known.
LEMMA LicensedPastConfirmation ==
  ASSUME IInv, NEW i \in Invocations, pc[i] \in PastConfirmation
  PROVE  [tool |-> tool[i], call |-> call[i]] \in Licences
  BY DEF IInv, AuthorityInv, ProgressInv, PastConfirmation, PastInputCheck,
     PastHandlerCheck, PastPolicy, Licences

\* Step 8: the intent record is written, or the call is over.
LEMMA AuditIntentStep ==
  ASSUME IInv, NEW i \in Invocations, AuditIntent(i)
  PROVE  IInv'
<1> DEFINE r == Record("started", tool[i].version, "allow")
<1>1. TypeOK /\ ProgressInv(i) /\ AuthorityInv(i) /\ pc[i] = "intent"
  BY DEF IInv, AuditIntent
<1>2. trail[i] = <<>> /\ effects[i] = 0 /\ outcome[i] = None
  BY <1>1 DEF ProgressInv, BeforeIntent
<1>3. r \in AuditRecord
  BY <1>1, ToolKnown, RecordFields DEF PastPolicy, Events
<1>4. UNCHANGED <<registry, artifacts, call, tool, effects>>
  BY DEF AuditIntent
<1>5. CASE trail' = [trail EXCEPT ![i] = Append(@, r)] /\ Goto(i, "invoke") /\ UNCHANGED outcome
  <2>1. /\ trail'[i] = <<r>> /\ pc'[i] = "invoke"
        /\ <<r>> \in Seq(AuditRecord)
    BY <1>1, <1>2, <1>3, <1>5 DEF TypeOK, Goto
  <2>2. trail' \in [Invocations -> Seq(AuditRecord)]
    BY <1>1, <1>2, <1>5, <2>1 DEF TypeOK
  <2>3. TypeOK'
    BY <1>1, <1>4, <1>5, <2>2 DEF TypeOK, Goto, Labels
  <2>4. Others(i)
    BY <1>1, <1>4, <1>5 DEF TypeOK, Goto, Others
  <2>5. ProgressInv(i)'
    BY <1>1, <1>2, <1>4, <1>5, <2>1 DEF ProgressInv, IntentTrail, BeforeIntent,
       InOrPastHandler
  <2>6. AuthorityInv(i)'
    BY <1>1, <1>2, <1>4, <2>1 DEF AuthorityInv, PastPolicy, PastHandlerCheck,
       PastInputCheck, PastConfirmation
  <2>7. ClosingInv(i)'
    BY <2>1 DEF ClosingInv, Over
  <2>8. QED
    BY <1>4, <2>3, <2>4, <2>5, <2>6, <2>7, FrameStep
<1>6. CASE Return(i, "blocked") /\ UNCHANGED trail
  <2>1. pc'[i] = "returned" /\ outcome'[i] = "blocked"
    BY <1>1, <1>6 DEF TypeOK, Return
  <2>2. TypeOK'
    BY <1>1, <1>4, <1>6 DEF TypeOK, Return, Labels, Outcomes
  <2>3. Others(i)
    BY <1>1, <1>4, <1>6 DEF TypeOK, Return, Others
  <2>4. ProgressInv(i)'
    BY <1>1, <1>4, <2>1, NoneAssumption DEF ProgressInv, BeforeIntent, InOrPastHandler,
       Outcomes
  <2>5. AuthorityInv(i)'
    BY <1>1, <1>2, <1>4, <2>1 DEF AuthorityInv, PastPolicy, PastHandlerCheck,
       PastInputCheck, PastConfirmation
  <2>6. ClosingInv(i)'
    BY <1>2, <1>4, <1>6, <2>1, NothingRecorded DEF ClosingInv, HasRecord
  <2>7. QED
    BY <1>4, <2>2, <2>3, <2>4, <2>5, <2>6, FrameStep
<1>7. QED
  BY <1>5, <1>6 DEF AuditIntent

\* Step 9: the handler is entered, by a call the checks have licensed.
LEMMA InvokeHandlerStep ==
  ASSUME IInv, NEW i \in Invocations, InvokeHandler(i)
  PROVE  IInv'
<1>1. TypeOK /\ ProgressInv(i) /\ AuthorityInv(i) /\ pc[i] = "invoke"
  BY DEF IInv, InvokeHandler
<1>2. effects[i] = 0 /\ trail[i] = IntentTrail(i) /\ outcome[i] = None /\ call[i] \in Call
  BY <1>1 DEF ProgressInv
<1>3. /\ pc' = [pc EXCEPT ![i] = "running"]
      /\ effects' = [effects EXCEPT ![i] = @ + 1]
      /\ UNCHANGED <<registry, artifacts, call, tool, trail, outcome>>
  BY DEF InvokeHandler, Goto
<1>4. pc'[i] = "running" /\ effects'[i] = 1
  BY <1>1, <1>2, <1>3 DEF TypeOK
<1>5. [tool |-> tool[i], call |-> call[i]] \in Licences
  BY <1>1, LicensedPastConfirmation DEF PastConfirmation, PastInputCheck,
     PastHandlerCheck, PastPolicy
<1>6. TypeOK'
  BY <1>1, <1>2, <1>3 DEF TypeOK, Labels
<1>7. Others(i)
  BY <1>1, <1>3 DEF TypeOK, Others
<1>8. ProgressInv(i)'
  BY <1>2, <1>3, <1>4 DEF ProgressInv, IntentTrail, BeforeIntent, InOrPastHandler
<1>9. AuthorityInv(i)'
  BY <1>1, <1>3, <1>4, <1>5 DEF AuthorityInv, PastPolicy, PastHandlerCheck,
     PastInputCheck, PastConfirmation
<1>10. ClosingInv(i)'
  BY <1>4 DEF ClosingInv, Over
<1>11. QED
  BY <1>3, <1>6, <1>7, <1>8, <1>9, <1>10, FrameStep

\* The handler ends, one way or another, without an exception.
LEMMA HandlerEndsStep ==
  ASSUME IInv, NEW i \in Invocations, HandlerReturns(i) \/ HandlerInterrupted(i)
  PROVE  IInv'
<1>1. PICK l \in {"terminal", "interrupted"} :
        /\ pc[i] = "running"
        /\ Goto(i, l)
        /\ UNCHANGED <<registry, artifacts, call, tool, effects, trail, outcome>>
  BY DEF HandlerReturns, HandlerInterrupted
<1>2. pc'[i] = l
  BY <1>1 DEF IInv, TypeOK, Goto
<1>3. AuthorityInv(i)'
  BY <1>1, <1>2 DEF IInv, AuthorityInv, PastPolicy, PastHandlerCheck,
     PastInputCheck, PastConfirmation
<1>4. QED
  BY <1>1, <1>3, QuietStep DEF Labels, BeforeIntent, InOrPastHandler

\* Step 9, when the handler raises: the effect stays on record.
LEMMA HandlerRaisesStep ==
  ASSUME IInv, NEW i \in Invocations, HandlerRaises(i)
  PROVE  IInv'
  BY ExceptionStep DEF HandlerRaises

\* Step 13: a success is reported if it was recorded, and only then.
LEMMA AuditTerminalStep ==
  ASSUME IInv, NEW i \in Invocations, AuditTerminal(i)
  PROVE  IInv'
<1> DEFINE r == Record("succeeded", tool[i].version, "allow")
<1>1. TypeOK /\ ProgressInv(i) /\ AuthorityInv(i) /\ pc[i] = "terminal"
  BY DEF IInv, AuditTerminal
<1>2. trail[i] = IntentTrail(i) /\ effects[i] = 1 /\ call[i] \in Call
  BY <1>1 DEF ProgressInv, InOrPastHandler
<1>3. r \in AuditRecord /\ r.event = "succeeded"
  BY <1>1, ToolKnown, RecordFields DEF PastPolicy, Events
<1>4. UNCHANGED <<registry, artifacts, call, tool, effects>>
  BY DEF AuditTerminal
<1>5. trail[i] \in Seq(AuditRecord) /\ Append(trail[i], r) \in Seq(AuditRecord)
  BY <1>1, <1>3 DEF TypeOK
<1>6. Recorded(trail[i], "started") /\ ~Recorded(trail[i], "succeeded")
  BY <1>2 DEF Recorded, IntentTrail, Record
<1>7. \E o \in {"success", "unrecorded"} :
        /\ Return(i, o)
        /\ o = "success" => trail' = [trail EXCEPT ![i] = Append(@, r)]
        /\ o = "unrecorded" => trail' = trail
  BY DEF AuditTerminal
<1>8. PICK o \in {"success", "unrecorded"} :
        /\ Return(i, o)
        /\ o = "success" => trail' = [trail EXCEPT ![i] = Append(@, r)]
        /\ o = "unrecorded" => trail' = trail
  BY <1>7
<1>9. pc'[i] = "returned" /\ outcome'[i] = o
  BY <1>1, <1>8 DEF TypeOK, Return
<1>10. /\ trail'[i] = IF o = "success" THEN Append(trail[i], r) ELSE trail[i]
       /\ trail' \in [Invocations -> Seq(AuditRecord)]
  BY <1>1, <1>5, <1>8 DEF TypeOK
<1>11. TypeOK'
  BY <1>1, <1>4, <1>8, <1>10 DEF TypeOK, Return, Labels, Outcomes
<1>12. Others(i)
  BY <1>1, <1>4, <1>8 DEF TypeOK, Others, Return
<1>13. ProgressInv(i)'
  BY <1>2, <1>4, <1>9, NoneAssumption DEF ProgressInv, BeforeIntent, InOrPastHandler,
     Outcomes
<1>14. AuthorityInv(i)'
  BY <1>1, <1>4, <1>9 DEF AuthorityInv, PastPolicy, PastHandlerCheck,
     PastInputCheck, PastConfirmation
<1>15. /\ Recorded(Append(trail[i], r), "started")
       /\ Recorded(Append(trail[i], r), "succeeded")
  BY <1>3, <1>5, <1>6, RecordAppended
<1>16. ClosingInv(i)'
  <2>1. HasRecord(i, "started")'
    BY <1>6, <1>10, <1>15 DEF HasRecord
  <2>2. HasRecord(i, "succeeded")' <=> o = "success"
    BY <1>6, <1>10, <1>15 DEF HasRecord
  <2>3. QED
    BY <1>2, <1>4, <1>9, <2>1, <2>2 DEF ClosingInv
<1>17. QED
  BY <1>4, <1>11, <1>12, <1>13, <1>14, <1>16, FrameStep

\* The call: its confirmation is an artifact that was made, or None.
LEMMA ExecuteStep ==
  ASSUME IInv, NEW i \in Invocations, Execute(i)
  PROVE  IInv'
<1>1. TypeOK /\ ProgressInv(i) /\ AuthorityInv(i) /\ pc[i] = "idle"
  BY DEF IInv, Execute
<1>2. PICK c \in Call : /\ c.confirmation \in artifacts \cup {None}
                        /\ call' = [call EXCEPT ![i] = c]
  BY <1>1 DEF Execute, TypeOK, Call
<1>3. /\ pc' = [pc EXCEPT ![i] = "resolve"]
      /\ UNCHANGED <<registry, artifacts, tool, effects, trail, outcome>>
  BY DEF Execute, Goto
<1>4. pc'[i] = "resolve" /\ call'[i] = c
  BY <1>1, <1>2, <1>3 DEF TypeOK
<1>5. TypeOK'
  BY <1>1, <1>2, <1>3 DEF TypeOK, Labels
<1>6. Others(i)
  BY <1>1, <1>2, <1>3 DEF TypeOK, Others
<1>7. ProgressInv(i)'
  BY <1>1, <1>3, <1>4 DEF ProgressInv, BeforeIntent, InOrPastHandler
<1>8. AuthorityInv(i)'
  BY <1>1, <1>2, <1>3, <1>4 DEF ProgressInv, AuthorityInv, PastPolicy,
     PastHandlerCheck, PastInputCheck, PastConfirmation
<1>9. ClosingInv(i)'
  BY <1>4 DEF ClosingInv, Over
<1>10. QED
  BY <1>3, <1>5, <1>6, <1>7, <1>8, <1>9, FrameStep

\* The registry changes under the invocations, which hold on to their tool.
LEMMA RegistryStep ==
  ASSUME IInv,
         (\E s \in Specs : Register(s)) \/ (\E n \in Names : Remove(n))
  PROVE  IInv'
<1>1. UNCHANGED <<artifacts, pc, call, tool, effects, trail, outcome>>
  BY DEF Register, Remove
<1>2. /\ registry' \in [Names -> Specs \cup {None}]
      /\ \A n \in Names : registry'[n] # None => registry'[n].name = n
  <2>1. CASE \E s \in Specs : Register(s)
    BY <2>1, SpecFields DEF Register, IInv, TypeOK
  <2>2. CASE \E n \in Names : Remove(n)
    BY <2>2 DEF Remove, IInv, TypeOK
  <2>3. QED
    BY <2>1, <2>2
<1>3. TypeOK'
  BY <1>1, <1>2 DEF IInv, TypeOK
<1>4. QED
  BY <1>1, <1>3 DEF IInv, ProgressInv, IntentTrail, AuthorityInv, ClosingInv, HasRecord

\* A new artifact takes none away.
LEMMA ConfirmStep ==
  ASSUME IInv, NEW n \in Names, NEW input \in Inputs, NEW context \in Contexts,
         Confirm(n, input, context)
  PROVE  IInv'
<1>1. UNCHANGED <<registry, pc, call, tool, effects, trail, outcome>>
  BY DEF Confirm
<1>2. ArtifactFor(registry[n], input, context) \in Artifact
  BY SpecFields DEF Confirm, IInv, TypeOK
<1>3. artifacts \subseteq artifacts' /\ artifacts' \subseteq Artifact
  BY <1>2 DEF Confirm, IInv, TypeOK
<1>4. TypeOK'
  BY <1>1, <1>3 DEF IInv, TypeOK
<1>5. ASSUME NEW i \in Invocations
      PROVE  ProgressInv(i)' /\ AuthorityInv(i)' /\ ClosingInv(i)'
  <2>1. ProgressInv(i)' /\ ClosingInv(i)'
    BY <1>1 DEF IInv, ProgressInv, IntentTrail, ClosingInv, HasRecord
  <2>2. AuthorityInv(i)'
    BY <1>1, <1>3 DEF IInv, AuthorityInv
  <2>3. QED
    BY <2>1, <2>2
<1>6. QED
  BY <1>4, <1>5 DEF IInv

-------------------------------------------------------------------------------
(* The theorems                                                             *)

\* The inductive invariant holds at the start.
LEMMA InitIInv == Init => IInv
<1> SUFFICES ASSUME Init PROVE IInv
  OBVIOUS
<1>1. TypeOK
  BY DEF Init, TypeOK, Labels
<1>2. \A i \in Invocations : ProgressInv(i) /\ AuthorityInv(i) /\ ClosingInv(i)
  BY DEF Init, ProgressInv, AuthorityInv, ClosingInv, BeforeIntent, InOrPastHandler,
     PastPolicy, PastHandlerCheck, PastInputCheck, PastConfirmation, Over
<1>3. QED
  BY <1>1, <1>2 DEF IInv

\* Every step keeps the inductive invariant.
LEMMA NextIInv == IInv /\ [Next]_vars => IInv'
<1> SUFFICES ASSUME IInv, [Next]_vars PROVE IInv'
  OBVIOUS
<1>1. CASE (\E s \in Specs : Register(s)) \/ (\E n \in Names : Remove(n))
  BY <1>1, RegistryStep
<1>2. CASE \E n \in Names, input \in Inputs, context \in Contexts :
             Confirm(n, input, context)
  BY <1>2, ConfirmStep
<1>3. CASE \E i \in Invocations : Execute(i) \/ Step(i)
  BY <1>3, ExecuteStep, ResolveStep, EvaluatePolicyStep, PolicyRaisesStep,
     CheckHandlerStep, ValidateInputStep, CheckConfirmationStep, AuditIntentStep,
     InvokeHandlerStep, HandlerEndsStep, HandlerRaisesStep, AuditTerminalStep DEF Step
<1>4. CASE UNCHANGED vars
  BY <1>4 DEF vars, IInv, TypeOK, ProgressInv, IntentTrail, AuthorityInv,
     ClosingInv, HasRecord
<1>5. QED
  BY <1>1, <1>2, <1>3, <1>4 DEF Next

\* The inductive invariant holds in every behaviour of execute(), the registry
\* and the user.
THEOREM InductiveInvariant == Spec => []IInv
  BY InitIInv, NextIInv, PTL DEF Spec

\* Every variable keeps its type; a handler is entered at most once per call.
THEOREM TypeCorrect == Spec => []TypeOK
<1>1. IInv => TypeOK
  BY DEF IInv
<1>2. QED
  BY <1>1, InductiveInvariant, PTL

\* No handler is entered without permission, valid input and, where its risk
\* asks for it, the confirmation of this very invocation.
THEOREM EffectsAreAuthorised == Spec => []AuthorisedEffect
<1>1. IInv => AuthorisedEffect
  <2> SUFFICES ASSUME IInv, NEW i \in Invocations, effects[i] > 0
               PROVE  /\ [tool |-> tool[i], call |-> call[i]] \in Licences
                      /\ tool[i].risk \in ConfirmRisks => call[i].confirmation \in artifacts
    BY DEF AuthorisedEffect
  <2>1. effects[i] = 1
    BY DEF IInv, TypeOK
  <2>2. [tool |-> tool[i], call |-> call[i]] \in Licences
    BY <2>1 DEF IInv, AuthorityInv
  <2>3. call[i] # None /\ call[i].confirmation \in artifacts \cup {None}
    BY <2>1, <2>2, NoneAssumption DEF IInv, AuthorityInv, Licences
  <2>4. tool[i].risk \in ConfirmRisks => call[i].confirmation \in Artifact
    BY <2>2, SpecFields DEF Licences, Call
  <2>5. QED
    BY <2>2, <2>3, <2>4, NoneAssumption
<1>2. QED
  BY <1>1, InductiveInvariant, PTL

\* A call that is over has its intent on record exactly if its handler ran.
THEOREM IntentsMatchEffects == Spec => []IntentIffEffect
<1>1. IInv => IntentIffEffect
  <2> SUFFICES ASSUME IInv, NEW i \in Invocations,
                      pc[i] \in {"returned", "escaped", "interrupted"}
               PROVE  HasRecord(i, "started") <=> effects[i] = 1
    BY DEF IntentIffEffect
  <2>1. CASE pc[i] = "interrupted"
    <3>1. trail[i] = IntentTrail(i) /\ effects[i] = 1
      BY <2>1 DEF IInv, ProgressInv, InOrPastHandler
    <3>2. QED
      BY <3>1 DEF HasRecord, Recorded, IntentTrail, Record
  <2>2. CASE pc[i] \in Over
    BY <2>2 DEF IInv, ClosingInv
  <2>3. QED
    BY <2>1, <2>2 DEF Over
<1>2. QED
  BY <1>1, InductiveInvariant, PTL

\* The result handed to the caller agrees with the audit trail.
THEOREM OutcomesMatchTrails == Spec => []TrailAgreesWithOutcome
<1>1. IInv => TrailAgreesWithOutcome
  BY DEF IInv, ClosingInv, TrailAgreesWithOutcome
<1>2. QED
  BY <1>1, InductiveInvariant, PTL

-------------------------------------------------------------------------------
(* Steps seen from outside                                                  *)

\* What any step of execute() does to its own invocation and to the others.
LEMMA StepShape ==
  ASSUME IInv, NEW i \in Invocations, Execute(i) \/ Step(i)
  PROVE  /\ pc[i] \notin {"returned", "escaped", "interrupted"}
         /\ InvokeHandler(i) \/ effects' = effects
         /\ pc[i] = "invoke" => InvokeHandler(i)
         /\ pc[i] \notin {"idle", "resolve"} => tool'[i] = tool[i] /\ call'[i] = call[i]
         /\ Others(i)
<1>1. TypeOK
  BY DEF IInv
<1>2. CASE Execute(i)
  BY <1>1, <1>2 DEF TypeOK, Execute, Goto, Others
<1>3. CASE Resolve(i)
  BY <1>1, <1>3 DEF TypeOK, Resolve, Goto, Others, UnknownTool, Audit, Return
<1>4. CASE EvaluatePolicy(i) \/ CheckHandler(i)
  BY <1>1, <1>4 DEF TypeOK, EvaluatePolicy, CheckHandler, Goto, Others, Audit, Return
<1>5. CASE ValidateInput(i)
  BY <1>1, <1>5 DEF TypeOK, ValidateInput, Goto, Others, Failed, Audit, Return
<1>6. CASE CheckConfirmation(i)
  BY <1>1, <1>6 DEF TypeOK, CheckConfirmation, Goto, Others, Audit, Return
<1>7. CASE AuditIntent(i) \/ AuditTerminal(i)
  BY <1>1, <1>7 DEF TypeOK, AuditIntent, AuditTerminal, Goto, Others, Return
<1>8. CASE InvokeHandler(i)
  BY <1>1, <1>8 DEF TypeOK, InvokeHandler, Goto, Others
<1>9. CASE HandlerReturns(i) \/ HandlerInterrupted(i)
  BY <1>1, <1>9 DEF TypeOK, HandlerReturns, HandlerInterrupted, Goto, Others
<1>10. CASE PolicyRaises(i) \/ HandlerRaises(i)
  <2>1. /\ pc[i] \in {"policy", "running"}
        /\ UNCHANGED <<registry, artifacts, call, tool, effects>>
    BY <1>10 DEF PolicyRaises, HandlerRaises
  <2>2. PICK kind \in Exceptions, permission \in {"allow", "deny"} :
          Exception(i, kind, permission)
    BY <1>10 DEF PolicyRaises, HandlerRaises
  <2>3. UnknownTool(i) \/ \E message : Failed(i, permission, message)
    BY <2>2 DEF Exception, Exceptions
  <2>4. CASE UnknownTool(i)
    BY <1>1, <2>1, <2>4 DEF TypeOK, UnknownTool, Audit, Return, Others
  <2>5. CASE \E message : Failed(i, permission, message)
    BY <1>1, <2>1, <2>5 DEF TypeOK, Failed, Audit, Return, Goto, Others
  <2>6. QED
    BY <2>3, <2>4, <2>5
<1>11. QED
  BY <1>2, <1>3, <1>4, <1>5, <1>6, <1>7, <1>8, <1>9, <1>10 DEF Step

\* No handler is entered but once, just after its intent record.
THEOREM EffectsAreOnRecord == Spec => EffectOnRecord
<1> DEFINE A == \A i \in Invocations : effects'[i] # effects[i] =>
                  /\ effects[i] = 0
                  /\ trail[i] = <<Record("started", tool'[i].version, "allow")>>
<1>1. ASSUME IInv, Next PROVE A
  <2> SUFFICES ASSUME NEW j \in Invocations, effects'[j] # effects[j]
               PROVE  /\ effects[j] = 0
                      /\ trail[j] = <<Record("started", tool'[j].version, "allow")>>
    OBVIOUS
  <2>1. PICK i \in Invocations : Execute(i) \/ Step(i)
    BY <1>1 DEF Next, Register, Remove, Confirm
  <2>2. InvokeHandler(i) /\ i = j
    BY <1>1, <2>1, StepShape DEF Others
  <2>3. ProgressInv(i) /\ pc[i] = "invoke" /\ tool' = tool
    BY <1>1, <2>2 DEF IInv, InvokeHandler
  <2>4. QED
    BY <2>2, <2>3 DEF ProgressInv, IntentTrail
<1>2. IInv /\ [Next]_vars => [A]_vars
  BY <1>1
<1>3. QED
  BY <1>2, InductiveInvariant, PTL DEF Spec, EffectOnRecord

-------------------------------------------------------------------------------
(* execute() implements GovernedEffect                                      *)

\* The refinement mapping, one call at a time.
LicenceOf(i) == IF HasRecord(i, "started")
                THEN [tool |-> tool[i], call |-> call[i]] ELSE None

VerdictOf(i) == IF pc[i] = "escaped" \/ outcome[i] \in Outcomes \ {"success"}
                THEN "failure"
                ELSE IF outcome[i] = "success" THEN "success" ELSE "pending"

\* The intent is on record from the moment the handler may be entered.
LicenceLabels(i) == HasRecord(i, "started") <=> pc[i] = "invoke" \/ effects[i] = 1

\* A call that is not over is pending, and only an effect is a success.
VerdictLabels(i) ==
  /\ VerdictOf(i) \in {"pending", "success", "failure"}
  /\ pc[i] \notin {"returned", "escaped"} => VerdictOf(i) = "pending"
  /\ VerdictOf(i) = "success" => effects[i] = 1

\* A call that waits for its handler has everything a licence asks for.
Licensed(i) == pc[i] = "invoke" => [tool |-> tool[i], call |-> call[i]] \in Licences

MappedInv == \A i \in Invocations : LicenceLabels(i) /\ VerdictLabels(i) /\ Licensed(i)

\* The licence of the refinement, label by label.
LEMMA LicenceByLabel ==
  ASSUME IInv, NEW i \in Invocations
  PROVE  LicenceLabels(i)
<1> USE DEF LicenceLabels
<1>1. TypeOK /\ ProgressInv(i) /\ ClosingInv(i)
  BY DEF IInv
<1>2. CASE pc[i] \in {"idle"} \cup BeforeIntent
  BY <1>1, <1>2, NothingRecorded DEF ProgressInv, HasRecord, BeforeIntent
<1>3. CASE pc[i] \in {"invoke"} \cup InOrPastHandler
  <2>1. trail[i] = IntentTrail(i)
    BY <1>1, <1>3 DEF ProgressInv
  <2>2. HasRecord(i, "started")
    BY <2>1 DEF HasRecord, Recorded, IntentTrail, Record
  <2>3. QED
    BY <1>1, <1>3, <2>2 DEF ProgressInv
<1>4. CASE pc[i] \in Over
  BY <1>1, <1>4 DEF ClosingInv, Over
<1>5. QED
  BY <1>1, <1>2, <1>3, <1>4 DEF TypeOK, Labels, BeforeIntent, InOrPastHandler, Over

\* The verdict of the refinement, label by label.
LEMMA VerdictByLabel ==
  ASSUME IInv, NEW i \in Invocations
  PROVE  VerdictLabels(i)
<1>1. TypeOK /\ ProgressInv(i) /\ ClosingInv(i)
  BY DEF IInv
<1>2. QED
  BY <1>1, NoneAssumption DEF TypeOK, ProgressInv, ClosingInv, VerdictLabels,
     VerdictOf, Outcomes

\* The mapped view of the state is as good as the inductive invariant.
LEMMA IInvMapped == IInv => MappedInv
<1> SUFFICES ASSUME IInv, NEW i \in Invocations
             PROVE  LicenceLabels(i) /\ VerdictLabels(i) /\ Licensed(i)
  BY DEF MappedInv
<1>1. Licensed(i)
  BY LicensedPastConfirmation DEF Licensed, PastConfirmation, PastInputCheck,
     PastHandlerCheck, PastPolicy
<1>2. QED
  BY <1>1, LicenceByLabel, VerdictByLabel

\* A step of an invocation is a step of GovernedEffect or a stutter there.
LEMMA StepImplements ==
  ASSUME IInv, IInv', MappedInv, MappedInv',
         NEW i \in Invocations, Execute(i) \/ Step(i)
  PROVE  [Governed!AbsNext]_(Governed!absVars)
<1> DEFINE lic == [j \in Invocations |-> LicenceOf(j)]
           ver == [j \in Invocations |-> VerdictOf(j)]
<1>1. /\ pc[i] \notin {"returned", "escaped", "interrupted"}
      /\ InvokeHandler(i) \/ effects' = effects
      /\ pc[i] = "invoke" => InvokeHandler(i)
      /\ pc[i] \notin {"idle", "resolve"} => tool'[i] = tool[i] /\ call'[i] = call[i]
      /\ Others(i)
  BY StepShape
<1>2. /\ \A j \in Invocations \ {i} : LicenceOf(j)' = LicenceOf(j) /\ VerdictOf(j)' = VerdictOf(j)
      /\ effects' \in [Invocations -> {0, 1}] /\ effects \in [Invocations -> {0, 1}]
  BY <1>1 DEF Others, LicenceOf, VerdictOf, HasRecord, IInv, TypeOK
<1>3. /\ VerdictOf(i) = "pending"
      /\ VerdictOf(i)' \in {"pending", "success", "failure"}
      /\ VerdictOf(i)' = "success" => effects'[i] = 1
  BY <1>1 DEF MappedInv, VerdictLabels
<1>4. /\ HasRecord(i, "started") <=> pc[i] = "invoke" \/ effects[i] = 1
      /\ HasRecord(i, "started")' <=> pc'[i] = "invoke" \/ effects'[i] = 1
  BY DEF MappedInv, LicenceLabels
<1>5. CASE InvokeHandler(i)
  <2>1. /\ pc[i] = "invoke" /\ pc'[i] = "running" /\ effects[i] = 0 /\ effects'[i] = 1
        /\ effects' = [effects EXCEPT ![i] = 1]
        /\ tool' = tool /\ call' = call
    <3>1. effects[i] = 0
      BY <1>5 DEF InvokeHandler, IInv, ProgressInv
    <3>2. QED
      BY <1>2, <1>5, <3>1 DEF InvokeHandler, Goto, IInv, TypeOK
  <2>2. VerdictOf(i)' = "pending"
    BY <2>1 DEF MappedInv, VerdictLabels
  <2>3. LicenceOf(i)' = LicenceOf(i) /\ LicenceOf(i) # None
    <3>1. [tool |-> tool[i], call |-> call[i]] \in Licences
      BY <2>1 DEF MappedInv, Licensed
    <3>2. QED
      BY <1>4, <2>1, <3>1, NoneAssumption DEF LicenceOf, Licences
  <2>4. lic' = lic /\ ver' = ver
    BY <1>2, <1>3, <2>2, <2>3
  <2>5. Governed!Perform(i)
    BY <1>3, <2>1, <2>3, <2>4 DEF Governed!Perform, LicenceOf, VerdictOf
  <2>6. QED
    BY <2>5 DEF Governed!AbsNext
<1>6. CASE effects' = effects /\ pc[i] # "invoke" /\ effects[i] = 0 /\ pc'[i] = "invoke"
  <2>1. LicenceOf(i) = None /\ VerdictOf(i)' = "pending"
    BY <1>4, <1>6 DEF MappedInv, VerdictLabels, LicenceOf
  <2>2. LicenceOf(i)' \in Licences
    <3>1. ([tool |-> tool[i], call |-> call[i]] \in Licences)'
      BY <1>6 DEF MappedInv, Licensed
    <3>2. QED
      BY <1>4, <1>6, <3>1 DEF LicenceOf
  <2>3. lic' = [lic EXCEPT ![i] = LicenceOf(i)'] /\ ver' = ver
    BY <1>2, <1>3, <2>1
  <2>4. Governed!Grant(i)
    BY <1>3, <1>6, <2>1, <2>2, <2>3 DEF Governed!Grant, LicenceOf, VerdictOf
  <2>5. QED
    BY <2>4 DEF Governed!AbsNext
<1>7. CASE effects' = effects /\ pc[i] # "invoke" /\ ~(effects[i] = 0 /\ pc'[i] = "invoke")
  <2>1. LicenceOf(i)' = LicenceOf(i)
    <3>1. CASE effects[i] = 1
      <4>1. pc[i] \notin {"idle", "resolve"}
        BY <3>1 DEF IInv, ProgressInv, BeforeIntent
      <4>2. QED
        BY <1>1, <1>4, <1>7, <3>1, <4>1 DEF LicenceOf
    <3>2. CASE effects[i] = 0
      BY <1>4, <1>7, <3>2 DEF LicenceOf
    <3>3. QED
      BY <1>2, <3>1, <3>2
  <2>2. lic' = lic /\ ver' = [ver EXCEPT ![i] = VerdictOf(i)']
    BY <1>2, <2>1
  <2>3. CASE VerdictOf(i)' = "pending"
    <3>1. ver' = ver
      BY <1>2, <1>3, <2>3
    <3>2. QED
      BY <1>7, <2>2, <3>1 DEF Governed!absVars, LicenceOf, VerdictOf
  <2>4. CASE VerdictOf(i)' # "pending" /\ effects[i] = 1
    <3>1. PICK v \in {"success", "failure"} : VerdictOf(i)' = v
      BY <1>3, <2>4
    <3>2. Governed!Conclude(i, v)
      BY <1>3, <1>7, <2>2, <2>4, <3>1 DEF Governed!Conclude, LicenceOf, VerdictOf
    <3>3. QED
      BY <3>2 DEF Governed!AbsNext
  <2>5. CASE VerdictOf(i)' # "pending" /\ effects[i] = 0
    <3>1. LicenceOf(i) = None /\ VerdictOf(i)' = "failure"
      BY <1>3, <1>4, <1>7, <2>5 DEF LicenceOf
    <3>2. Governed!Refuse(i)
      BY <1>3, <1>7, <2>2, <3>1 DEF Governed!Refuse, LicenceOf, VerdictOf
    <3>3. QED
      BY <3>2 DEF Governed!AbsNext
  <2>6. QED
    BY <1>2, <2>3, <2>4, <2>5
<1>8. QED
  BY <1>1, <1>5, <1>6, <1>7

\* Seen from outside, the executor is a GovernedEffect: each of its steps is a
\* step of that specification or changes nothing there.
THEOREM Implementation == Spec => ImplementsGovernedEffect
<1>1. Init => Governed!AbsInit
  <2> SUFFICES ASSUME Init PROVE Governed!AbsInit
    OBVIOUS
  <2>1. \A i \in Invocations : ~HasRecord(i, "started")
    BY NothingRecorded DEF Init, HasRecord
  <2>2. QED
    BY <2>1, NoneAssumption DEF Init, Governed!AbsInit, Outcomes
<1>2. ASSUME IInv, IInv', MappedInv, MappedInv', [Next]_vars
      PROVE  [Governed!AbsNext]_(Governed!absVars)
  <2>1. CASE \E i \in Invocations : Execute(i) \/ Step(i)
    BY <1>2, <2>1, StepImplements
  <2>2. CASE UNCHANGED <<pc, call, tool, effects, trail, outcome>>
    BY <2>2 DEF Governed!absVars, HasRecord
  <2>3. QED
    BY <1>2, <2>1, <2>2 DEF Next, Register, Remove, Confirm, vars
<1>3. QED
  BY <1>1, <1>2, IInvMapped, InductiveInvariant, PTL
     DEF Spec, ImplementsGovernedEffect, Governed!AbsSpec

===============================================================================
