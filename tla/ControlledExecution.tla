-------------------------- MODULE ControlledExecution --------------------------
(***************************************************************************)
(* agent/execution.py, with the parts of agent/governance.py and           *)
(* agent/registry.py it runs on: concurrent calls of                       *)
(* ControlledExecutor.execute over one ToolRegistry and one AuditSink.     *)
(*                                                                         *)
(* Each invocation is one call of execute() on a thread of its own; `pc`   *)
(* says which statement it is at.  Between two of its statements other     *)
(* invocations run, the registry is changed (register, remove) and the     *)
(* user makes confirmation artifacts.  The audit sink is one list in the   *)
(* code; `trail[i]` is its projection on the records of invocation i, the  *)
(* order between records of different calls being nobody's business.  Any  *)
(* append to the sink may fail.                                            *)
(***************************************************************************)
EXTENDS Naturals, Sequences, FiniteSets

CONSTANTS
  Invocations,       \* calls of execute()
  Names,             \* tool names
  Versions,          \* tool versions
  Inputs,            \* input documents, told apart by their fingerprint
  Contexts,          \* execution contexts, told apart by their fingerprint
  Specs,             \* the ToolSpecs that may be registered
  AllowedRisks,      \* PermissionPolicy._allowed_risks
  ConfirmRisks,      \* ConfirmationPolicy._require_confirmation
  MaxArtifacts,      \* bound: artifacts made in a behaviour
  None               \* Python's None

Risks == {"read", "low", "medium", "high"}

\* A ToolSpec: `handler` says whether it has one, `accepts` is the set of
\* inputs its input schema validates.
ToolSpec == [name : Names, version : Versions, risk : Risks,
             handler : BOOLEAN, accepts : SUBSET Inputs]

\* A ConfirmationArtifact: what it is bound to.
Artifact == [name : Names, version : Versions, input : Inputs, context : Contexts]

\* The arguments of execute().
Call == [name : Names, input : Inputs, context : Contexts,
         confirmation : Artifact \cup {None}]

\* The ToolResults of execute(), by their error message.
Outcomes == {"unknown_tool", "failed", "denied", "no_handler",
             "confirmation_required", "blocked", "unrecorded", "success"}

\* The event types of its audit records.
Events == {"started", "succeeded", "failed", "denied", "confirmation_required",
           "unknown_tool"}

ASSUME SpecsAssumption == Specs \subseteq ToolSpec
ASSUME RisksAssumption == AllowedRisks \subseteq Risks /\ ConfirmRisks \subseteq Risks
ASSUME NoneAssumption ==
  /\ None \notin Specs \cup Artifact \cup Versions \cup Call \cup Outcomes
  /\ None \notin [tool : Specs, call : Call]
ASSUME BoundAssumption == MaxArtifacts \in Nat

VARIABLES
  registry,   \* ToolRegistry._tools: name -> ToolSpec or None
  artifacts,  \* confirmation artifacts the user has made
  pc,         \* invocation -> the statement of execute() it is at
  call,       \* invocation -> its arguments, None before the call
  tool,       \* invocation -> the local `tool`
  effects,    \* invocation -> how often its handler was entered
  trail,      \* invocation -> its records in the audit sink
  outcome     \* invocation -> what the caller got back, None before that

vars == <<registry, artifacts, pc, call, tool, effects, trail, outcome>>

-------------------------------------------------------------------------------
(* Policies, confirmations and audit records                                *)

\* PermissionPolicy.evaluate
Permitted(s) == s.risk \in AllowedRisks

\* ConfirmationPolicy.evaluate; PolicyEngine never asks it about a denied tool
NeedsConfirmation(s) == s.risk \in ConfirmRisks

\* ConfirmationArtifact.create for one invocation of s
ArtifactFor(s, input, context) ==
  [name |-> s.name, version |-> s.version, input |-> input, context |-> context]

\* Mutant: the context fingerprint is not compared.
ValidForAnyContext(c, s) ==
  /\ c.confirmation # None
  /\ \E x \in Contexts : c.confirmation = ArtifactFor(s, c.input, x)

\* ConfirmationArtifact.status_for = VALID
ValidConfirmation(c, s) == c.confirmation = ArtifactFor(s, c.input, c.context)

\* An AuditRecord: of its fields, those a property tells apart.
Record(event, version, permission) ==
  [event |-> event, version |-> version, permission |-> permission]

\* ControlledExecutor._audit: the record is written, or the sink failed.
Audit(i, r) ==
  \/ trail' = [trail EXCEPT ![i] = Append(@, r)]
  \/ trail' = trail

\* execute() returns; nothing but the outcome is left to say.
Return(i, o) ==
  /\ pc' = [pc EXCEPT ![i] = "returned"]
  /\ outcome' = [outcome EXCEPT ![i] = o]

Goto(i, l) == pc' = [pc EXCEPT ![i] = l]

-------------------------------------------------------------------------------
(* The registry and the user                                                *)

\* ToolRegistry.register: a name in use is refused (ValueError).
Register(s) ==
  /\ registry[s.name] = None
  /\ registry' = [registry EXCEPT ![s.name] = s]
  /\ UNCHANGED <<artifacts, pc, call, tool, effects, trail, outcome>>

\* ToolRegistry.remove
Remove(n) ==
  /\ registry[n] # None
  /\ registry' = [registry EXCEPT ![n] = None]
  /\ UNCHANGED <<artifacts, pc, call, tool, effects, trail, outcome>>

\* make_confirmation: after the user's consent, for the version registered now.
Confirm(n, input, context) ==
  /\ registry[n] # None
  /\ Cardinality(artifacts) < MaxArtifacts
  /\ artifacts' = artifacts \cup {ArtifactFor(registry[n], input, context)}
  /\ UNCHANGED <<registry, pc, call, tool, effects, trail, outcome>>

-------------------------------------------------------------------------------
(* ControlledExecutor.execute                                               *)

\* The call, with any artifact made so far or with none.
Execute(i) ==
  /\ pc[i] = "idle"
  /\ \E n \in Names, input \in Inputs, context \in Contexts,
        a \in artifacts \cup {None} :
       call' = [call EXCEPT ![i] = [name |-> n, input |-> input,
                                    context |-> context, confirmation |-> a]]
  /\ Goto(i, "resolve")
  /\ UNCHANGED <<registry, artifacts, tool, effects, trail, outcome>>

\* _unknown_tool: audited as a DENY of an unknown version.
UnknownTool(i) ==
  /\ Audit(i, Record("unknown_tool", None, "deny"))
  /\ Return(i, "unknown_tool")

\* The `except Exception` clause: the failure is audited, then the failed
\* ToolResult is built from the exception's message.  An empty message makes
\* ToolResult itself raise, out of execute().
Failed(i, permission, message) ==
  /\ Audit(i, Record("failed", tool[i].version, permission))
  /\ IF message = "empty"
     THEN Goto(i, "escaped") /\ UNCHANGED outcome
     ELSE Return(i, "failed")

\* An exception that is not the executor's own: a KeyError is taken for an
\* unknown tool, wherever it comes from.
Exception(i, kind, permission) ==
  CASE kind = "KeyError" -> UnknownTool(i)
    [] kind = "blank"    -> Failed(i, permission, "empty")
    [] OTHER             -> Failed(i, permission, "text")

Exceptions == {"KeyError", "blank", "other"}

\* Step 1: registry.get
Resolve(i) ==
  /\ pc[i] = "resolve"
  /\ tool' = [tool EXCEPT ![i] = registry[call[i].name]]
  /\ IF registry[call[i].name] = None
     THEN UnknownTool(i)
     ELSE Goto(i, "policy") /\ UNCHANGED <<trail, outcome>>
  /\ UNCHANGED <<registry, artifacts, call, effects>>

\* Step 3: PolicyEngine.evaluate; a DENY is audited and returned.
EvaluatePolicy(i) ==
  /\ pc[i] = "policy"
  /\ IF Permitted(tool[i])
     THEN Goto(i, "handler") /\ UNCHANGED <<trail, outcome>>
     ELSE /\ Audit(i, Record("denied", tool[i].version, "deny"))
          /\ Return(i, "denied")
  /\ UNCHANGED <<registry, artifacts, call, tool, effects>>

\* A custom policy raises: audited with a synthesized DENY.
PolicyRaises(i) ==
  /\ pc[i] = "policy"
  /\ \E kind \in Exceptions : Exception(i, kind, "deny")
  /\ UNCHANGED <<registry, artifacts, call, tool, effects>>

\* Mutant: a tool without a handler is not turned away.
HandlerUnchecked(i) ==
  /\ pc[i] = "handler"
  /\ Goto(i, "input")
  /\ UNCHANGED <<registry, artifacts, call, tool, effects, trail, outcome>>

\* Step 4: a tool without a handler never starts.
CheckHandler(i) ==
  /\ pc[i] = "handler"
  /\ IF tool[i].handler
     THEN Goto(i, "input") /\ UNCHANGED <<trail, outcome>>
     ELSE /\ Audit(i, Record("failed", tool[i].version, "allow"))
          /\ Return(i, "no_handler")
  /\ UNCHANGED <<registry, artifacts, call, tool, effects>>

\* Step 5: ToolInput raises a ValueError with a message on a bad input.
ValidateInput(i) ==
  /\ pc[i] = "input"
  /\ IF call[i].input \in tool[i].accepts
     THEN Goto(i, "confirm") /\ UNCHANGED <<trail, outcome>>
     ELSE Failed(i, "allow", "text")
  /\ UNCHANGED <<registry, artifacts, call, tool, effects>>

\* Mutant: the executor waits for an artifact that fits.
AwaitConfirmation(i) ==
  /\ pc[i] = "confirm"
  /\ NeedsConfirmation(tool[i]) => ValidConfirmation(call[i], tool[i])
  /\ Goto(i, "intent")
  /\ UNCHANGED <<registry, artifacts, call, tool, effects, trail, outcome>>

\* Steps 6 and 7
CheckConfirmation(i) ==
  /\ pc[i] = "confirm"
  /\ IF NeedsConfirmation(tool[i]) /\ ~ValidConfirmation(call[i], tool[i])
     THEN /\ Audit(i, Record("confirmation_required", tool[i].version, "allow"))
          /\ Return(i, "confirmation_required")
     ELSE Goto(i, "intent") /\ UNCHANGED <<trail, outcome>>
  /\ UNCHANGED <<registry, artifacts, call, tool, effects>>

\* Mutant: a sink that fails does not block the execution.
IntentBestEffort(i) ==
  /\ pc[i] = "intent"
  /\ Audit(i, Record("started", tool[i].version, "allow"))
  /\ Goto(i, "invoke")
  /\ UNCHANGED <<registry, artifacts, call, tool, effects, outcome>>

\* Step 8: the intent record, without which the handler is not entered.
AuditIntent(i) ==
  /\ pc[i] = "intent"
  /\ \/ /\ trail' = [trail EXCEPT ![i] =
                       Append(@, Record("started", tool[i].version, "allow"))]
        /\ Goto(i, "invoke")
        /\ UNCHANGED outcome
     \/ /\ Return(i, "blocked")
        /\ UNCHANGED trail
  /\ UNCHANGED <<registry, artifacts, call, tool, effects>>

\* Mutant: the handler is looked up again when it is entered.
InvokeRegistered(i) ==
  /\ pc[i] = "invoke"
  /\ registry[call[i].name] # None
  /\ tool' = [tool EXCEPT ![i] = registry[call[i].name]]
  /\ effects' = [effects EXCEPT ![i] = @ + 1]
  /\ Goto(i, "running")
  /\ UNCHANGED <<registry, artifacts, call, trail, outcome>>

\* Step 9, first half: control enters the handler.
InvokeHandler(i) ==
  /\ pc[i] = "invoke"
  /\ effects' = [effects EXCEPT ![i] = @ + 1]
  /\ Goto(i, "running")
  /\ UNCHANGED <<registry, artifacts, call, tool, trail, outcome>>

\* Steps 9 to 12: the handler returns JSON, a ToolOutput and a ToolResult are built.
HandlerReturns(i) ==
  /\ pc[i] = "running"
  /\ Goto(i, "terminal")
  /\ UNCHANGED <<registry, artifacts, call, tool, effects, trail, outcome>>

\* The handler raises, or returns what ToolOutput rejects ("other").
HandlerRaises(i) ==
  /\ pc[i] = "running"
  /\ \E kind \in Exceptions : Exception(i, kind, "allow")
  /\ UNCHANGED <<registry, artifacts, call, tool, effects>>

\* A BaseException (KeyboardInterrupt, SystemExit) ends the call in the handler.
HandlerInterrupted(i) ==
  /\ pc[i] = "running"
  /\ Goto(i, "interrupted")
  /\ UNCHANGED <<registry, artifacts, call, tool, effects, trail, outcome>>

\* Mutant: the success is reported whether or not it could be recorded.
TerminalBestEffort(i) ==
  /\ pc[i] = "terminal"
  /\ Audit(i, Record("succeeded", tool[i].version, "allow"))
  /\ Return(i, "success")
  /\ UNCHANGED <<registry, artifacts, call, tool, effects>>

\* Step 13: a success that cannot be recorded is reported as a failure.
AuditTerminal(i) ==
  /\ pc[i] = "terminal"
  /\ \/ /\ trail' = [trail EXCEPT ![i] =
                       Append(@, Record("succeeded", tool[i].version, "allow"))]
        /\ Return(i, "success")
     \/ /\ UNCHANGED trail
        /\ Return(i, "unrecorded")
  /\ UNCHANGED <<registry, artifacts, call, tool, effects>>

-------------------------------------------------------------------------------
(* The specification                                                        *)

Init ==
  /\ registry \in {r \in [Names -> Specs \cup {None}] :
                     \A n \in Names : r[n] # None => r[n].name = n}
  /\ artifacts = {}
  /\ pc = [i \in Invocations |-> "idle"]
  /\ call = [i \in Invocations |-> None]
  /\ tool = [i \in Invocations |-> None]
  /\ effects = [i \in Invocations |-> 0]
  /\ trail = [i \in Invocations |-> <<>>]
  /\ outcome = [i \in Invocations |-> None]

\* One statement of execute() once it has been called.
Step(i) ==
  \/ Resolve(i)
  \/ EvaluatePolicy(i) \/ PolicyRaises(i)
  \/ CheckHandler(i)
  \/ ValidateInput(i)
  \/ CheckConfirmation(i)
  \/ AuditIntent(i)
  \/ InvokeHandler(i)
  \/ HandlerReturns(i) \/ HandlerRaises(i) \/ HandlerInterrupted(i)
  \/ AuditTerminal(i)

Next ==
  \/ \E s \in Specs : Register(s)
  \/ \E n \in Names : Remove(n)
  \/ \E n \in Names, input \in Inputs, context \in Contexts : Confirm(n, input, context)
  \/ \E i \in Invocations : Execute(i) \/ Step(i)

Spec == Init /\ [][Next]_vars

\* A call that has begun runs on: Python executes the statements of a method,
\* and a handler is taken to end.
Fairness == \A i \in Invocations : WF_vars(Step(i))

FairSpec == Spec /\ Fairness

-------------------------------------------------------------------------------
(* Properties                                                               *)

Labels == {"idle", "resolve", "policy", "handler", "input", "confirm", "intent",
           "invoke", "running", "terminal", "returned", "escaped", "interrupted"}

AuditRecord == [event : Events, version : Versions \cup {None},
                permission : {"allow", "deny"}]

\* Types of the state; `effects` also says that a handler is entered at most
\* once per call and `registry` that a tool is registered under its own name.
TypeOK ==
  /\ registry \in [Names -> Specs \cup {None}]
  /\ \A n \in Names : registry[n] # None => registry[n].name = n
  /\ artifacts \subseteq Artifact
  /\ pc \in [Invocations -> Labels]
  /\ call \in [Invocations -> Call \cup {None}]
  /\ tool \in [Invocations -> Specs \cup {None}]
  /\ effects \in [Invocations -> {0, 1}]
  /\ trail \in [Invocations -> Seq(AuditRecord)]
  /\ outcome \in [Invocations -> Outcomes \cup {None}]

Recorded(records, event) == \E k \in DOMAIN records : records[k].event = event

HasRecord(i, event) == Recorded(trail[i], event)

\* What the boundary may license: this tool for these arguments.
Licences ==
  {l \in [tool : Specs, call : Call] :
     /\ l.tool.name = l.call.name
     /\ l.tool.handler
     /\ l.tool.risk \in AllowedRisks
     /\ l.call.input \in l.tool.accepts
     /\ l.tool.risk \in ConfirmRisks =>
          l.call.confirmation = ArtifactFor(l.tool, l.call.input, l.call.context)}

\* A handler that has been entered was permitted, had its input validated and,
\* if its risk asks for it, was confirmed by an artifact the user made for this
\* very version, input and context, whatever happened to the registry since
\* (execute(), steps 1 to 7; ADR-0010 "DENY cannot be overridden").
AuthorisedEffect ==
  \A i \in Invocations : effects[i] > 0 =>
    /\ [tool |-> tool[i], call |-> call[i]] \in Licences
    /\ tool[i].risk \in ConfirmRisks => call[i].confirmation \in artifacts

\* A handler is entered only once and only by a step that finds the intent
\* record, and nothing else, in the trail, written for the version it runs
\* (execute(), step 8: fail-closed).
EffectOnRecord ==
  [][\A i \in Invocations : effects'[i] # effects[i] =>
       /\ effects[i] = 0
       /\ trail[i] = <<Record("started", tool'[i].version, "allow")>>]_vars

\* When a call is over, the sink holds an intent record for it exactly if its
\* handler was entered: no effect off the record, no phantom start on it.
IntentIffEffect ==
  \A i \in Invocations : pc[i] \in {"returned", "escaped", "interrupted"} =>
    (HasRecord(i, "started") <=> effects[i] = 1)

\* The caller and the audit trail are told the same story: success exactly if
\* success is on record, and no refusal after an effect (step 13, _deny,
\* _confirmation_missing, the blocked intent).
TrailAgreesWithOutcome ==
  \A i \in Invocations : pc[i] = "returned" =>
    /\ outcome[i] = "success" <=> HasRecord(i, "succeeded")
    /\ outcome[i] = "success" => effects[i] = 1
    /\ outcome[i] \in {"denied", "no_handler", "confirmation_required", "blocked"} =>
         effects[i] = 0

\* Every call comes to an end, whatever the sink, the registry and the
\* handler's exceptions do.  An exception that leaves execute() is an end too:
\* that every path returns a ToolResult is not claimed.
EveryCallSettles ==
  \A i \in Invocations :
    pc[i] # "idle" ~> pc[i] \in {"returned", "escaped", "interrupted"}

\* "Unknown tool - no handler execution" (execution.py, `except KeyError`, and
\* the docstring of _unknown_tool).
UnknownToolNeverRan ==
  \A i \in Invocations : outcome[i] = "unknown_tool" => effects[i] = 0

\* The boundary as its callers see it.
Governed == INSTANCE GovernedEffect WITH
  Calls <- Invocations,
  Unlicensed <- None,
  licence <- [i \in Invocations |->
                IF HasRecord(i, "started")
                THEN [tool |-> tool[i], call |-> call[i]] ELSE None],
  performed <- effects,
  verdict <- [i \in Invocations |->
                IF pc[i] = "escaped" \/ outcome[i] \in Outcomes \ {"success"}
                THEN "failure"
                ELSE IF outcome[i] = "success" THEN "success" ELSE "pending"]

\* execute() implements the promise of GovernedEffect: licence on record, then
\* one effect, then a verdict, and never an effect for a refused call.
ImplementsGovernedEffect == Governed!AbsSpec
===============================================================================
