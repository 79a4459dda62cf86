----------------------------- MODULE AssistantLoop -----------------------------
(***************************************************************************)
(* ui/controller.py (plan_request) and the Assistant tab of                *)
(* ui/workspace.py: a user's message, the bounded rounds of model answers  *)
(* it leads to, the calls that run at once and those that are kept as      *)
(* proposals, and what the user does with the proposals.                   *)
(*                                                                         *)
(* All of it runs on the GUI thread.  What varies is the model's answers,  *)
(* the provider's errors, the results of tools and the user's decisions.   *)
(***************************************************************************)
EXTENDS Naturals, Sequences, SequencesExt

CONSTANTS
  Tools,        \* registered tools
  High,         \* those of risk HIGH, which the assistant's executor gates
  Args,         \* arguments of a call
  Valid,        \* calls that validate_call_against_registry lets through
  Quoting,      \* calls whose handler may fail with an error that quotes the word
                \* "confirmation" from their arguments (a criterion of analysis.ahp)
  OfflineCall,  \* the call of plan_offline: data.describe_project
  Requests,     \* texts the user sends that are no affirmation
  MaxRounds,    \* max_rounds of plan_request
  MaxAnswer,    \* bound: calls in an answer of the model
  None

\* A tool call as the model emits it; two calls have the same fingerprint only if
\* they are the same.
Call == [tool : Tools, args : Args]

ASSUME ToolsAssumption == High \subseteq Tools
ASSUME CallsAssumption == Valid \subseteq Call /\ Quoting \subseteq Call /\ OfflineCall \in Valid
ASSUME OfflineAssumption == OfflineCall.tool \notin High
ASSUME RoundsAssumption == MaxRounds \in Nat \ {0} /\ MaxAnswer \in Nat
ASSUME NoneAssumption == None \notin Requests

VARIABLES
  pc,         \* "idle", "ask" the model, "handle" its calls, "confirm" proposals
  request,    \* last_request
  round,      \* answers asked for in this plan
  limit,      \* its max_rounds
  answer,     \* the calls of the answer that are still to be handled
  seen,       \* fingerprints handled in this plan
  executed,   \* calls reported as executed in this plan
  ran,        \* history: calls whose handler was entered in this plan
  ranAny,     \* whether this round executed one
  collected,  \* all_pending
  pending,    \* workspace.pending_high
  asked,      \* proposals _confirm_pending is through with
  anyOk,      \* whether one of them succeeded
  settled     \* history: proposals of pending_high that were run or taken off it

plan == <<round, limit, answer, seen, executed, ran, ranAny, collected>>
confirmation == <<asked, anyOk>>
proposals == <<pending, settled>>
vars == <<pc, request, plan, proposals, confirmation>>

Consequential(c) == c.tool \in High

-------------------------------------------------------------------------------
(* plan_request                                                             *)

\* The local variables of plan_request as a plan begins, and none of them before
\* and after.
FreshPlan(rounds) ==
  /\ round' = 0 /\ limit' = rounds
  /\ answer' = <<>> /\ seen' = {} /\ executed' = <<>> /\ ran' = <<>>
  /\ ranAny' = FALSE /\ collected' = <<>>

\* The plan is done: _render_plan takes its tool_calls for the proposals.
Propose(calls) ==
  /\ pc' = "idle"
  /\ FreshPlan(0)
  /\ pending' = calls
  /\ settled' = {}

\* plan_request begins, and asks the model unless no API key is configured: then
\* it is the offline plan at once.  `kept` is pending_high as it begins.
BeginPlan(r, rounds, kept) ==
  /\ request' = r
  /\ \/ /\ pc' = "ask"
        /\ FreshPlan(rounds)
        /\ pending' = kept
        /\ UNCHANGED settled
     \/ Propose(<<OfflineCall>>)

\* _on_send of a text that is no affirmation, or of one with nothing to affirm.
Send(r) ==
  /\ pc = "idle"
  /\ BeginPlan(r, MaxRounds, pending)
  /\ UNCHANGED confirmation

\* plan_with_ai: the model's calls, or those of the offline plan it falls back to.
Answer ==
  /\ pc = "ask"
  /\ pc' = "handle"
  /\ round' = round + 1
  /\ ranAny' = FALSE
  /\ answer' \in BoundedSeq(Call, MaxAnswer)
  /\ UNCHANGED <<request, limit, seen, executed, ran, collected, proposals, confirmation>>

\* A hard error of the provider ends the plan, and _render_plan returns before
\* it touches the proposals.
AnswerFails ==
  /\ pc = "ask"
  /\ pc' = "idle"
  /\ FreshPlan(0)
  /\ UNCHANGED <<request, proposals, confirmation>>

\* A call that is invalid or was handled before is passed over.
SkipCall ==
  /\ pc = "handle" /\ answer # <<>>
  /\ Head(answer) \notin Valid \/ Head(answer) \in seen
  /\ answer' = Tail(answer)
  /\ UNCHANGED <<pc, request, round, limit, seen, executed, ran, ranAny, collected,
                 proposals, confirmation>>

\* A call of the answer is taken up: its fingerprint is kept before it is run.
Take(c) ==
  /\ pc = "handle" /\ answer # <<>>
  /\ c = Head(answer) /\ c \in Valid \ seen
  /\ seen' = seen \cup {c}
  /\ answer' = Tail(answer)

\* Mutant: the fingerprint is kept further down, of the calls that count as run.
KeepUnseen(c) ==
  /\ pc = "handle" /\ answer # <<>>
  /\ c = Head(answer) /\ c \in Valid \ seen
  /\ Consequential(c) \/ c \in Quoting
  /\ answer' = Tail(answer)
  /\ ran' = IF Consequential(c) THEN ran ELSE Append(ran, c)
  /\ collected' = IF \E k \in DOMAIN collected : collected[k].tool = c.tool
                  THEN collected ELSE Append(collected, c)
  /\ UNCHANGED <<pc, request, round, limit, seen, executed, ranAny, proposals, confirmation>>

\* run_tool of a call that the assistant's executor does not gate: its handler is
\* entered, and the outcome, success or not, does not speak of confirmation.
RunCall(c) ==
  /\ Take(c)
  /\ ~Consequential(c)
  /\ ran' = Append(ran, c)
  /\ executed' = Append(executed, c)
  /\ ranAny' = TRUE
  /\ UNCHANGED <<pc, request, round, limit, collected, proposals, confirmation>>

\* run_tool fails with an error that has "confirmation" in it: the executor's
\* refusal, or what a handler that was entered quotes.  Either way the call is
\* kept, unless one of the same tool has been kept before.
KeepCall(c) ==
  /\ Take(c)
  /\ Consequential(c) \/ c \in Quoting
  /\ ran' = IF Consequential(c) THEN ran ELSE Append(ran, c)
  /\ collected' = IF \E k \in DOMAIN collected : collected[k].tool = c.tool
                  THEN collected ELSE Append(collected, c)
  /\ UNCHANGED <<pc, request, round, limit, executed, ranAny, proposals, confirmation>>

\* Mutant: once there are proposals a round does not count.
EndRoundUncounted ==
  /\ pc = "handle" /\ answer = <<>>
  /\ \/ /\ (ranAny /\ round < limit) \/ collected # <<>>
        /\ pc' = "ask"
        /\ round' = IF collected = <<>> THEN round ELSE round - 1
        /\ UNCHANGED <<limit, answer, seen, executed, ran, ranAny, collected, proposals>>
     \/ ~(ranAny /\ round < limit) /\ collected = <<>> /\ Propose(collected)
  /\ UNCHANGED <<request, confirmation>>

\* The next round, if this one executed anything and there is one left.
EndRound ==
  /\ pc = "handle" /\ answer = <<>>
  /\ \/ ranAny /\ round < limit /\ pc' = "ask" /\ UNCHANGED <<plan, proposals>>
     \/ ~(ranAny /\ round < limit) /\ Propose(collected)
  /\ UNCHANGED <<request, confirmation>>

-------------------------------------------------------------------------------
(* The proposals                                                            *)

\* An affirmation, while there are proposals: _confirm_pending begins.
Affirm ==
  /\ pc = "idle" /\ pending # <<>>
  /\ pc' = "confirm"
  /\ asked' = 0 /\ anyOk' = FALSE
  /\ UNCHANGED <<request, plan, proposals>>

\* The next proposal is run: with the user's consent if it is consequential,
\* without asking if not.
ConfirmNext ==
  /\ pc = "confirm" /\ asked < Len(pending)
  /\ asked' = asked + 1
  /\ anyOk' \in {anyOk, TRUE}
  /\ settled' = settled \cup {pending[asked + 1]}
  /\ UNCHANGED <<pc, request, plan, pending>>

\* Mutant: the proposals are replaced after the follow-up plan, not before it.
EndConfirmLate(remaining) ==
  IF anyOk /\ request # None
  THEN BeginPlan(request, 1, pending)
  ELSE /\ pc' = "idle"
       /\ pending' = remaining
       /\ UNCHANGED <<request, plan, settled>>

\* The end of _confirm_pending: a follow-up plan of one round if something
\* succeeded.  `remaining` is what stays proposed.
EndConfirm(remaining) ==
  IF anyOk /\ request # None
  THEN BeginPlan(request, 1, remaining)
  ELSE /\ pc' = "idle"
       /\ pending' = remaining
       /\ UNCHANGED <<request, plan, settled>>

\* The user declines in the dialog, and the loop is left.
ConfirmDeclined ==
  /\ pc = "confirm" /\ asked < Len(pending)
  /\ Consequential(pending[asked + 1])
  /\ EndConfirm(<<pending[asked + 1]>>)
  /\ asked' = asked + 1
  /\ UNCHANGED anyOk

ConfirmDone ==
  /\ pc = "confirm" /\ asked = Len(pending)
  /\ EndConfirm(<<>>)
  /\ UNCHANGED confirmation

\* The Approve and Decline buttons of one proposal: it is taken off the list, and
\* then run, or not.
Settle(k) ==
  /\ pc = "idle" /\ k \in DOMAIN pending
  /\ pending' = RemoveAt(pending, k)
  /\ settled' = settled \cup {pending[k]}
  /\ UNCHANGED <<pc, request, plan, confirmation>>

-------------------------------------------------------------------------------
(* The specification                                                        *)

Init ==
  /\ pc = "idle"
  /\ request = None
  /\ round = 0 /\ limit = 0
  /\ answer = <<>> /\ seen = {} /\ executed = <<>> /\ ran = <<>> /\ ranAny = FALSE
  /\ collected = <<>>
  /\ pending = <<>>
  /\ asked = 0 /\ anyOk = FALSE
  /\ settled = {}

Planning ==
  \/ Answer \/ AnswerFails
  \/ SkipCall
  \/ \E c \in Call : RunCall(c) \/ KeepCall(c)
  \/ EndRound

Confirming == ConfirmNext \/ ConfirmDeclined \/ ConfirmDone

Next ==
  \/ \E r \in Requests : Send(r)
  \/ Planning
  \/ Affirm
  \/ Confirming
  \/ \E k \in DOMAIN pending : Settle(k)

Spec == Init /\ [][Next]_vars

\* A handler of the GUI thread runs on; a provider answers or times out, and a
\* dialog that is open is answered.
FairSpec == Spec /\ WF_vars(Planning) /\ WF_vars(Confirming)

-------------------------------------------------------------------------------
(* Properties                                                               *)

\* Over all rounds of a plan no handler is entered twice with the same arguments,
\* also when its error made the call a proposal, and no call reported as executed
\* is proposed as well.
EachCallOnce ==
  /\ IsInjective(ran)
  /\ ToSet(executed) \cap ToSet(collected) = {}

\* What the user has confirmed, approved or taken off the list is not proposed
\* again, unless a plan proposes anew: neither after a dialog that was declined
\* half way, nor under a follow-up plan, nor when that plan fails.
SettledIsSettled ==
  pc # "confirm" => ToSet(pending) \cap settled = {}

\* Every message of the user comes to an end, follow-up plan included.
MessageEnds == pc # "idle" ~> pc = "idle"

===============================================================================
