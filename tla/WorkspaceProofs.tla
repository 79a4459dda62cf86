---------------------------- MODULE WorkspaceProofs ----------------------------
(***************************************************************************)
(* The two tabs of the workspace.  AssistantLoop: for any tools and calls, *)
(* any number of rounds and answers of any length, a plan runs no call     *)
(* twice, and what the user settled stays so.  BackgroundTasks: for any    *)
(* providers, data sets, tasks and lengths of bodies, the slot, the        *)
(* download button and cancellation do what the user sees them do.         *)
(***************************************************************************)
EXTENDS AssistantLoop, BackgroundTasks, TLAPS

-------------------------------------------------------------------------------
(* The Assistant tab                                                        *)

\* At most one of the calls is of any one tool.
OneOfEach(calls) == \A i, j \in DOMAIN calls : calls[i].tool = calls[j].tool => i = j

\* The plan: what ran, what counts as executed and what is kept has left its
\* fingerprint, and one call of a tool is kept.
PlanInv ==
  /\ answer \in Seq(Call) /\ executed \in Seq(Call) /\ ran \in Seq(Call)
  /\ collected \in Seq(Call) /\ seen \in SUBSET Call
  /\ ToSet(executed) \cup ToSet(collected) \cup ToSet(ran) \subseteq seen
  /\ OneOfEach(collected)
  /\ EachCallOnce

\* What _confirm_pending has yet to ask about is not settled.
AskedLater == \A i \in DOMAIN pending : i > asked => pending[i] \notin settled

\* The proposals.
PendingInv ==
  /\ pending \in Seq(Call) /\ asked \in Nat
  /\ OneOfEach(pending)
  /\ SettledIsSettled
  /\ pc = "confirm" => AskedLater

\* The inductive invariant.
LoopIInv == PlanInv /\ PendingInv

-------------------------------------------------------------------------------
(* Sequences                                                                *)

LEMMA ToSetAppend ==
  ASSUME NEW S, NEW s \in Seq(S), NEW e \in S
  PROVE  Append(s, e) \in Seq(S) /\ ToSet(Append(s, e)) = ToSet(s) \cup {e}
<1> DEFINE t == Append(s, e)
<1>1. /\ DOMAIN s = 1 .. Len(s) /\ DOMAIN t = 1 .. Len(s) + 1 /\ Len(s) \in Nat
      /\ t[Len(s) + 1] = e /\ \A i \in DOMAIN s : t[i] = s[i]
  OBVIOUS
<1>2. ASSUME NEW x \in ToSet(t) PROVE x \in ToSet(s) \cup {e}
  BY <1>1, <1>2 DEF ToSet
<1>3. ASSUME NEW x \in ToSet(s) PROVE x \in ToSet(t)
  BY <1>1, <1>3 DEF ToSet
<1>4. e \in ToSet(t)
  BY <1>1 DEF ToSet
<1> QED BY <1>2, <1>3, <1>4

LEMMA InjectiveAppend ==
  ASSUME NEW S, NEW s \in Seq(S), NEW e \in S, IsInjective(s), e \notin ToSet(s)
  PROVE  IsInjective(Append(s, e))
<1> DEFINE t == Append(s, e)
<1>1. \A i \in DOMAIN t : \/ i \in DOMAIN s /\ t[i] = s[i]
                          \/ i = Len(s) + 1 /\ t[i] = e
  OBVIOUS
<1>2. \A i \in DOMAIN s : s[i] # e
  BY DEF ToSet
<1> HIDE DEF t
<1>3. ASSUME NEW i \in DOMAIN t, NEW j \in DOMAIN t, t[i] = t[j] PROVE i = j
  BY <1>1, <1>2, <1>3 DEF IsInjective
<1> QED BY <1>3 DEF IsInjective, t

LEMMA ToSetTail ==
  ASSUME NEW S, NEW s \in Seq(S), s # <<>>
  PROVE  Tail(s) \in Seq(S) /\ Head(s) \in S
OBVIOUS

LEMMA ToSetRemoveAt ==
  ASSUME NEW S, NEW s \in Seq(S), NEW k \in DOMAIN s
  PROVE  RemoveAt(s, k) \in Seq(S) /\ ToSet(RemoveAt(s, k)) \subseteq ToSet(s)
<1> DEFINE t == RemoveAt(s, k)
           a == SubSeq(s, 1, k - 1)
           b == SubSeq(s, k + 1, Len(s))
<1>1. k \in 1 .. Len(s) /\ Len(s) \in Nat
  OBVIOUS
<1>2. a \in Seq(S) /\ Len(a) = k - 1 /\ \A i \in 1 .. k - 1 : a[i] = s[i]
  BY <1>1
<1>3. b \in Seq(S) /\ Len(b) = Len(s) - k /\ \A i \in 1 .. Len(s) - k : b[i] = s[k + i]
  BY <1>1
<1>4. t = a \o b
  BY DEF RemoveAt
<1> HIDE DEF t, a, b
<1>5. /\ t \in Seq(S) /\ DOMAIN t = 1 .. Len(s) - 1
      /\ \A i \in DOMAIN t : t[i] = IF i <= k - 1 THEN a[i] ELSE b[i - (k - 1)]
  BY <1>1, <1>2, <1>3, <1>4
<1>6. ASSUME NEW i \in DOMAIN t PROVE \E j \in DOMAIN s : t[i] = s[j]
  <2>1. CASE i <= k - 1
    BY <1>1, <1>2, <1>5, <1>6, <2>1
  <2>2. CASE i > k - 1
    <3> DEFINE d == i - (k - 1)
    <3>1. d \in 1 .. Len(s) - k /\ k + d \in DOMAIN s
      BY <1>1, <1>5, <1>6, <2>2
    <3>2. t[i] = b[d]
      BY <1>1, <1>5, <1>6, <2>2
    <3>3. b[d] = s[k + d]
      BY <1>3, <3>1
    <3> QED BY <3>1, <3>2, <3>3
  <2> QED BY <1>1, <1>5, <1>6, <2>1, <2>2
<1> QED BY <1>5, <1>6 DEF ToSet, t

\* An element of a list of different tools is not in what is left without it.
LEMMA RemovedIsGone ==
  ASSUME NEW s \in Seq(Call), NEW k \in DOMAIN s, OneOfEach(s)
  PROVE  OneOfEach(RemoveAt(s, k)) /\ s[k] \notin ToSet(RemoveAt(s, k))
<1> DEFINE t == RemoveAt(s, k)
           from(i) == IF i < k THEN i ELSE i + 1
<1>1. /\ DOMAIN t = 1 .. Len(s) - 1
      /\ \A i \in DOMAIN t : t[i] = s[from(i)]
  <2> DEFINE a == SubSeq(s, 1, k - 1)
             b == SubSeq(s, k + 1, Len(s))
  <2>1. k \in 1 .. Len(s) /\ Len(s) \in Nat
    OBVIOUS
  <2>2. a \in Seq(Call) /\ Len(a) = k - 1 /\ \A i \in 1 .. k - 1 : a[i] = s[i]
    BY <2>1
  <2>3. b \in Seq(Call) /\ Len(b) = Len(s) - k /\ \A i \in 1 .. Len(s) - k : b[i] = s[k + i]
    BY <2>1
  <2>4. t = a \o b
    BY DEF RemoveAt
  <2> HIDE DEF t, a, b
  <2>5. /\ DOMAIN t = 1 .. Len(s) - 1
        /\ \A i \in DOMAIN t : t[i] = IF i <= k - 1 THEN a[i] ELSE b[i - (k - 1)]
    BY <2>1, <2>2, <2>3, <2>4
  <2>6. ASSUME NEW i \in DOMAIN t, i >= k PROVE t[i] = s[i + 1]
    <3>1. i - (k - 1) \in 1 .. Len(s) - k /\ k + (i - (k - 1)) = i + 1
      BY <2>1, <2>5, <2>6
    <3>2. t[i] = b[i - (k - 1)]
      BY <2>1, <2>5, <2>6
    <3> QED BY <2>3, <3>1, <3>2
  <2>7. ASSUME NEW i \in DOMAIN t, i < k PROVE t[i] = s[i]
    BY <2>1, <2>2, <2>5, <2>7
  <2> QED BY <2>1, <2>5, <2>6, <2>7
<1> HIDE DEF t
<1>2. \A i \in DOMAIN t : from(i) \in DOMAIN s /\ from(i) # k
  BY <1>1
<1>3. ASSUME NEW i \in DOMAIN t, NEW j \in DOMAIN t, t[i].tool = t[j].tool PROVE i = j
  <2>1. from(i) = from(j)
    BY <1>1, <1>2, <1>3 DEF OneOfEach
  <2> QED BY <1>1, <2>1
<1>4. ASSUME NEW i \in DOMAIN t, t[i] = s[k] PROVE FALSE
  BY <1>1, <1>2, <1>4 DEF OneOfEach
<1> QED BY <1>3, <1>4 DEF OneOfEach, ToSet, t

LEMMA BoundedIsSeq == BoundedSeq(Call, MaxAnswer) \subseteq Seq(Call)
<1> SUFFICES ASSUME NEW m \in Nat, NEW s \in [1 .. m -> Call] PROVE s \in Seq(Call)
  BY RoundsAssumption DEF BoundedSeq, SeqOf
<1> QED OBVIOUS

\* The empty list and a list of one.
LEMMA ToSetSmall ==
  /\ ToSet(<<>>) = {} /\ IsInjective(<<>>)
  /\ \A c : ToSet(<<c>>) = {c}
BY DEF ToSet, IsInjective

-------------------------------------------------------------------------------
(* The steps                                                                *)

LEMMA InitLoopIInv == Init => LoopIInv
BY ToSetSmall DEF Init, LoopIInv, PlanInv, PendingInv, OneOfEach, AskedLater, EachCallOnce,
   SettledIsSettled

\* A plan begins, or is over: its lists are empty.
LEMMA FreshPlanInv ==
  ASSUME NEW rounds, FreshPlan(rounds)
  PROVE  PlanInv'
<1>1. /\ answer' = <<>> /\ executed' = <<>> /\ ran' = <<>> /\ collected' = <<>> /\ seen' = {}
  BY DEF FreshPlan
<1>2. ToSet(executed') = {} /\ ToSet(ran') = {} /\ ToSet(collected') = {} /\ IsInjective(ran')
  BY <1>1, ToSetSmall
<1>3. OneOfEach(collected')
  BY <1>1 DEF OneOfEach
<1> QED BY <1>1, <1>2, <1>3 DEF PlanInv, EachCallOnce, OneOfEach

\* A step that leaves the lists of the plan alone.
LEMMA PlanUntouched ==
  ASSUME PlanInv, answer' \in Seq(Call), seen' = seen, executed' = executed, ran' = ran,
         collected' = collected
  PROVE  PlanInv'
BY DEF PlanInv, EachCallOnce, OneOfEach

\* A step that leaves the proposals alone.
LEMMA PendingUntouched ==
  ASSUME PendingInv, pending' = pending, settled' = settled, asked' = asked, pc # "confirm",
         pc' # "confirm"
  PROVE  PendingInv'
BY DEF PendingInv, OneOfEach, SettledIsSettled, AskedLater

\* New proposals: nothing of them is settled.
LEMMA ProposeInv ==
  ASSUME NEW calls \in Seq(Call), OneOfEach(calls), Propose(calls), asked' \in Nat
  PROVE  LoopIInv'
<1>1. PlanInv'
  BY FreshPlanInv DEF Propose
<1>2. PendingInv'
  BY DEF Propose, PendingInv, OneOfEach, SettledIsSettled
<1> QED BY <1>1, <1>2 DEF LoopIInv

\* The offline plan proposes one call.
LEMMA OfflineProposal == <<OfflineCall>> \in Seq(Call) /\ OneOfEach(<<OfflineCall>>)
BY CallsAssumption DEF OneOfEach

\* A plan begins with what stays proposed, or is the offline plan.
LEMMA BeginPlanInv ==
  ASSUME NEW q, NEW rounds, NEW kept \in Seq(Call), BeginPlan(q, rounds, kept),
         OneOfEach(kept), ToSet(kept) \cap settled = {}, asked' \in Nat
  PROVE  LoopIInv'
<1>1. CASE Propose(<<OfflineCall>>)
  BY <1>1, OfflineProposal, ProposeInv
<1>2. CASE pc' = "ask" /\ FreshPlan(rounds) /\ pending' = kept /\ UNCHANGED settled
  <2>1. PlanInv'
    BY <1>2, FreshPlanInv
  <2>2. PendingInv'
    BY <1>2 DEF PendingInv, OneOfEach, SettledIsSettled
  <2> QED BY <2>1, <2>2 DEF LoopIInv
<1> QED BY <1>1, <1>2 DEF BeginPlan

\* _confirm_pending ends: what remains was not settled.
LEMMA EndConfirmInv ==
  ASSUME LoopIInv, NEW remaining \in Seq(Call), EndConfirm(remaining), OneOfEach(remaining),
         ToSet(remaining) \cap settled = {}, asked' \in Nat
  PROVE  LoopIInv'
<1>1. CASE BeginPlan(request, 1, remaining)
  BY <1>1, BeginPlanInv
<1>2. CASE pc' = "idle" /\ pending' = remaining /\ UNCHANGED <<request, plan, settled>>
  <2>1. PlanInv'
    BY <1>2, PlanUntouched DEF plan, LoopIInv, PlanInv
  <2>2. PendingInv'
    BY <1>2 DEF PendingInv, OneOfEach, SettledIsSettled
  <2> QED BY <2>1, <2>2 DEF LoopIInv
<1> QED BY <1>1, <1>2 DEF EndConfirm

\* A call is taken up: it is new, and its fingerprint is kept.
LEMMA TakeNew ==
  ASSUME PlanInv, NEW c, Take(c)
  PROVE  c \in Call \ seen /\ seen' = seen \cup {c} /\ answer' \in Seq(Call)
BY ToSetTail, CallsAssumption DEF Take, PlanInv

LEMMA RunCallInv ==
  ASSUME LoopIInv, NEW c, RunCall(c)
  PROVE  LoopIInv'
<1>1. /\ c \in Call \ seen /\ seen' = seen \cup {c} /\ answer' \in Seq(Call)
  BY TakeNew DEF LoopIInv, RunCall
<1>2. executed' = Append(executed, c) /\ ran' = Append(ran, c) /\ collected' = collected
  BY DEF RunCall
<1>3. /\ executed' \in Seq(Call) /\ ToSet(executed') = ToSet(executed) \cup {c}
      /\ ran' \in Seq(Call) /\ ToSet(ran') = ToSet(ran) \cup {c}
  BY <1>1, <1>2, ToSetAppend DEF LoopIInv, PlanInv
<1>4. IsInjective(ran')
  BY <1>1, <1>2, InjectiveAppend DEF LoopIInv, PlanInv, EachCallOnce
<1>5. PlanInv'
  BY <1>1, <1>2, <1>3, <1>4 DEF LoopIInv, PlanInv, EachCallOnce, OneOfEach
<1>6. PendingInv'
  BY PendingUntouched DEF LoopIInv, RunCall, Take, proposals, confirmation
<1> QED BY <1>5, <1>6 DEF LoopIInv

\* The kept list grows by a call of a tool that is not in it.
LEMMA KeptOneOfEach ==
  ASSUME NEW s \in Seq(Call), OneOfEach(s), NEW c \in Call,
         ~ \E k \in DOMAIN s : s[k].tool = c.tool
  PROVE  OneOfEach(Append(s, c))
<1> DEFINE t == Append(s, c)
<1>1. \A i \in DOMAIN t : \/ i \in DOMAIN s /\ t[i] = s[i]
                          \/ i = Len(s) + 1 /\ t[i] = c
  OBVIOUS
<1> HIDE DEF t
<1>2. ASSUME NEW i \in DOMAIN t, NEW j \in DOMAIN t, t[i].tool = t[j].tool PROVE i = j
  BY <1>1, <1>2 DEF OneOfEach
<1> QED BY <1>2 DEF OneOfEach, t

LEMMA KeepCallInv ==
  ASSUME LoopIInv, NEW c, KeepCall(c)
  PROVE  LoopIInv'
<1>1. /\ c \in Call \ seen /\ seen' = seen \cup {c} /\ answer' \in Seq(Call)
  BY TakeNew DEF LoopIInv, KeepCall
<1>2. executed' = executed /\ ran' \in {ran, Append(ran, c)}
  BY DEF KeepCall
<1>3. ran' \in Seq(Call) /\ ToSet(ran') \subseteq ToSet(ran) \cup {c} /\ IsInjective(ran')
  <2>1. CASE ran' = ran
    BY <2>1 DEF LoopIInv, PlanInv, EachCallOnce
  <2>2. CASE ran' = Append(ran, c)
    <3>1. ran' \in Seq(Call) /\ ToSet(ran') = ToSet(ran) \cup {c}
      BY <1>1, <2>2, ToSetAppend DEF LoopIInv, PlanInv
    <3>2. IsInjective(ran')
      BY <1>1, <2>2, InjectiveAppend DEF LoopIInv, PlanInv, EachCallOnce
    <3> QED BY <3>1, <3>2
  <2> QED BY <1>2, <2>1, <2>2
<1>4. /\ collected' \in Seq(Call) /\ ToSet(collected') \subseteq ToSet(collected) \cup {c}
      /\ OneOfEach(collected')
  <2>1. CASE \E k \in DOMAIN collected : collected[k].tool = c.tool
    <3>1. collected' = collected
      BY <2>1 DEF KeepCall
    <3> QED BY <3>1 DEF LoopIInv, PlanInv
  <2>2. CASE ~ \E k \in DOMAIN collected : collected[k].tool = c.tool
    <3>1. collected' = Append(collected, c)
      BY <2>2 DEF KeepCall
    <3>2. Append(collected, c) \in Seq(Call) /\ ToSet(Append(collected, c)) = ToSet(collected) \cup {c}
      BY <1>1, ToSetAppend DEF LoopIInv, PlanInv
    <3>3. OneOfEach(Append(collected, c))
      BY <1>1, <2>2, KeptOneOfEach DEF LoopIInv, PlanInv
    <3> QED BY <3>1, <3>2, <3>3
  <2> QED BY <2>1, <2>2
<1>5. PlanInv'
  <2>1. ToSet(executed') \cap ToSet(collected') = {}
    BY <1>1, <1>2, <1>4 DEF LoopIInv, PlanInv, EachCallOnce
  <2>2. EachCallOnce'
    BY <1>3, <2>1 DEF EachCallOnce
  <2> QED BY <1>1, <1>2, <1>3, <1>4, <2>2 DEF LoopIInv, PlanInv, OneOfEach
<1>6. PendingInv'
  BY PendingUntouched DEF LoopIInv, KeepCall, Take, proposals, confirmation
<1> QED BY <1>5, <1>6 DEF LoopIInv

\* A proposal is run, and is settled; those after it are of other tools.
LEMMA ConfirmNextInv ==
  ASSUME LoopIInv, ConfirmNext
  PROVE  LoopIInv'
<1>1. PlanInv'
  BY PlanUntouched DEF LoopIInv, PlanInv, ConfirmNext, plan
<1>2. /\ pc = "confirm" /\ pc' = pc /\ pending' = pending /\ asked' = asked + 1
      /\ settled' = settled \cup {pending[asked + 1]}
      /\ asked + 1 \in DOMAIN pending
  BY DEF LoopIInv, PendingInv, ConfirmNext
<1>3. ASSUME NEW i \in DOMAIN pending, i > asked + 1 PROVE pending[i] \notin settled'
  <2>1. pending[i] \notin settled
    BY <1>2, <1>3 DEF LoopIInv, PendingInv, AskedLater
  <2>2. pending[i] # pending[asked + 1]
    BY <1>2, <1>3 DEF LoopIInv, PendingInv, OneOfEach
  <2> QED BY <1>2, <2>1, <2>2
<1>4. PendingInv'
  BY <1>2, <1>3 DEF LoopIInv, PendingInv, OneOfEach, SettledIsSettled, AskedLater
<1> QED BY <1>1, <1>4 DEF LoopIInv

\* The proposal that was declined is all that remains.
LEMMA ConfirmDeclinedInv ==
  ASSUME LoopIInv, ConfirmDeclined
  PROVE  LoopIInv'
<1> DEFINE c == pending[asked + 1]
<1>1. pc = "confirm" /\ asked + 1 \in DOMAIN pending /\ asked' \in Nat
  BY DEF LoopIInv, PendingInv, ConfirmDeclined
<1>2. c \in Call /\ c \notin settled
  BY <1>1 DEF LoopIInv, PendingInv, AskedLater
<1>3. EndConfirm(<<c>>)
  BY DEF ConfirmDeclined
<1> HIDE DEF c
<1>4. PICK r \in Seq(Call) : r = <<c>>
  <2>1. <<c>> \in Seq(Call)
    BY <1>2
  <2> QED BY <2>1
<1>5. ToSet(r) \cap settled = {} /\ OneOfEach(r)
  <2>1. ToSet(r) = {c}
    BY <1>4, ToSetSmall
  <2>2. DOMAIN r = {1}
    BY <1>4
  <2> QED BY <1>2, <2>1, <2>2 DEF OneOfEach
<1>6. EndConfirm(r)
  BY <1>3, <1>4
<1> QED BY <1>1, <1>5, <1>6, EndConfirmInv

LEMMA StepLoopIInv == LoopIInv /\ [Next]_vars => LoopIInv'
<1> SUFFICES ASSUME LoopIInv, [Next]_vars PROVE LoopIInv'
  OBVIOUS
<1>0. PlanInv /\ PendingInv
  BY DEF LoopIInv
<1>1. ASSUME NEW r \in Requests, Send(r) PROVE LoopIInv'
  <2>1. BeginPlan(r, MaxRounds, pending) /\ asked' \in Nat /\ pending \in Seq(Call)
        /\ OneOfEach(pending) /\ ToSet(pending) \cap settled = {}
    BY <1>0, <1>1 DEF Send, confirmation, PendingInv, SettledIsSettled
  <2> QED BY <2>1, BeginPlanInv
<1>2. CASE Answer
  <2>1. PlanInv'
    BY <1>0, <1>2, BoundedIsSeq, PlanUntouched DEF Answer
  <2>2. PendingInv'
    BY <1>0, <1>2, PendingUntouched DEF Answer, proposals, confirmation
  <2> QED BY <2>1, <2>2 DEF LoopIInv
<1>3. CASE AnswerFails
  <2>1. PlanInv'
    BY <1>3, FreshPlanInv DEF AnswerFails
  <2>2. PendingInv'
    BY <1>0, <1>3, PendingUntouched DEF AnswerFails, proposals, confirmation
  <2> QED BY <2>1, <2>2 DEF LoopIInv
<1>4. CASE SkipCall
  <2>1. PlanInv'
    BY <1>0, <1>4, ToSetTail, PlanUntouched DEF SkipCall, PlanInv
  <2>2. PendingInv'
    BY <1>0, <1>4, PendingUntouched DEF SkipCall, proposals, confirmation
  <2> QED BY <2>1, <2>2 DEF LoopIInv
<1>5. ASSUME NEW c \in Call, RunCall(c) \/ KeepCall(c) PROVE LoopIInv'
  BY <1>5, RunCallInv, KeepCallInv
<1>6. CASE EndRound
  <2>1. CASE Propose(collected)
    <3>1. asked' \in Nat /\ collected \in Seq(Call) /\ OneOfEach(collected)
      BY <1>0, <1>6 DEF EndRound, confirmation, PendingInv, PlanInv
    <3> QED BY <2>1, <3>1, ProposeInv
  <2>2. CASE pc' = "ask" /\ UNCHANGED <<plan, proposals>>
    <3>1. PlanInv'
      BY <1>0, <2>2, PlanUntouched DEF plan, PlanInv
    <3>2. PendingInv'
      BY <1>0, <1>6, <2>2, PendingUntouched DEF EndRound, proposals, confirmation
    <3> QED BY <3>1, <3>2 DEF LoopIInv
  <2> QED BY <1>6, <2>1, <2>2 DEF EndRound
<1>7. CASE Affirm
  <2>1. PlanInv'
    BY <1>0, <1>7, PlanUntouched DEF Affirm, plan, PlanInv
  <2>2. \A i \in DOMAIN pending : pending[i] \notin settled
    BY <1>0, <1>7 DEF Affirm, PendingInv, SettledIsSettled, ToSet
  <2>3. PendingInv'
    BY <1>0, <1>7, <2>2 DEF Affirm, proposals, PendingInv, OneOfEach, SettledIsSettled, AskedLater
  <2> QED BY <2>1, <2>3 DEF LoopIInv
<1>8. CASE ConfirmNext
  BY <1>8, ConfirmNextInv
<1>9. CASE ConfirmDeclined
  BY <1>9, ConfirmDeclinedInv
<1>10. CASE ConfirmDone
  <2>1. EndConfirm(<<>>) /\ asked' \in Nat
    BY <1>0, <1>10 DEF ConfirmDone, confirmation, PendingInv
  <2>2. <<>> \in Seq(Call) /\ ToSet(<<>>) \cap settled = {} /\ OneOfEach(<<>>)
    BY ToSetSmall DEF OneOfEach
  <2> QED BY <2>1, <2>2, EndConfirmInv
<1>11. ASSUME NEW k \in DOMAIN pending, Settle(k) PROVE LoopIInv'
  <2>1. PlanInv'
    BY <1>0, <1>11, PlanUntouched DEF Settle, plan, PlanInv
  <2>2. /\ pc = "idle" /\ pc' = pc /\ asked' = asked
        /\ pending' = RemoveAt(pending, k) /\ settled' = settled \cup {pending[k]}
    BY <1>11 DEF Settle, confirmation
  <2>3. /\ pending' \in Seq(Call) /\ ToSet(pending') \subseteq ToSet(pending)
        /\ OneOfEach(pending') /\ pending[k] \notin ToSet(pending')
    BY <1>0, <2>2, ToSetRemoveAt, RemovedIsGone DEF PendingInv
  <2>4. ToSet(pending') \cap settled' = {}
    BY <1>0, <2>2, <2>3 DEF PendingInv, SettledIsSettled
  <2>5. PendingInv'
    BY <1>0, <2>2, <2>3, <2>4 DEF PendingInv, OneOfEach, SettledIsSettled
  <2> QED BY <2>1, <2>5 DEF LoopIInv
<1>12. CASE UNCHANGED vars
  <2>1. PlanInv'
    BY <1>0, <1>12, PlanUntouched DEF vars, plan, PlanInv
  <2>2. PendingInv'
    BY <1>0, <1>12 DEF vars, proposals, confirmation, PendingInv, OneOfEach, SettledIsSettled,
                       AskedLater
  <2> QED BY <2>1, <2>2 DEF LoopIInv
<1> QED BY <1>1, <1>2, <1>3, <1>4, <1>5, <1>6, <1>7, <1>8, <1>9, <1>10, <1>11, <1>12
        DEF Next, Planning, Confirming

LEMMA LoopInvariance == FairSpec => []LoopIInv
BY InitLoopIInv, StepLoopIInv, PTL DEF FairSpec, Spec

\* Over all rounds of a plan, however long, no handler is entered twice with the same
\* arguments, whatever its error says, and no executed call is proposed.
THEOREM EachCallRunsOnce == FairSpec => []EachCallOnce
BY LoopInvariance, PTL DEF LoopIInv, PlanInv

\* What the user has settled is not proposed again until a plan proposes anew: the
\* proposals are of different tools, so none stands in for another.
THEOREM SettledProposalsStaySettled == FairSpec => []SettledIsSettled
BY LoopInvariance, PTL DEF LoopIInv, PendingInv

-------------------------------------------------------------------------------
(* The Data tab                                                             *)

TasksTypeOK ==
  /\ status \in [Tasks -> {"none", "delivered"} \cup Live]
  /\ job \in [Tasks -> Job \cup {Nothing}]
  /\ \A t \in Tasks : job[t] # Nothing /\ job[t].kind # "search" => job[t].ref \in Ref
  /\ cancelled \in [Tasks -> BOOLEAN]
  /\ chunks \in [Tasks -> Nat] /\ late \in [Tasks -> Nat]
  /\ active \in Tasks \cup {Nothing} /\ shown \in BOOLEAN
  /\ combo \in Providers
  /\ refs \in SUBSET Ref /\ selected \in Ref \cup {Nothing} /\ enabled \in BOOLEAN
  /\ dialogs \in Seq(Dialog)
  /\ last \in Tasks \cup {Nothing}

\* Nobody is told to stop who is not at work, and nothing late is counted there.
OnlyWorkIsCancelled ==
  \A t \in Tasks : status[t] \notin {"polling", "reading"} => ~cancelled[t] /\ late[t] = 0

\* A late chunk is one that was asked for before the cancellation: whoever polls stops
\* before asking for another.
LateIsLast ==
  \A t \in Tasks : job[t] # Nothing /\ Polls(t) /\ late[t] > 0 =>
    late[t] = 1 /\ cancelled[t] /\ status[t] = "polling"

\* What can be loaded was delivered, and no task is delivered twice.
LastIsDelivered == last # Nothing => status[last] = "delivered"

\* The inductive invariant of the tasks.
TasksIInv ==
  /\ TasksTypeOK
  /\ OnlyWorkIsCancelled /\ LateIsLast
  /\ LastIsDelivered
  /\ SlotIsLive
  /\ EnabledIsSelected

LEMMA TaskTypes ==
  ASSUME TasksTypeOK, NEW t \in Tasks
  PROVE  /\ status[t] \in {"none", "delivered"} \cup Live
         /\ cancelled[t] \in BOOLEAN /\ chunks[t] \in Nat /\ late[t] \in Nat
BY DEF TasksTypeOK

\* A dialog fewer.
LEMMA DialogsShrink ==
  ASSUME TasksTypeOK, dialogs # <<>>
  PROVE  /\ dialogs[Len(dialogs)] \in Dialog
         /\ SubSeq(dialogs, 1, Len(dialogs) - 1) \in Seq(Dialog)
<1>1. dialogs \in Seq(Dialog) /\ Len(dialogs) \in Nat \ {0}
  BY DEF TasksTypeOK
<1> QED BY <1>1

LEMMA InitTasksIInv == BTInit => TasksIInv
<1> SUFFICES ASSUME BTInit PROVE TasksIInv
  OBVIOUS
<1>1. TasksTypeOK
  <2>1. /\ status \in [Tasks -> {"none", "delivered"} \cup Live]
        /\ job \in [Tasks -> Job \cup {Nothing}] /\ \A t \in Tasks : job[t] = Nothing
        /\ cancelled \in [Tasks -> BOOLEAN] /\ chunks \in [Tasks -> Nat] /\ late \in [Tasks -> Nat]
    BY DEF BTInit
  <2>2. active = Nothing /\ shown = FALSE /\ combo \in Providers /\ refs = {}
        /\ selected = Nothing /\ enabled = FALSE /\ dialogs = <<>> /\ last = Nothing
    BY DEF BTInit
  <2>3. dialogs \in Seq(Dialog) /\ refs \in SUBSET Ref
    BY <2>2
  <2>4. shown \in BOOLEAN /\ enabled \in BOOLEAN
    BY <2>2
  <2> QED BY <2>1, <2>2, <2>3, <2>4 DEF TasksTypeOK
<1>2. OnlyWorkIsCancelled /\ LateIsLast
  BY DEF BTInit, OnlyWorkIsCancelled, LateIsLast
<1>3. LastIsDelivered /\ SlotIsLive /\ EnabledIsSelected
  BY DEF BTInit, LastIsDelivered, SlotIsLive, EnabledIsSelected
<1> QED BY <1>1, <1>2, <1>3 DEF TasksIInv

\* A task that begins was neither at work nor delivered, and is the only one changed.
LEMMA BeginTasksIInv ==
  ASSUME TasksIInv, NEW t \in Tasks, NEW kind \in {"search", "metadata", "download"},
         NEW ref \in Ref \cup {Nothing}, NEW provider \in Providers,
         kind # "search" => ref \in Ref,
         Begin(t, kind, provider, ref),
         UNCHANGED <<worker, combo, refs, selected, last>>, enabled' \in {enabled, FALSE},
         dialogs' \in Seq(Dialog)
  PROVE  TasksIInv'
<1> DEFINE begun == [kind |-> kind, provider |-> provider, ref |-> ref]
<1>1. /\ begun \in Job /\ (begun.kind # "search" => begun.ref \in Ref)
  BY DEF Job
<1>2. /\ status' = [status EXCEPT ![t] = "queued"] /\ job' = [job EXCEPT ![t] = begun]
      /\ active' = t /\ shown' = TRUE /\ status[t] = "none"
      /\ cancelled' = cancelled /\ chunks' = chunks /\ late' = late
      /\ refs' = refs /\ selected' = selected /\ last' = last
  BY DEF Begin, worker
<1> HIDE DEF begun
<1>3. TasksTypeOK'
  BY <1>1, <1>2 DEF TasksIInv, TasksTypeOK, Live
<1>4. OnlyWorkIsCancelled' /\ LateIsLast'
  BY <1>2, <1>1 DEF TasksIInv, TasksTypeOK, OnlyWorkIsCancelled, LateIsLast, Polls
<1>5. LastIsDelivered'
  BY <1>2 DEF TasksIInv, TasksTypeOK, LastIsDelivered
<1>6. SlotIsLive'
  BY <1>2, NothingAssumption DEF TasksIInv, TasksTypeOK, SlotIsLive, Live
<1>7. EnabledIsSelected'
  BY <1>2 DEF TasksIInv, EnabledIsSelected
<1> QED BY <1>3, <1>4, <1>5, <1>6, <1>7 DEF TasksIInv

\* A task that reports is dropped, and with it whatever the slot holds.
LEMMA FinishTasksIInv ==
  ASSUME TasksIInv, NEW t \in Tasks, Finish(t), combo' = combo,
         refs' \in SUBSET Ref, selected' \in Ref \cup {Nothing}, enabled' \in BOOLEAN,
         EnabledIsSelected',
         dialogs' \in Seq(Dialog), last' = last \/ last' = t
  PROVE  TasksIInv'
<1>1. /\ status' = [status EXCEPT ![t] = "delivered"] /\ job' = [job EXCEPT ![t] = Nothing]
      /\ active' = Nothing /\ shown' = FALSE /\ status[t] \in Over
      /\ cancelled' = cancelled /\ chunks' = chunks /\ late' = late
  BY DEF Finish, Forget, worker
<1>2. TasksTypeOK'
  BY <1>1 DEF TasksIInv, TasksTypeOK
<1>3. OnlyWorkIsCancelled' /\ LateIsLast'
  BY <1>1 DEF TasksIInv, TasksTypeOK, OnlyWorkIsCancelled, LateIsLast, Polls, Over
<1>4. LastIsDelivered' /\ SlotIsLive'
  BY <1>1 DEF TasksIInv, TasksTypeOK, LastIsDelivered, SlotIsLive
<1> QED BY <1>2, <1>3, <1>4 DEF TasksIInv

\* A worker's step moves its own task from one live status to another.
LEMMA WorkTasksIInv ==
  ASSUME TasksIInv, NEW t \in Tasks, NEW next \in Live,
         status[t] \in {"queued", "polling", "reading"},
         status' = [status EXCEPT ![t] = next],
         cancelled' \in [Tasks -> BOOLEAN], chunks' \in [Tasks -> Nat], late' \in [Tasks -> Nat],
         \A u \in Tasks \ {t} : cancelled'[u] = cancelled[u] /\ late'[u] = late[u],
         next \notin {"polling", "reading"} => ~cancelled'[t] /\ late'[t] = 0,
         job[t] # Nothing /\ Polls(t) /\ late'[t] > 0 => late'[t] = 1 /\ cancelled'[t] /\ next = "polling",
         UNCHANGED <<job, slot, combo, results, dialogs, last>>
  PROVE  TasksIInv'
<1>1. /\ job' = job /\ active' = active /\ shown' = shown /\ combo' = combo
      /\ refs' = refs /\ selected' = selected /\ enabled' = enabled
      /\ dialogs' = dialogs /\ last' = last
  BY DEF slot, results
<1>2. TasksTypeOK'
  BY <1>1 DEF TasksIInv, TasksTypeOK
<1>3. OnlyWorkIsCancelled'
  BY <1>1 DEF TasksIInv, TasksTypeOK, OnlyWorkIsCancelled
<1>4. LateIsLast'
  BY <1>1 DEF TasksIInv, TasksTypeOK, LateIsLast, Polls
<1>5. LastIsDelivered' /\ SlotIsLive' /\ EnabledIsSelected'
  BY <1>1 DEF TasksIInv, TasksTypeOK, LastIsDelivered, SlotIsLive, EnabledIsSelected
<1> QED BY <1>2, <1>3, <1>4, <1>5 DEF TasksIInv

LEMMA WorkerTasksIInv ==
  ASSUME TasksIInv, NEW t \in Tasks, Worker(t)
  PROVE  TasksIInv'
<1>0. /\ TasksTypeOK /\ OnlyWorkIsCancelled /\ LateIsLast
      /\ LastIsDelivered /\ SlotIsLive /\ EnabledIsSelected
  BY DEF TasksIInv
<1>1. CASE Start(t)
  <2>1. /\ status[t] = "queued" /\ status' = [status EXCEPT ![t] = "polling"]
        /\ cancelled' = cancelled /\ chunks' = chunks /\ late' = late
        /\ UNCHANGED <<job, slot, combo, results, dialogs, last>>
    BY <1>1 DEF Start, worker
  <2>2. late[t] = 0
    BY <1>0, <2>1 DEF OnlyWorkIsCancelled
  <2>3. /\ cancelled' \in [Tasks -> BOOLEAN] /\ chunks' \in [Tasks -> Nat]
        /\ late' \in [Tasks -> Nat]
    BY <1>0, <2>1 DEF TasksTypeOK
  <2>4. ~ (late'[t] > 0)
    BY <2>1, <2>2
  <2>5. \A u \in Tasks \ {t} : cancelled'[u] = cancelled[u] /\ late'[u] = late[u]
    BY <2>1
  <2> QED BY <2>1, <2>3, <2>4, <2>5, WorkTasksIInv DEF Live
<1>2. ASSUME NEW result \in Over, End(t, result), status[t] \in {"polling", "reading"},
             UNCHANGED <<job, slot, combo, results, dialogs, last>>
      PROVE  TasksIInv'
  <2>1. /\ status' = [status EXCEPT ![t] = result]
        /\ cancelled' = [cancelled EXCEPT ![t] = FALSE]
        /\ chunks' = [chunks EXCEPT ![t] = 0] /\ late' = [late EXCEPT ![t] = 0]
    BY <1>2 DEF End
  <2>2. /\ cancelled' \in [Tasks -> BOOLEAN] /\ chunks' \in [Tasks -> Nat]
        /\ late' \in [Tasks -> Nat]
        /\ ~cancelled'[t] /\ late'[t] = 0
        /\ \A u \in Tasks \ {t} : cancelled'[u] = cancelled[u] /\ late'[u] = late[u]
    BY <1>0, <2>1 DEF TasksTypeOK
  <2>3. ~ (late'[t] > 0)
    BY <2>2
  <2> QED BY <1>2, <2>1, <2>2, <2>3, WorkTasksIInv DEF Live
<1>3. CASE Poll(t)
  <2>1. CASE cancelled[t] /\ Polls(t)
    BY <1>3, <2>1, <1>2 DEF Poll, Over
  <2>2. CASE ~(cancelled[t] /\ Polls(t))
    <3>1. job[t] # Nothing /\ Polls(t) => late[t] = 0
      BY <1>0, <2>2 DEF LateIsLast, TasksTypeOK
    <3>2. /\ status[t] = "polling" /\ status' = [status EXCEPT ![t] = "reading"]
          /\ cancelled' = cancelled /\ chunks' = chunks /\ late' = late
          /\ UNCHANGED <<job, slot, combo, results, dialogs, last>>
      BY <1>3, <2>2 DEF Poll, worker
    <3>3. /\ cancelled' \in [Tasks -> BOOLEAN] /\ chunks' \in [Tasks -> Nat]
          /\ late' \in [Tasks -> Nat]
          /\ \A u \in Tasks \ {t} : cancelled'[u] = cancelled[u] /\ late'[u] = late[u]
      BY <1>0, <3>2 DEF TasksTypeOK
    <3>4. job[t] # Nothing /\ Polls(t) => ~ (late'[t] > 0)
      BY <3>1, <3>2
    <3> QED BY <3>2, <3>3, <3>4, WorkTasksIInv DEF Live
  <2> QED BY <2>1, <2>2
<1>4. CASE ReadChunk(t)
  <2>1. job[t] # Nothing /\ Polls(t) => late[t] = 0
    BY <1>0, <1>4, TaskTypes DEF ReadChunk, LateIsLast
  <2>2. /\ status[t] = "reading" /\ status' = [status EXCEPT ![t] = "polling"]
        /\ cancelled' = cancelled /\ chunks' = [chunks EXCEPT ![t] = @ + 1]
        /\ late' = IF cancelled[t] THEN [late EXCEPT ![t] = @ + 1] ELSE late
        /\ UNCHANGED <<job, slot, combo, results, dialogs, last>>
    BY <1>4 DEF ReadChunk
  <2>3. late' \in [Tasks -> Nat] /\ chunks' \in [Tasks -> Nat]
    BY <1>0, <2>2 DEF TasksTypeOK
  <2>4. job[t] # Nothing /\ Polls(t) /\ late'[t] > 0 => late'[t] = 1 /\ cancelled'[t]
    BY <1>0, <2>1, <2>2 DEF TasksTypeOK
  <2>5. \A u \in Tasks \ {t} : cancelled'[u] = cancelled[u] /\ late'[u] = late[u]
    BY <1>0, <2>2 DEF TasksTypeOK
  <2> QED BY <1>0, <2>2, <2>3, <2>4, <2>5, WorkTasksIInv DEF TasksTypeOK, Live
<1>5. CASE ReadEnd(t)
  BY <1>5, <1>2 DEF ReadEnd
<1> QED BY <1>1, <1>3, <1>4, <1>5 DEF Worker

LEMMA DeliverTasksIInv ==
  ASSUME TasksIInv, NEW t \in Tasks, Deliver(t)
  PROVE  TasksIInv'
<1>0. /\ TasksTypeOK /\ OnlyWorkIsCancelled /\ LateIsLast
      /\ LastIsDelivered /\ SlotIsLive /\ EnabledIsSelected
  BY DEF TasksIInv
<1>1. CASE SearchDone(t)
  <2>1. refs' \in SUBSET Ref
    BY <1>1 DEF SearchDone
  <2> QED BY <1>0, <1>1, <2>1, FinishTasksIInv DEF SearchDone, TasksTypeOK, EnabledIsSelected
<1>2. CASE MetadataDone(t)
  <2>1. job[t].ref \in Ref /\ combo \in Providers
    BY <1>0, <1>2 DEF MetadataDone, TasksTypeOK
  <2>2. [provider |-> combo, ref |-> job[t].ref] \in Dialog
    BY <2>1 DEF Dialog
  <2>3. dialogs' \in Seq(Dialog)
    BY <1>0, <1>2, <2>2 DEF MetadataDone, TasksTypeOK
  <2> QED BY <1>0, <1>2, <2>3, FinishTasksIInv DEF MetadataDone, TasksTypeOK, EnabledIsSelected, results
<1>3. CASE DownloadDone(t)
  BY <1>0, <1>3, FinishTasksIInv DEF DownloadDone, TasksTypeOK, EnabledIsSelected, results
<1> QED BY <1>1, <1>2, <1>3 DEF Deliver

\* Cancelling tells the task in the slot to stop, or ends it where it has not begun.
LEMMA CancelTasksIInv ==
  ASSUME TasksIInv, CancelBackground
  PROVE  TasksIInv'
<1>0. /\ TasksTypeOK /\ OnlyWorkIsCancelled /\ LateIsLast
      /\ LastIsDelivered /\ SlotIsLive /\ EnabledIsSelected
  BY DEF TasksIInv
<1>1. /\ active \in Tasks /\ status[active] \in Live
      /\ UNCHANGED <<job, chunks, late, slot, combo, results, dialogs, last>>
  BY <1>0 DEF CancelBackground, TasksTypeOK, SlotIsLive
<1>2. CASE status[active] = "queued"
  <2>1. /\ status' = [status EXCEPT ![active] = "failed"]
        /\ cancelled' = cancelled /\ chunks' = chunks /\ late' = late
    BY <1>1, <1>2 DEF CancelBackground
  <2>2. ~cancelled[active] /\ late[active] = 0
    BY <1>0, <1>1, <1>2 DEF OnlyWorkIsCancelled
  <2>3. PICK t \in Tasks : t = active
    BY <1>1
  <2>4. /\ cancelled' \in [Tasks -> BOOLEAN] /\ chunks' \in [Tasks -> Nat]
        /\ late' \in [Tasks -> Nat]
        /\ ~cancelled'[t] /\ late'[t] = 0
        /\ \A u \in Tasks \ {t} : cancelled'[u] = cancelled[u] /\ late'[u] = late[u]
    BY <1>0, <2>1, <2>2, <2>3 DEF TasksTypeOK
  <2>5. ~ (late'[t] > 0)
    BY <2>4
  <2>6. "failed" \in Live
    BY DEF Live, Over
  <2> QED BY <1>1, <1>2, <2>1, <2>3, <2>4, <2>5, <2>6, WorkTasksIInv
<1>3. CASE status[active] # "queued"
  <2>1. /\ status' = status /\ cancelled' = [cancelled EXCEPT ![active] = status[active] \notin Over]
        /\ job' = job /\ chunks' = chunks /\ late' = late /\ active' = active /\ shown' = shown
        /\ combo' = combo /\ refs' = refs /\ selected' = selected /\ enabled' = enabled
        /\ dialogs' = dialogs /\ last' = last
    BY <1>1, <1>3 DEF CancelBackground, slot, results
  <2>2. TasksTypeOK'
    BY <1>0, <2>1 DEF TasksTypeOK
  <2>3. OnlyWorkIsCancelled'
    BY <1>0, <1>1, <1>3, <2>1 DEF TasksTypeOK, OnlyWorkIsCancelled, Live
  <2>4. LateIsLast'
    BY <1>0, <1>1, <1>3, <2>1 DEF TasksTypeOK, LateIsLast, Polls, Over
  <2>5. LastIsDelivered' /\ SlotIsLive' /\ EnabledIsSelected'
    BY <1>0, <2>1 DEF LastIsDelivered, SlotIsLive, EnabledIsSelected
  <2> QED BY <2>2, <2>3, <2>4, <2>5 DEF TasksIInv
<1> QED BY <1>2, <1>3

LEMMA StepTasksIInv == TasksIInv /\ [BTNext]_btVars => TasksIInv'
<1> SUFFICES ASSUME TasksIInv, [BTNext]_btVars PROVE TasksIInv'
  OBVIOUS
<1>0. /\ TasksTypeOK /\ OnlyWorkIsCancelled /\ LateIsLast
      /\ LastIsDelivered /\ SlotIsLive /\ EnabledIsSelected
  BY DEF TasksIInv
<1>11. ASSUME UNCHANGED <<status, job, worker, slot, refs, last>>, combo' \in Providers,
             selected' \in Ref \cup {Nothing}, enabled' \in BOOLEAN, dialogs' \in Seq(Dialog),
             EnabledIsSelected'
      PROVE  TasksIInv'
  <2>1. /\ status' = status /\ job' = job /\ cancelled' = cancelled /\ chunks' = chunks
        /\ late' = late /\ active' = active /\ shown' = shown /\ refs' = refs /\ last' = last
    BY <1>11 DEF worker, slot
  <2>2. TasksTypeOK'
    BY <1>0, <1>11, <2>1 DEF TasksTypeOK
  <2>3. OnlyWorkIsCancelled' /\ LateIsLast' /\ LastIsDelivered' /\ SlotIsLive'
    BY <1>0, <2>1 DEF OnlyWorkIsCancelled, LateIsLast, LastIsDelivered, SlotIsLive, Polls
  <2> QED BY <1>11, <2>2, <2>3 DEF TasksIInv
<1>1. ASSUME NEW p \in Providers, ChooseProvider(p) PROVE TasksIInv'
  BY <1>0, <1>1, <1>11 DEF ChooseProvider, TasksTypeOK, EnabledIsSelected, results
<1>2. ASSUME NEW r \in refs, Select(r) PROVE TasksIInv'
  BY <1>0, <1>2, <1>11 DEF Select, TasksTypeOK, EnabledIsSelected
<1>3. ASSUME NEW t \in Tasks, Search(t) PROVE TasksIInv'
  BY <1>0, <1>3, BeginTasksIInv DEF Search, TasksTypeOK
<1>4. ASSUME NEW t \in Tasks, DownloadSelected(t) PROVE TasksIInv'
  BY <1>0, <1>4, BeginTasksIInv DEF DownloadSelected, TasksTypeOK, results
<1>5. ASSUME NEW t \in Tasks, Accept(t) PROVE TasksIInv'
  <2>1. PICK top \in Dialog : top = dialogs[Len(dialogs)]
    BY <1>0, <1>5, DialogsShrink DEF Accept
  <2>2. top.provider \in Providers /\ top.ref \in Ref
    BY DEF Dialog
  <2>3. dialogs' \in Seq(Dialog) /\ Begin(t, "download", top.provider, top.ref)
    BY <1>0, <1>5, <2>1, DialogsShrink DEF Accept
  <2> QED BY <1>5, <2>2, <2>3, BeginTasksIInv DEF Accept, results
<1>6. ASSUME NEW t \in Tasks, Worker(t) PROVE TasksIInv'
  BY <1>6, WorkerTasksIInv
<1>7. ASSUME NEW t \in Tasks, Deliver(t) PROVE TasksIInv'
  BY <1>7, DeliverTasksIInv
<1>8. CASE CancelBackground
  BY <1>8, CancelTasksIInv
<1>9. CASE Decline
  BY <1>0, <1>9, <1>11, DialogsShrink DEF Decline, TasksTypeOK, EnabledIsSelected, results
<1>10. CASE UNCHANGED btVars
  BY <1>0, <1>10, <1>11 DEF btVars, TasksTypeOK, EnabledIsSelected, results
<1> QED BY <1>1, <1>2, <1>3, <1>4, <1>5, <1>6, <1>7, <1>8, <1>9, <1>10 DEF BTNext

LEMMA TasksInvariance == BTFairSpec => []TasksIInv
BY InitTasksIInv, StepTasksIInv, PTL DEF BTFairSpec, BTSpec

\* However tasks overlap, the slot holds no task that has reported, which QGIS may have
\* deleted, and the Cancel row shows exactly while it holds one (_finish_background).
THEOREM SlotHoldsLiveTasks == BTFairSpec => []SlotIsLive
BY TasksInvariance, PTL DEF TasksIInv

\* The download button is live only for a listed, selected result that can be
\* downloaded (_on_result_selected, _on_search_done).
THEOREM ButtonFollowsSelection == BTFairSpec => []EnabledIsSelected
BY TasksInvariance, PTL DEF TasksIInv

\* A cancelled transfer reads at most the chunk it is waiting for (read_body_capped).
THEOREM CancellationIsPrompt == BTFairSpec => []CancelIsPrompt
<1>1. TasksIInv => CancelIsPrompt
  BY TaskTypes DEF TasksIInv, LateIsLast, CancelIsPrompt
<1> QED BY <1>1, TasksInvariance, PTL

\* A failed or cancelled task never runs again, and what it was to download is never
\* loaded (_on_download_done).
THEOREM FailedTasksAreOver == BTFairSpec => FailedIsOver
<1> DEFINE A == \A t \in Tasks : status[t] = "failed" =>
                  status'[t] \in {"failed", "delivered"} /\ last' # t
<1>1. TasksIInv /\ [BTNext]_btVars => [A]_btVars
  <2> SUFFICES ASSUME TasksIInv, BTNext, NEW t \in Tasks, status[t] = "failed"
               PROVE  status'[t] \in {"failed", "delivered"} /\ last' # t
    BY DEF A
  <2> USE DEF TasksIInv, TasksTypeOK
  <2>0. last # t
    BY NothingAssumption DEF LastIsDelivered
  <2>1. ASSUME NEW u \in Tasks, Search(u) \/ DownloadSelected(u) \/ Accept(u)
        PROVE  status'[t] = "failed" /\ last' = last
    BY <2>1 DEF Search, DownloadSelected, Accept, Begin
  <2>2. ASSUME NEW u \in Tasks, Worker(u) PROVE status'[t] = "failed" /\ last' = last
    BY <2>2 DEF Worker, Start, Poll, ReadChunk, ReadEnd, End
  <2>3. ASSUME NEW u \in Tasks, Deliver(u)
        PROVE  status'[t] \in {"failed", "delivered"} /\ last' # t
    BY <2>0, <2>3 DEF Deliver, SearchDone, MetadataDone, DownloadDone, Finish, Forget
  <2>4. ASSUME CancelBackground PROVE status'[t] = "failed" /\ last' = last
    BY <2>4 DEF CancelBackground
  <2>5. ASSUME \/ \E p \in Providers : ChooseProvider(p)
               \/ \E r \in refs : Select(r)
               \/ Decline
        PROVE  status'[t] = "failed" /\ last' = last
    BY <2>5 DEF ChooseProvider, Select, Decline
  <2> QED BY <2>0, <2>1, <2>2, <2>3, <2>4, <2>5 DEF BTNext
<1> HIDE DEF A
<1>2. BTFairSpec => [][A]_btVars
  BY <1>1, TasksInvariance, PTL DEF BTFairSpec, BTSpec
<1> QED BY <1>2 DEF FailedIsOver, A

================================================================================
