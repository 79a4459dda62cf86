--------------------------- MODULE AcquisitionProofs ---------------------------
(***************************************************************************)
(* Acquisition: for any threads, queries, answers, archives, gap and       *)
(* limits, tool calls never report a cached failure, files stay within the *)
(* caps whichever step fails, ways keep their points, and a download       *)
(* fetches the query that was searched.                                    *)
(***************************************************************************)
EXTENDS Acquisition, WellFoundedInduction, SequenceTheorems, TLAPS

IInv ==
  /\ \A c \in Clients : DOMAIN adapter[c] = {"wait", "cache"}
  /\ DOMAIN adapter = Clients
  /\ DOMAIN task = Clients
  /\ DOMAIN result = Clients

-------------------------------------------------------------------------------

LEMMA InitIInv == Init => IInv
BY DEF Init, IInv, Fresh

\* Operations of one client that leave the adapters alone.
LEMMA QuietIInv ==
  ASSUME IInv, DOMAIN task' = DOMAIN task, DOMAIN result' = DOMAIN result, adapter' = adapter
  PROVE  IInv'
BY DEF IInv

LEMMA TaskShape ==
  ASSUME NEW c, NEW r, NEW file, NEW stage, NEW accepted \in BOOLEAN,
         \/ Begin(c, stage) \/ Return(c, r, file) \/ Checked(c, accepted, stage)
  PROVE  DOMAIN task' = DOMAIN task /\ DOMAIN result' = DOMAIN result
BY DEF Begin, Return, Checked

\* The adapter of a call: a new one, or the one its thread keeps.
LEMMA AdapterIInv ==
  ASSUME IInv, NEW c \in Clients, adapter' = [adapter EXCEPT ![c] = Adapter(c)],
         DOMAIN task' = DOMAIN task, DOMAIN result' = DOMAIN result
  PROVE  IInv'
<1>1. DOMAIN Adapter(c) = {"wait", "cache"}
  BY DEF Adapter, Fresh, IInv
<1>2. \A d \in Clients : adapter'[d] = IF d = c THEN Adapter(c) ELSE adapter[d]
  BY DEF IInv
<1> QED BY <1>1, <1>2 DEF IInv

LEMMA StepIInv == IInv /\ [Next]_vars => IInv'
<1> SUFFICES ASSUME IInv, [Next]_vars PROVE IInv'
  OBVIOUS
<1>1. CASE Tick
  <2>1. \A c \in Clients : adapter'[c] = [adapter[c] EXCEPT !.wait = Less(@)]
    BY <1>1 DEF Tick
  <2>2. \A c \in Clients : DOMAIN adapter'[c] = {"wait", "cache"}
    BY <2>1 DEF IInv
  <2> QED BY <1>1, <2>2 DEF Tick, IInv
<1>2. ASSUME NEW c \in Clients, LookupInvalid(c) PROVE IInv'
  BY <1>2, AdapterIInv, TaskShape DEF LookupInvalid, Checked, Return
<1>3. ASSUME NEW c \in Clients, Throttle(c) PROVE IInv'
  <2>1. /\ \A d \in Clients : adapter'[d] = IF d = c THEN [adapter[c] EXCEPT !.wait = Gap] ELSE adapter[d]
        /\ DOMAIN adapter'[c] = {"wait", "cache"}
    BY <1>3 DEF Throttle, IInv
  <2> QED BY <1>3, <2>1 DEF Throttle, IInv
<1>4. ASSUME NEW c \in Clients, LookupDone(c) PROVE IInv'
  <2>1. PICK new : adapter' = [adapter EXCEPT ![c].cache = new]
    BY <1>4 DEF LookupDone
  <2>2. /\ \A d \in Clients : adapter'[d] = IF d = c THEN [adapter[c] EXCEPT !.cache = new] ELSE adapter[d]
        /\ DOMAIN adapter'[c] = {"wait", "cache"}
    BY <2>1 DEF IInv
  <2>3. DOMAIN task' = DOMAIN task /\ DOMAIN result' = DOMAIN result
    BY <1>4 DEF LookupDone, Return
  <2> QED BY <2>1, <2>2, <2>3 DEF IInv
<1>5. ASSUME NEW c \in Clients, NEW place \in Places, Lookup(c, place) PROVE IInv'
  BY <1>5, AdapterIInv DEF Lookup, Begin
<1>6. ASSUME NEW c \in Clients, NEW place \in Places, LookupCached(c, place) PROVE IInv'
  BY <1>6, AdapterIInv DEF LookupCached, Return
<1>7. ASSUME NEW c \in Handlers, NEW q \in Queries, Tags(c, q) PROVE IInv'
  BY <1>7, QuietIInv DEF Tags, Checked, Begin, Return
<1>8. ASSUME NEW c \in Handlers, TagsDone(c) PROVE IInv'
  BY <1>8, QuietIInv DEF TagsDone, Return
<1>9. ASSUME NEW c \in Handlers, Refetch(c) PROVE IInv'
  BY <1>9, QuietIInv DEF Refetch, Checked, Begin, Return
<1>10. ASSUME NEW c \in Handlers, RefetchDone(c) PROVE IInv'
  BY <1>10, QuietIInv DEF RefetchDone, Return
<1>11. ASSUME NEW c \in Handlers, NEW item \in Items, AssetHref(c, item) PROVE IInv'
  BY <1>11, QuietIInv DEF AssetHref, Checked, Begin, Return
<1>12. ASSUME NEW c \in Handlers, NEW bytes \in Bodies, Body(c, bytes) PROVE IInv'
  BY <1>12, QuietIInv DEF Body, Return
<1>13. ASSUME NEW c \in Handlers, FetchFails(c) PROVE IInv'
  BY <1>13, QuietIInv DEF FetchFails, Return
<1>14. ASSUME NEW c \in Keepers, NEW archive \in Archives, Extract(c, archive) PROVE IInv'
  BY <1>14, QuietIInv DEF Extract, Return
<1>15. CASE UNCHANGED vars
  BY <1>15, QuietIInv DEF vars
<1> QED BY <1>1, <1>2, <1>3, <1>4, <1>5, <1>6, <1>7, <1>8, <1>9, <1>10, <1>11, <1>12, <1>13, <1>14, <1>15 DEF Next

LEMMA Invariance == Spec => []IInv
BY InitIInv, StepIInv, PTL DEF Spec

-------------------------------------------------------------------------------

\* A failure a tool call reports is its own: it was refused at once, or under way before.
\* Its adapter is new (registry.py:48-53), so that the failures osm.py:441 caches are
\* never another call's.
THEOREM FailuresAreFresh == Spec => NoStaleFailure
<1> DEFINE Own == \A c \in Handlers : result'[c] # result[c] /\ ~result'[c].ok => task[c] # Idle \/ result'[c] = Refused
<1>1. IInv /\ [Next]_vars => [Own]_vars
  <2> SUFFICES ASSUME IInv, Next, NEW c \in Handlers, result'[c] # result[c], task[c] = Idle
               PROVE  result'[c] = Refused
    OBVIOUS
  <2>1. c \in Clients /\ c \notin Keepers /\ c \in DOMAIN result
    BY ThreadsAssumption DEF Clients, IInv
  <2>2. ASSUME NEW d, NEW stage, NEW accepted \in BOOLEAN, Begin(d, stage) \/ Checked(d, accepted, stage)
        PROVE  result'[c] = Refused
    BY <2>1, <2>2 DEF Begin, Return, Checked
  <2>3. ASSUME NEW d, NEW r, NEW file, Return(d, r, file), task[d] # Idle PROVE FALSE
    BY <2>3 DEF Return
  <2>4. CASE Tick
    BY <2>4 DEF Tick
  <2>5. ASSUME NEW d \in Clients, LookupInvalid(d) \/ Throttle(d) \/ LookupDone(d) PROVE result'[c] = Refused
    <3>1. CASE LookupInvalid(d)
      BY <2>2, <3>1 DEF LookupInvalid
    <3>2. CASE Throttle(d)
      BY <3>2 DEF Throttle
    <3>3. CASE LookupDone(d)
      <4>1. task[d] # Idle /\ \E r : Return(d, r, None)
        BY <3>3 DEF LookupDone, Idle
      <4> QED BY <2>3, <4>1
    <3> QED BY <2>5, <3>1, <3>2, <3>3
  <2>6. ASSUME NEW d \in Clients, NEW place \in Places, Lookup(d, place) PROVE result'[c] = Refused
    BY <2>2, <2>6 DEF Lookup
  <2>7. ASSUME NEW d \in Clients, NEW place \in Places, LookupCached(d, place) PROVE FALSE
    <3>1. d = c
      BY <2>7 DEF LookupCached, Return
    <3>2. DOMAIN Adapter(c).cache = {}
      BY DEF Adapter, Fresh
    <3> QED BY <2>7, <3>1, <3>2 DEF LookupCached
  <2>8. ASSUME NEW d \in Handlers,
               \/ \E q \in Queries : Tags(d, q)
               \/ Refetch(d)
               \/ \E item \in Items : AssetHref(d, item)
        PROVE  result'[c] = Refused
    <3>1. \A q \in Queries : QueryBuilt(q.tags, q.box) \in BOOLEAN
      BY DEF QueryBuilt
    <3>2. \A item \in Items : AssetAccepted(item, MaxBytes) \in BOOLEAN
      BY DEF AssetAccepted
    <3> QED BY <2>1, <2>8 DEF Tags, Refetch, AssetHref, Checked, Begin, Return
  <2>9. ASSUME NEW d \in Handlers,
               TagsDone(d) \/ RefetchDone(d) \/ (\E bytes \in Bodies : Body(d, bytes)) \/ FetchFails(d)
        PROVE  FALSE
    <3>1. task[d] # Idle
      BY <2>9 DEF TagsDone, RefetchDone, Body, FetchFails, Idle
    <3>2. \E r, file : Return(d, r, file)
      <4>1. CASE TagsDone(d)
        BY <4>1 DEF TagsDone
      <4>2. CASE RefetchDone(d)
        BY <4>2 DEF RefetchDone
      <4>3. CASE \E bytes \in Bodies : Body(d, bytes)
        BY <4>3 DEF Body
      <4>4. CASE FetchFails(d)
        BY <4>4 DEF FetchFails
      <4> QED BY <2>9, <4>1, <4>2, <4>3, <4>4
    <3> QED BY <2>3, <3>1, <3>2
  <2>10. ASSUME NEW d \in Keepers, NEW archive \in Archives, Extract(d, archive) PROVE FALSE
    <3>1. result'[c] = result[c]
      BY <2>1, <2>10 DEF Extract, Return
    <3> QED BY <3>1
  <2> QED BY <2>4, <2>5, <2>6, <2>7, <2>8, <2>9, <2>10 DEF Next
<1> QED BY Invariance, <1>1, PTL DEF Spec, NoStaleFailure

-------------------------------------------------------------------------------
(* Sums and lines, by induction over their length                            *)

LEMMA LeastNatural ==
  ASSUME NEW T \in SUBSET Nat, T # {}
  PROVE  \E n \in T : \A m \in T : n <= m
<1> DEFINE R == OpToRel(<, Nat)
<1>1. IsWellFoundedOn(R, Nat)
  BY NatLessThanWellFounded
<1>2. \A m, n \in Nat : m < n => <<m, n>> \in R
  BY DEF OpToRel
<1> HIDE DEF R
<1>3. PICK x \in T : \A y \in T : ~ (<<y, x>> \in R)
  BY <1>1, WFMin
<1>4. ASSUME NEW y \in T PROVE x <= y
  <2>1. x \in Nat /\ y \in Nat /\ ~(<<y, x>> \in R)
    BY <1>3
  <2>2. ~(y < x)
    BY <1>2, <2>1
  <2> QED BY <2>1, <2>2
<1> QED BY <1>3, <1>4

\* Induction over the elements of a set instead of an operator.
LEMMA SetInduction ==
  ASSUME NEW T, 0 \in T, \A n \in Nat : n \in T => n + 1 \in T
  PROVE  Nat \subseteq T
<1> SUFFICES ASSUME Nat \ T # {} PROVE FALSE
  OBVIOUS
<1>1. PICK n \in Nat \ T : \A m \in Nat \ T : n <= m
  BY LeastNatural
<1>2. PICK p \in Nat : p + 1 = n
  <2>1. n # 0 /\ n - 1 \in Nat /\ (n - 1) + 1 = n
    BY <1>1
  <2> QED BY <2>1
<1>3. p \in T
  BY <1>1, <1>2
<1>4. p + 1 \in T
  BY <1>3
<1> QED BY <1>1, <1>2, <1>4

\* The partial sums of a sequence, of the first m of its elements and of all.
PartialSums(f, m, sizes) ==
  /\ f \in [0 .. m -> Nat]
  /\ f[0] = 0
  /\ \A i \in 1 .. m : f[i] = f[i - 1] + sizes[i]

Sums(f, sizes) == PartialSums(f, Len(sizes), sizes)

LEMMA TotalIsLastSum ==
  ASSUME NEW sizes \in Seq(Nat)
  PROVE  \E f : Sums(f, sizes) /\ Total(sizes) = f[Len(sizes)]
<1> DEFINE n == Len(sizes)
           T == {m \in Nat : m <= n => \E f : PartialSums(f, m, sizes)}
<1>1. n \in Nat /\ \A i \in 1 .. n : sizes[i] \in Nat
  OBVIOUS
<1> HIDE DEF n
<1>2. 0 \in T
  <2>1. PICK f : f = [i \in 0 .. 0 |-> 0]
    OBVIOUS
  <2>2. PartialSums(f, 0, sizes)
    BY <2>1 DEF PartialSums
  <2> QED BY <2>2
<1>3. ASSUME NEW m \in Nat, m \in T PROVE m + 1 \in T
  <2> SUFFICES ASSUME m + 1 <= n
               PROVE  \E f : PartialSums(f, m + 1, sizes)
    OBVIOUS
  <2>0. PICK f : PartialSums(f, m, sizes)
    BY <1>1, <1>3
  <2>1. f \in [0 .. m -> Nat] /\ f[0] = 0 /\ \A i \in 1 .. m : f[i] = f[i - 1] + sizes[i]
    BY <2>0 DEF PartialSums
  <2>2. PICK g : g = [i \in 0 .. m + 1 |-> IF i = m + 1 THEN f[m] + sizes[m + 1] ELSE f[i]]
    OBVIOUS
  <2>3. f[m] + sizes[m + 1] \in Nat
    BY <1>1, <2>1
  <2>4. g \in [0 .. m + 1 -> Nat]
    BY <2>1, <2>2, <2>3
  <2>5. g[0] = 0
    BY <2>1, <2>2
  <2>6. ASSUME NEW i \in 1 .. m + 1 PROVE g[i] = g[i - 1] + sizes[i]
    <3>1. CASE i = m + 1
      BY <2>2, <3>1
    <3>2. CASE i # m + 1
      BY <2>1, <2>2, <3>2
    <3> QED BY <3>1, <3>2
  <2> QED BY <2>4, <2>5, <2>6 DEF PartialSums
<1>4. n \in T
  <2> HIDE DEF T
  <2>1. Nat \subseteq T
    BY <1>2, <1>3, SetInduction
  <2> QED BY <1>1, <2>1
<1>5. PICK f : f \in [0 .. n -> Nat] /\ f[0] = 0 /\ \A i \in 1 .. n : f[i] = f[i - 1] + sizes[i]
  BY <1>1, <1>4 DEF PartialSums
<1> DEFINE sum == CHOOSE g : g = [i \in 0 .. n |-> IF i = 0 THEN 0 ELSE g[i - 1] + sizes[i]]
<1>6. Total(sizes) = sum[n]
  BY DEF Total, n
<1>7. f = [i \in 0 .. n |-> IF i = 0 THEN 0 ELSE f[i - 1] + sizes[i]]
  BY <1>1, <1>5
<1>8. sum = [i \in 0 .. n |-> IF i = 0 THEN 0 ELSE sum[i - 1] + sizes[i]]
  BY <1>7
<1> HIDE DEF sum
<1>9. \A i \in 0 .. n : sum[i] = f[i]
  <2> DEFINE U == {m \in Nat : m <= n => sum[m] = f[m]}
  <2>1. 0 \in U
    BY <1>1, <1>5, <1>8
  <2>2. ASSUME NEW m \in Nat, m \in U PROVE m + 1 \in U
    <3> SUFFICES ASSUME m + 1 <= n PROVE sum[m + 1] = f[m + 1]
      OBVIOUS
    <3>1. sum[m + 1] = sum[m] + sizes[m + 1]
      BY <1>1, <1>8
    <3>2. f[m + 1] = f[m] + sizes[m + 1]
      BY <1>1, <1>5
    <3> QED BY <1>1, <2>2, <3>1, <3>2
  <2> HIDE DEF U
  <2>3. Nat \subseteq U
    BY <2>1, <2>2, SetInduction
  <2> QED BY <1>1, <2>3 DEF U
<1> QED BY <1>1, <1>5, <1>6, <1>9 DEF Sums, PartialSums, n

\* Sums of fewer and smaller sizes are smaller.
LEMMA SumsCompare ==
  ASSUME NEW a \in Seq(Nat), NEW b \in Seq(Nat), Len(a) <= Len(b),
         \A i \in 1 .. Len(a) : a[i] <= b[i],
         NEW f, NEW g, Sums(f, a), Sums(g, b)
  PROVE  \A i \in 0 .. Len(a) : f[i] <= g[i]
<1> DEFINE T == {m \in Nat : m <= Len(a) => f[m] <= g[m]}
<1>1. Len(a) \in Nat /\ Len(b) \in Nat
  OBVIOUS
<1>2. 0 \in T
  BY DEF Sums, PartialSums
<1>3. ASSUME NEW m \in Nat, m \in T PROVE m + 1 \in T
  <2> SUFFICES ASSUME m + 1 <= Len(a) PROVE f[m + 1] <= g[m + 1]
    OBVIOUS
  <2>1. f[m + 1] = f[m] + a[m + 1] /\ g[m + 1] = g[m] + b[m + 1]
    BY <1>1 DEF Sums, PartialSums
  <2>2. f[m] \in Nat /\ g[m] \in Nat
    <3>1. m \in 0 .. Len(a) /\ m \in 0 .. Len(b)
      BY <1>1
    <3> QED BY <3>1 DEF Sums, PartialSums
  <2>3. m + 1 \in 1 .. Len(a) /\ m + 1 \in 1 .. Len(b)
    BY <1>1
  <2>4. a[m + 1] \in Nat /\ b[m + 1] \in Nat /\ a[m + 1] <= b[m + 1]
    BY <2>3
  <2>5. f[m] <= g[m]
    BY <1>1, <1>3
  <2>6. \A x, y, u, v \in Nat : x <= y /\ u <= v => x + u <= y + v
    OBVIOUS
  <2>7. f[m] + a[m + 1] <= g[m] + b[m + 1]
    BY <2>2, <2>4, <2>5, <2>6
  <2> QED BY <2>1, <2>7
<1> HIDE DEF T
<1>4. Nat \subseteq T
  BY <1>2, <1>3, SetInduction
<1> QED BY <1>1, <1>4 DEF T

LEMMA SumsAscend ==
  ASSUME NEW a \in Seq(Nat), NEW f, Sums(f, a), NEW i \in 0 .. Len(a)
  PROVE  f[i] <= f[Len(a)]
<1> DEFINE n == Len(a)
           T == {m \in Nat : m <= n => f[n - m] <= f[n]}
<1>1. n \in Nat /\ \A m \in 1 .. n : a[m] \in Nat
  OBVIOUS
<1>2. f \in [0 .. n -> Nat] /\ \A m \in 1 .. n : f[m] = f[m - 1] + a[m]
  BY DEF Sums, PartialSums
<1> HIDE DEF n
<1>3. 0 \in T
  BY <1>1, <1>2
<1>4. ASSUME NEW m \in Nat, m \in T PROVE m + 1 \in T
  <2> SUFFICES ASSUME m + 1 <= n PROVE f[n - (m + 1)] <= f[n]
    OBVIOUS
  <2>1. PICK k \in 1 .. n : k = n - m /\ n - (m + 1) = k - 1
    BY <1>1
  <2>2. f[k] = f[k - 1] + a[k] /\ f[k] <= f[n]
    BY <1>1, <1>2, <1>4, <2>1
  <2>3. f[k - 1] \in Nat /\ a[k] \in Nat /\ f[k] \in Nat /\ f[n] \in Nat
    BY <1>1, <1>2
  <2> QED BY <2>1, <2>2, <2>3
<1> HIDE DEF T
<1>5. Nat \subseteq T
  BY <1>3, <1>4, SetInduction
<1>6. n - i \in Nat /\ n - i <= n /\ n - (n - i) = i
  BY <1>1 DEF n
<1>7. n - i \in T
  BY <1>5, <1>6
<1> QED BY <1>6, <1>7 DEF T, n

\* What an extraction has written whenever it ends is at most what the plan counted.
LEMMA ExtractedWithinPlan ==
  ASSUME NEW members \in Archives, ArchiveAccepted(members, MaxMembers, MaxUnpacked, MaxRatio),
         NEW done \in 0 .. Len(members),
         NEW whole, whole = Total([i \in 1 .. done |-> Written(members[i])])
  PROVE  /\ whole \in Nat /\ whole <= MaxUnpacked
         /\ done < Len(members) => \A part \in 0 .. Written(members[done + 1]) : whole + part <= MaxUnpacked
<1> DEFINE n == Len(members)
           a == [i \in 1 .. done |-> Written(members[i])]
           b == [i \in 1 .. n |-> members[i].declared]
<1>1. /\ n \in Nat /\ DOMAIN members = 1 .. n
      /\ \A i \in 1 .. n : members[i].declared \in Nat /\ members[i].real \in Nat
  BY SizesAssumption
<1>2. \A i \in 1 .. n : Written(members[i]) \in Nat /\ Written(members[i]) <= members[i].declared
  BY <1>1 DEF Written
<1>3. done \in Nat /\ done <= n
  BY <1>1
<1>4. Total(b) <= MaxUnpacked
  BY <1>1 DEF ArchiveAccepted
<1> HIDE DEF n
<1>5. a \in Seq(Nat) /\ Len(a) = done /\ \A i \in 1 .. done : a[i] = Written(members[i])
  <2>1. ASSUME NEW i \in 1 .. done PROVE Written(members[i]) \in Nat
    <3>1. i \in 1 .. n
      BY <1>1, <1>3
    <3> QED BY <1>2, <3>1
  <2> QED BY <1>3, <2>1
<1>6. b \in Seq(Nat) /\ Len(b) = n /\ \A i \in 1 .. n : b[i] = members[i].declared
  BY <1>1
<1>7. whole = Total(a)
  OBVIOUS
<1> HIDE DEF a, b
<1>8. PICK f : Sums(f, a) /\ Total(a) = f[done]
  BY <1>5, TotalIsLastSum
<1>9. PICK g : Sums(g, b) /\ Total(b) = g[n]
  BY <1>6, TotalIsLastSum
<1>10. f[done] <= g[done]
  <2>1. Len(a) <= Len(b) /\ \A i \in 1 .. Len(a) : a[i] <= b[i]
    BY <1>2, <1>3, <1>5, <1>6
  <2>2. \A i \in 0 .. Len(a) : f[i] <= g[i]
    BY <1>5, <1>6, <1>8, <1>9, <2>1, SumsCompare
  <2> QED BY <1>3, <1>5, <2>2
<1>11. \A i \in 0 .. n : g[i] \in Nat /\ g[i] <= g[n]
  <2>1. \A i \in 0 .. n : g[i] <= g[n]
    BY <1>6, <1>9, SumsAscend
  <2> QED BY <1>6, <1>9, <2>1 DEF Sums, PartialSums
<1>12. f[done] \in Nat /\ MaxUnpacked \in Nat
  BY <1>3, <1>5, <1>8, SizesAssumption DEF Sums, PartialSums
<1>13. whole \in Nat /\ whole <= MaxUnpacked
  <2>1. g[done] <= g[n] /\ g[done] \in Nat /\ g[n] \in Nat
    BY <1>1, <1>3, <1>11
  <2> QED BY <1>4, <1>7, <1>8, <1>9, <1>10, <1>12, <2>1
<1>14. ASSUME done < n, NEW part \in 0 .. Written(members[done + 1]) PROVE whole + part <= MaxUnpacked
  <2>1. done + 1 \in 1 .. n /\ (done + 1) - 1 = done
    BY <1>1, <1>3, <1>14
  <2>2. g[done + 1] = g[done] + b[done + 1]
    BY <1>6, <1>9, <2>1 DEF Sums, PartialSums
  <2>3. b[done + 1] \in Nat /\ Written(members[done + 1]) \in Nat /\ Written(members[done + 1]) <= b[done + 1]
    BY <1>1, <1>2, <1>6, <2>1
  <2>4. part \in Nat /\ part <= b[done + 1]
    BY <2>3
  <2>5. g[done] \in Nat /\ g[done + 1] \in Nat /\ g[done + 1] <= g[n] /\ g[n] \in Nat
    BY <1>1, <1>3, <1>11, <2>1
  <2> QED BY <1>4, <1>7, <1>8, <1>9, <1>10, <1>12, <2>2, <2>3, <2>4, <2>5
<1> QED BY <1>13, <1>14 DEF n

\* References that are all among the nodes all stay.
LEMMA AllKnown ==
  ASSUME NEW S, NEW refs \in Seq(S), NEW nodes, \A k \in 1 .. Len(refs) : refs[k] \in nodes
  PROVE  Known(refs, nodes) = refs
<1> DEFINE n == Len(refs)
           body(g, k) == IF k = 0 THEN <<>>
                         ELSE IF refs[k] \in nodes THEN Append(g[k - 1], refs[k]) ELSE g[k - 1]
           first == [k \in 0 .. n |-> [i \in 1 .. k |-> refs[i]]]
           line == CHOOSE g : g = [k \in 0 .. n |-> body(g, k)]
<1>1. Known(refs, nodes) = line[n]
  BY DEF Known
<1>2. n \in Nat /\ refs = [i \in 1 .. n |-> refs[i]] /\ \A i \in 1 .. n : refs[i] \in S
  OBVIOUS
<1> HIDE DEF n
<1>3. \A k \in 0 .. n : first[k] = [i \in 1 .. k |-> refs[i]]
  OBVIOUS
<1>4. ASSUME NEW k \in 0 .. n
      PROVE  \E short \in Seq(S) : short = first[k] /\ Len(short) = k /\ \A i \in 1 .. k : short[i] = refs[i]
  <2>1. k \in Nat /\ \A i \in 1 .. k : refs[i] \in S
    <3>1. k \in Nat /\ \A i \in 1 .. k : i \in 1 .. n
      BY <1>2
    <3> QED BY <1>2, <3>1
  <2>2. PICK short : short = [i \in 1 .. k |-> refs[i]]
    OBVIOUS
  <2>3. short \in Seq(S) /\ Len(short) = k /\ \A i \in 1 .. k : short[i] = refs[i]
    BY <2>1, <2>2
  <2>4. first[k] = short
    BY <1>3, <2>2
  <2> HIDE DEF first
  <2> QED BY <2>3, <2>4
<1>5. ASSUME NEW k \in 0 .. n PROVE first[k] = body(first, k)
  <2>1. CASE k = 0
    <3>1. first[k] = [i \in 1 .. 0 |-> refs[i]] /\ 1 .. 0 = {}
      BY <1>3, <2>1
    <3>2. [i \in 1 .. 0 |-> refs[i]] = <<>>
      BY <3>1
    <3> QED BY <2>1, <3>1, <3>2
  <2>2. CASE k # 0
    <3>1. k - 1 \in 0 .. n /\ k \in 1 .. n /\ refs[k] \in nodes
      BY <1>2, <2>2 DEF n
    <3>2. body(first, k) = Append(first[k - 1], refs[k])
      BY <2>2, <3>1
    <3>3. PICK short \in Seq(S) : /\ short = first[k - 1] /\ Len(short) = k - 1
                                 /\ \A i \in 1 .. k - 1 : short[i] = refs[i]
      BY <1>4, <3>1
    <3>4. /\ Append(short, refs[k]) \in Seq(S) /\ Len(Append(short, refs[k])) = k
          /\ \A i \in 1 .. k : Append(short, refs[k])[i] = refs[i]
      BY <1>2, <3>1, <3>3
    <3>5. Append(short, refs[k]) = [i \in 1 .. k |-> refs[i]]
      BY <3>4
    <3> HIDE DEF first, body
    <3> QED BY <1>3, <3>2, <3>3, <3>5
  <2> QED BY <2>1, <2>2
<1>6. first = [k \in 0 .. n |-> body(first, k)]
  BY <1>5
<1>7. line = [k \in 0 .. n |-> body(line, k)]
  <2> HIDE DEF first, body
  <2> QED BY <1>6
<1> HIDE DEF first, line
<1>8. \A k \in 0 .. n : line[k] = first[k]
  <2> DEFINE T == {m \in Nat : m <= n => line[m] = first[m]}
  <2>1. 0 \in T
    BY <1>2, <1>5, <1>7
  <2>2. ASSUME NEW m \in Nat, m \in T PROVE m + 1 \in T
    <3> SUFFICES ASSUME m + 1 <= n PROVE line[m + 1] = first[m + 1]
      OBVIOUS
    <3>1. line[m] = first[m] /\ m + 1 \in 0 .. n /\ (m + 1) - 1 = m /\ m + 1 # 0
      BY <1>2, <2>2
    <3>2. line[m + 1] = body(line, m + 1) /\ first[m + 1] = body(first, m + 1)
      BY <1>5, <1>7, <3>1
    <3> QED BY <3>1, <3>2
  <2> HIDE DEF T
  <2>3. Nat \subseteq T
    BY <2>1, <2>2, SetInduction
  <2> QED BY <1>2, <2>3 DEF T
<1>9. n \in 0 .. n
  BY <1>2
<1>10. line[n] = first[n]
  BY <1>8, <1>9
<1>11. first[n] = [i \in 1 .. n |-> refs[i]]
  BY <1>3, <1>9
<1> QED BY <1>1, <1>2, <1>10, <1>11
-------------------------------------------------------------------------------
(* What is on disk                                                           *)

\* The ways of a file are those of its answer, if the answer has their nodes.
Whole(file) ==
  \A i \in DOMAIN file.from :
    LET elements == file.from
        features == file.features
        refs == elements[i].refs
    IN /\ elements[i].kind = "way" /\ elements[i].ok /\ elements[i].inline = <<>>
       /\ \A k \in DOMAIN refs : \E n \in DOMAIN elements :
            elements[n].kind = "node" /\ elements[n].ok /\ elements[n].id = refs[k]
       => IF Len(refs) >= 2 THEN i \in DOMAIN features /\ features[i].line = refs
          ELSE i \notin DOMAIN features

Kept(file) == file # None => file.bytes <= file.cap /\ Whole(file)

FilesIInv ==
  /\ DOMAIN saved = Clients
  /\ \A c \in Clients : Kept(saved[c])

LEMMA BytesAreKept ==
  ASSUME NEW bytes, NEW cap, bytes <= cap
  PROVE  Kept(File(bytes, cap))
BY DEF Kept, Whole, File

LEMMA ConvertedIsWhole ==
  ASSUME NEW answer \in Answers
  PROVE  Kept([from |-> answer, features |-> Converted(answer), bytes |-> 0, cap |-> 0])
<1> DEFINE file == [from |-> answer, features |-> Converted(answer), bytes |-> 0, cap |-> 0]
           kept == {i \in DOMAIN answer :
                      /\ answer[i].ok
                      /\ \/ answer[i].kind = "node"
                         \/ answer[i].kind = "way" /\ Len(LineOf(answer, i)) >= 2}
<1>1. file.from = answer /\ file.features = Converted(answer) /\ file.bytes = 0 /\ file.cap = 0
  OBVIOUS
<1>2. DOMAIN Converted(answer) = kept /\ \A i \in kept : Converted(answer)[i] = Feature(answer, i)
  BY DEF Converted
<1>3. ASSUME NEW i \in DOMAIN answer, answer[i].kind = "way", answer[i].ok, answer[i].inline = <<>>,
             \A k \in DOMAIN answer[i].refs : \E n \in DOMAIN answer :
               answer[n].kind = "node" /\ answer[n].ok /\ answer[n].id = answer[i].refs[k]
      PROVE  LineOf(answer, i) = answer[i].refs
  <2>1. PICK refs \in Seq(ToSet(answer[i].refs)) : refs = answer[i].refs
    BY AnswersAssumption
  <2>2. PICK nodes : nodes = NodesFor(answer, i)
    OBVIOUS
  <2>3. \A k \in 1 .. Len(refs) : refs[k] \in nodes
    BY <1>3, <2>1, <2>2 DEF NodesFor
  <2>4. Known(refs, nodes) = refs
    BY <2>3, AllKnown
  <2> QED BY <1>3, <2>1, <2>2, <2>4 DEF LineOf
<1> HIDE DEF file
<1>4. ASSUME NEW i \in DOMAIN answer, answer[i].kind = "way", answer[i].ok, answer[i].inline = <<>>,
             \A k \in DOMAIN answer[i].refs : \E n \in DOMAIN answer :
               answer[n].kind = "node" /\ answer[n].ok /\ answer[n].id = answer[i].refs[k]
      PROVE  IF Len(answer[i].refs) >= 2
             THEN i \in DOMAIN Converted(answer) /\ Converted(answer)[i].line = answer[i].refs
             ELSE i \notin DOMAIN Converted(answer)
  <2>1. LineOf(answer, i) = answer[i].refs
    BY <1>3, <1>4
  <2>2. i \in kept <=> Len(answer[i].refs) >= 2
    BY <1>4, <2>1
  <2>3. Feature(answer, i).line = answer[i].refs
    BY <1>4, <2>1 DEF Feature
  <2> HIDE DEF kept
  <2> QED BY <1>2, <2>2, <2>3
<1>5. Whole(file)
  BY <1>1, <1>4 DEF Whole
<1> QED BY <1>1, <1>5 DEF Kept, file

\* One client's file is replaced by none or by one that is kept.
LEMMA SaveKeeps ==
  ASSUME FilesIInv, NEW c, NEW file, Kept(file), saved' = [saved EXCEPT ![c] = file]
  PROVE  FilesIInv'
<1>1. DOMAIN saved' = Clients /\ \A d \in Clients : saved'[d] = saved[d] \/ saved'[d] = file
  BY DEF FilesIInv
<1>2. ASSUME NEW d \in Clients PROVE Kept(saved[d])'
  <2>1. Kept(saved[d]) /\ (saved'[d] = saved[d] \/ saved'[d] = file)
    BY <1>1 DEF FilesIInv
  <2> QED BY <2>1 DEF Kept, Whole
<1> QED BY <1>1, <1>2 DEF FilesIInv

LEMMA NothingSaved ==
  ASSUME FilesIInv, NEW c, NEW r, NEW stage, NEW accepted \in BOOLEAN,
         Begin(c, stage) \/ Return(c, r, None) \/ Checked(c, accepted, stage)
  PROVE  FilesIInv'
<1>1. Kept(None)
  BY DEF Kept
<1>2. saved' = [saved EXCEPT ![c] = None]
  BY DEF Begin, Return, Checked
<1> QED BY <1>1, <1>2, SaveKeeps

LEMMA StepFilesIInv == FilesIInv /\ [Next]_vars => FilesIInv'
<1> SUFFICES ASSUME FilesIInv, [Next]_vars PROVE FilesIInv'
  OBVIOUS
<1>1. CASE Tick \/ (\E c \in Clients : Throttle(c)) \/ UNCHANGED vars
  <2>1. saved' = saved
    BY <1>1 DEF Tick, Throttle, vars
  <2> QED BY <2>1 DEF FilesIInv
<1>2. ASSUME NEW c \in Clients, LookupInvalid(c) PROVE FilesIInv'
  BY <1>2, NothingSaved DEF LookupInvalid
<1>3. ASSUME NEW c \in Clients, LookupDone(c) PROVE FilesIInv'
  <2>1. \E r : Return(c, r, None)
    BY <1>3 DEF LookupDone
  <2> QED BY <2>1, NothingSaved
<1>4. ASSUME NEW c \in Clients, NEW place \in Places, Lookup(c, place) PROVE FilesIInv'
  BY <1>4, NothingSaved DEF Lookup
<1>5. ASSUME NEW c \in Clients, NEW place \in Places, LookupCached(c, place) PROVE FilesIInv'
  BY <1>5, NothingSaved DEF LookupCached
<1>6. ASSUME NEW c \in Handlers,
             \/ \E q \in Queries : Tags(c, q)
             \/ Refetch(c)
             \/ \E item \in Items : AssetHref(c, item)
      PROVE  FilesIInv'
  <2>1. \E accepted \in BOOLEAN : \E stage : Checked(c, accepted, stage)
    <3>1. CASE \E q \in Queries : Tags(c, q)
      <4>1. PICK q \in Queries : Tags(c, q)
        BY <3>1
      <4>2. QueryBuilt(q.tags, q.box) \in BOOLEAN
        BY DEF QueryBuilt
      <4> QED BY <4>1, <4>2 DEF Tags
    <3>2. CASE Refetch(c)
      <4>1. PICK query : Checked(c, QueryBuilt(query.tags, query.box),
                                 [at |-> "refetch", query |-> query, searched |-> result[c].of])
        BY <3>2 DEF Refetch
      <4>2. QueryBuilt(query.tags, query.box) \in BOOLEAN
        BY DEF QueryBuilt
      <4> QED BY <4>1, <4>2
    <3>3. CASE \E item \in Items : AssetHref(c, item)
      <4>1. PICK item \in Items : AssetHref(c, item)
        BY <3>3
      <4>2. AssetAccepted(item, MaxBytes) \in BOOLEAN
        BY DEF AssetAccepted
      <4> QED BY <4>1, <4>2 DEF AssetHref
    <3> QED BY <1>6, <3>1, <3>2, <3>3
  <2> QED BY <2>1, NothingSaved
<1>7. ASSUME NEW c \in Handlers, TagsDone(c) \/ FetchFails(c) PROVE FilesIInv'
  <2>1. \E r : Return(c, r, None)
    BY <1>7 DEF TagsDone, FetchFails
  <2> QED BY <2>1, NothingSaved
<1>8. ASSUME NEW c \in Handlers, RefetchDone(c) PROVE FilesIInv'
  <2>1. CASE Return(c, Refused, None)
    BY <2>1, NothingSaved
  <2>2. ASSUME NEW answer \in Answers,
               Return(c, Accepted, [from |-> answer, features |-> Converted(answer), bytes |-> 0, cap |-> 0])
        PROVE  FilesIInv'
    <3>1. Kept([from |-> answer, features |-> Converted(answer), bytes |-> 0, cap |-> 0])
      BY ConvertedIsWhole
    <3> QED BY <2>2, <3>1, SaveKeeps DEF Return
  <2> QED BY <1>8, <2>1, <2>2 DEF RefetchDone
<1>9. ASSUME NEW c \in Handlers, NEW bytes \in Bodies, Body(c, bytes) PROVE FilesIInv'
  <2>1. PICK size, r : Return(c, r, File(size, MaxBytes)) /\ size \in 0 .. bytes
    BY <1>9, SizesAssumption DEF Body
  <2>2. size <= MaxBytes
    BY <1>9, <2>1, SizesAssumption DEF Body
  <2> QED BY <2>1, <2>2, BytesAreKept, SaveKeeps DEF Return
<1>10. ASSUME NEW c \in Keepers, NEW archive \in Archives, Extract(c, archive) PROVE FilesIInv'
  <2>1. CASE ~ArchiveAccepted(archive, MaxMembers, MaxUnpacked, MaxRatio)
    BY <1>10, <2>1, NothingSaved DEF Extract
  <2>2. CASE ArchiveAccepted(archive, MaxMembers, MaxUnpacked, MaxRatio)
    <3>1. PICK done, whole :
            /\ done \in 0 .. Len(archive)
            /\ whole = Total([i \in 1 .. done |-> Written(archive[i])])
            /\ \/ done = Len(archive) /\ Return(c, Accepted, File(whole, MaxUnpacked))
               \/ /\ done < Len(archive)
                  /\ \E part \in 0 .. Written(archive[done + 1]) :
                       Return(c, Refused, File(whole + part, MaxUnpacked))
      BY <1>10, <2>2 DEF Extract
    <3>2. /\ whole \in Nat /\ whole <= MaxUnpacked
          /\ done < Len(archive) => \A part \in 0 .. Written(archive[done + 1]) : whole + part <= MaxUnpacked
      BY <2>2, <3>1, ExtractedWithinPlan
    <3>3. PICK size, r : Return(c, r, File(size, MaxUnpacked)) /\ size <= MaxUnpacked
      BY <3>1, <3>2
    <3> QED BY <3>3, BytesAreKept, SaveKeeps DEF Return
  <2> QED BY <2>1, <2>2
<1> QED BY <1>1, <1>2, <1>3, <1>4, <1>5, <1>6, <1>7, <1>8, <1>9, <1>10 DEF Next

LEMMA FilesInvariance == Spec => []FilesIInv
<1>1. Init => FilesIInv
  BY DEF Init, FilesIInv, Kept
<1> QED BY <1>1, StepFilesIInv, PTL DEF Spec

\* What is on disk stays within the caps, whichever step fails: extraction writes at most
\* what its plan added up (transport.py:346-425), a download what it counted (217-253).
THEOREM SavedFilesAreWithinCaps == Spec => []SavedWithinCaps
<1>1. FilesIInv => SavedWithinCaps
  BY DEF FilesIInv, Kept, SavedWithinCaps
<1> QED BY <1>1, FilesInvariance, PTL

\* A converted way has every point the answer has a node for (osm.py:146-216).
THEOREM WaysKeepTheirPoints == Spec => []WaysAreWhole
<1>1. FilesIInv => WaysAreWhole
  BY DEF FilesIInv, Kept, Whole, WaysAreWhole
<1> QED BY <1>1, FilesInvariance, PTL
-------------------------------------------------------------------------------
(* Ids, by induction over their length                                       *)

\* The parts of the first m symbols of a text, for every length up to m.
Scans(f, m, text, separator) ==
  /\ f = [k \in 0 .. m |-> f[k]]
  /\ f[0] = << <<>> >>
  /\ \A k \in 1 .. m : f[k] = Scanned(f[k - 1], text[k], separator)

LEMMA SomeScan ==
  ASSUME NEW text, NEW separator, NEW n \in Nat
  PROVE  \E f : Scans(f, n, text, separator)
<1> DEFINE T == {m \in Nat : \E f : Scans(f, m, text, separator)}
<1>1. 0 \in T
  <2>1. PICK f : f = [k \in 0 .. 0 |-> << <<>> >>]
    OBVIOUS
  <2>2. Scans(f, 0, text, separator)
    BY <2>1 DEF Scans
  <2> QED BY <2>2
<1>2. ASSUME NEW m \in Nat, m \in T PROVE m + 1 \in T
  <2>1. PICK f : Scans(f, m, text, separator)
    BY <1>2
  <2>2. PICK next : next = Scanned(f[m], text[m + 1], separator)
    OBVIOUS
  <2>3. PICK g : g = [k \in 0 .. m + 1 |-> IF k = m + 1 THEN next ELSE f[k]]
    OBVIOUS
  <2>4. g = [k \in 0 .. m + 1 |-> g[k]]
    BY <2>3
  <2>5. g[0] = << <<>> >>
    BY <2>1, <2>3 DEF Scans
  <2>6. ASSUME NEW k \in 1 .. m + 1 PROVE g[k] = Scanned(g[k - 1], text[k], separator)
    <3>1. CASE k = m + 1
      <4>1. g[k] = next /\ k - 1 = m /\ g[m] = f[m]
        BY <2>3, <3>1
      <4> QED BY <2>2, <3>1, <4>1
    <3>2. CASE k # m + 1
      <4>1. k \in 1 .. m /\ g[k] = f[k] /\ g[k - 1] = f[k - 1]
        BY <2>3, <3>2
      <4>2. f[k] = Scanned(f[k - 1], text[k], separator)
        BY <2>1, <4>1 DEF Scans
      <4> QED BY <4>1, <4>2
    <3> QED BY <3>1, <3>2
  <2>7. Scans(g, m + 1, text, separator)
    BY <2>4, <2>5, <2>6 DEF Scans
  <2> QED BY <2>7
<1>3. Nat \subseteq T
  <2> HIDE DEF T
  <2> QED BY <1>1, <1>2, SetInduction
<1> QED BY <1>3

LEMMA SplitIsLastScan ==
  ASSUME NEW S, NEW text \in Seq(S), NEW separator
  PROVE  \E f : Scans(f, Len(text), text, separator) /\ Split(text, separator) = f[Len(text)]
<1> DEFINE n == Len(text)
           body(g, k) == IF k = 0 THEN << <<>> >> ELSE Scanned(g[k - 1], text[k], separator)
           last == CHOOSE g : g = [k \in 0 .. n |-> body(g, k)]
<1>1. Split(text, separator) = last[n]
  BY DEF Split
<1>2. n \in Nat
  OBVIOUS
<1> HIDE DEF n
<1>3. PICK f : Scans(f, n, text, separator)
  BY <1>2, SomeScan
<1>4. \A k \in 0 .. n : f[k] = body(f, k)
  <2>1. \A k \in 0 .. n : k = 0 \/ k \in 1 .. n
    BY <1>2
  <2> QED BY <1>3, <2>1 DEF Scans
<1>5. f = [k \in 0 .. n |-> f[k]]
  BY <1>3 DEF Scans
<1>6. f = [k \in 0 .. n |-> body(f, k)]
  <2> HIDE DEF body
  <2> QED BY <1>4, <1>5
<1>7. last = [k \in 0 .. n |-> body(last, k)]
  <2> HIDE DEF body
  <2> QED BY <1>6
<1> HIDE DEF last
<1>8. Scans(last, n, text, separator)
  <2>1. 0 \in 0 .. n /\ \A k \in 1 .. n : k \in 0 .. n /\ k # 0
    BY <1>2
  <2>2. last = [k \in 0 .. n |-> last[k]]
    <3> HIDE DEF body
    <3> QED BY <1>7
  <2>3. \A k \in 0 .. n : last[k] = body(last, k)
    <3> HIDE DEF body
    <3> QED BY <1>7
  <2> QED BY <2>1, <2>2, <2>3 DEF Scans
<1> QED BY <1>1, <1>8 DEF n

\* Texts with the same beginning have the same scans there.
LEMMA SameScans ==
  ASSUME NEW f, NEW g, NEW text, NEW other, NEW separator, NEW n \in Nat, NEW m \in Nat, n <= m,
         Scans(f, n, text, separator), Scans(g, m, other, separator),
         \A k \in 1 .. n : text[k] = other[k]
  PROVE  f[n] = g[n]
<1> DEFINE T == {k \in Nat : k <= n => f[k] = g[k]}
<1>1. 0 \in T
  BY DEF Scans
<1>2. ASSUME NEW k \in Nat, k \in T PROVE k + 1 \in T
  <2> SUFFICES ASSUME k + 1 <= n PROVE f[k + 1] = g[k + 1]
    OBVIOUS
  <2>1. k + 1 \in 1 .. n /\ k + 1 \in 1 .. m /\ (k + 1) - 1 = k /\ k <= n
    OBVIOUS
  <2>2. f[k] = g[k]
    BY <1>2, <2>1
  <2>3. f[k + 1] = Scanned(f[k], text[k + 1], separator)
    BY <2>1 DEF Scans
  <2>4. g[k + 1] = Scanned(g[k], other[k + 1], separator)
    BY <2>1 DEF Scans
  <2>5. text[k + 1] = other[k + 1]
    BY <2>1
  <2> QED BY <2>2, <2>3, <2>4, <2>5
<1>3. Nat \subseteq T
  <2> HIDE DEF T
  <2> QED BY <1>1, <1>2, SetInduction
<1> QED BY <1>3

LEMMA SplitOfNothing ==
  ASSUME NEW separator
  PROVE  Split(<<>>, separator) = << <<>> >>
<1>1. <<>> \in Seq({}) /\ Len(<<>>) = 0
  BY EmptySeq
<1>2. PICK f : Scans(f, 0, <<>>, separator) /\ Split(<<>>, separator) = f[0]
  BY <1>1, SplitIsLastScan
<1> QED BY <1>2 DEF Scans

\* One more symbol is one more step of the scan.
LEMMA SplitOfAppend ==
  ASSUME NEW S, NEW text \in Seq(S), NEW symbol \in S, NEW separator
  PROVE  Split(Append(text, symbol), separator) = Scanned(Split(text, separator), symbol, separator)
<1> DEFINE n == Len(text)
<1>1. PICK longer \in Seq(S) : longer = Append(text, symbol)
  <2>1. Append(text, symbol) \in Seq(S)
    BY AppendProperties
  <2> QED BY <2>1
<1>2. n \in Nat /\ Len(longer) = n + 1 /\ longer[n + 1] = symbol /\ \A k \in 1 .. n : text[k] = longer[k]
  BY <1>1
<1>3. PICK f : Scans(f, n, text, separator) /\ Split(text, separator) = f[n]
  BY SplitIsLastScan
<1>4. PICK g : Scans(g, Len(longer), longer, separator) /\ Split(longer, separator) = g[Len(longer)]
  BY SplitIsLastScan
<1> HIDE DEF n
<1>5. Scans(g, n + 1, longer, separator) /\ Split(longer, separator) = g[n + 1]
  BY <1>2, <1>4
<1>6. f[n] = g[n]
  <2>1. n + 1 \in Nat /\ n <= n + 1
    BY <1>2
  <2> QED BY <1>2, <1>3, <1>5, <2>1, SameScans
<1>7. g[n + 1] = Scanned(g[n], longer[n + 1], separator)
  <2>1. n + 1 \in 1 .. n + 1 /\ (n + 1) - 1 = n
    BY <1>2
  <2> QED BY <1>5, <2>1 DEF Scans
<1> QED BY <1>1, <1>2, <1>3, <1>5, <1>6, <1>7

LEMMA AppendToBoth ==
  ASSUME NEW S, NEW text \in Seq(S), NEW front \in Seq(S), NEW symbol \in S
  PROVE  text \o (front \o <<symbol>>) = Append(text \o front, symbol)
<1>1. PICK one \in Seq(S) : one = <<symbol>>
  <2>1. <<symbol>> \in Seq(S)
    OBVIOUS
  <2> QED BY <2>1
<1>2. text \o (front \o one) = (text \o front) \o one
  BY ConcatAssociative
<1>3. text \o front \in Seq(S)
  OBVIOUS
<1>4. Append(text \o front, symbol) = (text \o front) \o <<symbol>>
  BY <1>3, AppendIsConcat
<1> QED BY <1>1, <1>2, <1>4

\* The parts of a text are some that are complete, and the last one.
PartsAre(text, separator, parts, open) == Split(text, separator) = Append(parts, open)

\* A stretch without separators belongs to the last part.
LEMMA SplitOfStretch ==
  ASSUME NEW S, NEW text \in Seq(S), NEW piece \in Seq(S), NEW separator,
         ~Contains(piece, separator),
         NEW parts \in Seq(Seq(S)), NEW open \in Seq(S),
         PartsAre(text, separator, parts, open)
  PROVE  PartsAre(text \o piece, separator, parts, open \o piece)
<1> DEFINE n == Len(piece)
           T == {j \in Nat : j <= n => Split(text \o SubSeq(piece, 1, j), separator)
                                        = Append(parts, open \o SubSeq(piece, 1, j))}
<1>0. n \in Nat /\ SubSeq(piece, 1, n) = piece
  BY SubSeqFull
<1>1. 0 \in T
  <2>1. SubSeq(piece, 1, 0) = <<>>
    OBVIOUS
  <2>2. text \o <<>> = text /\ open \o <<>> = open
    BY ConcatEmptySeq
  <2> QED BY <2>1, <2>2 DEF PartsAre
<1>2. ASSUME NEW j \in Nat, j \in T PROVE j + 1 \in T
  <2> SUFFICES ASSUME j + 1 <= n
               PROVE  Split(text \o SubSeq(piece, 1, j + 1), separator) = Append(parts, open \o SubSeq(piece, 1, j + 1))
    OBVIOUS
  <2>1. j + 1 \in 1 .. n /\ 1 \in 1 .. j + 1 /\ (j + 1) - 1 = j /\ j <= n /\ 1 \in 1 .. Len(piece) /\ j + 1 \in 1 .. Len(piece)
    OBVIOUS
  <2>2. piece[j + 1] \in S /\ piece[j + 1] # separator
    BY <2>1 DEF Contains
  <2>3. PICK symbol \in S : symbol = piece[j + 1] /\ symbol # separator
    BY <2>2
  <2>4. PICK front \in Seq(S) : front = SubSeq(piece, 1, j)
    <3>1. \A i \in 1 .. j : piece[i] \in S
      BY <2>1
    <3>2. 1 \in Int /\ j \in Int
      OBVIOUS
    <3>3. SubSeq(piece, 1, j) \in Seq(S)
      BY <3>1, <3>2, SubSeqProperties
    <3> QED BY <3>3
  <2>5. SubSeq(piece, 1, j + 1) = front \o <<symbol>>
    <3>1. j + 1 \in 1 .. Len(piece)
      BY <2>1
    <3>2. SubSeq(piece, 1, j + 1) = SubSeq(piece, 1, (j + 1) - 1) \o << piece[j + 1] >>
      BY <2>1, SubSeqRecursiveSecond
    <3> QED BY <2>1, <2>3, <2>4, <3>2
  <2>6. text \o front \in Seq(S) /\ open \o front \in Seq(S)
    OBVIOUS
  <2>7. text \o (front \o <<symbol>>) = Append(text \o front, symbol)
    BY AppendToBoth
  <2>8. open \o (front \o <<symbol>>) = Append(open \o front, symbol)
    BY AppendToBoth
  <2>9. PICK sofar \in Seq(S) : sofar = text \o front
    BY <2>6
  <2>10. PICK last \in Seq(S) : last = open \o front
    BY <2>6
  <2>11. Split(sofar, separator) = Append(parts, last)
    BY <1>2, <2>1, <2>4, <2>9, <2>10
  <2>12. Split(Append(sofar, symbol), separator) = Scanned(Append(parts, last), symbol, separator)
    BY <2>11, SplitOfAppend
  <2>13. Front(Append(parts, last)) = parts /\ Last(Append(parts, last)) = last
    BY DEF Front, Last
  <2>14. Scanned(Append(parts, last), symbol, separator) = Append(parts, Append(last, symbol))
    BY <2>3, <2>13 DEF Scanned
  <2> QED BY <2>5, <2>7, <2>8, <2>9, <2>10, <2>12, <2>14
<1>3. Nat \subseteq T
  <2> HIDE DEF T
  <2> QED BY <1>1, <1>2, SetInduction
<1>4. n \in T
  <2> HIDE DEF T, n
  <2> QED BY <1>0, <1>3
<1> HIDE DEF n
<1>5. Split(text \o SubSeq(piece, 1, n), separator) = Append(parts, open \o SubSeq(piece, 1, n))
  <2>1. n <= n
    BY <1>0
  <2> QED BY <1>4, <2>1
<1> QED BY <1>0, <1>5 DEF PartsAre

\* The texts of the first tags, for every number up to m.
Joins(f, m, tags) ==
  /\ f = [k \in 0 .. m |-> f[k]]
  /\ f[0] = <<>>
  /\ \A k \in 1 .. m :
       f[k] = IF k = 1 THEN TagText(tags[1]) ELSE f[k - 1] \o <<TagMark>> \o TagText(tags[k])

LEMMA SomeJoin ==
  ASSUME NEW tags, NEW n \in Nat
  PROVE  \E f : Joins(f, n, tags)
<1> DEFINE T == {m \in Nat : \E f : Joins(f, m, tags)}
           step(text, k) == IF k = 1 THEN TagText(tags[1]) ELSE text \o <<TagMark>> \o TagText(tags[k])
<1>1. 0 \in T
  <2>1. PICK f : f = [k \in 0 .. 0 |-> <<>>]
    OBVIOUS
  <2>2. Joins(f, 0, tags)
    BY <2>1 DEF Joins
  <2> QED BY <2>2
<1>2. ASSUME NEW m \in Nat, m \in T PROVE m + 1 \in T
  <2>1. PICK f : Joins(f, m, tags)
    BY <1>2
  <2>2. PICK next : next = step(f[m], m + 1)
    OBVIOUS
  <2>3. PICK g : g = [k \in 0 .. m + 1 |-> IF k = m + 1 THEN next ELSE f[k]]
    OBVIOUS
  <2>4. g = [k \in 0 .. m + 1 |-> g[k]]
    BY <2>3
  <2>5. g[0] = <<>>
    BY <2>1, <2>3 DEF Joins
  <2>6. ASSUME NEW k \in 1 .. m + 1 PROVE g[k] = step(g[k - 1], k)
    <3>1. CASE k = m + 1
      <4>1. g[k] = next /\ k - 1 = m /\ g[m] = f[m]
        BY <2>3, <3>1
      <4> HIDE DEF step
      <4> QED BY <2>2, <3>1, <4>1
    <3>2. CASE k # m + 1
      <4>1. k \in 1 .. m /\ g[k] = f[k] /\ g[k - 1] = f[k - 1]
        BY <2>3, <3>2
      <4>2. f[k] = step(f[k - 1], k)
        BY <2>1, <4>1 DEF Joins
      <4> HIDE DEF step
      <4> QED BY <4>1, <4>2
    <3> QED BY <3>1, <3>2
  <2>7. Joins(g, m + 1, tags)
    BY <2>4, <2>5, <2>6 DEF Joins
  <2> QED BY <2>7
<1>3. Nat \subseteq T
  <2> HIDE DEF T
  <2> QED BY <1>1, <1>2, SetInduction
<1> QED BY <1>3

LEMMA EncodeIsLastJoin ==
  ASSUME NEW S, NEW tags \in Seq(S), NEW box
  PROVE  \E f : Joins(f, Len(tags), tags) /\ EncodeDatasetId(tags, box) = f[Len(tags)] \o <<BBoxMark, box>>
<1> DEFINE n == Len(tags)
           body(g, k) == IF k = 0 THEN <<>>
                         ELSE IF k = 1 THEN TagText(tags[1])
                         ELSE g[k - 1] \o <<TagMark>> \o TagText(tags[k])
           last == CHOOSE g : g = [k \in 0 .. n |-> body(g, k)]
<1>1. EncodeDatasetId(tags, box) = last[n] \o <<BBoxMark, box>>
  BY DEF EncodeDatasetId
<1>2. n \in Nat
  OBVIOUS
<1> HIDE DEF n
<1>3. PICK f : Joins(f, n, tags)
  BY <1>2, SomeJoin
<1>4. \A k \in 0 .. n : f[k] = body(f, k)
  <2>1. \A k \in 0 .. n : k = 0 \/ k \in 1 .. n
    BY <1>2
  <2> QED BY <1>3, <2>1 DEF Joins
<1>5. f = [k \in 0 .. n |-> f[k]]
  BY <1>3 DEF Joins
<1>6. f = [k \in 0 .. n |-> body(f, k)]
  <2> HIDE DEF body
  <2> QED BY <1>4, <1>5
<1>7. last = [k \in 0 .. n |-> body(last, k)]
  <2> HIDE DEF body
  <2> QED BY <1>6
<1> HIDE DEF last
<1>8. Joins(last, n, tags)
  <2>1. 0 \in 0 .. n /\ \A k \in 1 .. n : k \in 0 .. n /\ k # 0
    BY <1>2
  <2>2. last = [k \in 0 .. n |-> last[k]]
    <3> HIDE DEF body
    <3> QED BY <1>7
  <2>3. \A k \in 0 .. n : last[k] = body(last, k)
    <3> HIDE DEF body
    <3> QED BY <1>7
  <2> QED BY <2>1, <2>2, <2>3 DEF Joins
<1> QED BY <1>1, <1>8 DEF n

TextsAreOver(S, tags, n) == \A i \in 1 .. n : TagText(tags[i]) \in Seq(S)

ComesApart(S, text, tags, k) == text \in Seq(S) /\ Split(text, TagMark) = [i \in 1 .. k |-> TagText(tags[i])]

\* Joined texts without separators come apart at the separators.
LEMMA SplitOfJoin ==
  ASSUME NEW S, TagMark \in S, NEW f, NEW tags, NEW n \in Nat, Joins(f, n, tags),
         TextsAreOver(S \ {TagMark}, tags, n)
  PROVE  \A k \in 1 .. n : ComesApart(S, f[k], tags, k)
<1> DEFINE T == {k \in Nat : k # 0 /\ k <= n => ComesApart(S, f[k], tags, k)}
<1> HIDE DEF T
<1>1. ASSUME NEW i \in 1 .. n
      PROVE  \E piece \in Seq(S) : piece = TagText(tags[i]) /\ ~Contains(piece, TagMark)
  <2>1. PICK piece \in Seq(S \ {TagMark}) : piece = TagText(tags[i])
    BY DEF TextsAreOver
  <2>2. \A j \in 1 .. Len(piece) : piece[j] \in S \ {TagMark}
    BY ElementOfSeq
  <2>3. piece \in Seq(S)
    <3>1. S \ {TagMark} \subseteq S
      OBVIOUS
    <3> QED BY <3>1, SeqMonotonic
  <2> QED BY <2>1, <2>2, <2>3 DEF Contains
<1>2. ASSUME NEW k \in Nat, k + 1 \in 1 .. n, k # 0 => ComesApart(S, f[k], tags, k)
      PROVE  ComesApart(S, f[k + 1], tags, k + 1)
  <2>0. k + 1 \in 1 .. n /\ (k + 1) - 1 = k
    BY <1>2
  <2>5. f[k + 1] = IF k + 1 = 1 THEN TagText(tags[1]) ELSE f[k] \o <<TagMark>> \o TagText(tags[k + 1])
    <3>1. \A i \in 1 .. n :
            f[i] = IF i = 1 THEN TagText(tags[1]) ELSE f[i - 1] \o <<TagMark>> \o TagText(tags[i])
      BY DEF Joins
    <3>2. f[k + 1] = IF k + 1 = 1 THEN TagText(tags[1])
                     ELSE f[(k + 1) - 1] \o <<TagMark>> \o TagText(tags[k + 1])
      BY <2>0, <3>1
    <3> QED BY <2>0, <3>2
  <2>1. PICK piece \in Seq(S) : piece = TagText(tags[k + 1]) /\ ~Contains(piece, TagMark)
    BY <1>1, <2>0
  <2>2. <<>> \in Seq(S) /\ <<>> \o piece = piece
    BY EmptySeq, ConcatEmptySeq
  <2>3. CASE k = 0
    <3>1. f[1] = piece
      BY <2>1, <2>3, <2>5
    <3>2. PICK none \in Seq(Seq(S)), empty \in Seq(S) : none = <<>> /\ empty = <<>>
      BY EmptySeq
    <3>3. PartsAre(empty, TagMark, none, empty)
      BY <3>2, SplitOfNothing DEF PartsAre
    <3>4. PartsAre(empty \o piece, TagMark, none, empty \o piece)
      BY <2>1, <3>3, SplitOfStretch
    <3>5. Split(piece, TagMark) = Append(<<>>, piece)
      BY <2>2, <3>2, <3>4 DEF PartsAre
    <3>6. Append(<<>>, piece) = [i \in 1 .. 1 |-> piece]
      OBVIOUS
    <3>7. [i \in 1 .. 1 |-> piece] = [i \in 1 .. 1 |-> TagText(tags[i])]
      BY <2>1, <2>3
    <3> QED BY <2>1, <2>3, <3>1, <3>5, <3>6, <3>7 DEF ComesApart
  <2>4. CASE k # 0
    <3>1. PICK text \in Seq(S) : text = f[k] /\ Split(text, TagMark) = [i \in 1 .. k |-> TagText(tags[i])]
      BY <1>2, <2>4 DEF ComesApart
    <3>2. f[k + 1] = text \o <<TagMark>> \o piece
      <4>1. k + 1 # 1
        BY <2>4
      <4> QED BY <4>1, <2>1, <2>4, <2>5, <3>1
    <3>3. PICK parts \in Seq(Seq(S)) : parts = [i \in 1 .. k |-> TagText(tags[i])]
      <4>1. \A i \in 1 .. k : TagText(tags[i]) \in Seq(S)
        <5>1. \A i \in 1 .. k : i \in 1 .. n
          BY <2>0
        <5> QED BY <1>1, <5>1
      <4>2. PICK parts : parts = [i \in 1 .. k |-> TagText(tags[i])]
        OBVIOUS
      <4>3. parts \in [1 .. k -> Seq(S)]
        BY <4>1, <4>2
      <4>4. parts \in Seq(Seq(S))
        BY <4>3
      <4> QED BY <4>2, <4>4
    <3>4. PICK longer \in Seq(S) : longer = Append(text, TagMark) /\ longer = text \o <<TagMark>>
      <4>1. Append(text, TagMark) \in Seq(S)
        BY AppendProperties
      <4>2. Append(text, TagMark) = text \o <<TagMark>>
        BY AppendIsConcat
      <4> QED BY <4>1, <4>2
    <3>5. Split(longer, TagMark) = Append(parts, <<>>)
      <4>1. Split(Append(text, TagMark), TagMark) = Scanned(Split(text, TagMark), TagMark, TagMark)
        BY SplitOfAppend
      <4>2. Split(longer, TagMark) = Scanned(parts, TagMark, TagMark)
        BY <3>1, <3>3, <3>4, <4>1
      <4> QED BY <4>2 DEF Scanned
    <3>6. Split(longer \o piece, TagMark) = Append(parts, <<>> \o piece)
      <4>1. PICK empty \in Seq(S) : empty = <<>>
        BY <2>2
      <4>2. PartsAre(longer, TagMark, parts, empty)
        BY <3>5, <4>1 DEF PartsAre
      <4>3. PartsAre(longer \o piece, TagMark, parts, empty \o piece)
        BY <2>1, <4>2, SplitOfStretch
      <4> QED BY <4>1, <4>3 DEF PartsAre
    <3>7. f[k + 1] = longer \o piece /\ longer \o piece \in Seq(S)
      BY <3>2, <3>4
    <3>8. Append(parts, piece) = [i \in 1 .. k + 1 |-> TagText(tags[i])]
      <4>1. Len(parts) = k /\ \A i \in 1 .. k : parts[i] = TagText(tags[i])
        BY <3>3
      <4>2. /\ Len(Append(parts, piece)) = k + 1
            /\ Append(parts, piece) \in Seq(Seq(S))
            /\ \A i \in 1 .. k + 1 : Append(parts, piece)[i] = TagText(tags[i])
        BY <2>1, <4>1
      <4>3. PICK whole \in Seq(Seq(S)) : whole = Append(parts, piece) /\ Len(whole) = k + 1
        BY <4>2
      <4>4. whole = [i \in 1 .. k + 1 |-> whole[i]]
        <5>1. whole \in [1 .. Len(whole) -> Seq(S)]
          BY LenProperties
        <5> QED BY <4>3, <5>1
      <4>5. [i \in 1 .. k + 1 |-> whole[i]] = [i \in 1 .. k + 1 |-> TagText(tags[i])]
        BY <4>2, <4>3
      <4> QED BY <4>3, <4>4, <4>5
    <3> QED BY <2>2, <3>6, <3>7, <3>8 DEF ComesApart
  <2> QED BY <2>3, <2>4
<1>3. ASSUME NEW k \in Nat, k \in T PROVE k + 1 \in T
  <2>1. k + 1 <= n => k + 1 \in 1 .. n /\ k <= n
    OBVIOUS
  <2> QED BY <1>2, <1>3, <2>1 DEF T
<1>4. 0 \in T
  BY DEF T
<1>5. Nat \subseteq T
  BY <1>3, <1>4, SetInduction
<1>6. \A k \in 1 .. n : k \in T /\ k # 0 /\ k <= n
  BY <1>5
<1> QED BY <1>6 DEF T

FirstAt(text, symbol, at) ==
  /\ at \in 1 .. Len(text)
  /\ text[at] = symbol
  /\ \A i \in 1 .. Len(text) : i < at => text[i] # symbol

\* The first of all positions of a symbol is where the text is cut.
LEMMA CutAtFirst ==
  ASSUME NEW S, NEW text \in Seq(S), NEW symbol, NEW at, FirstAt(text, symbol, at)
  PROVE  Cut(text, symbol) = at
<1> DEFINE places == {i \in DOMAIN text : text[i] = symbol}
<1>1. DOMAIN text = 1 .. Len(text) /\ Len(text) \in Nat
  BY LenProperties
<1>2. at \in places /\ places \subseteq Int /\ \A i \in places : at <= i
  BY <1>1 DEF FirstAt
<1>3. Cut(text, symbol) = Min(places)
  BY DEF Cut
<1> HIDE DEF places
<1>4. Min(places) = at
  <2>1. \A x \in places : (\A y \in places : x <= y) => x = at
    BY <1>2
  <2> QED BY <1>2, <2>1 DEF Min
<1> QED BY <1>3, <1>4

\* Sequences are over any set that has their elements.
LEMMA SeqOver ==
  ASSUME NEW S, NEW T, NEW text \in Seq(S), \A i \in 1 .. Len(text) : text[i] \in T
  PROVE  text \in Seq(T)
<1>1. Len(text) \in Nat /\ text \in [1 .. Len(text) -> S]
  BY LenProperties
<1>2. text \in [1 .. Len(text) -> T]
  BY <1>1
<1>3. [1 .. Len(text) -> T] \subseteq Seq(T)
  BY <1>1, SeqDef
<1> QED BY <1>2, <1>3

StretchOf(text, m, n, part) ==
  /\ Len(part) = n - m + 1
  /\ \A i \in 1 .. Len(part) : part[i] = text[m + i - 1]

\* A stretch of a text is the sequence with its symbols.
LEMMA SubSeqIsStretch ==
  ASSUME NEW S, NEW text \in Seq(S), NEW m \in Int, NEW n \in Int, 1 <= m, m <= n + 1, n <= Len(text),
         NEW part \in Seq(S), StretchOf(text, m, n, part)
  PROVE  SubSeq(text, m, n) = part
<1>1. \A i \in m .. n : text[i] \in S
  <2>1. Len(text) \in Nat /\ \A i \in m .. n : i \in 1 .. Len(text)
    OBVIOUS
  <2> QED BY <2>1, ElementOfSeq
<1>2. /\ SubSeq(text, m, n) \in Seq(S)
      /\ Len(SubSeq(text, m, n)) = IF m <= n THEN n - m + 1 ELSE 0
      /\ \A i \in 1 .. n - m + 1 : SubSeq(text, m, n)[i] = text[m + i - 1]
  BY <1>1, SubSeqProperties
<1>3. Len(SubSeq(text, m, n)) = n - m + 1
  BY <1>2
<1>4. PICK stretch \in Seq(S) : stretch = SubSeq(text, m, n)
  BY <1>2
<1>5. Len(stretch) = Len(part) /\ \A i \in 1 .. Len(stretch) : stretch[i] = part[i]
  BY <1>2, <1>3, <1>4 DEF StretchOf
<1>6. stretch = part
  BY <1>5, SeqEqual
<1> QED BY <1>4, <1>6

\* Two symbols and a text.
LEMMA PairAndText ==
  ASSUME NEW S, NEW a \in S, NEW b \in S, NEW text \in Seq(S)
  PROVE  /\ <<a, b>> \o text \in Seq(S)
         /\ Len(<<a, b>> \o text) = Len(text) + 2
         /\ (<<a, b>> \o text)[1] = a
         /\ (<<a, b>> \o text)[2] = b
         /\ \A i \in 1 .. Len(text) : (<<a, b>> \o text)[i + 2] = text[i]
OBVIOUS

IsPiece(piece, key, value) == piece = <<key, ValueMark>> \o value
IsId(id, text, box) == id = text \o <<BBoxMark, box>>

\* The text of a tag with a proper key and value is a piece, and gives both back.
LEMMA TagComesBack ==
  ASSUME NEW B, NEW key \in TagKeys, NEW value \in Seq(B), value # <<>>, ~TooLong(value),
         NEW piece, IsPiece(piece, key, value)
  PROVE  /\ TagPiece(piece)
         /\ piece[1] = key
         /\ SubSeq(piece, 3, Len(piece)) = value
<1> DEFINE A == B \cup {key, ValueMark}
<1>1. value \in Seq(A)
  <2>1. B \subseteq A
    OBVIOUS
  <2> QED BY <2>1, SeqMonotonic
<1>2. key \in A /\ ValueMark \in A
  OBVIOUS
<1> HIDE DEF A
<1>3. /\ piece \in Seq(A) /\ Len(piece) = Len(value) + 2 /\ piece[1] = key /\ piece[2] = ValueMark
      /\ \A i \in 1 .. Len(value) : piece[i + 2] = value[i]
  BY <1>1, <1>2, PairAndText DEF IsPiece
<1>4. Len(value) \in Nat /\ Len(value) > 0
  BY EmptySeq
<1>5. key # ValueMark /\ key # "long" /\ ValueMark # "long"
  BY SymbolsAssumption DEF ValueMark
<1>6. Cut(piece, ValueMark) = 2
  <2>1. 2 \in 1 .. Len(piece) /\ \A i \in 1 .. Len(piece) : i < 2 => i = 1
    BY <1>3, <1>4
  <2>2. \A i \in 1 .. Len(piece) : i < 2 => piece[i] # ValueMark
    BY <1>3, <1>5, <2>1
  <2>3. FirstAt(piece, ValueMark, 2)
    BY <1>3, <2>1, <2>2 DEF FirstAt
  <2> QED BY <1>3, <2>3, CutAtFirst
<1>7. Contains(piece, ValueMark)
  <2>1. 2 \in 1 .. Len(piece)
    BY <1>3, <1>4
  <2> QED BY <1>3, <2>1 DEF Contains
<1>8. SubSeq(piece, 1, Cut(piece, ValueMark) - 1) = <<key>>
  <2>1. Cut(piece, ValueMark) - 1 = 1
    BY <1>6
  <2>2. PICK part \in Seq(A) : part = <<key>> /\ Len(part) = 1 /\ part[1] = key
    <3>1. <<key>> \in Seq(A)
      BY <1>2
    <3>2. Len(<<key>>) = 1 /\ <<key>>[1] = key
      OBVIOUS
    <3> QED BY <3>1, <3>2
  <2>3. StretchOf(piece, 1, 1, part)
    BY <1>3, <2>2 DEF StretchOf
  <2>4. SubSeq(piece, 1, 1) = part
    <3>1. 1 <= Len(piece) /\ 1 \in Int /\ 1 <= 1 /\ 1 <= 1 + 1
      BY <1>3, <1>4
    <3>2. piece \in Seq(A)
      BY <1>3
    <3> QED BY <2>3, <3>1, <3>2, SubSeqIsStretch
  <2> QED BY <2>1, <2>2, <2>4
<1>9. Cut(piece, ValueMark) < Len(piece)
  BY <1>3, <1>4, <1>6
<1>10. ~TooLong(piece)
  <2>1. ASSUME NEW i \in 1 .. Len(piece) PROVE piece[i] # "long"
    <3>1. CASE i = 1
      BY <1>3, <1>5, <3>1
    <3>2. CASE i = 2
      BY <1>3, <1>5, <3>2
    <3>3. CASE i # 1 /\ i # 2
      <4>1. i - 2 \in 1 .. Len(value) /\ (i - 2) + 2 = i
        BY <1>3, <1>4, <3>3
      <4>2. piece[i] = value[i - 2]
        BY <1>3, <4>1
      <4>3. value[i - 2] # "long"
        BY <4>1 DEF TooLong, Contains
      <4> QED BY <4>2, <4>3
    <3> QED BY <3>1, <3>2, <3>3
  <2> QED BY <2>1 DEF TooLong, Contains
<1>11. SubSeq(piece, 3, Len(piece)) = value
  <2>1. StretchOf(piece, 3, Len(piece), value)
    <3>1. Len(value) = Len(piece) - 3 + 1 /\ \A i \in 1 .. Len(value) : 3 + i - 1 = i + 2
      BY <1>3, <1>4
    <3> QED BY <1>3, <3>1 DEF StretchOf
  <2>2. 3 <= Len(piece) + 1 /\ Len(piece) <= Len(piece) /\ Len(piece) \in Int
    BY <1>3, <1>4
  <2> QED BY <1>1, <1>3, <2>1, <2>2, SubSeqIsStretch
<1> QED BY <1>3, <1>6, <1>7, <1>8, <1>9, <1>10, <1>11 DEF TagPiece

\* A text and a box after it come apart at the mark.
LEMMA BoxComesBack ==
  ASSUME NEW S, BBoxMark \notin S, NEW text \in Seq(S), NEW box \in Boxes, NEW id, IsId(id, text, box)
  PROVE  /\ Cut(id, BBoxMark) + 1 = Len(id)
         /\ id[Cut(id, BBoxMark) + 1] = box
         /\ SubSeq(id, 1, Cut(id, BBoxMark) - 1) = text
<1> DEFINE A == S \cup {BBoxMark, box}
           n == Len(text)
<1>1. text \in Seq(A)
  <2>1. S \subseteq A
    OBVIOUS
  <2> QED BY <2>1, SeqMonotonic
<1>2. <<BBoxMark, box>> \in Seq(A) /\ Len(<<BBoxMark, box>>) = 2
  OBVIOUS
<1>3. \A i \in 1 .. n : text[i] # BBoxMark
  BY ElementOfSeq
<1> HIDE DEF A
<1>4. id \in Seq(A) /\ Len(id) = n + 2 /\ \A i \in 1 .. n + 2 : id[i] = IF i <= n THEN text[i] ELSE <<BBoxMark, box>>[i - n]
  BY <1>1, <1>2, ConcatProperties DEF IsId
<1>5. n \in Nat
  OBVIOUS
<1> HIDE DEF n
<1>6. id[n + 1] = BBoxMark /\ id[n + 2] = box /\ \A i \in 1 .. n : id[i] = text[i]
  <2>1. n + 1 \in 1 .. n + 2 /\ n + 2 \in 1 .. n + 2 /\ (n + 1) - n = 1 /\ (n + 2) - n = 2
    BY <1>5
  <2>2. ~(n + 1 <= n) /\ ~(n + 2 <= n) /\ \A i \in 1 .. n : i \in 1 .. n + 2 /\ i <= n
    BY <1>5
  <2>3. id[n + 1] = <<BBoxMark, box>>[1] /\ id[n + 2] = <<BBoxMark, box>>[2]
    BY <1>4, <2>1, <2>2
  <2>4. \A i \in 1 .. n : id[i] = text[i]
    BY <1>4, <2>2
  <2> QED BY <2>3, <2>4
<1>7. Cut(id, BBoxMark) = n + 1
  <2>1. n + 1 \in 1 .. Len(id) /\ \A i \in 1 .. Len(id) : i < n + 1 => i \in 1 .. n
    BY <1>4, <1>5
  <2>2. \A i \in 1 .. Len(id) : i < n + 1 => id[i] # BBoxMark
    BY <1>3, <1>6, <2>1
  <2>3. FirstAt(id, BBoxMark, n + 1)
    BY <1>6, <2>1, <2>2 DEF FirstAt
  <2> QED BY <1>4, <2>3, CutAtFirst
<1>8. SubSeq(id, 1, n) = text
  <2>1. StretchOf(id, 1, n, text)
    <3>1. Len(text) = n /\ n = n - 1 + 1 /\ \A i \in 1 .. n : 1 + i - 1 = i
      BY <1>5 DEF n
    <3> QED BY <1>6, <3>1 DEF StretchOf
  <2>2. 1 <= n + 1 /\ n <= Len(id)
    BY <1>4, <1>5
  <2> QED BY <1>1, <1>4, <1>5, <2>1, <2>2, SubSeqIsStretch
<1>9. (n + 1) + 1 = n + 2 /\ (n + 1) - 1 = n
  BY <1>5
<1> QED BY <1>4, <1>6, <1>7, <1>8, <1>9

\* A query the adapter accepts: it is searched, and its id is made.
Searched(query) == query \in Queries /\ QueryBuilt(query.tags, query.box)

\* The id of an accepted query whose values hold no separator is decoded to that query:
\* decode_overpass_dataset_id undoes encode_overpass_dataset_id (osm.py:103-143).
THEOREM IdComesBack ==
  ASSUME NEW query \in Queries, QueryBuilt(query.tags, query.box), Plain(query.tags)
  PROVE  /\ Decodable(EncodeDatasetId(query.tags, query.box))
         /\ DecodeDatasetId(EncodeDatasetId(query.tags, query.box)) = query
<1>1. PICK tags, box : /\ tags \in Seq(ToSet(query.tags))
                       /\ tags = query.tags /\ box = query.box
                       /\ query = [tags |-> tags, box |-> box]
  BY QueriesAssumption
<1>2. PICK n \in Nat : n = Len(tags) /\ DOMAIN tags = 1 .. n
  BY <1>1, LenProperties
<1>3. n # 0 /\ box \in Boxes
  <2>1. tags # <<>> /\ box \in SmallBoxes
    BY <1>1 DEF QueryBuilt
  <2> QED BY <1>1, <1>2, <2>1, EmptySeq DEF Boxes
<1>4. ASSUME NEW i \in 1 .. n
      PROVE  /\ tags[i] = [key |-> tags[i].key, value |-> tags[i].value]
             /\ tags[i].key \in TagKeys
             /\ tags[i].value \in Seq(ToSet(tags[i].value))
             /\ tags[i].value # <<>>
             /\ ~TooLong(tags[i].value)
             /\ ~Contains(tags[i].value, TagMark) /\ ~Contains(tags[i].value, BBoxMark)
  <2>1. i \in DOMAIN query.tags /\ query.tags[i] = tags[i]
    BY <1>1, <1>2
  <2>2. /\ tags[i] = [key |-> tags[i].key, value |-> tags[i].value]
        /\ tags[i].value \in Seq(ToSet(tags[i].value))
    BY <2>1, QueriesAssumption
  <2>3. tags[i].key \in TagKeys /\ ~TooLong(tags[i].value)
    BY <2>1 DEF QueryBuilt
  <2>4. tags[i].value # <<>> /\ ~Contains(tags[i].value, TagMark) /\ ~Contains(tags[i].value, BBoxMark)
    BY <2>1 DEF Plain
  <2> QED BY <2>2, <2>3, <2>4
<1> DEFINE symbols == TagKeys \cup {TagMark, ValueMark} \cup UNION {ToSet(tags[i].value) : i \in 1 .. n}
<1>5. PICK S : S = symbols \ {BBoxMark}
  OBVIOUS
<1>6. /\ BBoxMark \notin S /\ TagMark \in S /\ ValueMark \in S \ {TagMark}
      /\ TagKeys \subseteq S \ {TagMark}
  <2>1. TagMark # BBoxMark /\ ValueMark # BBoxMark /\ ValueMark # TagMark
    <3>1. TagMark # BBoxMark
      BY Zenon DEF TagMark, BBoxMark
    <3>2. ValueMark # BBoxMark
      BY Zenon DEF ValueMark, BBoxMark
    <3>3. ValueMark # TagMark
      BY Zenon DEF ValueMark, TagMark
    <3> QED BY <3>1, <3>2, <3>3
  <2>2. TagMark \notin TagKeys /\ BBoxMark \notin TagKeys
    BY SymbolsAssumption
  <2> QED BY <1>5, <2>1, <2>2
<1>7. ASSUME NEW i \in 1 .. n PROVE TagText(tags[i]) \in Seq(S \ {TagMark})
  <2>1. PICK value \in Seq(ToSet(tags[i].value)) : value = tags[i].value
    BY <1>4
  <2>2. \A k \in 1 .. Len(value) : value[k] \in ToSet(value) /\ value[k] # TagMark /\ value[k] # BBoxMark
    <3>1. DOMAIN value = 1 .. Len(value)
      BY LenProperties
    <3>2. \A k \in 1 .. Len(value) : value[k] # TagMark /\ value[k] # BBoxMark
      BY <1>4, <2>1 DEF Contains
    <3> QED BY <3>1, <3>2 DEF ToSet
  <2>3. \A k \in 1 .. Len(value) : value[k] \in S \ {TagMark}
    BY <1>5, <2>1, <2>2
  <2>4. value \in Seq(S \ {TagMark})
    BY <2>3, SeqOver
  <2>5. tags[i].key \in S \ {TagMark}
    BY <1>4, <1>6
  <2>6. <<tags[i].key, ValueMark>> \o value \in Seq(S \ {TagMark})
    BY <1>6, <2>4, <2>5, PairAndText
  <2> QED BY <2>1, <2>6 DEF TagText
<1> HIDE DEF symbols
<1>8. PICK f : Joins(f, n, tags) /\ EncodeDatasetId(tags, box) = f[n] \o <<BBoxMark, box>>
  BY <1>1, <1>2, EncodeIsLastJoin
<1>9. f[n] \in Seq(S) /\ Split(f[n], TagMark) = [i \in 1 .. n |-> TagText(tags[i])]
  <2>1. \A k \in 1 .. n : ComesApart(S, f[k], tags, k)
    <3>1. TextsAreOver(S \ {TagMark}, tags, n)
      BY <1>7 DEF TextsAreOver
    <3> QED BY <1>6, <1>8, <3>1, SplitOfJoin
  <2>2. n \in 1 .. n
    BY <1>3
  <2> QED BY <2>1, <2>2 DEF ComesApart
<1>10. PICK text \in Seq(S) : text = f[n]
  BY <1>9
<1>11. PICK id : id = EncodeDatasetId(tags, box) /\ IsId(id, text, box)
  BY <1>8, <1>10 DEF IsId
<1>12. PICK at : at = Cut(id, BBoxMark)
  OBVIOUS
<1>13. /\ at + 1 = Len(id)
       /\ id[at + 1] = box
       /\ SubSeq(id, 1, at - 1) = text
  BY <1>3, <1>6, <1>11, <1>12, BoxComesBack
<1>14. PICK pieces : pieces = Split(SubSeq(id, 1, at - 1), TagMark) /\ pieces = [i \in 1 .. n |-> TagText(tags[i])]
  BY <1>9, <1>10, <1>13
<1>15. ASSUME NEW i \in 1 .. n
       PROVE  TagPiece(pieces[i]) /\ pieces[i][1] = tags[i].key /\ SubSeq(pieces[i], 3, Len(pieces[i])) = tags[i].value
  <2>1. PICK key \in TagKeys, value \in Seq(ToSet(tags[i].value)) :
          key = tags[i].key /\ value = tags[i].value /\ value # <<>> /\ ~TooLong(value)
    BY <1>4
  <2>2. PICK piece : piece = pieces[i] /\ piece = <<key, ValueMark>> \o value
    BY <1>14, <2>1 DEF TagText
  <2>3. TagPiece(piece) /\ piece[1] = key /\ SubSeq(piece, 3, Len(piece)) = value
    <3>1. IsPiece(piece, key, value)
      BY <2>2 DEF IsPiece
    <3> QED BY <2>1, <3>1, TagComesBack
  <2> QED BY <2>1, <2>2, <2>3
<1>16. DOMAIN pieces = 1 .. n
  BY <1>14
<1>17. Decodable(id)
  BY <1>3, <1>12, <1>13, <1>14, <1>15, <1>16 DEF Decodable
<1>18. DecodeDatasetId(id) = [tags |-> [i \in 1 .. n |-> [key |-> pieces[i][1],
                                                        value |-> SubSeq(pieces[i], 3, Len(pieces[i]))]],
                              box |-> box]
  BY <1>12, <1>13, <1>14, <1>16 DEF DecodeDatasetId
<1>19. [i \in 1 .. n |-> [key |-> pieces[i][1], value |-> SubSeq(pieces[i], 3, Len(pieces[i]))]] = tags
  <2>1. \A i \in 1 .. n : [key |-> pieces[i][1], value |-> SubSeq(pieces[i], 3, Len(pieces[i]))] = tags[i]
    BY <1>4, <1>15
  <2>2. [i \in 1 .. n |-> [key |-> pieces[i][1], value |-> SubSeq(pieces[i], 3, Len(pieces[i]))]] = [i \in 1 .. n |-> tags[i]]
    BY <2>1
  <2>3. [i \in 1 .. n |-> tags[i]] = tags
    BY <1>1, <1>2, LenProperties
  <2> QED BY <2>2, <2>3
<1> QED BY <1>1, <1>11, <1>17, <1>18, <1>19

-------------------------------------------------------------------------------
(* Queries in tasks, results and caches                                      *)

\* What is searched is accepted, and what is fetched is the query of an id.
TaskOk(t) ==
  /\ t.at = "search" => Searched(t.query)
  /\ t.at = "refetch" =>
       /\ Searched(t.searched)
       /\ t.query = DecodeDatasetId(EncodeDatasetId(t.searched.tags, t.searched.box))

\* A result's id is that of its query.
ResultOk(r) == "id" \in DOMAIN r => Searched(r.of) /\ r.id = EncodeDatasetId(r.of.tags, r.of.box)

\* Lookups have no ids.
CacheOk(cache) == \A place \in DOMAIN cache : "id" \notin DOMAIN cache[place]

Kinds == \A c \in Clients : TaskOk(task[c]) /\ ResultOk(result[c])
Caches == \A c \in Clients : CacheOk(adapter[c].cache)

SearchesIInv == Kinds /\ Caches

LEMMA PlainOnes == TaskOk(Idle) /\ ResultOk(Refused) /\ ResultOk(Accepted)
BY DEF TaskOk, ResultOk, Idle, Refused, Accepted

LEMMA BeginKinds ==
  ASSUME IInv, Kinds, NEW c, NEW stage, TaskOk(stage), Begin(c, stage)
  PROVE  Kinds'
<1>1. \A d \in Clients : /\ task'[d] = stage \/ task'[d] = task[d]
                         /\ result'[d] = Refused \/ result'[d] = result[d]
  BY DEF Begin, IInv
<1>2. ASSUME NEW d \in Clients PROVE TaskOk(task'[d]) /\ ResultOk(result'[d])
  BY <1>1, PlainOnes DEF Kinds
<1> QED BY <1>2 DEF Kinds, TaskOk, ResultOk

LEMMA ReturnKinds ==
  ASSUME IInv, Kinds, NEW c, NEW r, NEW file, ResultOk(r), Return(c, r, file)
  PROVE  Kinds'
<1>1. \A d \in Clients : /\ task'[d] = Idle \/ task'[d] = task[d]
                         /\ result'[d] = r \/ result'[d] = result[d]
  BY DEF Return, IInv
<1>2. ASSUME NEW d \in Clients PROVE TaskOk(task'[d]) /\ ResultOk(result'[d])
  BY <1>1, PlainOnes DEF Kinds
<1> QED BY <1>2 DEF Kinds, TaskOk, ResultOk

LEMMA CheckedKinds ==
  ASSUME IInv, Kinds, NEW c, NEW stage, NEW accepted \in BOOLEAN, accepted => TaskOk(stage), Checked(c, accepted, stage)
  PROVE  Kinds'
<1>1. CASE accepted
  BY <1>1, BeginKinds DEF Checked
<1>2. CASE ~accepted
  BY <1>2, ReturnKinds, PlainOnes DEF Checked
<1> QED BY <1>1, <1>2

\* One client's cache is replaced.
LEMMA CacheReplaced ==
  ASSUME IInv, Caches, NEW c, NEW new, CacheOk(new.cache), adapter' = [adapter EXCEPT ![c] = new]
  PROVE  Caches'
<1>1. \A d \in Clients : adapter'[d] = new \/ adapter'[d] = adapter[d]
  BY DEF IInv
<1>2. ASSUME NEW d \in Clients PROVE CacheOk(adapter'[d].cache)
  BY <1>1 DEF Caches
<1> QED BY <1>2 DEF Caches, CacheOk

LEMMA CallsCache ==
  ASSUME IInv, Caches, NEW c \in Clients
  PROVE  CacheOk(Adapter(c).cache)
<1>1. CASE c \in Handlers
  <2>1. Adapter(c).cache = <<>> /\ DOMAIN <<>> = {}
    BY <1>1 DEF Adapter, Fresh
  <2> QED BY <2>1 DEF CacheOk
<1>2. CASE c \notin Handlers
  BY <1>2 DEF Adapter, Caches
<1> QED BY <1>1, <1>2

LEMMA StepCaches == IInv /\ Caches /\ [Next]_vars => Caches'
<1> SUFFICES ASSUME IInv, Caches, [Next]_vars PROVE Caches'
  OBVIOUS
<1>1. CASE Tick
  <2>1. \A c \in Clients : adapter'[c] = [adapter[c] EXCEPT !.wait = Less(@)]
    BY <1>1 DEF Tick
  <2>2. \A c \in Clients : adapter'[c].cache = adapter[c].cache
    BY <2>1 DEF IInv
  <2> QED BY <2>2 DEF Caches, CacheOk
<1>2. ASSUME NEW c \in Clients, adapter' = [adapter EXCEPT ![c] = Adapter(c)] PROVE Caches'
  BY <1>2, CallsCache, CacheReplaced
<1>3. ASSUME NEW c \in Clients, Throttle(c) PROVE Caches'
  <2>1. \A d \in Clients : adapter'[d].cache = adapter[d].cache
    BY <1>3 DEF Throttle, IInv
  <2> QED BY <2>1 DEF Caches, CacheOk
<1>4. ASSUME NEW c \in Clients, LookupDone(c) PROVE Caches'
  <2>1. PICK ok, answer :
          /\ answer = [ok |-> ok, of |-> task[c].place]
          /\ adapter' = [adapter EXCEPT ![c].cache = Cached(@, task[c].place, answer)]
    BY <1>4 DEF LookupDone
  <2>2. PICK cache : cache = Cached(adapter[c].cache, task[c].place, answer)
    OBVIOUS
  <2>3. "id" \notin DOMAIN answer
    BY <2>1
  <2>4. CacheOk(cache)
    <3>1. CacheOk(adapter[c].cache)
      BY DEF Caches
    <3>2. DOMAIN cache = DOMAIN adapter[c].cache \cup {task[c].place}
      BY <2>2 DEF Cached
    <3>3. \A place \in DOMAIN cache : cache[place] = answer \/ (place \in DOMAIN adapter[c].cache /\ cache[place] = adapter[c].cache[place])
      BY <2>2, <3>2 DEF Cached
    <3> QED BY <2>3, <3>1, <3>3 DEF CacheOk
  <2>5. PICK new : new = [adapter[c] EXCEPT !.cache = cache]
    OBVIOUS
  <2>6. new.cache = cache /\ adapter' = [adapter EXCEPT ![c] = new]
    BY <2>1, <2>2, <2>5 DEF IInv
  <2> QED BY <2>4, <2>6, CacheReplaced
<1>5. ASSUME NEW c \in Clients, NEW place \in Places, Lookup(c, place) \/ LookupCached(c, place) PROVE Caches'
  BY <1>2, <1>5 DEF Lookup, LookupCached
<1>6. ASSUME NEW c \in Clients, LookupInvalid(c) PROVE Caches'
  BY <1>2, <1>6 DEF LookupInvalid
<1>7. CASE adapter' = adapter
  BY <1>7 DEF Caches, CacheOk
<1>8. ASSUME NEW c \in Handlers,
             \/ \E q \in Queries : Tags(c, q)
             \/ TagsDone(c) \/ Refetch(c) \/ RefetchDone(c)
             \/ \E item \in Items : AssetHref(c, item)
             \/ \E bytes \in Bodies : Body(c, bytes)
             \/ FetchFails(c)
      PROVE  adapter' = adapter
  BY <1>8 DEF Tags, TagsDone, Refetch, RefetchDone, AssetHref, Body, FetchFails
<1>9. ASSUME NEW c \in Keepers, NEW archive \in Archives, Extract(c, archive) PROVE adapter' = adapter
  BY <1>9 DEF Extract
<1> QED BY <1>1, <1>3, <1>4, <1>5, <1>6, <1>7, <1>8, <1>9 DEF Next, vars

LEMMA StepKinds == IInv /\ SearchesIInv /\ [Next]_vars => Kinds'
<1> SUFFICES ASSUME IInv, Kinds, Caches, [Next]_vars PROVE Kinds'
  BY DEF SearchesIInv
<1>1. CASE Tick \/ UNCHANGED vars
  <2>1. task' = task /\ result' = result
    BY <1>1 DEF Tick, vars
  <2> QED BY <2>1 DEF Kinds, TaskOk, ResultOk
<1>2. ASSUME NEW c \in Clients, LookupInvalid(c) PROVE Kinds'
  BY <1>2, CheckedKinds DEF LookupInvalid
<1>3. ASSUME NEW c \in Clients, Throttle(c) PROVE Kinds'
  <2>1. result' = result /\ \A d \in Clients : task'[d] = task[d] \/ task'[d] = [task[c] EXCEPT !.at = "lookup"]
    BY <1>3 DEF Throttle, IInv
  <2>2. TaskOk([task[c] EXCEPT !.at = "lookup"])
    <3>1. [task[c] EXCEPT !.at = "lookup"].at = "lookup" \/ "at" \notin DOMAIN task[c]
      OBVIOUS
    <3> QED BY <3>1 DEF TaskOk
  <2>3. ASSUME NEW d \in Clients PROVE TaskOk(task'[d]) /\ ResultOk(result'[d])
    BY <2>1, <2>2 DEF Kinds
  <2> QED BY <2>3 DEF Kinds, TaskOk, ResultOk
<1>4. ASSUME NEW c \in Clients, LookupDone(c) PROVE Kinds'
  <2>1. PICK ok \in BOOLEAN : Return(c, [ok |-> ok, of |-> task[c].place], None)
    BY <1>4 DEF LookupDone
  <2>2. ResultOk([ok |-> ok, of |-> task[c].place])
    BY DEF ResultOk
  <2> QED BY <2>1, <2>2, ReturnKinds
<1>5. ASSUME NEW c \in Clients, NEW place \in Places, Lookup(c, place) PROVE Kinds'
  <2>1. TaskOk([at |-> "throttle", place |-> place])
    BY DEF TaskOk
  <2> QED BY <1>5, <2>1, BeginKinds DEF Lookup
<1>6. ASSUME NEW c \in Clients, NEW place \in Places, LookupCached(c, place) PROVE Kinds'
  <2>1. PICK r : r = Adapter(c).cache[place] /\ Return(c, r, None) /\ place \in DOMAIN Adapter(c).cache
    BY <1>6 DEF LookupCached
  <2>2. ResultOk(r)
    BY <2>1, CallsCache DEF CacheOk, ResultOk
  <2> QED BY <2>1, <2>2, ReturnKinds
<1>7. ASSUME NEW c \in Handlers, NEW q \in Queries, Tags(c, q) PROVE Kinds'
  <2>1. QueryBuilt(q.tags, q.box) \in BOOLEAN
    BY DEF QueryBuilt
  <2>2. QueryBuilt(q.tags, q.box) => TaskOk([at |-> "search", query |-> q])
    BY DEF TaskOk, Searched
  <2>3. Checked(c, QueryBuilt(q.tags, q.box), [at |-> "search", query |-> q])
    BY <1>7 DEF Tags
  <2> QED BY <2>1, <2>2, <2>3, CheckedKinds
<1>8. ASSUME NEW c \in Handlers, TagsDone(c) PROVE Kinds'
  <2>1. CASE Return(c, Refused, None)
    BY <2>1, ReturnKinds, PlainOnes
  <2>2. PICK r : r = [ok |-> TRUE, of |-> task[c].query, id |-> EncodeDatasetId(task[c].query.tags, task[c].query.box)]
    OBVIOUS
  <2>3. CASE Return(c, r, None)
    <3>1. c \in Clients /\ task[c].at = "search"
      BY <1>8 DEF TagsDone, Clients
    <3>2. Searched(task[c].query)
      BY <3>1 DEF Kinds, TaskOk
    <3>3. ResultOk(r)
      BY <2>2, <3>2 DEF ResultOk
    <3> QED BY <2>3, <3>3, ReturnKinds
  <2> QED BY <1>8, <2>1, <2>2, <2>3 DEF TagsDone
<1>9. ASSUME NEW c \in Handlers, Refetch(c) PROVE Kinds'
  <2>1. PICK query : query = DecodeDatasetId(result[c].id)
    OBVIOUS
  <2>2. PICK stage : stage = [at |-> "refetch", query |-> query, searched |-> result[c].of]
    OBVIOUS
  <2>3. QueryBuilt(query.tags, query.box) \in BOOLEAN
    BY DEF QueryBuilt
  <2>4. Checked(c, QueryBuilt(query.tags, query.box), stage)
    BY <1>9, <2>1, <2>2 DEF Refetch
  <2>5. c \in Clients /\ "id" \in DOMAIN result[c]
    BY <1>9 DEF Refetch, Clients
  <2>6. Searched(result[c].of) /\ result[c].id = EncodeDatasetId(result[c].of.tags, result[c].of.box)
    BY <2>5 DEF Kinds, ResultOk
  <2>7. stage.at = "refetch" /\ stage.query = query /\ stage.searched = result[c].of
    BY <2>2
  <2>8. TaskOk(stage)
    BY <2>1, <2>6, <2>7 DEF TaskOk
  <2> QED BY <2>3, <2>4, <2>8, CheckedKinds
<1>10. ASSUME NEW c, NEW r, NEW file, Return(c, r, file), r = Refused \/ r = Accepted PROVE Kinds'
  BY <1>10, ReturnKinds, PlainOnes
<1>11. ASSUME NEW c \in Handlers,
              RefetchDone(c) \/ (\E bytes \in Bodies : Body(c, bytes)) \/ FetchFails(c)
       PROVE  Kinds'
  <2>1. \E r, file : Return(c, r, file) /\ (r = Refused \/ r = Accepted)
    <3>1. CASE RefetchDone(c)
      BY <3>1 DEF RefetchDone
    <3>2. CASE \E bytes \in Bodies : Body(c, bytes)
      BY <3>2 DEF Body
    <3>3. CASE FetchFails(c)
      BY <3>3 DEF FetchFails
    <3> QED BY <1>11, <3>1, <3>2, <3>3
  <2> QED BY <1>10, <2>1
<1>12. ASSUME NEW c \in Handlers, NEW item \in Items, AssetHref(c, item) PROVE Kinds'
  <2>1. AssetAccepted(item, MaxBytes) \in BOOLEAN
    BY DEF AssetAccepted
  <2>2. TaskOk([at |-> "body"])
    BY DEF TaskOk
  <2> QED BY <1>12, <2>1, <2>2, CheckedKinds DEF AssetHref
<1>13. ASSUME NEW c \in Keepers, NEW archive \in Archives, Extract(c, archive) PROVE Kinds'
  <2>1. \E r, file : Return(c, r, file) /\ (r = Refused \/ r = Accepted)
    BY <1>13 DEF Extract
  <2> QED BY <1>10, <2>1
<1> QED BY <1>1, <1>2, <1>3, <1>4, <1>5, <1>6, <1>7, <1>8, <1>9, <1>11, <1>12, <1>13 DEF Next

LEMMA SearchesInvariance == Spec => []SearchesIInv
<1>1. Init => SearchesIInv
  <2>1. ASSUME Init, NEW c \in Clients PROVE TaskOk(task[c]) /\ ResultOk(result[c]) /\ CacheOk(adapter[c].cache)
    <3>1. task[c] = Idle /\ result[c] = Refused /\ adapter[c] = Fresh
      BY <2>1 DEF Init
    <3>2. CacheOk(Fresh.cache)
      <4>1. Fresh.cache = <<>> /\ DOMAIN <<>> = {}
        BY DEF Fresh
      <4> QED BY <4>1 DEF CacheOk
    <3> QED BY <3>1, <3>2, PlainOnes
  <2> QED BY <2>1 DEF SearchesIInv, Kinds, Caches
<1>2. IInv /\ SearchesIInv /\ [Next]_vars => SearchesIInv'
  BY StepCaches, StepKinds DEF SearchesIInv
<1> QED BY Invariance, <1>1, <1>2, PTL DEF Spec

\* The download fetches the query that was searched, and what was found can be
\* downloaded, for tags and values of any length without separators: the id that
\* encode_overpass_dataset_id joins is taken apart into the same query (osm.py:103-143).
THEOREM RefetchesRepeatSearches == Spec => []RefetchIsTheSearch
<1>1. SearchesIInv => RefetchIsTheSearch
  <2> SUFFICES ASSUME SearchesIInv, NEW c \in Clients
               PROVE  /\ task[c].at = "refetch" /\ Plain(task[c].searched.tags) => task[c].query = task[c].searched
                      /\ "id" \in DOMAIN result[c] /\ Plain(result[c].of.tags) =>
                           /\ HasAsset(result[c].id)
                           /\ LET query == DecodeDatasetId(result[c].id) IN QueryBuilt(query.tags, query.box)
    BY DEF RefetchIsTheSearch
  <2>1. TaskOk(task[c]) /\ ResultOk(result[c])
    BY DEF SearchesIInv, Kinds
  <2>2. ASSUME task[c].at = "refetch", Plain(task[c].searched.tags) PROVE task[c].query = task[c].searched
    <3>1. PICK query \in Queries : query = task[c].searched /\ QueryBuilt(query.tags, query.box)
      BY <2>1, <2>2 DEF TaskOk, Searched
    <3>2. DecodeDatasetId(EncodeDatasetId(query.tags, query.box)) = query
      BY <2>2, <3>1, IdComesBack
    <3> QED BY <2>1, <2>2, <3>1, <3>2 DEF TaskOk
  <2>3. ASSUME "id" \in DOMAIN result[c], Plain(result[c].of.tags)
        PROVE  /\ HasAsset(result[c].id)
               /\ LET query == DecodeDatasetId(result[c].id) IN QueryBuilt(query.tags, query.box)
    <3>1. PICK query \in Queries : /\ query = result[c].of /\ QueryBuilt(query.tags, query.box)
                                  /\ result[c].id = EncodeDatasetId(query.tags, query.box)
      BY <2>1, <2>3 DEF ResultOk, Searched
    <3>2. /\ Decodable(EncodeDatasetId(query.tags, query.box))
          /\ DecodeDatasetId(EncodeDatasetId(query.tags, query.box)) = query
      BY <2>3, <3>1, IdComesBack
    <3> QED BY <3>1, <3>2 DEF HasAsset
  <2> QED BY <2>2, <2>3
<1> QED BY <1>1, SearchesInvariance, PTL
================================================================================
