------------------------- MODULE ProvenanceStoreProofs -------------------------
(***************************************************************************)
(* ProvenanceStore: for any identities and retrieval times, and a file of  *)
(* any length, memory holds one record per identity, and as long as writes *)
(* are whole memory and file agree on it, in this life and in every later  *)
(* one.                                                                    *)
(***************************************************************************)
EXTENDS ProvenanceStore, WellFoundedInduction, TLAPS

StoreTypeOK ==
  /\ status \in {"down", "loading", "up", "failed"}
  /\ memory \in Seq(DataProvenance)
  /\ file \in Seq(Line)
  /\ pos \in Nat \ {0}
  /\ promised \in [Ids -> DataProvenance \cup {None}]
  /\ faulted \in BOOLEAN

\* Every line of the file is a record with its newline.
WholeLines ==
  \A k \in DOMAIN file : file[k].record \in DataProvenance /\ file[k].ended

\* r is the record that a reader of the file comes across first under its identity.
ReadFirst(r) ==
  \E k \in DOMAIN file :
    /\ file[k].record = r
    /\ \A j \in DOMAIN file : file[j].record.id = r.id => k <= j

\* What is remembered or promised is what the file has first.
RememberedIsFirst ==
  \A r \in DataProvenance : (\E m \in DOMAIN memory : memory[m] = r) => ReadFirst(r)

PromisedIsFirst ==
  \A id \in Ids : \A r \in DataProvenance : promised[id] = r => r.id = id /\ ReadFirst(r)

\* The lines a load has passed are remembered, and all of them in an open store.
LoadedIsKnown ==
  \A k \in DOMAIN file : \A r \in DataProvenance :
    /\ status = "up" \/ (status = "loading" /\ k < pos)
    /\ file[k].record = r
    => Known(r.id)

\* What holds as long as no write has failed.
Whole == WholeLines /\ RememberedIsFirst /\ PromisedIsFirst /\ LoadedIsKnown

\* The inductive invariant: loading has to be followed line by line, since a store
\* that is being opened writes to the file it reads.
IInv ==
  /\ StoreTypeOK
  /\ OneRecordPerIdentity
  /\ AlwaysOpens
  /\ ~faulted => Whole

-------------------------------------------------------------------------------
(* A line more                                                              *)

\* A whole file grows by a whole line.
LEMMA WrittenWhole ==
  ASSUME NEW r \in DataProvenance, file \in Seq(Line), WholeLines
  PROVE  Written(file, r, TRUE) = Append(file, [record |-> r, ended |-> TRUE])
BY DEF Written, WholeLines

LEMMA WrittenType ==
  ASSUME NEW r \in DataProvenance \cup {None}, NEW e \in BOOLEAN, file \in Seq(Line)
  PROVE  Written(file, r, e) \in Seq(Line)
<1>1. [record |-> r, ended |-> e] \in Line /\ [record |-> None, ended |-> e] \in Line
  BY DEF Line
<1> QED BY <1>1 DEF Written

LEMMA CutShortType ==
  ASSUME NEW r \in DataProvenance, file \in Seq(Line), NEW f \in CutShort(file, r)
  PROVE  f \in Seq(Line)
BY WrittenType DEF CutShort

\* What is read first stays first.
LEMMA FirstStays ==
  ASSUME file \in Seq(Line), NEW l \in Line, NEW r, ReadFirst(r),
         file' = Append(file, l)
  PROVE  ReadFirst(r)'
<1>1. PICK k \in DOMAIN file :
         /\ file[k].record = r
         /\ \A j \in DOMAIN file : file[j].record.id = r.id => k <= j
  BY DEF ReadFirst
<1>2. /\ DOMAIN file = 1 .. Len(file) /\ DOMAIN file' = 1 .. Len(file) + 1
      /\ Len(file) \in Nat
      /\ \A j \in DOMAIN file : file'[j] = file[j]
  OBVIOUS
<1>3. k \in DOMAIN file' /\ file'[k].record = r
  BY <1>1, <1>2
<1>4. ASSUME NEW j \in DOMAIN file', file'[j].record.id = r.id PROVE k <= j
  BY <1>1, <1>2, <1>4
<1> QED BY <1>3, <1>4 DEF ReadFirst

\* There is only one record that is read first under an identity.
LEMMA FirstIsUnique ==
  ASSUME file \in Seq(Line), NEW r, NEW s, ReadFirst(r), ReadFirst(s), r.id = s.id
  PROVE  r = s
<1>1. PICK k \in DOMAIN file :
         /\ file[k].record = r
         /\ \A j \in DOMAIN file : file[j].record.id = r.id => k <= j
  BY DEF ReadFirst
<1>2. PICK l \in DOMAIN file :
         /\ file[l].record = s
         /\ \A j \in DOMAIN file : file[j].record.id = s.id => l <= j
  BY DEF ReadFirst
<1>3. k <= l /\ l <= k /\ k \in Nat /\ l \in Nat
  BY <1>1, <1>2
<1> QED BY <1>1, <1>2, <1>3

LEMMA FirstIsFirstOnFile ==
  ASSUME file \in Seq(Line), WholeLines, NEW r \in DataProvenance, ReadFirst(r)
  PROVE  FirstOnFile(r.id) = r
<1> DEFINE here == {k \in DOMAIN file : file[k].record # None /\ file[k].record.id = r.id}
           first == CHOOSE k \in here : \A j \in here : k <= j
<1>1. PICK k \in DOMAIN file :
         /\ file[k].record = r
         /\ \A j \in DOMAIN file : file[j].record.id = r.id => k <= j
  BY DEF ReadFirst
<1>2. k \in here /\ \A j \in here : k <= j
  BY <1>1, NoneAssumption
<1>3. first \in here /\ \A j \in here : first <= j
  BY <1>2
<1>4. first = k
  BY <1>2, <1>3
<1>5. OnFile(r.id)
  BY <1>2 DEF OnFile
<1>6. FirstOnFile(r.id) = file[first].record
  BY <1>5 DEF FirstOnFile
<1> QED BY <1>1, <1>4, <1>6

LEMMA GetKnown ==
  ASSUME memory \in Seq(DataProvenance), OneRecordPerIdentity, NEW id, Known(id)
  PROVE  \E m \in DOMAIN memory : Get(id) = memory[m] /\ memory[m].id = id
BY DEF Known, Get

-------------------------------------------------------------------------------
(* append()                                                                 *)

\* The ways append() goes: the record is known, it is written, or writing it fails.
LEMMA RememberCases ==
  ASSUME NEW r, NEW next, Remember(r, next)
  PROVE  \/ /\ Known(r.id)
            /\ memory' = memory /\ file' = file /\ faulted' = faulted /\ status' = next
         \/ /\ ~Known(r.id)
            /\ memory' = Append(memory, r) /\ file' = Written(file, r, TRUE)
            /\ faulted' = faulted /\ status' = next
         \/ /\ ~Known(r.id)
            /\ memory' = Append(memory, r) /\ file' \in CutShort(file, r)
            /\ faulted' = TRUE
            /\ status' = IF status = "loading" THEN "failed" ELSE status
BY DEF Remember

\* append() keeps the invariant, whether a load calls it or a caller of an open store.
LEMMA RememberIInv ==
  ASSUME IInv, NEW r \in DataProvenance, NEW next \in {"loading", "up"},
         status = next, Remember(r, next), pos' \in Nat \ {0},
         \* a record that a load comes across for the first time is the first of the file
         ~faulted /\ status = "loading" =>
           pos \in DOMAIN file /\ file[pos].record = r /\ pos' = pos + 1,
         promised' \in [Ids -> DataProvenance \cup {None}],
         ~faulted' =>
           \A id \in Ids : \A p \in DataProvenance :
             promised'[id] = p =>
               \/ promised[id] = p
               \/ p.id = id /\ (ReadFirst(p) \/ (p = r /\ ~Known(r.id)))
  PROVE  IInv'
<1> USE DEF IInv
<1>0. /\ memory \in Seq(DataProvenance) /\ file \in Seq(Line)
      /\ status \in {"loading", "up"} /\ faulted \in BOOLEAN
  BY DEF StoreTypeOK
<1>1. StoreTypeOK'
  <2>1. memory' \in Seq(DataProvenance)
    <3>1. memory' = memory \/ memory' = Append(memory, r)
      BY RememberCases
    <3> QED BY <1>0, <3>1
  <2>2. file' \in Seq(Line)
    <3>1. file' = file \/ file' = Written(file, r, TRUE) \/ file' \in CutShort(file, r)
      BY RememberCases
    <3>2. Written(file, r, TRUE) \in Seq(Line)
      BY <1>0, WrittenType
    <3> QED BY <1>0, <3>1, <3>2, CutShortType
  <2>3. status' \in {"down", "loading", "up", "failed"} /\ faulted' \in BOOLEAN
    BY <1>0, RememberCases
  <2> QED BY <2>1, <2>2, <2>3 DEF StoreTypeOK
<1>2. OneRecordPerIdentity'
  <2>1. CASE memory' = memory
    BY <2>1 DEF OneRecordPerIdentity
  <2>2. CASE ~Known(r.id) /\ memory' = Append(memory, r)
    <3>1. \A m \in DOMAIN memory : memory[m].id # r.id
      BY <2>2 DEF Known
    <3>2. \A m \in DOMAIN memory' :
            \/ m \in DOMAIN memory /\ memory'[m] = memory[m]
            \/ m = Len(memory) + 1 /\ memory'[m] = r
      BY <1>0, <2>2
    <3> QED BY <3>1, <3>2 DEF OneRecordPerIdentity
  <2> QED BY <2>1, <2>2, RememberCases
<1>3. AlwaysOpens'
  BY <1>0, RememberCases DEF AlwaysOpens
<1>4. ASSUME ~faulted' PROVE Whole'
  <2>1. ~faulted /\ Whole /\ status' = next
    BY <1>4, RememberCases
  <2>2. CASE Known(r.id)
    <3>1. memory' = memory /\ file' = file
      BY <2>2, RememberCases
    <3>2. WholeLines' /\ RememberedIsFirst' /\ \A x : ReadFirst(x)' <=> ReadFirst(x)
      BY <2>1, <3>1 DEF Whole, WholeLines, RememberedIsFirst, ReadFirst
    <3>3. PromisedIsFirst'
      BY <1>4, <2>1, <2>2, <3>2 DEF Whole, PromisedIsFirst
    <3>4. LoadedIsKnown'
      BY <2>1, <2>2, <3>1 DEF Whole, LoadedIsKnown, Known, StoreTypeOK
    <3> QED BY <3>2, <3>3, <3>4 DEF Whole
  <2>3. CASE ~Known(r.id)
    <3> DEFINE l == [record |-> r, ended |-> TRUE]
    <3>1. /\ memory' = Append(memory, r) /\ file' = Append(file, l) /\ l \in Line
      <4>1. file' = Written(file, r, TRUE) /\ memory' = Append(memory, r)
        BY <1>4, <2>3, RememberCases
      <4>2. file' = Append(file, l)
        BY <1>0, <2>1, <4>1, WrittenWhole DEF Whole
      <4> QED BY <4>1, <4>2 DEF Line
    <3>2. WholeLines'
      BY <2>1, <3>1 DEF Whole, WholeLines
    <3>3. ReadFirst(r)'
      <4>1. CASE status = "loading"
        <5>1. pos \in DOMAIN file /\ file[pos].record = r
          BY <2>1, <4>1
        <5>2. \A j \in DOMAIN file : file[j].record.id = r.id => pos <= j
          <6>1. ASSUME NEW j \in DOMAIN file, file[j].record.id = r.id, j < pos PROVE FALSE
            <7>1. file[j].record \in DataProvenance
              BY <2>1 DEF Whole, WholeLines
            <7>2. Known(file[j].record.id)
              BY <2>1, <4>1, <6>1, <7>1 DEF Whole, LoadedIsKnown
            <7> QED BY <2>3, <6>1, <7>2
          <6>2. pos \in Nat /\ DOMAIN file \subseteq Nat
            BY <1>0 DEF StoreTypeOK
          <6> QED BY <6>1, <6>2
        <5>3. ReadFirst(r)
          BY <5>1, <5>2 DEF ReadFirst
        <5> QED BY <1>0, <3>1, <5>3, FirstStays
      <4>2. CASE status = "up"
        <5>1. \A j \in DOMAIN file : file[j].record.id # r.id
          BY <2>1, <2>3, <4>2 DEF Whole, WholeLines, LoadedIsKnown
        <5>2. \A j \in DOMAIN file' : file'[j].record.id = r.id => j = Len(file) + 1
          BY <3>1, <5>1
        <5>3. Len(file) + 1 \in DOMAIN file' /\ file'[Len(file) + 1].record = r
          BY <3>1
        <5>4. \A j \in DOMAIN file' : file'[j].record.id = r.id => Len(file) + 1 <= j
          BY <3>1, <5>2
        <5> QED BY <5>3, <5>4 DEF ReadFirst
      <4> QED BY <4>1, <4>2
    <3>4. RememberedIsFirst'
      <4>1. ASSUME NEW x \in DataProvenance, NEW m \in DOMAIN memory', memory'[m] = x
            PROVE  ReadFirst(x)'
        <5>1. CASE m \in DOMAIN memory
          <6>1. ReadFirst(x)
            BY <2>1, <3>1, <4>1, <5>1 DEF Whole, RememberedIsFirst
          <6> QED BY <1>0, <3>1, <6>1, FirstStays
        <5>2. CASE m \notin DOMAIN memory
          BY <1>0, <3>1, <3>3, <4>1, <5>2
        <5> QED BY <5>1, <5>2
      <4> QED BY <4>1 DEF RememberedIsFirst
    <3>5. PromisedIsFirst'
      <4>1. ASSUME NEW id \in Ids, NEW p \in DataProvenance, promised'[id] = p
            PROVE  p.id = id /\ ReadFirst(p)'
        <5>1. p.id = id /\ (ReadFirst(p) \/ p = r)
          BY <1>4, <2>1, <4>1 DEF Whole, PromisedIsFirst
        <5>2. CASE ReadFirst(p)
          BY <1>0, <3>1, <5>1, <5>2, FirstStays
        <5> QED BY <3>3, <5>1, <5>2
      <4> QED BY <4>1 DEF PromisedIsFirst
    <3>6. LoadedIsKnown'
      <4>1. Known(r.id)' /\ \A id : Known(id) => Known(id)'
        <5>1. \A m \in DOMAIN memory : m \in DOMAIN memory' /\ memory'[m] = memory[m]
          BY <1>0, <3>1
        <5>2. Len(memory) + 1 \in DOMAIN memory' /\ memory'[Len(memory) + 1] = r
          BY <1>0, <3>1
        <5> QED BY <5>1, <5>2 DEF Known
      <4>2. ASSUME NEW k \in DOMAIN file', NEW x \in DataProvenance, file'[k].record = x,
                   status' = "up" \/ (status' = "loading" /\ k < pos')
            PROVE  Known(x.id)'
        <5>1. CASE k \in DOMAIN file /\ (status = "up" \/ (status = "loading" /\ k < pos))
          <6>1. file[k].record = x
            BY <1>0, <3>1, <4>2, <5>1
          <6>2. Known(x.id)
            BY <2>1, <5>1, <6>1 DEF Whole, LoadedIsKnown
          <6> QED BY <4>1, <6>2
        <5>2. CASE k = Len(file) + 1
          BY <1>0, <3>1, <4>1, <4>2, <5>2
        <5>3. CASE status = "loading" /\ k = pos
          <6>1. pos \in DOMAIN file /\ file[pos].record = r
            BY <2>1, <5>3
          <6>2. x = r
            BY <1>0, <3>1, <4>2, <5>3, <6>1
          <6> QED BY <4>1, <6>2
        <5>4. k \in DOMAIN file \/ k = Len(file) + 1
          BY <1>0, <3>1, <4>2
        <5>5. status = "loading" => pos' = pos + 1
          BY <2>1
        <5>6. status' = status /\ pos \in Nat /\ k \in Nat
          BY <1>0, <2>1, <3>1, <4>2 DEF StoreTypeOK
        <5>7. status = "up" \/ (status = "loading" /\ (k < pos \/ k = pos))
          BY <4>2, <5>5, <5>6
        <5> QED BY <5>1, <5>2, <5>3, <5>4, <5>7
      <4> QED BY <4>2 DEF LoadedIsKnown
    <3> QED BY <3>2, <3>4, <3>5, <3>6 DEF Whole
  <2> QED BY <2>2, <2>3
<1> QED BY <1>1, <1>2, <1>3, <1>4

-------------------------------------------------------------------------------
(* The steps                                                                *)

LEMMA InitIInv == Init => IInv
<1> SUFFICES ASSUME Init PROVE IInv
  OBVIOUS
<1>1. StoreTypeOK
  <2>1. promised \in [Ids -> DataProvenance \cup {None}]
    BY DEF Init
  <2>2. memory \in Seq(DataProvenance) /\ file \in Seq(Line)
    BY DEF Init
  <2>3. status \in {"down", "loading", "up", "failed"} /\ faulted \in BOOLEAN
    BY DEF Init
  <2>4. pos \in Nat \ {0}
    BY DEF Init
  <2> QED BY <2>1, <2>2, <2>3, <2>4 DEF StoreTypeOK
<1>2. OneRecordPerIdentity /\ AlwaysOpens
  BY DEF Init, OneRecordPerIdentity, AlwaysOpens
<1>3. WholeLines /\ RememberedIsFirst /\ LoadedIsKnown
  BY DEF Init, WholeLines, RememberedIsFirst, LoadedIsKnown
<1>4. PromisedIsFirst
  BY NoneAssumption DEF Init, PromisedIsFirst
<1> QED BY <1>1, <1>2, <1>3, <1>4 DEF IInv, Whole

\* Nothing that leaves the file, the promises and the fault alone disturbs more than
\* what is said of memory and of lines a load has passed.
LEMMA FileUntouched ==
  ASSUME IInv, file' = file, promised' = promised, faulted' = faulted,
         StoreTypeOK', AlwaysOpens',
         memory' = memory \/ memory' = <<>>,
         ~faulted /\ Whole => LoadedIsKnown'
  PROVE  IInv'
<1>1. OneRecordPerIdentity'
  BY DEF IInv, OneRecordPerIdentity
<1>2. ASSUME ~faulted, Whole PROVE Whole'
  <2>1. WholeLines' /\ \A r : ReadFirst(r)' <=> ReadFirst(r)
    BY <1>2 DEF Whole, WholeLines, ReadFirst
  <2>2. RememberedIsFirst' /\ PromisedIsFirst'
    BY <1>2, <2>1 DEF Whole, RememberedIsFirst, PromisedIsFirst
  <2> QED BY <1>2, <2>1, <2>2 DEF Whole
<1> QED BY <1>1, <1>2 DEF IInv

LEMMA StepIInv == IInv /\ [Next]_vars => IInv'
<1> SUFFICES ASSUME IInv, [Next]_vars PROVE IInv'
  OBVIOUS
<1> USE DEF IInv
<1>1. CASE Open
  <2>1. StoreTypeOK' /\ AlwaysOpens'
    BY <1>1 DEF Open, StoreTypeOK, AlwaysOpens
  <2>2. LoadedIsKnown'
    <3>1. CASE file = <<>>
      BY <1>1, <3>1 DEF Open, LoadedIsKnown
    <3>2. CASE file # <<>>
      <4>1. status' = "loading" /\ pos' = 1 /\ file' = file
        BY <1>1, <3>2 DEF Open
      <4>2. \A k \in DOMAIN file : ~ k < 1
        BY DEF StoreTypeOK
      <4> QED BY <4>1, <4>2 DEF LoadedIsKnown
    <3> QED BY <3>1, <3>2
  <2> QED BY <1>1, <2>1, <2>2, FileUntouched DEF Open
<1>2. CASE LoadLine
  <2> DEFINE r == file[pos].record
  <2>1. status = "loading" /\ pos \in DOMAIN file /\ pos' = pos + 1 /\ promised' = promised
    BY <1>2 DEF LoadLine, StoreTypeOK
  <2>2. CASE r = None
    <3>1. faulted
      BY <2>1, <2>2, NoneAssumption DEF Whole, WholeLines, StoreTypeOK
    <3>2. status' = "failed" /\ UNCHANGED <<memory, file, faulted>>
      BY <1>2, <2>2 DEF LoadLine
    <3>3. StoreTypeOK' /\ AlwaysOpens'
      BY <2>1, <3>1, <3>2 DEF StoreTypeOK, AlwaysOpens
    <3> QED BY <2>1, <3>1, <3>2, <3>3, FileUntouched
  <2>3. CASE r # None
    <3>1. Remember(r, "loading")
      BY <1>2, <2>3 DEF LoadLine
    <3>2. r \in DataProvenance
      <4>1. file[pos] \in Line
        BY <2>1 DEF StoreTypeOK
      <4> QED BY <2>3, <4>1 DEF Line
    <3>3. pos' \in Nat \ {0} /\ promised' \in [Ids -> DataProvenance \cup {None}]
      BY <2>1 DEF StoreTypeOK
    <3>4. PICK x \in DataProvenance : x = r
      BY <3>2
    <3> QED BY <2>1, <3>1, <3>3, <3>4, RememberIInv
  <2> QED BY <2>2, <2>3
<1>3. CASE LoadEnd
  <2>1. StoreTypeOK' /\ AlwaysOpens'
    BY <1>3 DEF LoadEnd, StoreTypeOK, AlwaysOpens
  <2>2. ASSUME Whole PROVE LoadedIsKnown'
    <3>1. \A k \in DOMAIN file : k < pos
      BY <1>3 DEF LoadEnd, StoreTypeOK
    <3> QED BY <1>3, <2>2, <3>1 DEF LoadEnd, Whole, LoadedIsKnown, Known
  <2> QED BY <1>3, <2>1, <2>2, FileUntouched DEF LoadEnd
<1>4. ASSUME NEW r \in DataProvenance, AppendRecord(r) PROVE IInv'
  <2>1. status = "up" /\ Remember(r, "up") /\ pos' = pos
    BY <1>4 DEF AppendRecord
  <2> DEFINE kept == [r EXCEPT !.at = IF Known(r.id) THEN Get(r.id).at ELSE r.at]
  <2>2. kept \in DataProvenance /\ kept.id = r.id
        /\ (Known(r.id) => kept = Get(r.id)) /\ (~Known(r.id) => kept = r)
    <3>1. CASE Known(r.id)
      <4>1. PICK m \in DOMAIN memory : Get(r.id) = memory[m] /\ memory[m].id = r.id
        BY <3>1, GetKnown DEF StoreTypeOK
      <4>2. Get(r.id) \in DataProvenance /\ Get(r.id).id = r.id
        BY <4>1 DEF StoreTypeOK
      <4> QED BY <3>1, <4>2 DEF DataProvenance
    <3>2. CASE ~Known(r.id)
      BY <3>2 DEF DataProvenance
    <3> QED BY <3>1, <3>2
  <2>3. promised' = promised \/ promised' = [promised EXCEPT ![r.id] = kept]
    <3>1. Promise(kept) \/ promised' = promised
      BY <1>4 DEF AppendRecord
    <3> QED BY <3>1, <2>2 DEF Promise
  <2>4. promised' \in [Ids -> DataProvenance \cup {None}]
    BY <2>2, <2>3 DEF StoreTypeOK
  <2>5. ASSUME ~faulted' PROVE ReadFirst(kept) \/ (kept = r /\ ~Known(r.id))
    <3>1. ~faulted /\ Whole
      BY <2>5, <2>1, RememberCases
    <3>2. CASE Known(r.id)
      <4>1. PICK m \in DOMAIN memory : Get(r.id) = memory[m]
        BY <3>2, GetKnown DEF StoreTypeOK
      <4> QED BY <2>2, <3>1, <3>2, <4>1 DEF Whole, RememberedIsFirst
    <3> QED BY <2>2, <3>2
  <2>6. PICK k \in DataProvenance : k = kept
    BY <2>2
  <2>7. ASSUME ~faulted', NEW id \in Ids, NEW p \in DataProvenance, promised'[id] = p
        PROVE  \/ promised[id] = p
               \/ p.id = id /\ (ReadFirst(p) \/ (p = r /\ ~Known(r.id)))
    <3>1. promised[id] = p \/ (p = k /\ id = r.id)
      BY <2>3, <2>6, <2>7 DEF StoreTypeOK
    <3> QED BY <2>2, <2>5, <2>6, <2>7, <3>1
  <2>8. pos' \in Nat \ {0}
    BY <2>1 DEF StoreTypeOK
  <2> HIDE DEF kept, IInv
  <2> QED BY <2>1, <2>4, <2>7, <2>8, RememberIInv
<1>5. CASE Crash
  <2>1. StoreTypeOK' /\ AlwaysOpens'
    BY <1>5 DEF Crash, StoreTypeOK, AlwaysOpens
  <2>2. LoadedIsKnown'
    BY <1>5 DEF Crash, LoadedIsKnown
  <2> QED BY <1>5, <2>1, <2>2, FileUntouched DEF Crash
<1>6. ASSUME NEW r \in DataProvenance, CrashWriting(r) PROVE IInv'
  <2>1. StoreTypeOK'
    BY <1>6, CutShortType DEF CrashWriting, StoreTypeOK
  <2>2. OneRecordPerIdentity' /\ AlwaysOpens' /\ faulted'
    BY <1>6 DEF CrashWriting, OneRecordPerIdentity, AlwaysOpens
  <2> QED BY <2>1, <2>2
<1>7. CASE UNCHANGED vars
  <2>1. /\ status' = status /\ memory' = memory /\ file' = file /\ pos' = pos
        /\ promised' = promised /\ faulted' = faulted
    BY <1>7 DEF vars
  <2>2. StoreTypeOK' /\ AlwaysOpens'
    BY <2>1 DEF StoreTypeOK, AlwaysOpens
  <2>3. Whole => LoadedIsKnown'
    BY <2>1 DEF Whole, LoadedIsKnown, Known
  <2> QED BY <2>1, <2>2, <2>3, FileUntouched
<1> QED BY <1>1, <1>2, <1>3, <1>4, <1>5, <1>6, <1>7 DEF Next, Loading

THEOREM Invariance == FairSpec => []IInv
BY InitIInv, StepIInv, PTL DEF FairSpec, Spec

-------------------------------------------------------------------------------
(* The theorems                                                             *)

\* The store never holds two records under one identity: not when a file has the
\* identity on several lines, nor when loading appends what it reads, nor after a
\* write that failed ("Idempotent on identity", append()).
THEOREM OneRecord == FairSpec => []OneRecordPerIdentity
BY Invariance, PTL DEF IInv

\* A constructor raises over a line it cannot parse only after a write was cut short.
THEOREM Opens == FairSpec => []AlwaysOpens
BY Invariance, PTL DEF IInv

LEMMA OpenAgrees == ASSUME IInv PROVE OpenMeansFile
<1> SUFFICES ASSUME status = "up", ~faulted, NEW id \in Ids
             PROVE  Get(id) = FirstOnFile(id)
  BY DEF OpenMeansFile
<1>1. StoreTypeOK /\ Whole /\ OneRecordPerIdentity
  BY DEF IInv
<1>2. CASE Known(id)
  <2>1. PICK m \in DOMAIN memory : Get(id) = memory[m] /\ memory[m].id = id
    BY <1>1, <1>2, GetKnown DEF StoreTypeOK
  <2>2. PICK r \in DataProvenance : r = memory[m]
    BY <1>1 DEF StoreTypeOK
  <2>3. ReadFirst(r)
    BY <1>1, <2>2 DEF Whole, RememberedIsFirst
  <2>4. FirstOnFile(r.id) = r
    BY <1>1, <2>3, FirstIsFirstOnFile DEF StoreTypeOK, Whole
  <2> QED BY <2>1, <2>2, <2>4
<1>3. CASE ~Known(id)
  <2>1. \A k \in DOMAIN file : file[k].record.id # id
    BY <1>1, <1>3 DEF Whole, WholeLines, LoadedIsKnown
  <2> QED BY <1>3, <2>1 DEF FirstOnFile, OnFile, Get
<1> QED BY <1>2, <1>3

\* While writes are whole, an open store answers get() with the record the file has
\* first, for each identity.
THEOREM OpenMeansFileHolds == FairSpec => []OpenMeansFile
BY Invariance, OpenAgrees, PTL

LEMMA PromisesAgree == ASSUME IInv PROVE PromisesKept
<1> SUFFICES ASSUME status = "up", ~faulted, NEW id \in Ids, promised[id] # None
             PROVE  Get(id) = promised[id]
  BY DEF PromisesKept
<1>1. StoreTypeOK /\ Whole
  BY DEF IInv
<1>2. PICK p \in DataProvenance : p = promised[id]
  BY <1>1 DEF StoreTypeOK
<1>3. p.id = id /\ ReadFirst(p)
  BY <1>1, <1>2 DEF Whole, PromisedIsFirst
<1>4. FirstOnFile(id) = p
  BY <1>1, <1>3, FirstIsFirstOnFile DEF StoreTypeOK, Whole
<1> QED BY <1>2, <1>4, OpenAgrees DEF OpenMeansFile

\* While writes are whole, the record behind an identity that append() returned is
\* found again, in this life of the process and in all later ones.
THEOREM PromisesKeptHolds == FairSpec => []PromisesKept
BY Invariance, PromisesAgree, PTL

-------------------------------------------------------------------------------
(* The file implements the log                                              *)

\* Line k of the file f holds a record of the identity.
Holds(f, k, id) == f[k].record # None /\ f[k].record.id = id

\* FirstOnFile and InDoubt, of any file.
FirstIn(f, id) ==
  LET here == {k \in DOMAIN f : Holds(f, k, id)}
  IN  IF here # {} THEN f[CHOOSE k \in here : \A j \in here : k <= j].record ELSE None

DoubtIn(f) ==
  IF f # <<>> /\ ~f[Len(f)].ended /\ f[Len(f)].record # None
  THEN f[Len(f)].record.id
  ELSE None

LEMMA LeastOf ==
  ASSUME NEW S \in SUBSET Nat, S # {}
  PROVE  \E m \in S : \A n \in S : m <= n
<1>1. PICK m \in S : \A n \in S : <<n, m>> \notin OpToRel(<, Nat)
  BY NatLessThanWellFounded, WFMin, Zenon
<1>2. \A n \in S : ~(n < m)
  BY <1>1, Zenon DEF OpToRel
<1> QED BY <1>2

\* Either no line holds the identity, or the first that does has the record.
LEMMA FirstCases ==
  ASSUME NEW f \in Seq(Line), NEW id
  PROVE  \/ FirstIn(f, id) = None /\ \A k \in DOMAIN f : ~Holds(f, k, id)
         \/ \E k \in DOMAIN f :
              /\ Holds(f, k, id)
              /\ \A j \in DOMAIN f : Holds(f, j, id) => k <= j
              /\ FirstIn(f, id) = f[k].record
<1> DEFINE here == {k \in DOMAIN f : Holds(f, k, id)}
<1>1. CASE here = {}
  BY <1>1 DEF FirstIn
<1>2. CASE here # {}
  <2> DEFINE first == CHOOSE k \in here : \A j \in here : k <= j
  <2>1. here \in SUBSET Nat
    OBVIOUS
  <2>2. \E k \in here : \A j \in here : k <= j
    BY <1>2, <2>1, LeastOf
  <2>3. first \in here /\ \A j \in here : first <= j
    BY <2>2
  <2>4. FirstIn(f, id) = f[first].record
    BY <1>2 DEF FirstIn
  <2> QED BY <2>3, <2>4
<1> QED BY <1>1, <1>2

LEMMA FirstOfAppend ==
  ASSUME NEW f \in Seq(Line), NEW l \in Line, NEW id
  PROVE  FirstIn(Append(f, l), id) =
           IF FirstIn(f, id) # None THEN FirstIn(f, id)
           ELSE IF l.record # None /\ l.record.id = id THEN l.record
           ELSE None
<1> DEFINE g == Append(f, l)
<1>1. g \in Seq(Line) /\ DOMAIN f = 1 .. Len(f) /\ DOMAIN g = 1 .. Len(f) + 1 /\ Len(f) \in Nat
  OBVIOUS
<1>2. (\A k \in DOMAIN f : g[k] = f[k]) /\ g[Len(f) + 1] = l
  OBVIOUS
<1>3. (\A k \in DOMAIN f : Holds(g, k, id) <=> Holds(f, k, id))
      /\ (Holds(g, Len(f) + 1, id) <=> l.record # None /\ l.record.id = id)
  BY <1>2 DEF Holds
<1> HIDE DEF g
<1>4. CASE FirstIn(f, id) = None /\ \A k \in DOMAIN f : ~Holds(f, k, id)
  <2>1. \A k \in DOMAIN g : Holds(g, k, id) => k = Len(f) + 1
    BY <1>1, <1>3, <1>4
  <2>2. CASE Holds(g, Len(f) + 1, id)
    <3>1. PICK m \in DOMAIN g : Holds(g, m, id) /\ FirstIn(g, id) = g[m].record
      BY <1>1, <2>2, FirstCases
    <3>2. g[m] = l
      BY <1>2, <2>1, <3>1
    <3> QED BY <1>3, <1>4, <2>2, <3>1, <3>2 DEF g
  <2>3. CASE ~Holds(g, Len(f) + 1, id)
    BY <1>1, <1>2, <1>3, <1>4, <2>1, <2>3, FirstCases DEF g
  <2> QED BY <2>2, <2>3
<1>5. ASSUME NEW k \in DOMAIN f, Holds(f, k, id),
             \A j \in DOMAIN f : Holds(f, j, id) => k <= j,
             FirstIn(f, id) = f[k].record
      PROVE  FirstIn(g, id) = FirstIn(f, id) /\ FirstIn(f, id) # None
  <2>1. FirstIn(f, id) # None
    BY <1>5 DEF Holds
  <2>2. k \in DOMAIN g /\ Holds(g, k, id) /\ g[k] = f[k]
    BY <1>1, <1>2, <1>3, <1>5
  <2>3. PICK m \in DOMAIN g :
          /\ Holds(g, m, id)
          /\ \A j \in DOMAIN g : Holds(g, j, id) => m <= j
          /\ FirstIn(g, id) = g[m].record
    BY <1>1, <2>2, FirstCases
  <2>4. m <= k
    BY <2>2, <2>3
  <2>5. m \in DOMAIN f
    BY <1>1, <2>4
  <2>6. k <= m
    BY <1>3, <1>5, <2>3, <2>5
  <2>7. m = k
    BY <1>1, <2>4, <2>6
  <2> QED BY <1>5, <2>1, <2>2, <2>3, <2>7
<1> QED BY <1>4, <1>5, FirstCases DEF g

\* A last line that is spoiled takes with it no record but its own.
LEMMA FirstOfSpoiled ==
  ASSUME NEW f \in Seq(Line), f # <<>>, NEW l \in Line, l.record = None, NEW id,
         NEW g, g = [f EXCEPT ![Len(f)] = l]
  PROVE  \/ FirstIn(g, id) = FirstIn(f, id)
         \/ FirstIn(g, id) = None /\ Holds(f, Len(f), id)
<1>1. g \in Seq(Line) /\ DOMAIN g = DOMAIN f /\ DOMAIN f = 1 .. Len(f) /\ Len(f) \in Nat \ {0}
  OBVIOUS
<1>2. (\A k \in DOMAIN f : k # Len(f) => g[k] = f[k]) /\ g[Len(f)] = l
  BY <1>1
<1>3. (\A k \in DOMAIN f : k # Len(f) => (Holds(g, k, id) <=> Holds(f, k, id)))
      /\ ~Holds(g, Len(f), id)
  BY <1>2 DEF Holds
<1>4. CASE FirstIn(f, id) = None /\ \A k \in DOMAIN f : ~Holds(f, k, id)
  <2>1. \A k \in DOMAIN g : ~Holds(g, k, id)
    BY <1>1, <1>3, <1>4
  <2> QED BY <1>1, <1>4, <2>1, FirstCases
<1>5. ASSUME NEW k \in DOMAIN f, Holds(f, k, id),
             \A j \in DOMAIN f : Holds(f, j, id) => k <= j,
             FirstIn(f, id) = f[k].record
      PROVE  \/ FirstIn(g, id) = FirstIn(f, id)
             \/ FirstIn(g, id) = None /\ Holds(f, Len(f), id)
  <2>1. CASE k = Len(f)
    <3>1. \A j \in DOMAIN g : ~Holds(g, j, id)
      <4> SUFFICES ASSUME NEW j \in DOMAIN g, Holds(g, j, id) PROVE FALSE
        OBVIOUS
      <4>1. j \in DOMAIN f /\ j # Len(f) /\ Holds(f, j, id)
        BY <1>1, <1>3
      <4>2. Len(f) <= j /\ j <= Len(f)
        BY <1>1, <1>5, <2>1, <4>1
      <4> QED BY <1>1, <4>1, <4>2
    <3> QED BY <1>1, <1>5, <2>1, <3>1, FirstCases
  <2>2. CASE k # Len(f)
    <3>1. k \in DOMAIN g /\ Holds(g, k, id) /\ g[k] = f[k]
      BY <1>1, <1>2, <1>3, <1>5, <2>2
    <3>2. PICK m \in DOMAIN g :
            /\ Holds(g, m, id)
            /\ \A j \in DOMAIN g : Holds(g, j, id) => m <= j
            /\ FirstIn(g, id) = g[m].record
      BY <1>1, <3>1, FirstCases
    <3>3. m <= k
      BY <3>1, <3>2
    <3>4. m \in DOMAIN f /\ Holds(f, m, id)
      BY <1>1, <1>3, <3>2
    <3>5. k <= m
      BY <1>5, <3>4
    <3>6. m = k
      BY <1>1, <1>5, <3>3, <3>4, <3>5
    <3> QED BY <1>5, <3>1, <3>2, <3>6
  <2> QED BY <2>1, <2>2
<1> QED BY <1>4, <1>5, FirstCases

LEMMA Abstraction ==
  /\ \A id : FirstOnFile(id) = FirstIn(file, id)
  /\ \A id : FirstOnFile(id)' = FirstIn(file', id)
  /\ InDoubt = DoubtIn(file)
  /\ InDoubt' = DoubtIn(file')
<1>1. ASSUME NEW id PROVE FirstOnFile(id) = FirstIn(file, id)
  BY DEF FirstOnFile, OnFile, FirstIn, Holds
<1>2. ASSUME NEW id PROVE FirstOnFile(id)' = FirstIn(file', id)
  BY DEF FirstOnFile, OnFile, FirstIn, Holds
<1> QED BY <1>1, <1>2 DEF InDoubt, DoubtIn

\* Whatever is written to the file, a record or a part of one, and with its newline
\* or not, is a step of the log or nothing.
LEMMA WritingImplements ==
  ASSUME NEW r \in DataProvenance, NEW x \in {r, None}, NEW e \in BOOLEAN,
         x = None => e = FALSE,
         file \in Seq(Line), file' = Written(file, x, e)
  PROVE  [Log!LogNext]_<<[id \in Ids |-> FirstOnFile(id)], InDoubt>>
<1> DEFINE l == [record |-> x, ended |-> e]
           none == [record |-> None, ended |-> e]
<1>1. l \in Line /\ none \in Line /\ r.id \in Ids /\ r # None /\ None \notin Ids
  BY NoneAssumption DEF Line, DataProvenance
<1>2. CASE file # <<>> /\ ~file[Len(file)].ended
  <2>1. file' = [file EXCEPT ![Len(file)] = none]
    BY <1>2 DEF Written
  <2>2. file' # <<>> /\ file'[Len(file')] = none
    BY <1>2, <2>1
  <2>3. InDoubt' = None
    BY <2>2, Abstraction DEF DoubtIn
  <2>4. ASSUME NEW id \in Ids
        PROVE  \/ FirstOnFile(id)' = FirstOnFile(id)
               \/ FirstOnFile(id)' = None /\ InDoubt = id
    <3>1. \/ FirstIn(file', id) = FirstIn(file, id)
          \/ FirstIn(file', id) = None /\ Holds(file, Len(file), id)
      <4>1. none.record = None
        OBVIOUS
      <4> HIDE DEF none
      <4> QED BY <1>1, <1>2, <2>1, <4>1, FirstOfSpoiled
    <3>2. Holds(file, Len(file), id) => DoubtIn(file) = id
      BY <1>2 DEF Holds, DoubtIn
    <3> QED BY <3>1, <3>2, Abstraction
  <2>5. CASE InDoubt = None
    <3>1. \A id \in Ids : FirstOnFile(id)' = FirstOnFile(id)
      BY <1>1, <2>4, <2>5
    <3> QED BY <2>3, <2>5, <3>1
  <2>6. CASE InDoubt # None
    <3>1. [id \in Ids |-> FirstOnFile(id)']
            \in {[id \in Ids |-> FirstOnFile(id)],
                 [[id \in Ids |-> FirstOnFile(id)] EXCEPT ![InDoubt] = None]}
      <4>1. CASE \A id \in Ids : FirstOnFile(id)' = FirstOnFile(id)
        BY <4>1
      <4>2. CASE \E id \in Ids : FirstOnFile(id)' # FirstOnFile(id)
        <5>1. \A id \in Ids : id # InDoubt => FirstOnFile(id)' = FirstOnFile(id)
          BY <2>4
        <5>2. PICK i \in Ids : FirstOnFile(i)' # FirstOnFile(i)
          BY <4>2
        <5>3. InDoubt = i /\ FirstOnFile(i)' = None
          BY <2>4, <5>2
        <5> QED BY <5>1, <5>3
      <4> QED BY <4>1, <4>2
    <3> QED BY <2>3, <2>6, <3>1 DEF Log!LogNext, Log!Settle
  <2> QED BY <2>5, <2>6
<1>3. CASE file = <<>> \/ file[Len(file)].ended
  <2>1. file' = Append(file, l)
    BY <1>3 DEF Written
  <2>2. InDoubt = None
    BY <1>3, Abstraction DEF DoubtIn
  <2>3. InDoubt' = IF ~e /\ x # None THEN x.id ELSE None
    <3>1. file' # <<>> /\ file'[Len(file')] = l
      BY <2>1, <1>1
    <3> QED BY <3>1, Abstraction DEF DoubtIn
  <2>4. \A id \in Ids : FirstOnFile(id)' =
           IF FirstOnFile(id) # None THEN FirstOnFile(id)
           ELSE IF x # None /\ x.id = id THEN x
           ELSE None
    BY <1>1, <2>1, FirstOfAppend, Abstraction
  <2>5. CASE x = None
    <3>1. \A id \in Ids : FirstOnFile(id)' = FirstOnFile(id)
      BY <2>4, <2>5
    <3> QED BY <2>2, <2>3, <2>5, <3>1
  <2>6. CASE x = r /\ FirstOnFile(r.id) # None
    <3>1. \A id \in Ids : FirstOnFile(id)' = FirstOnFile(id)
      BY <1>1, <2>4, <2>6
    <3>2. CASE e
      BY <2>2, <2>3, <3>1, <3>2
    <3>3. CASE ~e
      BY <1>1, <2>2, <2>3, <2>6, <3>1, <3>3 DEF Log!LogNext, Log!StorePartly
    <3> QED BY <3>2, <3>3
  <2>7. CASE x = r /\ FirstOnFile(r.id) = None
    <3>1. [id \in Ids |-> FirstOnFile(id)'] = [[id \in Ids |-> FirstOnFile(id)] EXCEPT ![r.id] = r]
      BY <1>1, <2>4, <2>7
    <3>2. CASE e
      BY <1>1, <2>2, <2>3, <2>7, <3>1, <3>2 DEF Log!LogNext, Log!Store
    <3>3. CASE ~e
      BY <1>1, <2>2, <2>3, <2>7, <3>1, <3>3 DEF Log!LogNext, Log!StorePartly
    <3> QED BY <3>2, <3>3
  <2> QED BY <2>5, <2>6, <2>7
<1> QED BY <1>2, <1>3

\* As long as the file is as it was, nothing has happened to the log.
LEMMA NoWriteImplements ==
  ASSUME file' = file
  PROVE  [Log!LogNext]_<<[id \in Ids |-> FirstOnFile(id)], InDoubt>>
<1>1. InDoubt' = InDoubt /\ \A id : FirstOnFile(id)' = FirstOnFile(id)
  BY Abstraction
<1> QED BY <1>1

LEMMA StepImplements ==
  ASSUME StoreTypeOK, [Next]_vars
  PROVE  [Log!LogNext]_<<[id \in Ids |-> FirstOnFile(id)], InDoubt>>
<1>0. file \in Seq(Line)
  BY DEF StoreTypeOK
<1>1. ASSUME NEW r \in DataProvenance, file' \in CutShort(file, r)
      PROVE  [Log!LogNext]_<<[id \in Ids |-> FirstOnFile(id)], InDoubt>>
  <2>1. CASE file' = file
    BY <2>1, NoWriteImplements
  <2>2. CASE file' = Written(file, None, FALSE)
    BY <1>0, <2>2, WritingImplements
  <2>3. CASE file' = Written(file, r, FALSE)
    BY <1>0, <2>3, WritingImplements
  <2> QED BY <1>1, <2>1, <2>2, <2>3 DEF CutShort
<1>2. ASSUME NEW r \in DataProvenance, NEW next, Remember(r, next)
      PROVE  [Log!LogNext]_<<[id \in Ids |-> FirstOnFile(id)], InDoubt>>
  <2>1. CASE file' = file
    BY <2>1, NoWriteImplements
  <2>2. CASE file' = Written(file, r, TRUE)
    BY <1>0, <2>2, NoneAssumption, WritingImplements
  <2>3. CASE file' \in CutShort(file, r)
    BY <1>1, <2>3
  <2> QED BY <1>2, <2>1, <2>2, <2>3, RememberCases
<1>3. CASE file' = file
  BY <1>3, NoWriteImplements
<1>4. CASE LoadLine /\ file[pos].record # None
  <2>1. file[pos] \in Line
    BY <1>0, <1>4 DEF LoadLine, StoreTypeOK
  <2>2. PICK r \in DataProvenance : r = file[pos].record
    BY <1>4, <2>1 DEF Line
  <2>3. Remember(r, "loading")
    BY <1>4, <2>2 DEF LoadLine
  <2> QED BY <1>2, <2>3
<1>5. CASE LoadLine /\ file[pos].record = None
  BY <1>3, <1>5 DEF LoadLine
<1>6. ASSUME NEW r \in DataProvenance, AppendRecord(r)
      PROVE  [Log!LogNext]_<<[id \in Ids |-> FirstOnFile(id)], InDoubt>>
  BY <1>2, <1>6 DEF AppendRecord
<1>7. ASSUME NEW r \in DataProvenance, CrashWriting(r)
      PROVE  [Log!LogNext]_<<[id \in Ids |-> FirstOnFile(id)], InDoubt>>
  BY <1>1, <1>7 DEF CrashWriting
<1>8. CASE Open \/ LoadEnd \/ Crash \/ UNCHANGED vars
  BY <1>3, <1>8 DEF Open, LoadEnd, Crash, vars
<1> QED BY <1>4, <1>5, <1>6, <1>7, <1>8 DEF Next, Loading

LEMMA InitImplements == Init => Log!LogInit
<1> SUFFICES ASSUME Init PROVE Log!LogInit
  OBVIOUS
<1>1. file = <<>> /\ DOMAIN file = {}
  BY DEF Init
<1>2. \A id : FirstOnFile(id) = None
  BY <1>1 DEF FirstOnFile, OnFile
<1>3. InDoubt = None
  BY <1>1 DEF InDoubt
<1> QED BY <1>2, <1>3 DEF Log!LogInit

\* The file is an append-only log that keeps the first record of an identity, through
\* appends, failed and cut short writes, restarts and the lines a load writes again: a
\* write puts no record at risk but the one whose line was not ended.
THEOREM LogImplemented == FairSpec => ImplementsLog
<1>1. IInv /\ [Next]_vars => [Log!LogNext]_<<[id \in Ids |-> FirstOnFile(id)], InDoubt>>
  BY StepImplements DEF IInv
<1> QED BY <1>1, InitImplements, Invariance, PTL DEF FairSpec, Spec, ImplementsLog, Log!LogSpec

================================================================================
