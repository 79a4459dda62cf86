---------------------------- MODULE ProvenanceStore ----------------------------
(***************************************************************************)
(* provenance/store.py: the ProvenanceStore with its JSONL file, over      *)
(* process lives.  A life starts with the constructor, which reads the     *)
(* file line by line and hands each record to append(), and append() also  *)
(* writes: the file grows while it is being read.                          *)
(*                                                                         *)
(* Writing a line may fail, and it may be cut short by the end of the      *)
(* process; a history variable tells whether that has happened.            *)
(***************************************************************************)
EXTENDS Naturals, Sequences, FiniteSets

CONSTANTS
  Ids,        \* analytical identities (provenance_identity)
  Times,      \* values of retrieved_at, which the identity leaves out
  MaxLines,   \* bound: lines of the file
  None        \* no record

ASSUME LinesAssumption == MaxLines \in Nat

\* A DataProvenance record, as far as the store tells records apart.
DataProvenance == [id : Ids, at : Times]

ASSUME NoneAssumption == None \notin DataProvenance \cup Ids

\* A line of the file: the record it parses to, or None if it is not JSON, and
\* whether it ends with a newline.
Line == [record : DataProvenance \cup {None}, ended : BOOLEAN]

VARIABLES
  status,    \* "down", "loading", "up", or "failed": the constructor raised
  memory,    \* self._records, and with it self._by_identity
  file,      \* the lines of the JSONL file
  pos,       \* the line _load reads next
  promised,  \* history: the record behind each identity append() ever returned
  faulted    \* history: whether a write ever failed or was cut short

vars == <<status, memory, file, pos, promised, faulted>>

-------------------------------------------------------------------------------
(* Memory and file                                                          *)

\* `identity in self._by_identity`
Known(id) == \E k \in DOMAIN memory : memory[k].id = id

\* get(): _by_identity holds the record that was remembered for the identity.
Get(id) == IF Known(id)
           THEN (CHOOSE r \in {memory[k] : k \in DOMAIN memory} : r.id = id)
           ELSE None

\* Mutant: the newline is not written.
WrittenUnended(lines, r, ended) ==
  IF lines # <<>> /\ ~lines[Len(lines)].ended
  THEN [lines EXCEPT ![Len(lines)] = [record |-> None, ended |-> FALSE]]
  ELSE Append(lines, [record |-> r, ended |-> FALSE])

\* Writing text at the end of a file: it continues a line without a newline,
\* and what that makes of two JSON documents is not a JSON document.
Written(lines, r, ended) ==
  IF lines # <<>> /\ ~lines[Len(lines)].ended
  THEN [lines EXCEPT ![Len(lines)] = [record |-> None, ended |-> ended]]
  ELSE Append(lines, [record |-> r, ended |-> ended])

\* What a write that is cut short may leave: nothing, a part of the line, or the
\* line without its newline.
CutShort(lines, r) ==
  {lines, Written(lines, None, FALSE), Written(lines, r, FALSE)}

\* Mutant: the identity is not looked up before the record is stored.
RememberAlways(r, next) ==
  /\ memory' = Append(memory, r)
  /\ Len(file) < MaxLines
  /\ file' = Written(file, r, TRUE)
  /\ status' = next
  /\ UNCHANGED faulted

\* Mutant: a record is remembered and not written.
RememberOnly(r, next) ==
  /\ memory' = IF Known(r.id) THEN memory ELSE Append(memory, r)
  /\ UNCHANGED <<file, faulted>>
  /\ status' = next

\* Mutant: a record that is known is remembered anew.
RememberLatest(r, next) ==
  /\ memory' = Append(SelectSeq(memory, LAMBDA m : m.id # r.id), r)
  /\ Len(file) < MaxLines
  /\ file' = IF Known(r.id) THEN file ELSE Written(file, r, TRUE)
  /\ status' = next
  /\ UNCHANGED faulted

\* append() of a valid record: memory first, then the file.  `next` is the
\* status once it returns; an exception leaves append() and, in a constructor
\* that is loading, the constructor.
Remember(r, next) ==
  IF Known(r.id)
  THEN UNCHANGED <<memory, file, faulted>> /\ status' = next
  ELSE /\ memory' = Append(memory, r)
       /\ Len(file) < MaxLines
       /\ \/ file' = Written(file, r, TRUE) /\ status' = next /\ UNCHANGED faulted
          \/ /\ faulted' = TRUE
             /\ file' \in CutShort(file, r)
             /\ status' = IF status = "loading" THEN "failed" ELSE status

-------------------------------------------------------------------------------
(* Actions                                                                  *)

\* Mutant: the file is opened for writing, which empties it.
OpenEmptied ==
  /\ status \in {"down", "failed"}
  /\ status' = "up"
  /\ memory' = <<>>
  /\ file' = <<>>
  /\ pos' = 1
  /\ UNCHANGED <<promised, faulted>>

\* ProvenanceStore(path): a file that is not there is not loaded.
Open ==
  /\ status \in {"down", "failed"}
  /\ Len(file) + Cardinality(Ids) <= MaxLines
  /\ status' = IF file = <<>> THEN "up" ELSE "loading"
  /\ memory' = <<>>
  /\ pos' = 1
  /\ UNCHANGED <<file, promised, faulted>>

\* One turn of the loop in _load: a line that is not JSON raises.
LoadLine ==
  /\ status = "loading"
  /\ pos <= Len(file)
  /\ LET r == file[pos].record IN
       IF r = None
       THEN status' = "failed" /\ UNCHANGED <<memory, file, faulted>>
       ELSE Remember(r, "loading")
  /\ pos' = pos + 1
  /\ UNCHANGED promised

\* The end of the file is reached, re-appended lines included.
LoadEnd ==
  /\ status = "loading"
  /\ pos > Len(file)
  /\ status' = "up"
  /\ UNCHANGED <<memory, file, pos, promised, faulted>>

\* append() returns r's identity: a promise unless it was made before.
Promise(r) ==
  promised' = IF promised[r.id] = None THEN [promised EXCEPT ![r.id] = r] ELSE promised

\* A caller appends a record; no promise is made when the write raises.
AppendRecord(r) ==
  /\ status = "up"
  /\ Remember(r, "up")
  /\ IF Known(r.id) \/ file' = Written(file, r, TRUE)
     THEN Promise([r EXCEPT !.at = IF Known(r.id) THEN Get(r.id).at ELSE r.at])
     ELSE UNCHANGED promised
  /\ UNCHANGED pos

\* The process ends between two writes.
Crash ==
  /\ status \in {"loading", "up"}
  /\ status' = "down"
  /\ memory' = <<>>
  /\ UNCHANGED <<file, pos, promised, faulted>>

\* The process ends in the middle of a write.
CrashWriting(r) ==
  /\ status = "up" /\ ~Known(r.id)
  /\ Len(file) < MaxLines
  /\ file' \in CutShort(file, r)
  /\ faulted' = TRUE
  /\ status' = "down"
  /\ memory' = <<>>
  /\ UNCHANGED <<pos, promised>>

Init ==
  /\ status = "down"
  /\ memory = <<>>
  /\ file = <<>>
  /\ pos = 1
  /\ promised = [id \in Ids |-> None]
  /\ faulted = FALSE

Loading == LoadLine \/ LoadEnd

Next ==
  \/ Open
  \/ Loading
  \/ \E r \in DataProvenance : AppendRecord(r) \/ CrashWriting(r)
  \/ Crash

Spec == Init /\ [][Next]_vars

\* The constructor's loop runs on once it has begun.
FairSpec == Spec /\ WF_vars(Loading)

-------------------------------------------------------------------------------
(* Properties                                                               *)

\* The store holds at most one record under an identity, through appends,
\* loads and re-appends ("Idempotent on identity", append()).
OneRecordPerIdentity ==
  \A j, k \in DOMAIN memory : memory[j].id = memory[k].id => j = k

OnFile(id) == \E k \in DOMAIN file : file[k].record # None /\ file[k].record.id = id

\* The first record of an identity that a reader of the file comes across.
FirstOnFile(id) ==
  IF OnFile(id)
  THEN LET here == {k \in DOMAIN file : file[k].record # None /\ file[k].record.id = id}
       IN  file[CHOOSE k \in here : \A j \in here : k <= j].record
  ELSE None

\* As long as writes are whole, an open store answers with exactly what the file
\* answers first: no restart changes the retrieval time an identity was audited
\* with.
OpenMeansFile ==
  status = "up" /\ ~faulted => \A id \in Ids : Get(id) = FirstOnFile(id)

\* As long as writes are whole, an identity once returned by append() is found
\* again, with the same record, in this life and in every later one.
PromisesKept ==
  status = "up" /\ ~faulted =>
    \A id \in Ids : promised[id] # None => Get(id) = promised[id]

\* A store whose writes were whole can always be opened again.
AlwaysOpens == status = "failed" => faulted

\* The record of a last line without its newline: the next write spoils it.
InDoubt ==
  IF file # <<>> /\ ~file[Len(file)].ended /\ file[Len(file)].record # None
  THEN file[Len(file)].record.id
  ELSE None

\* The file as an append-only log that keeps the first record of an identity.
Log == INSTANCE ProvenanceLog WITH
  Records <- DataProvenance,
  Nothing <- None,
  stored <- [id \in Ids |-> FirstOnFile(id)],
  doubtful <- InDoubt

\* Appends, restarts and loads only ever add to that log, and a write that is cut
\* short puts no record at risk but its own.
ImplementsLog == Log!LogSpec

================================================================================
