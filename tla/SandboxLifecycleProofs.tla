------------------------- MODULE SandboxLifecycleProofs -------------------------
(***************************************************************************)
(* Theorems about SandboxLifecycle, for any number of downloads of any     *)
(* length and any ages.                                                    *)
(***************************************************************************)
EXTENDS SandboxLifecycle, TLAPS

\* On disk a sandbox is no older than what its download last did there.
FlightInv(d) ==
  /\ touched[d] <= mtime[d]
  /\ pc[d] = "idle" => d \notin dirs

\* What rmtree is at work on is old enough for the sweep, unless its file was
\* opened meanwhile.
VictimInv(w) ==
  /\ victim[w] # None =>
       /\ pc[victim[w]] # "idle"
       /\ victim[w] \notin raced => touched[victim[w]] + Limit(w) <= now
  /\ w = User /\ ~cleaned => todo[w] = {} /\ victim[w] = None

\* The inductive invariant.
IInv ==
  /\ TypeOK
  /\ \A d \in Downloads : FlightInv(d)
  /\ \A w \in Sweepers : VictimInv(w)
  /\ InFlightProtected
  /\ SuccessIsKept

\* The state is well typed at the start.
LEMMA InitTypeOK == Init => TypeOK
<1> SUFFICES ASSUME Init PROVE TypeOK
  OBVIOUS
<1>1. cleaned \in BOOLEAN
  BY Zenon DEF Init
<1>2. pc \in [Downloads -> {"idle", "failed"} \cup InFlight \cup Succeeded]
  BY DEF Init
<1>3. touched \in [Downloads -> 0 .. now] /\ mtime \in [Downloads -> 0 .. now]
      /\ moment \in [Sweepers -> 0 .. now] /\ now \in Nat
  BY DEF Init
<1>4. /\ dirs \subseteq Downloads
      /\ file \in [Downloads -> {"none", "partial", "complete"}]
      /\ todo \in [Sweepers -> SUBSET Downloads]
      /\ victim \in [Sweepers -> Downloads \cup {None}]
      /\ last \in Downloads \cup {None}
      /\ layers \subseteq Downloads
      /\ raced \subseteq Downloads
  BY DEF Init
<1>5. /\ \A d \in Downloads : pc[d] # "sweeping" => todo[d] = {} /\ victim[d] = None
      /\ \A d \in Downloads \ dirs : file[d] = "none"
  BY DEF Init, Sweepers
<1>6. QED
  BY <1>1, <1>2, <1>3, <1>4, <1>5 DEF TypeOK

\* The inductive invariant holds at the start.
LEMMA InitIInv == Init => IInv
<1> SUFFICES ASSUME Init PROVE IInv
  OBVIOUS
<1>1. TypeOK
  BY InitTypeOK
<1>2. ASSUME NEW d \in Downloads
      PROVE  FlightInv(d)
  BY TicksAssumption DEF Init, FlightInv, InFlight
<1>3. ASSUME NEW w \in Sweepers
      PROVE  VictimInv(w)
  BY DEF Init, VictimInv
<1>4. InFlightProtected /\ SuccessIsKept
  BY DEF Init, InFlightProtected, SuccessIsKept, InFlight, Succeeded
<1>5. QED
  BY <1>1, <1>2, <1>3, <1>4 DEF IInv

\* A step of a download, which leaves the other downloads and the sweepers alone.
LEMMA DownloadStep ==
  ASSUME IInv, NEW d \in Downloads, Download(d) \/ DownloadDone(d)
  PROVE  IInv'
<1> USE TicksAssumption, NamesAssumption
    DEF IInv, TypeOK, FlightInv, VictimInv, InFlightProtected, SuccessIsKept, InFlight, Succeeded,
        Sweepers, Limit, Goto, disk, sweeps, project, history
<1>1. CASE MakeSandbox(d)
  BY <1>1 DEF MakeSandbox
<1>2. CASE BeginSweep(d)
  BY <1>2 DEF BeginSweep, Begin
<1>3. CASE EndSweep(d)
  BY <1>3 DEF EndSweep
<1>4. CASE FetchFails(d)
  BY <1>4 DEF FetchFails
<1>5. CASE OpenTarget(d)
  BY <1>5 DEF OpenTarget
<1>6. CASE WriteBody(d)
  BY <1>6 DEF WriteBody
<1>7. CASE Verify(d)
  BY <1>7 DEF Verify
<1>8. CASE DownloadDone(d)
  BY <1>8 DEF DownloadDone
<1>9. QED
  BY <1>1, <1>2, <1>3, <1>4, <1>5, <1>6, <1>7, <1>8 DEF Download

\* A step of a sweep: what it sets out to remove is of age, or was when it
\* set out.
LEMMA SweepStep ==
  ASSUME IInv, NEW w \in Sweepers, Sweep(w)
  PROVE  IInv'
<1> USE TicksAssumption, NamesAssumption
    DEF IInv, TypeOK, FlightInv, VictimInv, InFlightProtected, SuccessIsKept, InFlight, Succeeded,
        Sweepers, Limit, disk, sweeps, project, history
<1>1. ASSUME NEW d \in Downloads, Judge(w, d)
      PROVE  IInv'
  BY <1>1 DEF Judge
<1>2. CASE EmptySandbox(w)
  BY <1>2 DEF EmptySandbox
<1>3. CASE RemoveSandbox(w)
  BY <1>3 DEF RemoveSandbox
<1>4. CASE KeepSandbox(w)
  BY <1>4 DEF KeepSandbox
<1>5. QED
  BY <1>1, <1>2, <1>3, <1>4 DEF Sweep

\* Every step keeps the inductive invariant.
LEMMA NextIInv == IInv /\ [Next]_vars => IInv'
<1> SUFFICES ASSUME IInv, [Next]_vars PROVE IInv'
  OBVIOUS
<1>1. CASE \E w \in Sweepers : Sweep(w)
  BY <1>1, SweepStep
<1>2. CASE \E d \in Downloads : Download(d) \/ DownloadDone(d)
  BY <1>2, DownloadStep
<1> USE TicksAssumption, NamesAssumption
    DEF IInv, TypeOK, FlightInv, VictimInv, InFlightProtected, SuccessIsKept, InFlight, Succeeded,
        Sweepers, Limit, disk, sweeps, project, history
<1>3. CASE Clean
  BY <1>3 DEF Clean, Begin
<1>4. CASE LoadDownloaded
  BY <1>4 DEF LoadDownloaded
<1>5. CASE Exit
  BY <1>5 DEF Exit
<1>6. CASE Tick
  BY <1>6 DEF Tick
<1>7. CASE UNCHANGED vars
  BY <1>7 DEF vars
<1>8. QED
  BY <1>1, <1>2, <1>3, <1>4, <1>5, <1>6, <1>7 DEF Next

\* The inductive invariant holds throughout.
THEOREM InductiveInvariant == Spec => []IInv
<1>1. IInv /\ [Next]_vars => IInv'
  BY NextIInv
<1>2. QED
  BY InitIInv, <1>1, PTL DEF Spec

\* The floor protects what a running download has put on disk, for the time of
\* the floor, however long the download takes: ACTIVE_FLOOR_S.
THEOREM FloorProtects == Spec => []InFlightProtected
<1>1. IInv => InFlightProtected
  BY DEF IInv
<1>2. QED
  BY <1>1, InductiveInvariant, PTL

\* The file of a successful download, slow or fast, is on disk for as long as the
\* sweeps in use promise.
THEOREM SuccessStays == Spec => []SuccessIsKept
<1>1. IInv => SuccessIsKept
  BY DEF IInv
<1>2. QED
  BY <1>1, InductiveInvariant, PTL

-------------------------------------------------------------------------------
(* Loading                                                                  *)

\* Only a download that is not over, or failed, has a part of a file.
LoadInv ==
  /\ TypeOK
  /\ \A d \in Downloads : pc[d] \in Succeeded => file[d] # "partial"
  /\ last # None => pc[last] \in Succeeded

\* Every step keeps LoadInv.
LEMMA NextLoadInv == LoadInv /\ [Next]_vars => LoadInv'
<1> SUFFICES ASSUME LoadInv, [Next]_vars PROVE LoadInv'
  OBVIOUS
<1> USE TicksAssumption, NamesAssumption
    DEF LoadInv, TypeOK, InFlight, Succeeded, Sweepers, Goto, disk, sweeps, project, history
<1>1. ASSUME NEW w \in Sweepers, Sweep(w)
      PROVE  LoadInv'
  BY <1>1 DEF Sweep, Judge, EmptySandbox, RemoveSandbox, KeepSandbox
<1>2. ASSUME NEW d \in Downloads, Download(d)
      PROVE  LoadInv'
  <2>1. CASE MakeSandbox(d)
    BY <2>1 DEF MakeSandbox
  <2>2. CASE BeginSweep(d) \/ EndSweep(d) \/ FetchFails(d)
    BY <2>2 DEF BeginSweep, Begin, EndSweep, FetchFails
  <2>3. CASE OpenTarget(d)
    BY <2>3 DEF OpenTarget
  <2>4. CASE WriteBody(d) \/ Verify(d)
    BY <2>4 DEF WriteBody, Verify
  <2>5. QED
    BY <1>2, <2>1, <2>2, <2>3, <2>4 DEF Download
<1>3. ASSUME NEW d \in Downloads, DownloadDone(d)
      PROVE  LoadInv'
  BY <1>3 DEF DownloadDone
<1>4. CASE Clean
  BY <1>4 DEF Clean, Begin
<1>5. CASE LoadDownloaded
  BY <1>5 DEF LoadDownloaded
<1>6. CASE Exit
  BY <1>6 DEF Exit
<1>7. CASE Tick \/ UNCHANGED vars
  BY <1>7 DEF Tick, vars
<1>8. QED
  BY <1>1, <1>2, <1>3, <1>4, <1>5, <1>6, <1>7 DEF Next

\* Only the complete file of a verified download becomes a layer, whatever is
\* swept meanwhile and however long it all takes.
THEOREM OnlyVerifiedFilesLoad == Spec => LoadsVerifiedFiles
<1>1. Init => LoadInv
  BY InitTypeOK DEF Init, LoadInv, Succeeded
<1>2. ASSUME LoadInv, Next, NEW d \in layers' \ layers
      PROVE  pc[d] \in Succeeded /\ file[d] = "complete"
  <2>1. LoadDownloaded
    BY <1>2 DEF Next, Sweep, Judge, EmptySandbox, RemoveSandbox, KeepSandbox, Clean, Download,
                MakeSandbox, BeginSweep, EndSweep, FetchFails, OpenTarget, WriteBody, Verify,
                DownloadDone, Exit, Tick, project
  <2>2. QED
    BY <1>2, <2>1 DEF LoadDownloaded, LoadInv, TypeOK
<1>3. LoadInv /\ [Next]_vars =>
        [\A d \in layers' \ layers : pc[d] \in Succeeded /\ file[d] = "complete"]_vars
  BY <1>2 DEF vars
<1>4. QED
  BY <1>1, NextLoadInv, <1>3, PTL DEF Spec, LoadsVerifiedFiles
=================================================================================
