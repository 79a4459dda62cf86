---------------------------- MODULE SandboxLifecycle ----------------------------
(***************************************************************************)
(* data/sandbox.py, data/provider_tools.py (download_dataset_handler) and  *)
(* the parts of the workspace that clean and load: download sandboxes of   *)
(* one root directory, from mkdtemp to the project layer.                  *)
(*                                                                         *)
(* A download runs on a worker thread and owns the sandbox it made; it is  *)
(* named by the download.  Every download sweeps the root before it        *)
(* fetches, and the user may sweep it ("Clean") at any time.  A sweep      *)
(* reads a directory's age and removes it later: other threads run between *)
(* the two, and between emptying a directory and removing it.              *)
(*                                                                         *)
(* Time is counted in ticks, and a download may take any number of them.   *)
(* A directory's modification time changes when a file in it comes or      *)
(* goes.                                                                   *)
(***************************************************************************)
EXTENDS Naturals, FiniteSets

CONSTANTS
  Downloads,    \* calls of download_dataset_handler
  ActiveFloor,  \* ACTIVE_FLOOR_S, in ticks
  Retention,    \* DEFAULT_RETENTION_S, in ticks
  MaxTime,      \* bound: the last tick of the clock
  User,         \* the sweeper that is not a download: _on_clean_sandboxes
  None

ASSUME TicksAssumption ==
  /\ ActiveFloor \in Nat /\ Retention \in Nat /\ MaxTime \in Nat
  /\ ActiveFloor <= Retention
ASSUME NamesAssumption == User \notin Downloads /\ None \notin Downloads \cup {User}

VARIABLES
  pc,        \* download -> the statement of the handler it is at, or its outcome
  now,       \* the clock
  dirs,      \* sandboxes that exist
  mtime,     \* sandbox -> its modification time
  file,      \* sandbox -> the downloaded file in it: "none", "partial", "complete"
  moment,    \* sweeper -> the time its sweep began, which it takes ages at
  todo,      \* sweeper -> sandboxes listed and not yet looked at
  victim,    \* sweeper -> the sandbox rmtree is at work on, or None
  last,      \* workspace._last_download
  layers,    \* sandboxes whose file is a layer of the project
  touched,   \* history: download -> the time of its mkdtemp, then of its open
  raced,     \* history: downloads whose file was opened with rmtree at work there
  cleaned    \* history: whether the user ever pressed Clean

vars == <<pc, now, dirs, mtime, file, moment, todo, victim, last, layers,
          touched, raced, cleaned>>

Sweepers == Downloads \cup {User}

\* From mkdtemp to the last byte read back.
InFlight == {"made", "sweeping", "fetching", "writing", "verifying"}

\* Reported as successful: the report is on its way to the workspace, or not.
Succeeded == {"ok", "done"}

Goto(d, l) == pc' = [pc EXCEPT ![d] = l]

disk == <<dirs, mtime, file>>
sweeps == <<moment, todo, victim>>
project == <<last, layers>>
history == <<touched, raced, cleaned>>

-------------------------------------------------------------------------------
(* sweep_sandboxes                                                          *)

\* Mutant: an explicit clean spares nothing.
LimitBare(w) == IF w = User THEN 0 ELSE Retention

\* Mutant: the floor is all there is.
LimitFloor(w) == ActiveFloor

\* max(retention_s, ACTIVE_FLOOR_S): Clean passes 0, a download the default.
Limit(w) == IF w = User THEN ActiveFloor ELSE Retention

\* The clock is read, then the root is listed.
Begin(w) ==
  /\ moment' = [moment EXCEPT ![w] = now]
  /\ todo' = [todo EXCEPT ![w] = dirs]
  /\ UNCHANGED victim

\* One turn of the loop: a sandbox that is gone or too young is passed over.
Judge(w, d) ==
  /\ victim[w] = None
  /\ d \in todo[w]
  /\ todo' = [todo EXCEPT ![w] = @ \ {d}]
  /\ victim' = IF d \in dirs /\ mtime[d] + Limit(w) <= moment[w]
               THEN [victim EXCEPT ![w] = d] ELSE victim
  /\ UNCHANGED <<pc, now, disk, moment, project, history>>

\* rmtree, first half: the entries go.
EmptySandbox(w) ==
  /\ victim[w] # None
  /\ file[victim[w]] # "none"
  /\ file' = [file EXCEPT ![victim[w]] = "none"]
  /\ mtime' = [mtime EXCEPT ![victim[w]] = now]
  /\ UNCHANGED <<pc, now, dirs, sweeps, project, history>>

\* rmtree, second half: the directory goes.
RemoveSandbox(w) ==
  /\ victim[w] # None
  /\ file[victim[w]] = "none"
  /\ dirs' = dirs \ {victim[w]}
  /\ victim' = [victim EXCEPT ![w] = None]
  /\ UNCHANGED <<pc, now, mtime, file, moment, todo, project, history>>

\* rmtree raises an OSError on the way, and the sandbox counts as kept: a file
\* came in, another sweep was faster, the system refused.
KeepSandbox(w) ==
  /\ victim[w] # None
  /\ victim' = [victim EXCEPT ![w] = None]
  /\ UNCHANGED <<pc, now, disk, moment, todo, project, history>>

\* _on_clean_sandboxes, for this root.
Clean ==
  /\ todo[User] = {} /\ victim[User] = None
  /\ Begin(User)
  /\ cleaned' = TRUE
  /\ UNCHANGED <<pc, now, disk, project, touched, raced>>

-------------------------------------------------------------------------------
(* download_dataset_handler                                                 *)

\* mkdtemp, or the OSError that ends the call at once.
MakeSandbox(d) ==
  /\ pc[d] = "idle"
  /\ \/ /\ Goto(d, "made")
        /\ dirs' = dirs \cup {d}
        /\ mtime' = [mtime EXCEPT ![d] = now]
        /\ touched' = [touched EXCEPT ![d] = now]
     \/ /\ Goto(d, "failed")
        /\ UNCHANGED <<dirs, mtime, touched>>
  /\ UNCHANGED <<now, file, sweeps, project, raced, cleaned>>

\* The sweep that comes with every acquisition; a root that cannot be read is
\* not swept.
BeginSweep(d) ==
  /\ pc[d] = "made"
  /\ Goto(d, "sweeping")
  /\ Begin(d) \/ UNCHANGED sweeps
  /\ UNCHANGED <<now, disk, project, history>>

EndSweep(d) ==
  /\ pc[d] = "sweeping"
  /\ todo[d] = {} /\ victim[d] = None
  /\ Goto(d, "fetching")
  /\ UNCHANGED <<now, disk, sweeps, project, history>>

\* The adapter fails or is cancelled: the sandbox stays behind.
FetchFails(d) ==
  /\ pc[d] = "fetching"
  /\ Goto(d, "failed")
  /\ UNCHANGED <<now, disk, sweeps, project, history>>

\* The body has arrived: makedirs (which makes the sandbox anew if it is gone),
\* then open for writing.
OpenTarget(d) ==
  /\ pc[d] = "fetching"
  /\ Goto(d, "writing")
  /\ dirs' = dirs \cup {d}
  /\ mtime' = [mtime EXCEPT ![d] = now]
  /\ file' = [file EXCEPT ![d] = "partial"]
  /\ touched' = [touched EXCEPT ![d] = now]
  /\ raced' = IF \E w \in Sweepers : victim[w] = d THEN raced \cup {d} ELSE raced
  /\ UNCHANGED <<now, sweeps, project, cleaned>>

\* The write ends.  A file that was unlinked meanwhile stays unlinked.
WriteBody(d) ==
  /\ pc[d] = "writing"
  /\ \/ /\ Goto(d, "verifying")
        /\ file' = [file EXCEPT ![d] = IF @ = "partial" THEN "complete" ELSE @]
     \/ /\ Goto(d, "failed")
        /\ UNCHANGED file
  /\ UNCHANGED <<now, dirs, mtime, sweeps, project, history>>

\* Post-write verification: "ok" must prove the bytes exist.
Verify(d) ==
  /\ pc[d] = "verifying"
  /\ \/ file[d] = "complete" /\ Goto(d, "ok")
     \/ Goto(d, "failed")
  /\ UNCHANGED <<now, disk, sweeps, project, history>>

-------------------------------------------------------------------------------
(* The workspace, the process and the clock                                 *)

\* _on_download_done: the report of a success reaches the workspace.
DownloadDone(d) ==
  /\ pc[d] = "ok"
  /\ Goto(d, "done")
  /\ last' = d
  /\ UNCHANGED <<now, disk, sweeps, layers, history>>

\* Mutant: the file is not looked for before it is loaded.
LoadUnchecked ==
  /\ last # None
  /\ layers' = layers \cup {last}
  /\ UNCHANGED <<pc, now, disk, sweeps, last, history>>

\* _on_load_downloaded: load_into_project of the last download, which fails
\* closed, without a state change, if the file is not there or not valid.
LoadDownloaded ==
  /\ last # None
  /\ last \in dirs /\ file[last] # "none"
  /\ layers' = layers \cup {last}
  /\ UNCHANGED <<pc, now, disk, sweeps, last, history>>

\* QGIS exits: threads and workspace are gone, directories stay, and so do the
\* layers if the project has been saved.
Exit ==
  /\ pc' = [d \in Downloads |-> CASE pc[d] \in InFlight -> "failed"
                                  [] pc[d] = "ok" -> "done"
                                  [] OTHER -> pc[d]]
  /\ todo' = [w \in Sweepers |-> {}]
  /\ victim' = [w \in Sweepers |-> None]
  /\ last' = None
  /\ layers' \in {layers, {}}
  /\ UNCHANGED <<now, disk, moment, history>>

\* A tick of the clock: it may come at any moment, a request has a timeout per
\* read and a cap on bytes but none on its length.
Tick ==
  /\ now < MaxTime
  /\ now' = now + 1
  /\ UNCHANGED <<pc, disk, sweeps, project, history>>

-------------------------------------------------------------------------------
(* The specification                                                        *)

Init ==
  /\ pc = [d \in Downloads |-> "idle"]
  /\ now = 0
  /\ dirs = {}
  /\ mtime = [d \in Downloads |-> 0]
  /\ file = [d \in Downloads |-> "none"]
  /\ moment = [w \in Sweepers |-> 0]
  /\ todo = [w \in Sweepers |-> {}]
  /\ victim = [w \in Sweepers |-> None]
  /\ last = None
  /\ layers = {}
  /\ touched = [d \in Downloads |-> 0]
  /\ raced = {}
  /\ cleaned = FALSE

Sweep(w) ==
  \/ \E d \in Downloads : Judge(w, d)
  \/ EmptySandbox(w)
  \/ RemoveSandbox(w)
  \/ KeepSandbox(w)

Download(d) ==
  \/ MakeSandbox(d)
  \/ BeginSweep(d) \/ EndSweep(d)
  \/ FetchFails(d) \/ OpenTarget(d)
  \/ WriteBody(d)
  \/ Verify(d)

Next ==
  \/ \E w \in Sweepers : Sweep(w)
  \/ Clean
  \/ \E d \in Downloads : Download(d) \/ DownloadDone(d)
  \/ LoadDownloaded
  \/ Exit
  \/ Tick

Spec == Init /\ [][Next]_vars

-------------------------------------------------------------------------------
(* Properties                                                               *)

\* Types of the state; times are past, a download sweeps only in its sweeping
\* phase, and a file lies in a directory.
TypeOK ==
  /\ pc \in [Downloads -> {"idle", "failed"} \cup InFlight \cup Succeeded]
  /\ now \in Nat
  /\ dirs \subseteq Downloads
  /\ mtime \in [Downloads -> 0 .. now]
  /\ file \in [Downloads -> {"none", "partial", "complete"}]
  /\ moment \in [Sweepers -> 0 .. now]
  /\ todo \in [Sweepers -> SUBSET Downloads]
  /\ victim \in [Sweepers -> Downloads \cup {None}]
  /\ last \in Downloads \cup {None}
  /\ layers \subseteq Downloads
  /\ touched \in [Downloads -> 0 .. now]
  /\ raced \subseteq Downloads
  /\ cleaned \in BOOLEAN
  /\ \A d \in Downloads : pc[d] # "sweeping" => todo[d] = {} /\ victim[d] = None
  /\ \A d \in Downloads \ dirs : file[d] = "none"

\* In-flight protection (ACTIVE_FLOOR_S), for downloads of any length: until the
\* floor after a running download last put something there (its sandbox, then its
\* file), the sandbox is on disk with what was written, and no sweep has set out
\* to remove it.  Not for a file that was opened under a rmtree already at work,
\* and no longer than the floor: the code protects neither.
InFlightProtected ==
  \A d \in Downloads \ raced :
    pc[d] \in InFlight /\ now < touched[d] + ActiveFloor =>
      /\ d \in dirs
      /\ pc[d] = "writing" => file[d] = "partial"
      /\ pc[d] = "verifying" => file[d] = "complete"
      /\ \A w \in Sweepers : victim[w] # d

\* A download reported as successful, however long it took, has its file on disk
\* until the file is as old as the sweeps in use ask for, whatever sweeps, exits
\* and other downloads do; save for the file opened under a rmtree.
SuccessIsKept ==
  \A d \in Downloads \ raced :
    /\ pc[d] \in Succeeded
    /\ now < touched[d] + (IF cleaned THEN ActiveFloor ELSE Retention)
    => file[d] = "complete"

\* What becomes a layer is the complete file of a download that was verified,
\* also when a sweep takes files away between the report and the load.
LoadsVerifiedFiles ==
  [][\A d \in layers' \ layers : pc[d] \in Succeeded /\ file[d] = "complete"]_vars

=================================================================================
