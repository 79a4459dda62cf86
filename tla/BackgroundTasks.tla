---------------------------- MODULE BackgroundTasks ----------------------------
(***************************************************************************)
(* ui/tasks.py, the Data tab of ui/workspace.py and the reading loop of    *)
(* data/adapters/transport.py: searches, metadata reads and downloads as   *)
(* background tasks, from the user's click to the result's delivery.       *)
(*                                                                         *)
(* A task runs on a worker thread and shares only its ProgressState with   *)
(* the GUI thread.  Results are delivered on the GUI thread, also while a  *)
(* modal dialog is open; the user acts on nothing but the topmost dialog   *)
(* then.  The workspace has one slot for "the" task (_active_task and      *)
(* _task_state, which are always set together).                            *)
(*                                                                         *)
(* The names of the specification begin with BT, for the module to be      *)
(* extended together with AssistantLoop, the workspace's other tab.        *)
(***************************************************************************)
EXTENDS Naturals, Sequences

CONSTANTS
  MaxTasks,   \* bound: tasks begun in a behaviour
  Providers,  \* provider ids
  Geocoders,  \* those without downloads (osm.nominatim)
  Unpolled,   \* those whose search does not poll for cancellation (_post_json)
  Datasets,   \* dataset ids
  MaxChunks,  \* bound: chunks of a body, which the byte cap bounds in the code
  Nothing

ASSUME ProvidersAssumption == Geocoders \subseteq Providers /\ Unpolled \subseteq Providers
ASSUME BoundsAssumption == MaxTasks \in Nat /\ MaxChunks \in Nat

\* Tasks are numbered in the order they are begun.
Tasks == 1 .. MaxTasks

ASSUME NothingAssumption == Nothing \notin Tasks

\* A search result.
Ref == [provider : Providers, dataset : Datasets]

ASSUME NoRefAssumption == Nothing \notin Ref

VARIABLES
  status,    \* task -> "none", "queued", "polling" or "reading" in its job, then
             \*         "succeeded" or "failed", then "delivered"
  job,       \* task -> its kind, provider and result it is about
  cancelled, \* task -> ProgressState._cancelled
  chunks,    \* task -> chunks read
  late,      \* history: task -> chunks read after it was cancelled
  active,    \* the slot
  shown,     \* whether the task row, with its Cancel button, is visible
  combo,     \* provider_combo
  refs,      \* _result_refs
  selected,  \* the current item of results_list
  enabled,   \* download_button
  dialogs,   \* open AssetConfirmDialogs, the topmost last
  last       \* _last_download

worker == <<cancelled, chunks, late>>
slot == <<active, shown>>
results == <<refs, selected, enabled>>
btVars == <<status, job, worker, slot, combo, results, dialogs, last>>

Job == [kind : {"search", "metadata", "download"}, provider : Providers, ref : Ref \cup {Nothing}]
Dialog == [provider : Providers, ref : Ref]

\* Tasks that have ended, and all that were begun and have not reported.
Over == {"succeeded", "failed"}
Live == {"queued", "polling", "reading"} \cup Over

\* Whether the job of a task reads through read_body_capped.
Polls(t) == job[t].kind = "search" => job[t].provider \notin Unpolled

-------------------------------------------------------------------------------
(* The GUI thread                                                           *)

\* _run_callable_background: a new ProgressState and task take the slot.
Begin(t, kind, provider, ref) ==
  /\ status[t] = "none" /\ (t > 1 => status[t - 1] # "none")
  /\ status' = [status EXCEPT ![t] = "queued"]
  /\ job' = [job EXCEPT ![t] = [kind |-> kind, provider |-> provider, ref |-> ref]]
  /\ active' = t
  /\ shown' = TRUE

ChooseProvider(p) ==
  /\ dialogs = <<>>
  /\ combo' = p
  /\ UNCHANGED <<status, job, worker, slot, results, dialogs, last>>

\* _on_search
Search(t) ==
  /\ dialogs = <<>>
  /\ Begin(t, "search", combo, Nothing)
  /\ enabled' = FALSE
  /\ UNCHANGED <<worker, combo, refs, selected, dialogs, last>>

\* _on_result_selected: what a geocoder found cannot be downloaded.
Select(r) ==
  /\ dialogs = <<>>
  /\ r \in refs
  /\ selected' = r
  /\ enabled' = (r.provider \notin Geocoders)
  /\ UNCHANGED <<status, job, worker, slot, combo, refs, dialogs, last>>

\* _on_download_selected: the metadata are read from the provider chosen now.
DownloadSelected(t) ==
  /\ dialogs = <<>>
  /\ enabled
  /\ selected \in refs
  /\ Begin(t, "metadata", combo, selected)
  /\ UNCHANGED <<worker, combo, results, dialogs, last>>

\* _cancel_background: the flag for the transport, and QgsTask.cancel(), which
\* ends a task that has not started.
CancelBackground ==
  /\ dialogs = <<>>
  /\ shown
  /\ active # Nothing
  /\ IF status[active] = "queued"
     THEN status' = [status EXCEPT ![active] = "failed"] /\ UNCHANGED cancelled
     ELSE cancelled' = [cancelled EXCEPT ![active] = status[active] \notin Over]
            /\ UNCHANGED status
  /\ UNCHANGED <<job, chunks, late, slot, combo, results, dialogs, last>>

-------------------------------------------------------------------------------
(* Delivery of results                                                      *)

\* The task is dropped.
Forget(t) ==
  /\ status' = [status EXCEPT ![t] = "delivered"]
  /\ job' = [job EXCEPT ![t] = Nothing]
  /\ UNCHANGED worker

\* Mutant: the slot is kept until the next task takes it.
FinishHidden(t) ==
  /\ status[t] \in Over
  /\ Forget(t)
  /\ shown' = FALSE
  /\ UNCHANGED active

\* Mutant: a task that failed, or never ran, does not report.
FinishSucceeded(t) ==
  /\ status[t] = "succeeded"
  /\ Forget(t)
  /\ active' = Nothing
  /\ shown' = FALSE

\* FunctionTask.finished and _finish_background.
Finish(t) ==
  /\ status[t] \in Over
  /\ Forget(t)
  /\ active' = Nothing
  /\ shown' = FALSE

\* Mutant: the button is left as it is.
SearchDoneOnly(t) ==
  /\ job[t] # Nothing /\ job[t].kind = "search"
  /\ Finish(t)
  /\ refs' \in IF status[t] = "succeeded" THEN SUBSET {r \in Ref : r.provider = job[t].provider} ELSE {{}}
  /\ selected' = Nothing
  /\ UNCHANGED <<combo, enabled, dialogs, last>>

\* _on_search_done: a failed search empties the list too.
SearchDone(t) ==
  /\ job[t] # Nothing /\ job[t].kind = "search"
  /\ Finish(t)
  /\ refs' \in IF status[t] = "succeeded" THEN SUBSET {r \in Ref : r.provider = job[t].provider} ELSE {{}}
  /\ selected' = Nothing
  /\ enabled' = FALSE
  /\ UNCHANGED <<combo, dialogs, last>>

\* _on_metadata_done: the dialog, with the provider chosen by now.
MetadataDone(t) ==
  /\ job[t] # Nothing /\ job[t].kind = "metadata"
  /\ Finish(t)
  /\ dialogs' = IF status[t] = "succeeded"
                THEN Append(dialogs, [provider |-> combo, ref |-> job[t].ref])
                ELSE dialogs
  /\ UNCHANGED <<combo, results, last>>

\* Mutant: the outcome is not looked at.
AnyDownloadDone(t) ==
  /\ job[t] # Nothing /\ job[t].kind = "download"
  /\ Finish(t)
  /\ last' = t
  /\ UNCHANGED <<combo, results, dialogs>>

\* _on_download_done
DownloadDone(t) ==
  /\ job[t] # Nothing /\ job[t].kind = "download"
  /\ Finish(t)
  /\ last' = IF status[t] = "succeeded" THEN t ELSE last
  /\ UNCHANGED <<combo, results, dialogs>>

\* The topmost dialog is accepted: its download begins, confirmed for what it
\* shows.  It is declined: nothing happens.
Accept(t) ==
  /\ dialogs # <<>>
  /\ LET top == dialogs[Len(dialogs)] IN Begin(t, "download", top.provider, top.ref)
  /\ dialogs' = SubSeq(dialogs, 1, Len(dialogs) - 1)
  /\ UNCHANGED <<worker, combo, results, last>>

Decline ==
  /\ dialogs # <<>>
  /\ dialogs' = SubSeq(dialogs, 1, Len(dialogs) - 1)
  /\ UNCHANGED <<status, job, worker, slot, combo, results, last>>

-------------------------------------------------------------------------------
(* The worker                                                               *)

Start(t) ==
  /\ status[t] = "queued"
  /\ status' = [status EXCEPT ![t] = "polling"]
  /\ UNCHANGED <<job, worker, slot, combo, results, dialogs, last>>

\* The job is over, every exception having become a result, and nobody looks at
\* its progress any more.
End(t, result) ==
  /\ status' = [status EXCEPT ![t] = result]
  /\ cancelled' = [cancelled EXCEPT ![t] = FALSE]
  /\ chunks' = [chunks EXCEPT ![t] = 0]
  /\ late' = [late EXCEPT ![t] = 0]

\* Mutant: cancellation is looked at before the first chunk only.
PollOnce(t) ==
  /\ status[t] = "polling"
  /\ IF cancelled[t] /\ Polls(t) /\ chunks[t] = 0
     THEN End(t, "failed")
     ELSE status' = [status EXCEPT ![t] = "reading"] /\ UNCHANGED worker
  /\ UNCHANGED <<job, slot, combo, results, dialogs, last>>

\* The head of the loop in read_body_capped.
Poll(t) ==
  /\ status[t] = "polling"
  /\ IF cancelled[t] /\ Polls(t)
     THEN End(t, "failed")
     ELSE status' = [status EXCEPT ![t] = "reading"] /\ UNCHANGED worker
  /\ UNCHANGED <<job, slot, combo, results, dialogs, last>>

\* A chunk arrives.
ReadChunk(t) ==
  /\ status[t] = "reading"
  /\ chunks[t] < MaxChunks
  /\ status' = [status EXCEPT ![t] = "polling"]
  /\ chunks' = [chunks EXCEPT ![t] = @ + 1]
  /\ late' = IF cancelled[t] THEN [late EXCEPT ![t] = @ + 1] ELSE late
  /\ UNCHANGED <<job, cancelled, slot, combo, results, dialogs, last>>

\* The body ends, the cap is exceeded, or the read fails.
ReadEnd(t) ==
  /\ status[t] = "reading"
  /\ \E result \in Over : End(t, result)
  /\ UNCHANGED <<job, slot, combo, results, dialogs, last>>

-------------------------------------------------------------------------------
(* The specification                                                        *)

BTInit ==
  /\ status = [t \in Tasks |-> "none"]
  /\ job = [t \in Tasks |-> Nothing]
  /\ cancelled = [t \in Tasks |-> FALSE]
  /\ chunks = [t \in Tasks |-> 0]
  /\ late = [t \in Tasks |-> 0]
  /\ active = Nothing /\ shown = FALSE
  /\ combo \in Providers
  /\ refs = {} /\ selected = Nothing /\ enabled = FALSE
  /\ dialogs = <<>>
  /\ last = Nothing

Worker(t) == Start(t) \/ Poll(t) \/ ReadChunk(t) \/ ReadEnd(t)

Deliver(t) == SearchDone(t) \/ MetadataDone(t) \/ DownloadDone(t)

BTNext ==
  \/ \E p \in Providers : ChooseProvider(p)
  \/ \E r \in refs : Select(r)
  \/ \E t \in Tasks :
       \/ Search(t) \/ DownloadSelected(t) \/ Accept(t)
       \/ Worker(t)
       \/ Deliver(t)
  \/ CancelBackground
  \/ Decline

BTSpec == BTInit /\ [][BTNext]_btVars

\* Every worker runs on, a read ends or times out, and the GUI thread's event
\* loop, a dialog's included, delivers what has ended.
BTFairSpec == BTSpec /\ \A t \in Tasks : WF_btVars(Worker(t)) /\ WF_btVars(Deliver(t))

-------------------------------------------------------------------------------
(* Properties                                                               *)

\* The slot never holds a task that has reported, which QGIS may have deleted, and
\* the row with the Cancel button is visible exactly while there is one to cancel.
SlotIsLive ==
  /\ active # Nothing => status[active] \in Live
  /\ shown <=> active # Nothing

\* The download button is live only while a listed result is selected that can be
\* downloaded, also when searches overlap with selections.
EnabledIsSelected ==
  enabled => selected \in refs /\ selected.provider \notin Geocoders

\* A cancelled transfer reads at most the chunk it is waiting for.
CancelIsPrompt == \A t \in Tasks : job[t] # Nothing /\ Polls(t) => late[t] <= 1

\* A task that failed, or was cancelled before it ran, never runs again, and is
\* never the download that "Load into project" takes.
FailedIsOver ==
  [][\A t \in Tasks : status[t] = "failed" =>
       status'[t] \in {"failed", "delivered"} /\ last' # t]_btVars

\* Every task reports, whatever is cancelled and whatever dialogs are open.
EveryTaskReports == \A t \in Tasks : status[t] = "queued" ~> status[t] = "delivered"
================================================================================
