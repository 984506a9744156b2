------------------------------ MODULE GuiRun ------------------------------
(***************************************************************************)
(* The life of a validation run in the graphical shell: the main window    *)
(* (window.py), the runtime that owns the worker handle (runtime.py), the  *)
(* worker and its thread (workers.py), and the shutdown of the runtime.    *)
(* A worker thread talks to the GUI thread only through queued signals;    *)
(* the user acts between any two of them.                                  *)
(***************************************************************************)
EXTENDS Naturals, Sequences

CONSTANT MaxRuns   \* bound: runs started in one session

ASSUME GuiAssumption == MaxRuns \in Nat \ {0}

VARIABLES
    stage,         \* each run: what its RunWorker is doing
    thread,        \* each run: its QThread
    asked,         \* runs whose WorkerCancellationRequest is set
    events,        \* events posted to the GUI thread
    shown,         \* the run the progress panel began last
    worker,        \* the runtime's _worker: a run, or 0 for None
    closed,        \* the runtime's _closed
    runState,      \* the window's _run_state
    available,     \* the window's _run_available
    closeAfterRun, \* the window's _close_after_run
    confirming,    \* closeEvent runs its confirmation dialog
    window,        \* open, closed, deleted
    gui            \* the GUI thread: loop, waiting in shutdown(), exited

workerVars == <<stage, thread, asked>>
windowVars == <<runState, closeAfterRun, confirming, window>>
vars == <<workerVars, events, shown, worker, closed, available, windowVars, gui>>

Runs == 1 .. MaxRuns
NoRun == 0

Init ==
    /\ stage = [r \in Runs |-> "none"] /\ thread = [r \in Runs |-> "none"]
    /\ asked = {} /\ events = <<>> /\ shown = NoRun
    /\ worker = NoRun /\ closed = FALSE
    /\ runState = "ready" /\ available = TRUE
    /\ closeAfterRun = FALSE /\ confirming = FALSE
    /\ window = "open" /\ gui = "loop"

\* RunWorkerHandle.is_running of the runtime's handle.
IsRunning(w) == w # NoRun /\ thread[w] \in {"running", "quitting"}

Post(kind, r) == events' = Append(events, [kind |-> kind, run |-> r])

-----------------------------------------------------------------------------
(***************************************************************************)
(* The worker thread.                                                      *)
(***************************************************************************)

\* RunWorker.run up to the use case: a cancellation is looked at first.
WorkerBegins(r) ==
    /\ stage[r] = "created"
    /\ \/ /\ r \notin asked /\ UNCHANGED events
          /\ stage' = [stage EXCEPT ![r] = "executing"]
       \/ /\ r \in asked /\ Post("ended", r)
          /\ stage' = [stage EXCEPT ![r] = "signalled"]
    /\ UNCHANGED <<thread, asked, shown, worker, closed, available, windowVars, gui>>

\* The use case returns or raises: finished, cancelled or failed is emitted.
WorkerEnds(r) ==
    /\ stage[r] = "executing"
    /\ stage' = [stage EXCEPT ![r] = "signalled"] /\ Post("ended", r)
    /\ UNCHANGED <<thread, asked, shown, worker, closed, available, windowVars, gui>>

\* Its finally: stopped is emitted, and thread.quit is queued to the GUI thread.
WorkerStops(r) ==
    /\ stage[r] = "signalled"
    /\ stage' = [stage EXCEPT ![r] = "stopped"] /\ Post("quit", r)
    /\ UNCHANGED <<thread, asked, shown, worker, closed, available, windowVars, gui>>

\* The thread's event loop returns; its finished signal is queued.
ThreadExits(r) ==
    /\ thread[r] = "quitting"
    /\ thread' = [thread EXCEPT ![r] = "finished"] /\ Post("cleaned", r)
    /\ UNCHANGED <<stage, asked, shown, worker, closed, available, windowVars, gui>>

WorkerThread(r) ==
    WorkerBegins(r) \/ WorkerEnds(r) \/ WorkerStops(r) \/ ThreadExits(r)

-----------------------------------------------------------------------------
(***************************************************************************)
(* What the user does. A modal dialog takes the window's input.            *)
(***************************************************************************)

UserCanAct == gui = "loop" /\ window = "open" /\ ~confirming

\* Mutant: the Run button follows the availability alone.
RunEnabledByAvailability == available
\* _apply_run_state: when the Run button and action are enabled.
RunEnabled == runState = "ready" /\ available

\* _start_validation_run: a handle is created, or its creation raises.
StartRun ==
    /\ UserCanAct /\ RunEnabled /\ ~IsRunning(worker) /\ shown < MaxRuns
    /\ \/ /\ shown' = shown + 1 /\ worker' = shown + 1
          /\ stage' = [stage EXCEPT ![shown + 1] = "created"]
          /\ thread' = [thread EXCEPT ![shown + 1] = "running"]
          /\ runState' = "running" /\ available' = FALSE
       \/ /\ worker' = NoRun /\ available' = TRUE
          /\ UNCHANGED <<shown, stage, thread, runState>>
    /\ UNCHANGED <<asked, events, closed, closeAfterRun, confirming, window, gui>>

\* _cancel_run: nothing is asked of a handle that is gone or not running.
AskWorker == asked' = IF IsRunning(worker) THEN asked \cup {worker} ELSE asked

\* _request_cancel: the window is cancelling before anybody is asked.
RequestCancel ==
    IF runState = "running"
    THEN runState' = "cancelling" /\ AskWorker
    ELSE UNCHANGED <<runState, asked>>

CancelClicked ==
    /\ UserCanAct /\ runState = "running" /\ RequestCancel
    /\ UNCHANGED <<stage, thread, events, shown, worker, closed, available,
                   closeAfterRun, confirming, window, gui>>

\* values_changed: _refresh_run_available; the panel is disabled during a run.
EditPanel ==
    /\ UserCanAct /\ runState = "ready"
    /\ available' = (~closed /\ ~IsRunning(worker))
    /\ UNCHANGED <<workerVars, events, shown, worker, closed, windowVars, gui>>

\* Mutant: a window that is cancelling closes at once.
MayCloseCancelling == runState \in {"ready", "cancelling"}
\* The states in which closeEvent accepts.
MayClose == runState = "ready"

\* The last window closes: the application's quit is posted (Qt).
WindowCloses == window' = "closed" /\ Post("exit", NoRun)

\* closeEvent: accept; remember the close; or ask.
CloseWindow ==
    /\ UserCanAct
    /\ \/ /\ MayClose /\ WindowCloses
          /\ UNCHANGED <<closeAfterRun, confirming>>
       \/ /\ ~MayClose /\ runState = "cancelling"
          /\ closeAfterRun' = TRUE /\ UNCHANGED <<confirming, window, events>>
       \/ /\ runState = "running"
          /\ confirming' = TRUE /\ UNCHANGED <<closeAfterRun, window, events>>
    /\ UNCHANGED <<workerVars, shown, worker, closed, runState, available, gui>>

\* The rest of closeEvent, once the dialog has returned.
AnswerConfirmation ==
    /\ confirming /\ gui = "loop" /\ confirming' = FALSE
    /\ \/ UNCHANGED <<closeAfterRun, runState, asked>>
       \/ closeAfterRun' = TRUE /\ RequestCancel
    /\ UNCHANGED <<stage, thread, events, shown, worker, closed, available, window, gui>>

-----------------------------------------------------------------------------
(***************************************************************************)
(* The GUI thread's event loop, the dialog's nested one included.          *)
(***************************************************************************)

Deliver(kind, r) ==
    /\ gui = "loop" /\ events # <<>> /\ window # "deleted"
    /\ Head(events) = [kind |-> kind, run |-> r]

\* Mutant: the pending close is forgotten.
NotifyForgetsClose == UNCHANGED window /\ events' = Tail(events)
\* notify_run_finished: a pending close is completed.
CompletePendingClose ==
    IF closeAfterRun /\ window = "open"
    THEN window' = "closed"
         /\ events' = Append(Tail(events), [kind |-> "exit", run |-> NoRun])
    ELSE UNCHANGED window /\ events' = Tail(events)

\* _on_run_finished, _on_run_cancelled and _on_run_failed: _finish_worker_ui.
RunEnded(r) ==
    /\ Deliver("ended", r)
    /\ runState' = "ready" /\ CompletePendingClose
    /\ available' = (~closed /\ ~IsRunning(worker))
    /\ UNCHANGED <<workerVars, shown, worker, closed, closeAfterRun, confirming, gui>>

QuitThread(r) ==
    /\ Deliver("quit", r)
    /\ thread' = [thread EXCEPT ![r] = "quitting"] /\ events' = Tail(events)
    /\ UNCHANGED <<stage, asked, shown, worker, closed, available, windowVars, gui>>

\* _on_thread_finished and, through cleaned_up, _on_worker_cleaned: the handle
\* that is dropped is whichever the runtime has by now.
WorkerCleaned(r) ==
    /\ Deliver("cleaned", r)
    /\ worker' = NoRun /\ available' = ~closed /\ events' = Tail(events)
    /\ UNCHANGED <<workerVars, shown, closed, windowVars, gui>>

-----------------------------------------------------------------------------
(***************************************************************************)
(* shutdown() of the runtime: before another language is chosen, and when  *)
(* the event loop has returned.                                            *)
(***************************************************************************)

\* A running thread is cancelled and waited for; the GUI thread is blocked.
ShutdownBegins(after) ==
    /\ closed' = TRUE
    /\ IF IsRunning(worker)
       THEN asked' = asked \cup {worker} /\ gui' = after.waiting /\ UNCHANGED worker
       ELSE worker' = NoRun /\ gui' = after.done /\ UNCHANGED asked

Switching == [waiting |-> "switch_wait", done |-> "loop"]
Exiting == [waiting |-> "exit_wait", done |-> "exited"]

\* The window is hidden and deleted later, in its turn among the events.
SwitchLanguage ==
    /\ UserCanAct /\ runState = "ready" /\ ~closed
    /\ ShutdownBegins(Switching)
    /\ window' = "hidden"
    /\ events' = IF IsRunning(worker) THEN events
                 ELSE Append(events, [kind |-> "delete", run |-> NoRun])
    /\ UNCHANGED <<stage, thread, shown, runState, available, closeAfterRun, confirming>>

\* The application quits: exec returns and main() shuts the runtime down.
ApplicationExits ==
    /\ Deliver("exit", NoRun) /\ events' = Tail(events)
    /\ ShutdownBegins(Exiting) /\ confirming' = FALSE
    /\ UNCHANGED <<stage, thread, shown, runState, available, closeAfterRun, window>>

\* wait_for_shutdown returns: the thread is finished, or five seconds are over.
ShutdownWaited ==
    /\ gui \in {"switch_wait", "exit_wait"}
    /\ worker' = NoRun
    /\ IF gui = "switch_wait"
       THEN gui' = "loop" /\ Post("delete", NoRun)
       ELSE gui' = "exited" /\ UNCHANGED events
    /\ UNCHANGED <<workerVars, shown, closed, available, windowVars>>

\* The deferred deletion takes the handles with it, and their signals.
WindowDeleted ==
    /\ Deliver("delete", NoRun)
    /\ window' = "deleted" /\ events' = <<>>
    /\ UNCHANGED <<workerVars, shown, worker, closed, runState, available,
                   closeAfterRun, confirming, gui>>

EventLoop ==
    \/ \E r \in Runs : RunEnded(r) \/ QuitThread(r) \/ WorkerCleaned(r)
    \/ ApplicationExits \/ WindowDeleted

Finished == (gui = "exited" \/ window = "deleted") /\ UNCHANGED vars

Next ==
    \/ \E r \in Runs : WorkerThread(r)
    \/ StartRun \/ CancelClicked \/ EditPanel \/ CloseWindow \/ AnswerConfirmation
    \/ SwitchLanguage
    \/ EventLoop \/ ShutdownWaited
    \/ Finished

\* A use case returns (its processes have timeouts), posted events are
\* delivered, and the wait of shutdown() is bounded. The user owes nothing.
Fairness ==
    /\ \A r \in Runs : WF_vars(WorkerThread(r))
    /\ WF_vars(EventLoop) /\ WF_vars(ShutdownWaited)

Spec == Init /\ [][Next]_vars /\ Fairness

-----------------------------------------------------------------------------
(***************************************************************************)
(* Properties.                                                             *)
(***************************************************************************)

Event == [kind : {"ended", "quit", "cleaned"}, run : Runs]
         \cup [kind : {"exit", "delete"}, run : {NoRun}]

\* Every variable keeps its type.
GuiTypeOK ==
    /\ stage \in [Runs -> {"none", "created", "executing", "signalled", "stopped"}]
    /\ thread \in [Runs -> {"none", "running", "quitting", "finished"}]
    /\ asked \in SUBSET Runs /\ events \in Seq(Event)
    /\ shown \in Runs \cup {NoRun} /\ worker \in Runs \cup {NoRun}
    /\ closed \in BOOLEAN /\ available \in BOOLEAN
    /\ runState \in {"ready", "running", "cancelling"}
    /\ closeAfterRun \in BOOLEAN /\ confirming \in BOOLEAN
    /\ window \in {"open", "hidden", "closed", "deleted"}
    /\ gui \in {"loop", "switch_wait", "exit_wait", "exited"}

Posted(kind, r) == \E i \in DOMAIN events : events[i] = [kind |-> kind, run |-> r]

\* A run whose end the window has not been told yet.
Unfinished(r) == stage[r] \in {"created", "executing"} \/ Posted("ended", r)

\* However late the signals of earlier workers come, the window is busy
\* exactly while the run it shows is unfinished: a late end never makes it
\* ready under the run that is going on, and no two runs go on at once
\* (_finish_worker_ui, _start_validation_run).
BusyForTheShownRun ==
    window \in {"open", "closed"} /\ gui = "loop" =>
        \A r \in Runs : Unfinished(r) <=> r = shown /\ runState # "ready"

\* The shell never goes away under a run: when the window is closed, hidden
\* or deleted, no use case is executing (closeEvent, notify_run_finished,
\* _switch_language).
NoRunOutlivesWindow ==
    window # "open" => \A r \in Runs : stage[r] \notin {"created", "executing"}

\* A close that is accepted while a run is active happens once the run has
\* ended, even when the clean-up of an earlier worker took the handle away
\* and nobody can be asked to cancel (closeEvent, notify_run_finished).
ActiveCloseHappens ==
    (closeAfterRun /\ runState # "ready") ~> (gui = "exited")

-----------------------------------------------------------------------------
(***************************************************************************)
(* What the documentation says of the window and the code does not do.     *)
(***************************************************************************)

\* "Cancel the run and close GF Wordbench?" with "Cancel and Close" as the
\* answer (docs/usage/GUI_REFERENCE.md, 9): a close the user confirmed is
\* never left waiting at a window that has nothing to wait for.
ConfirmedCloseIsNotLost ==
    closeAfterRun /\ window = "open" => runState # "ready"

=============================================================================
