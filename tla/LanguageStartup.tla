-------------------------- MODULE LanguageStartup --------------------------
(***************************************************************************)
(* The startup window (_StartupController of startup.py): the user chooses *)
(* a path, a probe thread resolves it, the runtime of the language is      *)
(* composed, and the path is remembered in the application state, which    *)
(* the processes share. While a probe runs every button but Quit is        *)
(* disabled, so the generation check never has a second probe to tell      *)
(* apart and is left out; a file dialog is one step. The probe and the     *)
(* composition of the runtime are external.                                *)
(***************************************************************************)
EXTENDS StateRepository

VARIABLES
    phase,     \* StartupPhase
    at,        \* the repository call the GUI thread is in, or "loop"
    selected,  \* _selected_path
    last,      \* _last_path
    rgl,       \* _rgl_root
    from,      \* the probe is of the remembered path
    opened     \* paths whose runtime was composed, in any session

startupVars == <<phase, at, selected, last, rgl, from>>
vars == <<repositoryVars, startupVars, opened>>

Each(value) == [s \in Sessions |-> value]

Init ==
    /\ RepositoryInit
    /\ phase = Each("off") /\ at = Each("loop") /\ from = Each(FALSE)
    /\ selected = Each(NoPath) /\ last = Each(NoPath) /\ rgl = Each(NoPath)
    /\ opened = {doc.state.lang, legacy.state.lang} \ {NoPath}

Phase(s, p) == phase' = [phase EXCEPT ![s] = p]

\* The GUI thread goes into a repository call, and out of one.
Enter(s, where, op, value) ==
    at' = [at EXCEPT ![s] = where] /\ Begin(s, op, value)
Leave(s) ==
    /\ at' = [at EXCEPT ![s] = "loop"] /\ call' = [call EXCEPT ![s] = NoCall]
    /\ UNCHANGED <<doc, legacy, ideal, disturbed>>

Returned(s, where, how) == at[s] = where /\ call[s].step = how

-----------------------------------------------------------------------------
(***************************************************************************)
(* start().                                                                *)
(***************************************************************************)

Start(s) ==
    /\ phase[s] = "off" /\ Phase(s, "ready") /\ Enter(s, "last", "load", NoPath)
    /\ UNCHANGED <<selected, last, rgl, from, opened>>

\* _default_workspace_paths: what the suite's directories hold by then.
DefaultLangs == Langs \cup {NoPath}
DefaultRoots == Roots \cup {NoPath}

\* _existing_remembered_path: a path that is gone gives way to the default.
GotLast(s) ==
    /\ Returned(s, "last", "done")
    /\ \E path \in {call[s].state.lang} \cup DefaultLangs : last' = [last EXCEPT ![s] = path]
    /\ Enter(s, "rgl", "load", NoPath)
    /\ UNCHANGED <<phase, selected, rgl, from, opened>>

GotRgl(s) ==
    /\ Returned(s, "rgl", "done")
    /\ \E path \in {call[s].state.rgl} \cup DefaultRoots : rgl' = [rgl EXCEPT ![s] = path]
    /\ Leave(s)
    /\ UNCHANGED <<phase, selected, last, from, opened>>

-----------------------------------------------------------------------------
(***************************************************************************)
(* What the user does.                                                     *)
(***************************************************************************)

\* can_choose_path of the snapshot.
CanChoose(s) ==
    at[s] = "loop" /\ phase[s] \in {"ready", "failed", "needs_user_input"}

\* _begin_probe.
BeginProbe(s, remembered) ==
    Phase(s, "probing") /\ from' = [from EXCEPT ![s] = remembered]

OpenLast(s) ==
    /\ CanChoose(s) /\ phase[s] # "needs_user_input" /\ last[s] # NoPath
    /\ selected' = [selected EXCEPT ![s] = last[s]] /\ BeginProbe(s, TRUE)
    /\ UNCHANGED <<repositoryVars, at, last, rgl, opened>>

\* _choose_directory and _choose_file: a path, or the dialog is cancelled.
ChoosePath(s) ==
    /\ CanChoose(s)
    /\ \/ /\ \E path \in Langs : selected' = [selected EXCEPT ![s] = path]
          /\ BeginProbe(s, FALSE)
       \/ Phase(s, "ready") /\ UNCHANGED <<selected, from>>
    /\ UNCHANGED <<repositoryVars, at, last, rgl, opened>>

ChooseCandidate(s) ==
    /\ CanChoose(s) /\ phase[s] = "needs_user_input" /\ BeginProbe(s, FALSE)
    /\ UNCHANGED <<repositoryVars, at, selected, last, rgl, opened>>

ConfigureEnvironment(s) ==
    /\ CanChoose(s)
    /\ \E path \in Roots : rgl' = [rgl EXCEPT ![s] = path]
    /\ IF selected[s] # NoPath THEN BeginProbe(s, FALSE)
                               ELSE UNCHANGED <<phase, from>>
    /\ UNCHANGED <<repositoryVars, at, selected, last, opened>>

\* _switch_language: the runtime is disposed of (GuiRun).
SwitchLanguage(s) ==
    /\ at[s] = "loop" /\ phase[s] = "running" /\ Phase(s, "ready")
    /\ selected' = [selected EXCEPT ![s] = NoPath]
    /\ UNCHANGED <<repositoryVars, at, last, rgl, from, opened>>

-----------------------------------------------------------------------------
(***************************************************************************)
(* _handle_probe_result and _handle_probe_failure.                         *)
(***************************************************************************)

Probed(s) == at[s] = "loop" /\ phase[s] = "probing"

\* An external project without an RGL root: it is asked for, and probed again.
ProbeNeedsRgl(s) ==
    /\ Probed(s) /\ rgl[s] = NoPath
    /\ \/ Phase(s, "failed") /\ UNCHANGED <<rgl, from>>
       \/ /\ \E path \in Roots : rgl' = [rgl EXCEPT ![s] = path]
          /\ BeginProbe(s, from[s])
    /\ UNCHANGED <<repositoryVars, at, selected, last, opened>>

ProbeNeedsInput(s) ==
    /\ Probed(s) /\ Phase(s, "needs_user_input")
    /\ UNCHANGED <<repositoryVars, at, selected, last, rgl, from, opened>>

\* The path is not a language: a remembered one is forgotten.
ProbeRejects(s) ==
    /\ Probed(s)
    /\ IF from[s] THEN Enter(s, "clear", "clear_lang", NoPath) /\ UNCHANGED phase
                  ELSE Phase(s, "failed") /\ UNCHANGED <<repositoryVars, at>>
    /\ UNCHANGED <<selected, last, rgl, from, opened>>

\* The probe raises, or the runtime cannot be composed.
ProbeFails(s) ==
    /\ Probed(s) /\ Phase(s, "failed")
    /\ UNCHANGED <<repositoryVars, at, selected, last, rgl, from, opened>>

\* Mutant: the path is remembered before its runtime is composed.
RememberFirst(s) ==
    /\ Probed(s) /\ Phase(s, "composing")
    /\ Enter(s, "remember", "remember_lang", selected[s])
    /\ UNCHANGED <<selected, last, rgl, from, opened>>
\* _compose_main_runtime up to the first state write.
ProbeResolves(s) ==
    /\ Probed(s) /\ Phase(s, "composing")
    /\ opened' = opened \cup {selected[s]}
    /\ Enter(s, "remember", "remember_lang", selected[s])
    /\ UNCHANGED <<selected, last, rgl, from>>

\* The state writes of _compose_main_runtime: a failure is a warning.
Remembered(s) ==
    /\ \/ /\ Returned(s, "remember", "done")
          /\ last' = [last EXCEPT ![s] = selected[s]]
       \/ Returned(s, "remember", "raised") /\ UNCHANGED last
    /\ IF rgl[s] # NoPath
       THEN Enter(s, "remember_rgl", "remember_rgl", rgl[s]) /\ UNCHANGED phase
       ELSE Leave(s) /\ Phase(s, "running")
    /\ UNCHANGED <<selected, rgl, from, opened>>

RememberedRgl(s) ==
    /\ Returned(s, "remember_rgl", "done") \/ Returned(s, "remember_rgl", "raised")
    /\ Leave(s) /\ Phase(s, "running")
    /\ UNCHANGED <<selected, last, rgl, from, opened>>

Cleared(s) ==
    /\ \/ Returned(s, "clear", "done") /\ last' = [last EXCEPT ![s] = NoPath]
       \/ Returned(s, "clear", "raised") /\ UNCHANGED last
    /\ Leave(s) /\ Phase(s, "failed")
    /\ UNCHANGED <<selected, rgl, from, opened>>

-----------------------------------------------------------------------------

\* shutdown(), or the process stops in the middle of anything: its memory goes.
Close(s) ==
    /\ phase[s] \notin {"off", "closed"} /\ Phase(s, "closed") /\ Leave(s)
    /\ selected' = [selected EXCEPT ![s] = NoPath]
    /\ last' = [last EXCEPT ![s] = NoPath] /\ rgl' = [rgl EXCEPT ![s] = NoPath]
    /\ from' = [from EXCEPT ![s] = FALSE] /\ UNCHANGED opened

RepositoryStep(s) == Repository(s) /\ UNCHANGED <<startupVars, opened>>

Session(s) ==
    \/ Start(s) \/ GotLast(s) \/ GotRgl(s)
    \/ OpenLast(s) \/ ChoosePath(s) \/ ChooseCandidate(s)
    \/ ConfigureEnvironment(s) \/ SwitchLanguage(s)
    \/ ProbeNeedsRgl(s) \/ ProbeNeedsInput(s) \/ ProbeRejects(s)
    \/ ProbeFails(s) \/ ProbeResolves(s)
    \/ Remembered(s) \/ RememberedRgl(s) \/ Cleared(s)
    \/ Close(s) \/ RepositoryStep(s)

Finished == (\A s \in Sessions : phase[s] = "closed") /\ UNCHANGED vars

Next == (\E s \in Sessions : Session(s)) \/ Finished

Spec == Init /\ [][Next]_vars

-----------------------------------------------------------------------------
(***************************************************************************)
(* Properties.                                                             *)
(***************************************************************************)

Phases == {"off", "ready", "probing", "needs_user_input", "composing",
           "running", "failed", "closed"}
Places == {"loop", "last", "rgl", "remember", "remember_rgl", "clear"}

\* Every variable keeps its type, and the GUI thread waits for a call of its
\* own exactly while it is out of the event loop.
StartupTypeOK ==
    /\ RepositoryTypeOK
    /\ phase \in [Sessions -> Phases] /\ at \in [Sessions -> Places]
    /\ selected \in [Sessions -> Langs \cup {NoPath}]
    /\ last \in [Sessions -> Langs \cup {NoPath}]
    /\ rgl \in [Sessions -> Roots \cup {NoPath}]
    /\ from \in [Sessions -> BOOLEAN] /\ opened \in SUBSET Langs
    /\ \A s \in Sessions : at[s] = "loop" <=> call[s] = NoCall

\* The path the file remembers is one that was opened: in this or another
\* process, or before, whatever failed, overlapped or was chosen and given up
\* in between (_compose_main_runtime, remember_selected_path).
RememberedWasOpened ==
    doc.state.lang \in opened \cup {NoPath}

=============================================================================
