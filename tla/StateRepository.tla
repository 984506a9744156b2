-------------------------- MODULE StateRepository --------------------------
(***************************************************************************)
(* The application state file: loading, migration of the legacy file and   *)
(* atomic replacement (state/repository.py over infrastructure/atomic_io), *)
(* and the read-modify-write calls of the windows (startup.py), which no   *)
(* lock orders. Every read and every write may fail.                       *)
(***************************************************************************)
CONSTANTS
    Sessions,  \* processes of the workbench over one workspace
    Langs,     \* language paths
    Roots,     \* RGL roots
    NoPath

ASSUME RepositoryAssumption == NoPath \notin Langs \cup Roots

VARIABLES
    doc,       \* what the canonical file holds
    legacy,    \* what the legacy file holds
    call,      \* each session's repository call
    ideal,     \* what the file would tell if every change were atomic
    disturbed  \* a read or a migration failed, or two calls overlapped

repositoryVars == <<doc, legacy, call, ideal, disturbed>>

State == [lang : Langs \cup {NoPath}, rgl : Roots \cup {NoPath}]
Default == [lang |-> NoPath, rgl |-> NoPath]
\* What is not JSON and what is not of this schema is told apart by warnings only.
Document == [kind : {"absent", "malformed", "state"}, state : State]
Holding(s) == [kind |-> "state", state |-> s]
Unreadable(kind) == [kind |-> kind, state |-> Default]

Operations == {"load", "remember_lang", "remember_rgl", "clear_lang"}
Steps == {"look", "read", "migrate", "save_migrated", "publish_migrated",
          "verify", "save", "publish", "done", "raised"}
NoCall == [op |-> "none", value |-> NoPath, step |-> "idle", state |-> Default]
Call == {NoCall} \cup
        [op : Operations \ {"remember_rgl"}, value : Langs \cup {NoPath},
         step : Steps, state : State] \cup
        [op : {"remember_rgl"}, value : Roots, step : Steps, state : State]

\* What load() comes to when nothing fails.
Told ==
    CASE doc.kind = "state" -> doc.state
      [] doc.kind = "absent" /\ legacy.kind = "state" -> legacy.state
      [] OTHER -> Default

\* A legacy file beside a canonical one is never looked at, so none is there.
RepositoryInit ==
    /\ doc \in {Holding(Default)} \cup [kind : {"state"}, state : [lang : Langs, rgl : Roots]]
               \cup {Unreadable(k) : k \in {"absent", "malformed"}}
    /\ legacy \in {Unreadable(k) : k \in {"absent", "malformed"}}
                  \cup [kind : {"state"}, state : [lang : Langs, rgl : Roots \cup {NoPath}]]
    /\ doc.kind # "absent" => legacy.kind = "absent"
    /\ call = [s \in Sessions |-> NoCall]
    /\ ideal = Told /\ disturbed = FALSE

UnderWay(s) == call[s].step \notin {"idle", "done", "raised"}

\* Begins a call of session s.
Begin(s, op, value) ==
    /\ call' = [call EXCEPT ![s] = [op |-> op, value |-> value, step |-> "look",
                                    state |-> Default]]
    /\ disturbed' = (disturbed \/ \E other \in Sessions \ {s} : UnderWay(other))
    /\ UNCHANGED <<doc, legacy, ideal>>

Step(s, step) == call' = [call EXCEPT ![s].step = step]
\* Session s goes on with a state in hand.
StepWith(s, step, state) ==
    call' = [call EXCEPT ![s] = [op |-> call[s].op, value |-> call[s].value,
                                 step |-> step, state |-> state]]

Change(op, value, state) ==
    IF op = "remember_rgl" THEN [state EXCEPT !.rgl = value]
                           ELSE [state EXCEPT !.lang = value]

\* Mutant: the change is made to the defaults.
ReplaceInDefaults(op, value, state) == Change(op, value, Default)
\* replace(state, environment = replace(...)) of the three callers.
Replace(op, value, state) == Change(op, value, state)

\* load() has returned the state: a load is done, the others save their change.
Loaded(s, state) ==
    IF call[s].op = "load" THEN StepWith(s, "done", state)
    ELSE StepWith(s, "save", Replace(call[s].op, call[s].value, state))

-----------------------------------------------------------------------------

\* load_with_diagnostics: which of the two files is there.
Look(s) ==
    /\ call[s].step = "look"
    /\ \/ doc.kind # "absent" /\ Step(s, "read")
       \/ doc.kind = "absent" /\ legacy.kind # "absent" /\ Step(s, "migrate")
       \/ doc.kind = "absent" /\ legacy.kind = "absent" /\ Loaded(s, Default)
    /\ UNCHANGED <<doc, legacy, ideal, disturbed>>

\* _load_canonical: what cannot be read or is not this schema is defaults. The
\* step after save() verifies the migrated file the same way.
Read(s) ==
    /\ call[s].step \in {"read", "verify"}
    /\ \/ /\ Loaded(s, IF doc.kind = "state" THEN doc.state ELSE Default)
          /\ UNCHANGED disturbed
       \/ doc.kind = "state" /\ Loaded(s, Default) /\ disturbed' = TRUE
    /\ UNCHANGED <<doc, legacy, ideal>>

MigrationFails(s) ==
    /\ Loaded(s, Default)
    /\ disturbed' = (disturbed \/ legacy.kind = "state")

\* _migrate_legacy up to its save().
Migrate(s) ==
    /\ call[s].step = "migrate"
    /\ \/ /\ legacy.kind = "state" /\ UNCHANGED disturbed
          /\ StepWith(s, "save_migrated", legacy.state)
       \/ MigrationFails(s)
    /\ UNCHANGED <<doc, legacy, ideal>>

\* _atomic_writer: a sibling file is written, synced and validated.
TemporaryWritten == UNCHANGED doc

SaveFails(s) ==
    IF call[s].step \in {"save_migrated", "publish_migrated"}
    THEN MigrationFails(s)
    ELSE Step(s, "raised") /\ UNCHANGED disturbed

\* save() up to the replacement.
Save(s) ==
    /\ call[s].step \in {"save", "save_migrated"}
    /\ \/ /\ Step(s, IF call[s].step = "save" THEN "publish" ELSE "publish_migrated")
          /\ TemporaryWritten /\ UNCHANGED disturbed
       \/ SaveFails(s) /\ UNCHANGED doc
    /\ UNCHANGED <<legacy, ideal>>

\* _replace_with_retry.
Publish(s) ==
    /\ call[s].step \in {"publish", "publish_migrated"}
    /\ \/ /\ doc' = Holding(call[s].state) /\ UNCHANGED disturbed
          /\ IF call[s].step = "publish"
             THEN Step(s, "done") /\ ideal' = Change(call[s].op, call[s].value, ideal)
             ELSE Step(s, "verify") /\ UNCHANGED ideal
       \/ SaveFails(s) /\ UNCHANGED <<doc, ideal>>
    /\ UNCHANGED legacy

Repository(s) == Look(s) \/ Read(s) \/ Migrate(s) \/ Save(s) \/ Publish(s)

-----------------------------------------------------------------------------
(***************************************************************************)
(* Properties.                                                             *)
(***************************************************************************)

RepositoryTypeOK ==
    /\ doc \in Document /\ legacy \in Document
    /\ call \in [Sessions -> Call]
    /\ ideal \in State /\ disturbed \in BOOLEAN

\* A document that is whole is only ever replaced by a whole one, wherever a
\* write fails, a process stops or another one publishes (_atomic_writer,
\* save).
StateStaysWhole == [][doc.kind = "state" => doc'.kind = "state"]_doc

\* What the file tells is lost by nothing but a read or a migration that
\* fails and calls that overlap: otherwise each call changes its one field and
\* keeps the rest, what a migration brings over included, whichever process
\* made the earlier change and wherever a process stopped (remember_*,
\* _migrate_legacy).
OnlyDisturbancesLose == ~disturbed => Told = ideal

-----------------------------------------------------------------------------
(***************************************************************************)
(* What the documentation says of the code and the code does not do.       *)
(***************************************************************************)

\* "Avoid overwriting malformed source state until policy permits"
\* (docs/configuration/CONFIGURATION_OVERVIEW.md, 12.6).
UnreadableIsKept ==
    [][doc.kind = "malformed" => doc' = doc]_doc

=============================================================================
