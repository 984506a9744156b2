----------------------- MODULE LanguageStartup_proofs -----------------------
(***************************************************************************)
(* Proofs about LanguageStartup and the StateRepository it extends, for    *)
(* any number of processes, languages and roots: the types, that the file  *)
(* stays whole, that it remembers opened paths only, and that nothing but  *)
(* a failing read or migration or an overlap loses what it tells.          *)
(***************************************************************************)
EXTENDS LanguageStartup, TLAPS

-----------------------------------------------------------------------------
(***************************************************************************)
(* The inductive invariant.                                                *)
(***************************************************************************)

WasOpened(path) == path \in opened \cup {NoPath}

\* Every path that is in a file or on its way into one was opened.
Sourced ==
    /\ WasOpened(doc.state.lang) /\ WasOpened(legacy.state.lang)
    /\ \A s \in Sessions :
        /\ WasOpened(call[s].state.lang)
        /\ call[s].op # "remember_rgl" => WasOpened(call[s].value)

\* What a call under way knows of the files while nothing disturbs it.
Knows(c) ==
    /\ c.step \in {"read", "verify"} => doc.kind # "absent"
    /\ c.step = "migrate" => doc.kind = "absent"
    /\ c.step \in {"save_migrated", "publish_migrated"} =>
          doc.kind = "absent" /\ legacy.kind = "state" /\ c.state = legacy.state
    /\ c.step \in {"save", "publish"} => c.state = Change(c.op, c.value, Told)

\* Calls come one after the other, and the file tells what they came to.
Undisturbed == ~disturbed =>
    /\ Told = ideal
    /\ \A s, t \in Sessions : UnderWay(s) /\ UnderWay(t) => s = t
    /\ \A s \in Sessions : Knows(call[s])

\* A probe is of a path.
Chosen == \A s \in Sessions :
    phase[s] \in {"probing", "needs_user_input"} => selected[s] # NoPath

StartupInv == StartupTypeOK /\ Sourced /\ Undisturbed /\ Chosen

-----------------------------------------------------------------------------
(***************************************************************************)
(* Data.                                                                   *)
(***************************************************************************)

LEMMA DefaultIsState == Default \in State /\ Default.lang = NoPath
  BY DEF Default, State

LEMMA ToldIsState ==
    ASSUME StartupInv
    PROVE  Told \in State /\ WasOpened(Told.lang)
  BY DefaultIsState
     DEF StartupInv, StartupTypeOK, RepositoryTypeOK, Document, Sourced, Told, WasOpened

LEMMA NoCallIsCall == NoCall \in Call /\ WasOpened(NoCall.state.lang) /\ WasOpened(NoCall.value)
  BY DefaultIsState DEF NoCall, Call, WasOpened

\* A call under way has a value of the kind its operation asks for.
LEMMA CallFields ==
    ASSUME NEW c \in Call, c.step # "idle"
    PROVE  /\ c = [op |-> c.op, value |-> c.value, step |-> c.step, state |-> c.state]
           /\ c.op \in Operations /\ c.step \in Steps /\ c.state \in State
           /\ c.op = "remember_rgl" => c.value \in Roots
           /\ c.op # "remember_rgl" => c.value \in Langs \cup {NoPath}
  BY DEF Call, NoCall, Operations

LEMMA FieldsCall ==
    ASSUME NEW op \in Operations, NEW value, NEW step \in Steps, NEW state \in State,
           op = "remember_rgl" => value \in Roots,
           op # "remember_rgl" => value \in Langs \cup {NoPath}
    PROVE  [op |-> op, value |-> value, step |-> step, state |-> state] \in Call
  BY DEF Call, Operations

LEMMA ChangedState ==
    ASSUME NEW op \in Operations, NEW value, NEW state \in State,
           op = "remember_rgl" => value \in Roots,
           op # "remember_rgl" => value \in Langs \cup {NoPath}
    PROVE  /\ Change(op, value, state) \in State
           /\ op = "remember_rgl" => Change(op, value, state).lang = state.lang
           /\ op # "remember_rgl" => Change(op, value, state).lang = value
  BY DEF Change, State

LEMMA InitialInv == Init => StartupInv
<1> SUFFICES ASSUME Init PROVE StartupInv
  OBVIOUS
<1>1. doc \in Document /\ legacy \in Document
  BY DefaultIsState DEF Init, RepositoryInit, Document, Holding, Unreadable, State
<1>2. \A s \in Sessions : call[s] = NoCall
  BY DEF Init, RepositoryInit
<1>3. call \in [Sessions -> Call]
  BY NoCallIsCall DEF Init, RepositoryInit
<1>4. Told \in State
  BY <1>1, DefaultIsState DEF Told, Document
<1>5. StartupTypeOK
  BY <1>1, <1>2, <1>3, <1>4
     DEF Init, RepositoryInit, StartupTypeOK, RepositoryTypeOK, Each, Phases, Places,
         Document, State
<1>6. Sourced
  BY <1>2, NoCallIsCall DEF Init, Sourced, WasOpened
<1>7. Undisturbed
  BY <1>2 DEF Init, RepositoryInit, Undisturbed, UnderWay, Knows, NoCall
<1>8. Chosen
  BY DEF Init, Each, Chosen
<1>9. QED
  BY <1>5, <1>6, <1>7, <1>8 DEF StartupInv

-----------------------------------------------------------------------------
(***************************************************************************)
(* The GUI thread goes into a call, out of one, or stays outside.          *)
(***************************************************************************)

\* Nothing that the invariant says of files and calls changes.
LEMMA QuietKeepsInv ==
    ASSUME StartupInv, UNCHANGED <<repositoryVars, opened>>, StartupTypeOK', Chosen'
    PROVE  StartupInv'
<1>1. Sourced'
  BY DEF StartupInv, Sourced, WasOpened, repositoryVars
<1>2. Undisturbed'
  BY DEF StartupInv, Undisturbed, Told, UnderWay, Knows, repositoryVars
<1>3. QED
  BY <1>1, <1>2 DEF StartupInv

LEMMA BeginKeepsInv ==
    ASSUME StartupInv, NEW s \in Sessions, NEW op \in Operations, NEW value,
           Begin(s, op, value),
           op = "remember_rgl" => value \in Roots,
           op # "remember_rgl" => value \in Langs \cup {NoPath} /\ WasOpened(value)',
           opened \subseteq opened'
    PROVE  /\ RepositoryTypeOK' /\ Sourced' /\ Undisturbed'
           /\ call'[s] # NoCall /\ \A t \in Sessions \ {s} : call'[t] = call[t]
<1> DEFINE new == [op |-> op, value |-> value, step |-> "look", state |-> Default]
<1>1. call' = [call EXCEPT ![s] = new] /\ UNCHANGED <<doc, legacy, ideal>>
  BY DEF Begin
<1>2. new \in Call /\ new.step = "look" /\ new.op = op /\ new.value = value
      /\ new.state.lang = NoPath
  BY FieldsCall, DefaultIsState DEF Steps
<1> HIDE DEF new
<1>3. call'[s] = new /\ \A t \in Sessions \ {s} : call'[t] = call[t]
  BY <1>1 DEF StartupInv, StartupTypeOK, RepositoryTypeOK
<1>4. RepositoryTypeOK'
  BY <1>1, <1>2 DEF StartupInv, StartupTypeOK, RepositoryTypeOK, Begin
<1>5. Sourced'
  BY <1>1, <1>2, <1>3 DEF StartupInv, Sourced, WasOpened
<1>6. Undisturbed'
  <2> SUFFICES ASSUME ~disturbed'
               PROVE  Undisturbed'
    BY DEF Undisturbed
  <2>1. ~disturbed /\ \A t \in Sessions \ {s} : ~UnderWay(t)
    BY DEF Begin
  <2>2. Told' = ideal'
    BY <1>1, <2>1 DEF StartupInv, Undisturbed, Told
  <2>3. \A t \in Sessions \ {s} : ~UnderWay(t)'
    BY <1>3, <2>1 DEF UnderWay
  <2>4. \A t \in Sessions : Knows(call[t])'
    BY <1>1, <1>2, <1>3, <2>1 DEF StartupInv, Undisturbed, Knows, Told
  <2>5. QED
    BY <2>2, <2>3, <2>4 DEF Undisturbed
<1>7. call'[s] # NoCall
  BY <1>2, <1>3 DEF NoCall
<1>8. QED
  BY <1>3, <1>4, <1>5, <1>6, <1>7

LEMMA LeaveKeepsInv ==
    ASSUME StartupInv, NEW s \in Sessions, Leave(s), opened' = opened
    PROVE  /\ RepositoryTypeOK' /\ Sourced' /\ Undisturbed'
           /\ call'[s] = NoCall /\ \A t \in Sessions \ {s} : call'[t] = call[t]
<1>1. call' = [call EXCEPT ![s] = NoCall] /\ UNCHANGED <<doc, legacy, ideal, disturbed>>
  BY DEF Leave
<1>2. call'[s] = NoCall /\ \A t \in Sessions \ {s} : call'[t] = call[t]
  BY <1>1 DEF StartupInv, StartupTypeOK, RepositoryTypeOK
<1>3. RepositoryTypeOK'
  BY <1>1, NoCallIsCall DEF StartupInv, StartupTypeOK, RepositoryTypeOK
<1>4. Sourced'
  BY <1>1, <1>2, NoCallIsCall DEF StartupInv, Sourced, WasOpened
<1>5. Undisturbed'
  <2>1. NoCall.step = "idle"
    BY DEF NoCall
  <2> SUFFICES ASSUME ~disturbed'
               PROVE  Undisturbed'
    BY DEF Undisturbed
  <2>2. Told' = ideal' /\ \A t \in Sessions : Knows(call[t])'
    BY <1>1, <1>2, <2>1 DEF StartupInv, Undisturbed, Knows, Told
  <2>3. \A t \in Sessions : UnderWay(t)' => t # s /\ UnderWay(t)
    BY <1>2, <2>1 DEF UnderWay
  <2>4. QED
    BY <1>1, <2>2, <2>3 DEF StartupInv, Undisturbed
<1>6. QED
  BY <1>2, <1>3, <1>4, <1>5

-----------------------------------------------------------------------------
(***************************************************************************)
(* The steps of a repository call.                                         *)
(***************************************************************************)

\* What call s came to in this step, the others being where they were.
Advances(s) ==
    /\ call' \in [Sessions -> Call] /\ call'[s] # NoCall
    /\ \A t \in Sessions \ {s} : call'[t] = call[t]
    /\ call'[s].op = call[s].op /\ call'[s].value = call[s].value
    /\ WasOpened(call'[s].state.lang)

LEMMA AdvanceKeepsInv ==
    ASSUME StartupInv, NEW s \in Sessions, UnderWay(s), Advances(s),
           UNCHANGED <<startupVars, opened, legacy>>,
           doc' \in Document, WasOpened(doc'.state.lang),
           ideal' \in State, disturbed' \in BOOLEAN, disturbed => disturbed',
           ~disturbed' => Told' = ideal' /\ Knows(call[s])'
    PROVE  StartupInv'
<1>1. call[s] # NoCall
  BY DEF UnderWay, NoCall
<1>2. StartupTypeOK'
  BY <1>1 DEF StartupInv, StartupTypeOK, RepositoryTypeOK, Advances, startupVars
<1>3. Sourced'
  BY DEF StartupInv, Sourced, Advances, WasOpened
<1>4. Undisturbed'
  <2> SUFFICES ASSUME ~disturbed'
               PROVE  Undisturbed'
    BY DEF Undisturbed
  <2>1. \A t \in Sessions \ {s} : ~UnderWay(t)
    BY DEF StartupInv, Undisturbed
  <2>2. \A t \in Sessions \ {s} : ~UnderWay(t)' /\ Knows(call[t])'
    BY <2>1 DEF UnderWay, Knows, Advances
  <2>3. QED
    BY <2>2 DEF Undisturbed
<1>5. Chosen'
  BY DEF StartupInv, Chosen, startupVars
<1>6. QED
  BY <1>2, <1>3, <1>4, <1>5 DEF StartupInv

\* The same for the steps that write no file.
LEMMA ReadOnlyKeepsInv ==
    ASSUME StartupInv, NEW s \in Sessions, UnderWay(s), Advances(s),
           UNCHANGED <<startupVars, opened, doc, legacy, ideal>>,
           disturbed' \in BOOLEAN, disturbed => disturbed', ~disturbed' => Knows(call[s])'
    PROVE  StartupInv'
<1>1. /\ doc' \in Document /\ WasOpened(doc'.state.lang) /\ ideal' \in State
  BY DEF StartupInv, StartupTypeOK, RepositoryTypeOK, Sourced, WasOpened
<1>2. ~disturbed' => Told' = ideal'
  BY DEF StartupInv, Undisturbed, Told
<1>3. QED
  BY <1>1, <1>2, AdvanceKeepsInv

\* A call under way is a call of its kind.
LEMMA UnderWayCall ==
    ASSUME StartupInv, NEW s \in Sessions, UnderWay(s)
    PROVE  /\ call[s] \in Call /\ call[s] # NoCall
           /\ call[s].op \in Operations /\ call[s].step \in Steps /\ call[s].state \in State
           /\ call[s].op = "remember_rgl" => call[s].value \in Roots
           /\ call[s].op # "remember_rgl" => call[s].value \in Langs \cup {NoPath}
           /\ call[s].op # "remember_rgl" => WasOpened(call[s].value)
           /\ WasOpened(call[s].state.lang)
  BY CallFields DEF StartupInv, StartupTypeOK, RepositoryTypeOK, Sourced, UnderWay, NoCall

LEMMA StepWithAdvances ==
    ASSUME StartupInv, NEW s \in Sessions, UnderWay(s), NEW step \in Steps,
           NEW state \in State, WasOpened(state.lang), StepWith(s, step, state),
           opened' = opened
    PROVE  Advances(s) /\ call'[s].step = step /\ call'[s].state = state
<1> DEFINE new == [op |-> call[s].op, value |-> call[s].value, step |-> step,
                   state |-> state]
<1>1. new \in Call
  BY UnderWayCall, FieldsCall
<1>2. new.op = call[s].op /\ new.value = call[s].value /\ new.step = step
      /\ new.state = state
  OBVIOUS
<1>3. new # NoCall
  BY <1>2 DEF NoCall, Steps
<1>4. call' = [call EXCEPT ![s] = new]
  BY DEF StepWith
<1> HIDE DEF new
<1>5. call \in [Sessions -> Call]
  BY DEF StartupInv, StartupTypeOK, RepositoryTypeOK
<1>6. QED
  BY <1>1, <1>2, <1>3, <1>4, <1>5 DEF Advances

LEMMA StepAdvances ==
    ASSUME StartupInv, NEW s \in Sessions, UnderWay(s), NEW step \in Steps, Step(s, step),
           opened' = opened
    PROVE  /\ Advances(s) /\ call'[s].step = step /\ call'[s].state = call[s].state
<1>1. call[s] = [op |-> call[s].op, value |-> call[s].value, step |-> call[s].step,
                 state |-> call[s].state]
  BY UnderWayCall, CallFields DEF UnderWay
<1>2. [call[s] EXCEPT !.step = step] =
        [op |-> call[s].op, value |-> call[s].value, step |-> step, state |-> call[s].state]
  BY <1>1
<1>3. StepWith(s, step, call[s].state)
  BY <1>2 DEF Step, StepWith
<1>4. QED
  BY <1>3, StepWithAdvances, UnderWayCall

\* The call is done with what it loaded, or is to save its change of it.
LEMMA LoadedAdvances ==
    ASSUME StartupInv, NEW s \in Sessions, UnderWay(s), NEW state \in State,
           WasOpened(state.lang), Loaded(s, state), opened' = opened
    PROVE  /\ Advances(s) /\ call'[s].step \in {"done", "save"}
           /\ call'[s].step = "save" =>
                 call'[s].state = Change(call'[s].op, call'[s].value, state)
<1>1. CASE call[s].op = "load"
  BY <1>1, StepWithAdvances DEF Loaded, Steps
<1>2. CASE call[s].op # "load"
  <2> DEFINE changed == Change(call[s].op, call[s].value, state)
  <2>1. changed \in State /\ WasOpened(changed.lang)
    BY UnderWayCall, ChangedState
  <2>2. StepWith(s, "save", changed)
    BY <1>2 DEF Loaded, Replace
  <2> HIDE DEF changed
  <2>3. Advances(s) /\ call'[s].step = "save" /\ call'[s].state = changed
    BY <2>1, <2>2, StepWithAdvances DEF Steps
  <2>4. QED
    BY <2>3 DEF Advances, changed
<1>3. QED
  BY <1>1, <1>2

-----------------------------------------------------------------------------
(***************************************************************************)
(* One lemma per step of the repository.                                   *)
(***************************************************************************)

LEMMA LookKeepsInv ==
    ASSUME StartupInv, NEW s \in Sessions, Look(s), UNCHANGED <<startupVars, opened>>
    PROVE  StartupInv'
<1>1. UnderWay(s) /\ UNCHANGED <<doc, legacy, ideal, disturbed>>
  BY DEF Look, UnderWay
<1>2. Told' = Told
  BY <1>1 DEF Told
<1>3. CASE doc.kind # "absent" /\ Step(s, "read")
  <2>1. Advances(s) /\ call'[s].step = "read"
    BY <1>1, <1>3, StepAdvances DEF Steps
  <2>2. ~disturbed' => Knows(call[s])'
    BY <1>1, <1>2, <1>3, <2>1 DEF StartupInv, Undisturbed, Knows
  <2>3. QED
    BY <1>1, <2>1, <2>2, ReadOnlyKeepsInv DEF StartupInv, StartupTypeOK, RepositoryTypeOK
<1>4. CASE doc.kind = "absent" /\ Step(s, "migrate")
  <2>1. Advances(s) /\ call'[s].step = "migrate"
    BY <1>1, <1>4, StepAdvances DEF Steps
  <2>2. ~disturbed' => Knows(call[s])'
    BY <1>1, <1>2, <1>4, <2>1 DEF StartupInv, Undisturbed, Knows
  <2>3. QED
    BY <1>1, <2>1, <2>2, ReadOnlyKeepsInv DEF StartupInv, StartupTypeOK, RepositoryTypeOK
<1>5. CASE doc.kind = "absent" /\ legacy.kind = "absent" /\ Loaded(s, Default)
  <2>1. /\ Advances(s) /\ call'[s].step \in {"done", "save"}
        /\ call'[s].step = "save" =>
              call'[s].state = Change(call'[s].op, call'[s].value, Default)
    BY <1>1, <1>5, LoadedAdvances, DefaultIsState DEF WasOpened
  <2>2. Told = Default
    BY <1>5 DEF Told
  <2>3. ~disturbed' => Knows(call[s])'
    BY <1>1, <1>2, <2>1, <2>2 DEF StartupInv, Undisturbed, Knows
  <2>4. QED
    BY <1>1, <2>1, <2>3, ReadOnlyKeepsInv DEF StartupInv, StartupTypeOK, RepositoryTypeOK
<1>6. QED
  BY <1>3, <1>4, <1>5 DEF Look

\* What load() falls back to when the calls are not disturbed by it.
LEMMA LoadedKeepsInv ==
    ASSUME StartupInv, NEW s \in Sessions, UnderWay(s), NEW state \in State,
           WasOpened(state.lang), Loaded(s, state),
           UNCHANGED <<startupVars, opened, doc, legacy, ideal>>,
           disturbed' \in BOOLEAN, disturbed => disturbed', ~disturbed' => state = Told
    PROVE  StartupInv'
<1>1. /\ Advances(s) /\ call'[s].step \in {"done", "save"}
      /\ call'[s].step = "save" =>
            call'[s].state = Change(call'[s].op, call'[s].value, state)
  BY LoadedAdvances
<1>2. Told' = Told
  BY DEF Told
<1>3. ~disturbed' => Knows(call[s])'
  BY <1>1, <1>2 DEF Knows
<1>4. QED
  BY <1>1, <1>3, ReadOnlyKeepsInv

LEMMA ReadKeepsInv ==
    ASSUME StartupInv, NEW s \in Sessions, Read(s), UNCHANGED <<startupVars, opened>>
    PROVE  StartupInv'
<1>1. UnderWay(s) /\ UNCHANGED <<doc, legacy, ideal>>
  BY DEF Read, UnderWay
<1> DEFINE state == IF doc.kind = "state" THEN doc.state ELSE Default
<1>2. state \in State /\ WasOpened(state.lang)
  BY DefaultIsState
     DEF StartupInv, StartupTypeOK, RepositoryTypeOK, Document, Sourced, WasOpened
<1>3. CASE Loaded(s, state) /\ UNCHANGED disturbed
  <2>1. ~disturbed => doc.kind # "absent"
    BY DEF StartupInv, Undisturbed, Knows, Read
  <2>2. ~disturbed' => state = Told
    BY <1>3, <2>1 DEF Told
  <2> HIDE DEF state
  <2>3. QED
    BY <1>1, <1>2, <1>3, <2>2, LoadedKeepsInv DEF StartupInv, StartupTypeOK, RepositoryTypeOK
<1>4. CASE Loaded(s, Default) /\ disturbed' = TRUE
  BY <1>1, <1>4, DefaultIsState, LoadedKeepsInv DEF WasOpened
<1>5. QED
  BY <1>3, <1>4 DEF Read

LEMMA MigrationFailsKeepsInv ==
    ASSUME StartupInv, NEW s \in Sessions, MigrationFails(s),
           call[s].step \in {"migrate", "save_migrated", "publish_migrated"},
           UNCHANGED <<startupVars, opened, doc, legacy, ideal>>
    PROVE  StartupInv'
<1>1. UnderWay(s)
  BY DEF UnderWay
<1>2. ~disturbed' => doc.kind = "absent" /\ legacy.kind # "state"
  BY DEF MigrationFails, StartupInv, Undisturbed, Knows
<1>3. ~disturbed' => Default = Told
  BY <1>2 DEF Told
<1>4. QED
  BY <1>1, <1>3, DefaultIsState, LoadedKeepsInv
     DEF MigrationFails, WasOpened, StartupInv, StartupTypeOK, RepositoryTypeOK

LEMMA MigrateKeepsInv ==
    ASSUME StartupInv, NEW s \in Sessions, Migrate(s), UNCHANGED <<startupVars, opened>>
    PROVE  StartupInv'
<1>1. UnderWay(s) /\ UNCHANGED <<doc, legacy, ideal>>
  BY DEF Migrate, UnderWay
<1>2. CASE /\ legacy.kind = "state" /\ UNCHANGED disturbed
           /\ StepWith(s, "save_migrated", legacy.state)
  <2>1. legacy.state \in State /\ WasOpened(legacy.state.lang)
    BY DEF StartupInv, StartupTypeOK, RepositoryTypeOK, Document, Sourced
  <2>2. Advances(s) /\ call'[s].step = "save_migrated" /\ call'[s].state = legacy.state
    BY <1>1, <1>2, <2>1, StepWithAdvances DEF Steps
  <2>3. ~disturbed' => Knows(call[s])'
    BY <1>1, <1>2, <2>2 DEF Knows, StartupInv, Undisturbed, Migrate
  <2>4. QED
    BY <1>1, <1>2, <2>2, <2>3, ReadOnlyKeepsInv DEF StartupInv, StartupTypeOK, RepositoryTypeOK
<1>3. CASE MigrationFails(s)
  BY <1>1, <1>3, MigrationFailsKeepsInv DEF Migrate
<1>4. QED
  BY <1>2, <1>3 DEF Migrate

\* The call raises, or goes on with the defaults after a failed migration.
LEMMA SaveFailsKeepsInv ==
    ASSUME StartupInv, NEW s \in Sessions, SaveFails(s),
           call[s].step \in {"save", "save_migrated", "publish", "publish_migrated"},
           UNCHANGED <<startupVars, opened, doc, legacy, ideal>>
    PROVE  StartupInv'
<1>1. UnderWay(s)
  BY DEF UnderWay
<1>2. CASE call[s].step \in {"save_migrated", "publish_migrated"}
  BY <1>2, MigrationFailsKeepsInv DEF SaveFails
<1>3. CASE call[s].step \in {"save", "publish"}
  <2>1. Step(s, "raised") /\ UNCHANGED disturbed
    BY <1>3 DEF SaveFails
  <2>2. Advances(s) /\ call'[s].step = "raised"
    BY <1>1, <2>1, StepAdvances DEF Steps
  <2>3. Knows(call[s])'
    BY <2>2 DEF Knows
  <2>4. QED
    BY <1>1, <2>1, <2>2, <2>3, ReadOnlyKeepsInv DEF StartupInv, StartupTypeOK, RepositoryTypeOK
<1>4. QED
  BY <1>2, <1>3

LEMMA SaveKeepsInv ==
    ASSUME StartupInv, NEW s \in Sessions, Save(s), UNCHANGED <<startupVars, opened>>
    PROVE  StartupInv'
<1> DEFINE to == IF call[s].step = "save" THEN "publish" ELSE "publish_migrated"
<1>1. UnderWay(s) /\ UNCHANGED <<legacy, ideal>>
  BY DEF Save, UnderWay
<1>2. CASE Step(s, to) /\ TemporaryWritten /\ UNCHANGED disturbed
  <2>1. Advances(s) /\ call'[s].step = to /\ call'[s].state = call[s].state
    BY <1>1, <1>2, StepAdvances DEF Steps
  <2>2. doc' = doc /\ Told' = Told
    BY <1>1, <1>2 DEF TemporaryWritten, Told
  <2>3. ~disturbed' => Knows(call[s])'
    BY <1>1, <1>2, <2>1, <2>2 DEF Knows, StartupInv, Undisturbed, Save, Advances
  <2>4. QED
    BY <1>1, <1>2, <2>1, <2>2, <2>3, ReadOnlyKeepsInv
       DEF StartupInv, StartupTypeOK, RepositoryTypeOK
<1>3. CASE SaveFails(s) /\ UNCHANGED doc
  BY <1>1, <1>3, SaveFailsKeepsInv DEF Save
<1>4. QED
  BY <1>2, <1>3 DEF Save

LEMMA PublishKeepsInv ==
    ASSUME StartupInv, NEW s \in Sessions, Publish(s), UNCHANGED <<startupVars, opened>>
    PROVE  StartupInv'
<1>1. UnderWay(s) /\ legacy' = legacy
  BY DEF Publish, UnderWay
<1>2. SUFFICES ASSUME doc' = Holding(call[s].state), UNCHANGED disturbed,
                      IF call[s].step = "publish"
                      THEN Step(s, "done")
                           /\ ideal' = Change(call[s].op, call[s].value, ideal)
                      ELSE Step(s, "verify") /\ UNCHANGED ideal
               PROVE  StartupInv'
  BY <1>1, SaveFailsKeepsInv DEF Publish
<1>3. /\ doc' \in Document /\ doc'.kind = "state" /\ doc'.state = call[s].state
      /\ WasOpened(doc'.state.lang) /\ Told' = call[s].state
  BY <1>2, UnderWayCall, <1>1 DEF Holding, Document, Told
<1>4. CASE call[s].step = "publish"
  <2>1. Advances(s) /\ call'[s].step = "done"
    BY <1>1, <1>2, <1>4, StepAdvances DEF Steps
  <2>2. ideal' \in State
    BY <1>1, <1>2, <1>4, UnderWayCall, ChangedState
       DEF StartupInv, StartupTypeOK, RepositoryTypeOK
  <2>3. ~disturbed => Told = ideal /\ call[s].state = Change(call[s].op, call[s].value, Told)
    BY <1>4 DEF StartupInv, Undisturbed, Knows
  <2>4. ~disturbed' => Told' = ideal' /\ Knows(call[s])'
    BY <1>2, <1>3, <1>4, <2>1, <2>3 DEF Knows
  <2>5. QED
    BY <1>1, <1>2, <1>3, <2>1, <2>2, <2>4, AdvanceKeepsInv
       DEF StartupInv, StartupTypeOK, RepositoryTypeOK
<1>5. CASE call[s].step = "publish_migrated"
  <2>1. Advances(s) /\ call'[s].step = "verify" /\ UNCHANGED ideal
    BY <1>1, <1>2, <1>5, StepAdvances DEF Steps
  <2>2. ~disturbed => Told = ideal /\ Told = call[s].state
    BY <1>5 DEF StartupInv, Undisturbed, Knows, Told
  <2>3. ~disturbed' => Told' = ideal' /\ Knows(call[s])'
    BY <1>2, <1>3, <2>1, <2>2 DEF Knows
  <2>4. QED
    BY <1>1, <1>2, <1>3, <2>1, <2>3, AdvanceKeepsInv
       DEF StartupInv, StartupTypeOK, RepositoryTypeOK
<1>6. QED
  BY <1>4, <1>5 DEF Publish

LEMMA RepositoryKeepsInv ==
    ASSUME StartupInv, NEW s \in Sessions, RepositoryStep(s)
    PROVE  StartupInv'
<1>1. UNCHANGED <<startupVars, opened>>
  BY DEF RepositoryStep
<1>2. QED
  BY <1>1, LookKeepsInv, ReadKeepsInv, MigrateKeepsInv, SaveKeepsInv, PublishKeepsInv
     DEF RepositoryStep, Repository

-----------------------------------------------------------------------------
(***************************************************************************)
(* The steps of the startup window.                                        *)
(***************************************************************************)

\* What a window keeps in memory has its types.
WindowTypes ==
    /\ phase \in [Sessions -> Phases]
    /\ selected \in [Sessions -> Langs \cup {NoPath}]
    /\ last \in [Sessions -> Langs \cup {NoPath}]
    /\ rgl \in [Sessions -> Roots \cup {NoPath}]
    /\ from \in [Sessions -> BOOLEAN] /\ opened \in SUBSET Langs
    /\ Chosen

LEMMA EnterKeepsInv ==
    ASSUME StartupInv, NEW s \in Sessions, NEW where \in Places \ {"loop"},
           NEW op \in Operations, NEW value, Enter(s, where, op, value), WindowTypes',
           op = "remember_rgl" => value \in Roots,
           op # "remember_rgl" => value \in Langs \cup {NoPath} /\ WasOpened(value)',
           opened \subseteq opened'
    PROVE  StartupInv'
<1>1. /\ RepositoryTypeOK' /\ Sourced' /\ Undisturbed'
      /\ call'[s] # NoCall /\ \A t \in Sessions \ {s} : call'[t] = call[t]
  BY BeginKeepsInv DEF Enter
<1>2. at' = [at EXCEPT ![s] = where]
  BY DEF Enter
<1>3. StartupTypeOK'
  BY <1>1, <1>2 DEF StartupInv, StartupTypeOK, WindowTypes
<1>4. QED
  BY <1>1, <1>3 DEF StartupInv, WindowTypes

LEMMA ReturnKeepsInv ==
    ASSUME StartupInv, NEW s \in Sessions, Leave(s), WindowTypes', opened' = opened
    PROVE  StartupInv'
<1>1. /\ RepositoryTypeOK' /\ Sourced' /\ Undisturbed'
      /\ call'[s] = NoCall /\ \A t \in Sessions \ {s} : call'[t] = call[t]
  BY LeaveKeepsInv
<1>2. at' = [at EXCEPT ![s] = "loop"]
  BY DEF Leave
<1>3. StartupTypeOK'
  BY <1>1, <1>2 DEF StartupInv, StartupTypeOK, WindowTypes, Places
<1>4. QED
  BY <1>1, <1>3 DEF StartupInv, WindowTypes

LEMMA InMemoryKeepsInv ==
    ASSUME StartupInv, UNCHANGED <<repositoryVars, at, opened>>, WindowTypes'
    PROVE  StartupInv'
<1>1. StartupTypeOK'
  BY DEF StartupInv, StartupTypeOK, RepositoryTypeOK, WindowTypes, repositoryVars
<1>2. QED
  BY <1>1, QuietKeepsInv DEF WindowTypes

\* The user's choices, and the answers of a probe that write nothing.
LEMMA ChoiceKeepsInv ==
    ASSUME StartupInv, NEW s \in Sessions,
           \/ OpenLast(s) \/ ChoosePath(s) \/ ChooseCandidate(s)
           \/ ConfigureEnvironment(s) \/ SwitchLanguage(s)
           \/ ProbeNeedsRgl(s) \/ ProbeNeedsInput(s) \/ ProbeFails(s)
    PROVE  StartupInv'
<1> USE DEF StartupInv, StartupTypeOK, WindowTypes, Chosen, Phase, Phases, BeginProbe
<1>1. CASE OpenLast(s)
  <2>1. WindowTypes'
    BY <1>1 DEF OpenLast
  <2>2. QED
    BY <1>1, <2>1, InMemoryKeepsInv DEF OpenLast
<1>2. CASE ChoosePath(s)
  <2>1. CASE \E path \in Langs : /\ selected' = [selected EXCEPT ![s] = path]
                                 /\ BeginProbe(s, FALSE)
    <3>1. PICK path \in Langs : selected' = [selected EXCEPT ![s] = path]
      BY <2>1
    <3>2. path # NoPath
      BY RepositoryAssumption
    <3>3. WindowTypes'
      BY <1>2, <2>1, <3>1, <3>2 DEF ChoosePath
    <3>4. QED
      BY <1>2, <3>3, InMemoryKeepsInv DEF ChoosePath
  <2>2. CASE Phase(s, "ready") /\ UNCHANGED <<selected, from>>
    BY <1>2, <2>2, InMemoryKeepsInv DEF ChoosePath
  <2>3. QED
    BY <1>2, <2>1, <2>2 DEF ChoosePath
<1>3. CASE ChooseCandidate(s)
  <2>1. WindowTypes'
    BY <1>3 DEF ChooseCandidate
  <2>2. QED
    BY <1>3, <2>1, InMemoryKeepsInv DEF ChooseCandidate
<1>4. CASE ConfigureEnvironment(s)
  <2>1. WindowTypes'
    BY <1>4 DEF ConfigureEnvironment
  <2>2. QED
    BY <1>4, <2>1, InMemoryKeepsInv DEF ConfigureEnvironment
<1>5. CASE SwitchLanguage(s)
  <2>1. WindowTypes'
    BY <1>5 DEF SwitchLanguage
  <2>2. QED
    BY <1>5, <2>1, InMemoryKeepsInv DEF SwitchLanguage
<1>6. CASE ProbeNeedsRgl(s)
  <2>1. WindowTypes'
    BY <1>6 DEF ProbeNeedsRgl, Probed
  <2>2. QED
    BY <1>6, <2>1, InMemoryKeepsInv DEF ProbeNeedsRgl
<1>7. CASE ProbeNeedsInput(s)
  <2>1. WindowTypes'
    BY <1>7 DEF ProbeNeedsInput, Probed
  <2>2. QED
    BY <1>7, <2>1, InMemoryKeepsInv DEF ProbeNeedsInput
<1>8. CASE ProbeFails(s)
  BY <1>8, InMemoryKeepsInv DEF ProbeFails
<1>9. QED
  BY <1>1, <1>2, <1>3, <1>4, <1>5, <1>6, <1>7, <1>8

\* start(): the two loads and what is made of them.
LEMMA StartKeepsInv ==
    ASSUME StartupInv, NEW s \in Sessions, Start(s) \/ GotLast(s) \/ GotRgl(s)
    PROVE  StartupInv'
<1> USE DEF StartupInv, StartupTypeOK, WindowTypes, Chosen, WasOpened, Operations, Places
<1>1. CASE Start(s)
  BY <1>1, EnterKeepsInv DEF Start, Phase, Phases
<1>2. CASE GotLast(s) \/ GotRgl(s)
  <2>1. call[s].state \in State
    BY <1>2, CallFields DEF GotLast, GotRgl, Returned, RepositoryTypeOK
  <2>2. CASE GotLast(s)
    <3>1. PICK path \in Langs \cup {NoPath} : last' = [last EXCEPT ![s] = path]
      BY <2>1, <2>2 DEF GotLast, DefaultLangs, State
    <3>2. QED
      BY <2>2, <3>1, EnterKeepsInv DEF GotLast
  <2>3. CASE GotRgl(s)
    <3>1. PICK path \in Roots \cup {NoPath} : rgl' = [rgl EXCEPT ![s] = path]
      BY <2>1, <2>3 DEF GotRgl, DefaultRoots, State
    <3>2. QED
      BY <2>3, <3>1, ReturnKeepsInv DEF GotRgl
  <2>4. QED
    BY <1>2, <2>2, <2>3
<1>3. QED
  BY <1>1, <1>2

\* The writes: only the path of a composed runtime is handed to one.
LEMMA WriteKeepsInv ==
    ASSUME StartupInv, NEW s \in Sessions,
           ProbeRejects(s) \/ ProbeResolves(s) \/ Remembered(s) \/ RememberedRgl(s) \/ Cleared(s)
    PROVE  StartupInv'
<1> USE DEF StartupInv, StartupTypeOK, WindowTypes, Chosen, WasOpened, Operations, Places,
            Phase, Phases
<1>1. CASE ProbeRejects(s)
  <2>1. CASE from[s]
    BY <1>1, <2>1, EnterKeepsInv DEF ProbeRejects
  <2>2. CASE ~from[s]
    BY <1>1, <2>2, InMemoryKeepsInv DEF ProbeRejects
  <2>3. QED
    BY <2>1, <2>2
<1>2. CASE ProbeResolves(s)
  <2>1. selected[s] \in Langs /\ opened' = opened \cup {selected[s]}
    BY <1>2 DEF ProbeResolves, Probed
  <2>2. WindowTypes'
    BY <1>2, <2>1 DEF ProbeResolves
  <2>3. QED
    BY <1>2, <2>1, <2>2, EnterKeepsInv DEF ProbeResolves
<1>3. CASE Remembered(s)
  <2>1. /\ last' \in [Sessions -> Langs \cup {NoPath}]
        /\ UNCHANGED <<selected, rgl, from, opened>>
    BY <1>3 DEF Remembered
  <2>2. CASE rgl[s] # NoPath
    <3>1. /\ rgl[s] \in Roots /\ UNCHANGED phase
          /\ Enter(s, "remember_rgl", "remember_rgl", rgl[s])
      BY <1>3, <2>2 DEF Remembered
    <3>2. WindowTypes'
      BY <2>1, <3>1
    <3>3. QED
      BY <2>1, <3>1, <3>2, EnterKeepsInv
  <2>3. CASE rgl[s] = NoPath
    <3>1. Leave(s) /\ phase' = [phase EXCEPT ![s] = "running"]
      BY <1>3, <2>3 DEF Remembered
    <3>2. WindowTypes'
      BY <2>1, <3>1
    <3>3. QED
      BY <2>1, <3>1, <3>2, ReturnKeepsInv
  <2>4. QED
    BY <2>2, <2>3
<1>4. CASE RememberedRgl(s)
  BY <1>4, ReturnKeepsInv DEF RememberedRgl
<1>5. CASE Cleared(s)
  <2>1. last' \in [Sessions -> Langs \cup {NoPath}]
    BY <1>5 DEF Cleared
  <2>2. QED
    BY <1>5, <2>1, ReturnKeepsInv DEF Cleared
<1>6. QED
  BY <1>1, <1>2, <1>3, <1>4, <1>5

LEMMA CloseKeepsInv ==
    ASSUME StartupInv, NEW s \in Sessions, Close(s)
    PROVE  StartupInv'
  BY ReturnKeepsInv DEF Close, StartupInv, StartupTypeOK, WindowTypes, Chosen, Phase, Phases

LEMMA NextKeepsInv == StartupInv /\ [Next]_vars => StartupInv'
<1> SUFFICES ASSUME StartupInv, [Next]_vars PROVE StartupInv'
  OBVIOUS
<1>1. ASSUME NEW s \in Sessions, Session(s) PROVE StartupInv'
  BY <1>1, StartKeepsInv, ChoiceKeepsInv, WriteKeepsInv, CloseKeepsInv, RepositoryKeepsInv
     DEF Session
<1>2. CASE UNCHANGED vars
  <2>1. WindowTypes'
    BY <1>2 DEF StartupInv, StartupTypeOK, WindowTypes, Chosen, vars, startupVars
  <2>2. QED
    BY <1>2, <2>1, InMemoryKeepsInv DEF vars, startupVars
<1>3. QED
  BY <1>1, <1>2 DEF Next, Finished

-----------------------------------------------------------------------------
(***************************************************************************)
(* Theorems.                                                               *)
(***************************************************************************)

\* The invariant of windows and state file (startup.py, repository.py).
THEOREM StartupInvariant == Spec => []StartupInv
  BY InitialInv, NextKeepsInv, PTL DEF Spec

\* Every variable keeps its type, and the GUI thread is out of its event loop
\* exactly while a call of its own is under way or to be picked up.
THEOREM StartupTypeCorrect == Spec => []StartupTypeOK
<1>1. StartupInv => StartupTypeOK
  BY DEF StartupInv
<1>2. QED
  BY <1>1, StartupInvariant, PTL

\* The file remembers opened paths only, however many processes share it
\* (_compose_main_runtime, remember_selected_path).
THEOREM RememberedPathsWereOpened == Spec => []RememberedWasOpened
<1>1. StartupInv => RememberedWasOpened
  BY DEF StartupInv, Sourced, WasOpened, RememberedWasOpened
<1>2. QED
  BY <1>1, StartupInvariant, PTL

\* Calls that follow one another without a failing read or migration lose
\* nothing, wherever a process stopped (remember_*, _migrate_legacy).
THEOREM NothingElseLoses == Spec => []OnlyDisturbancesLose
<1>1. StartupInv => OnlyDisturbancesLose
  BY DEF StartupInv, Undisturbed, OnlyDisturbancesLose
<1>2. QED
  BY <1>1, StartupInvariant, PTL

\* A document that is whole is replaced by a whole one only (_atomic_writer).
THEOREM WholeStaysWhole == Spec => StateStaysWhole
<1>1. ASSUME NEW s \in Sessions, Session(s) PROVE UNCHANGED doc \/ doc'.kind = "state"
  <2>1. CASE RepositoryStep(s)
    BY <2>1 DEF RepositoryStep, Repository, Look, Read, Migrate, Save, Publish,
       TemporaryWritten, Holding
  <2>2. CASE Start(s) \/ GotLast(s) \/ ProbeResolves(s)
    BY <2>2 DEF Start, GotLast, ProbeResolves, Enter, Begin
  <2>3. CASE GotRgl(s) \/ RememberedRgl(s) \/ Cleared(s) \/ Close(s)
    BY <2>3 DEF GotRgl, RememberedRgl, Cleared, Close, Leave
  <2>4. CASE Remembered(s)
    BY <2>4 DEF Remembered, Enter, Begin, Leave
  <2>5. CASE ProbeRejects(s)
    BY <2>5 DEF ProbeRejects, Enter, Begin, repositoryVars
  <2>6. CASE \/ OpenLast(s) \/ ChoosePath(s) \/ ChooseCandidate(s)
             \/ ConfigureEnvironment(s) \/ SwitchLanguage(s)
             \/ ProbeNeedsRgl(s) \/ ProbeNeedsInput(s) \/ ProbeFails(s)
    BY <2>6 DEF OpenLast, ChoosePath, ChooseCandidate, ConfigureEnvironment,
       SwitchLanguage, ProbeNeedsRgl, ProbeNeedsInput, ProbeFails, repositoryVars
  <2>7. QED
    BY <1>1, <2>1, <2>2, <2>3, <2>4, <2>5, <2>6 DEF Session
<1>2. [Next]_vars => [doc.kind = "state" => doc'.kind = "state"]_doc
  BY <1>1 DEF Next, Finished, vars, repositoryVars
<1>3. QED
  BY <1>2, PTL DEF Spec, StateStaysWhole
=============================================================================
