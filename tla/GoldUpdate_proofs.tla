-------------------------- MODULE GoldUpdate_proofs --------------------------
(***************************************************************************)
(* Proofs about GoldUpdate, for any number of updaters and any contents:   *)
(* the types, that only confirmed outputs reach the file, that an update   *)
(* is all or nothing while nobody else writes, and that only what appeared *)
(* after the last look is overwritten.                                     *)
(***************************************************************************)
EXTENDS GoldUpdate, TLAPS

-----------------------------------------------------------------------------
(***************************************************************************)
(* The inductive invariant.                                                *)
(***************************************************************************)

\* What an updater knows of the file, until it is overtaken.
Knows(u) ==
    /\ At(u, "planned") /\ touched[u] = "no" => gold = update[u].reviewed
    /\ update[u].step \in {"checked", "writing"} /\ touched[u] # "late" =>
          gold = update[u].reviewed
    /\ update[u].step \in {"writing", "replaced", "restoring"} /\ touched[u] # "late" =>
          update[u].previous = update[u].reviewed
    /\ update[u].step \in {"replaced", "verified"} /\ touched[u] = "no" =>
          gold = update[u].candidate
    /\ At(u, "restoring") /\ touched[u] = "no" =>
          gold \in {update[u].reviewed, update[u].candidate}

\* How an update that nobody overtook has ended.
Whole(u) == touched[u] = "no" =>
    /\ At(u, "raised") => gold = update[u].reviewed
    /\ update[u].step \in {"updated", "unrecorded"} => gold = update[u].candidate
    /\ update[u].step \in {"stopped", "not_restored"} =>
          gold \in {update[u].reviewed, update[u].candidate}

\* What an updater may write has a source.
Sourced(u) ==
    /\ update[u].step \in {"checked", "writing", "replaced"} => update[u].candidate \in sources
    /\ update[u].step \in {"writing", "replaced", "restoring"} => update[u].previous \in sources

Local(u) == Knows(u) /\ Whole(u) /\ Sourced(u)

GoldInv == GoldTypeOK /\ gold \in sources /\ \A u \in Updaters : Local(u)

-----------------------------------------------------------------------------
(***************************************************************************)
(* Types.                                                                  *)
(***************************************************************************)

LEMMA InitialInv == Init => GoldInv
<1> SUFFICES ASSUME Init PROVE GoldInv
  OBVIOUS
<1>1. gold \in Contents /\ sources \subseteq Contents /\ gold \in sources
  BY DEF Init, Contents
<1> DEFINE Idle(c) == [step |-> "idle", candidate |-> c, ready |-> FALSE,
                       confirmed |-> FALSE, reviewed |-> Absent, previous |-> Absent]
<1>a. ASSUME NEW u \in Updaters PROVE \E c \in Candidates : update[u] = Idle(c)
  <2>1. update \in [Updaters -> {Idle(c) : c \in Candidates}]
    BY DEF Init
  <2> HIDE DEF Idle
  <2>2. update[u] \in {Idle(c) : c \in Candidates}
    BY <2>1
  <2>3. QED
    BY <2>2
<1>b. \A c \in Candidates : Idle(c) \in Update /\ Idle(c).step = "idle"
  BY DEF Update, Contents, Steps
<1> HIDE DEF Idle
<1>c. \A u \in Updaters : update[u] \in Update /\ update[u].step = "idle"
  BY <1>a, <1>b
<1>d. DOMAIN update = Updaters /\ update = [u \in DOMAIN update |-> update[u]]
  BY DEF Init
<1>2. update \in [Updaters -> Update]
  BY <1>c, <1>d
<1>3. touched \in [Updaters -> {"no", "early", "late"}]
  BY DEF Init
<1>4. \A u \in Updaters : update[u].step = "idle"
  BY <1>c
<1>5. \A u \in Updaters : Local(u)
  BY <1>4 DEF Local, Knows, Whole, Sourced, At
<1>6. QED
  BY <1>1, <1>2, <1>3, <1>4, <1>5 DEF GoldInv, GoldTypeOK, Checked, At

\* An updater whose record does not change learns that the file has.
LEMMA OthersLearn ==
    ASSUME GoldInv, NEW v \in Updaters, NEW others \in SUBSET Updaters, v \in others,
           Overtake(others), update'[v] = update[v], sources \subseteq sources'
    PROVE  Local(v)'
<1>1. touched'[v] =
        IF gold' = gold \/ At(v, "idle") THEN touched[v]
        ELSE IF Checked(v) THEN "late"
        ELSE IF touched[v] = "no" THEN "early" ELSE touched[v]
  BY DEF Overtake
<1>2. Local(v)
  BY DEF GoldInv
<1>3. CASE gold' = gold \/ At(v, "idle")
  BY <1>1, <1>2, <1>3 DEF Local, Knows, Whole, Sourced, At
<1>4. CASE gold' # gold /\ ~At(v, "idle") /\ Checked(v)
  BY <1>1, <1>2, <1>4 DEF Local, Knows, Whole, Sourced, At, Checked
<1>5. CASE gold' # gold /\ ~At(v, "idle") /\ ~Checked(v)
  <2>1. At(v, "planned") /\ touched'[v] # "no"
    BY <1>1, <1>5 DEF At, Checked
  <2>2. QED
    BY <2>1, <1>2 DEF Local, Knows, Whole, Sourced, At
<1>6. QED
  BY <1>3, <1>4, <1>5

LEMMA OvertakenTypes ==
    ASSUME GoldTypeOK, NEW others \in SUBSET Updaters, Overtake(others)
    PROVE  touched' \in [Updaters -> {"no", "early", "late"}]
  BY DEF GoldTypeOK, Overtake

\* A step of u that writes nothing leaves the others as they are.
LEMMA OthersUntouched ==
    ASSUME GoldInv, NEW u \in Updaters, NEW v \in Updaters, v # u,
           gold' = gold, sources \subseteq sources', update'[v] = update[v],
           touched'[v] = touched[v]
    PROVE  Local(v)'
  BY DEF GoldInv, Local, Knows, Whole, Sourced, At

-----------------------------------------------------------------------------
(***************************************************************************)
(* One lemma per action.                                                   *)
(***************************************************************************)

LEMMA PrepareKeepsInv ==
    ASSUME GoldInv, NEW u \in Updaters, NEW request \in Request, Prepare(u, request)
    PROVE  GoldInv'
<1> DEFINE new == [step |-> IF Refused(request) THEN "refused"
                            ELSE IF gold = request.candidate THEN "unchanged" ELSE "planned",
                   candidate |-> request.candidate, ready |-> request.sound,
                   confirmed |-> request.confirmed, reviewed |-> gold, previous |-> Absent]
<1>1. new \in Update /\ (new.step \notin {"refused"} => new.ready)
  BY DEF GoldInv, GoldTypeOK, Update, Request, Refused, Steps, Outcomes, Contents
<1>2. /\ update' = [update EXCEPT ![u] = new]
      /\ touched' = [touched EXCEPT ![u] = "no"]
      /\ gold' = gold /\ sources' = sources
  BY DEF Prepare
<1> HIDE DEF new
<1>3. update'[u] = new /\ touched'[u] = "no"
  BY <1>2 DEF GoldInv, GoldTypeOK
<1>4. \A v \in Updaters \ {u} : update'[v] = update[v] /\ touched'[v] = touched[v]
  BY <1>2 DEF GoldInv, GoldTypeOK
<1>5. GoldTypeOK'
  <2>1. update' \in [Updaters -> Update] /\ touched' \in [Updaters -> {"no", "early", "late"}]
    BY <1>1, <1>2 DEF GoldInv, GoldTypeOK
  <2>2. QED
    BY <2>1, <1>1, <1>2, <1>3, <1>4 DEF GoldInv, GoldTypeOK, Checked, At
<1>6. Local(u)'
  BY <1>2, <1>3 DEF new, Local, Knows, Whole, Sourced, At
<1>7. QED
  BY <1>2, <1>4, <1>5, <1>6, OthersUntouched DEF GoldInv

\* The steps that write nothing and change one record.
LEMMA QuietKeepsInv ==
    ASSUME GoldInv, NEW u \in Updaters,
           \/ Decline(u) \/ RefuseChanged(u) \/ Check(u) \/ KeepPrevious(u)
           \/ Verify(u) \/ Record(u) \/ Stop(u)
           \/ At(u, "writing") /\ Goes(u, "restoring") /\ UNCHANGED <<gold, touched, sources>>
           \/ At(u, "restoring") /\ Goes(u, "not_restored") /\ UNCHANGED <<gold, touched, sources>>
    PROVE  GoldInv'
<1> USE DEF GoldInv, GoldTypeOK
<1>1. gold' = gold /\ touched' = touched /\ sources \subseteq sources'
  BY DEF Decline, RefuseChanged, Check, KeepPrevious, Verify, Record, Stop
<1>2. \A v \in Updaters \ {u} : update'[v] = update[v]
  BY DEF Decline, RefuseChanged, Check, KeepPrevious, Verify, Record, Stop, Goes
<1>3. \/ \E s \in Steps \cup Outcomes : Goes(u, s)
      \/ update' = [update EXCEPT ![u].step = "writing", ![u].previous = gold]
  BY DEF Decline, RefuseChanged, Check, KeepPrevious, Verify, Record, Stop, Steps, Outcomes
<1>4. update' \in [Updaters -> Update] /\ update'[u].ready = update[u].ready
  <2>1. ASSUME NEW s \in Steps \cup Outcomes, Goes(u, s)
        PROVE  update' \in [Updaters -> Update] /\ update'[u].ready = update[u].ready
    BY <2>1 DEF Goes, Update
  <2>2. CASE update' = [update EXCEPT ![u].step = "writing", ![u].previous = gold]
    <3>1. update'[u] = [update[u] EXCEPT !.step = "writing", !.previous = gold]
      BY <2>2
    <3>a. update[u] \in Update /\ gold \in Contents
      OBVIOUS
    <3>b. update'[u].ready = update[u].ready
      BY <3>1, <3>a DEF Update
    <3>2. update'[u] \in Update /\ update'[u].ready = update[u].ready
      <4> HIDE DEF GoldInv, GoldTypeOK
      <4>1. QED
        BY <3>1, <3>a, <3>b DEF Update, Steps
    <3>3. QED
      BY <2>2, <3>2
  <2>3. QED
    BY <1>3, <2>1, <2>2
<1>5. update[u] \in Update
  OBVIOUS
<1>6. update[u].step \notin {"idle", "refused"} /\ update[u].ready
  BY DEF Decline, RefuseChanged, Check, KeepPrevious, Verify, Record, Stop, At, Ended, Outcomes
<1>7. sources' \subseteq Contents
  BY <1>5 DEF Decline, RefuseChanged, Check, KeepPrevious, Verify, Record, Stop, Update, Contents
<1>8. Local(u)'
  <2> USE DEF At, Update, Local, Knows, Whole, Sourced
  <2>1. CASE Decline(u) \/ RefuseChanged(u)
    BY <1>1, <1>5, <2>1 DEF Decline, RefuseChanged, Goes
  <2>2. CASE Check(u)
    BY <1>1, <1>5, <2>2 DEF Check, Goes, Confirmed, IsReviewed
  <2>3. CASE KeepPrevious(u)
    BY <1>1, <1>5, <2>3 DEF KeepPrevious, Goes
  <2>4. CASE Verify(u)
    BY <1>1, <1>5, <2>4 DEF Verify, Goes
  <2>5. CASE Record(u)
    BY <1>1, <1>5, <2>5 DEF Record, Goes
  <2>6. CASE Stop(u)
    BY <1>1, <1>5, <2>6 DEF Stop, Goes, Ended, Outcomes, Steps
  <2>7. CASE At(u, "writing") /\ Goes(u, "restoring")
    BY <1>1, <1>5, <2>7 DEF Goes
  <2>8. CASE At(u, "restoring") /\ Goes(u, "not_restored")
    BY <1>1, <1>5, <2>8 DEF Goes
  <2>9. QED
    BY <2>1, <2>2, <2>3, <2>4, <2>5, <2>6, <2>7, <2>8
<1>9. GoldTypeOK'
  BY <1>1, <1>2, <1>4, <1>6, <1>7 DEF Checked, At
<1>10. \A v \in Updaters \ {u} : Local(v)'
  BY <1>1, <1>2, OthersUntouched
<1>11. QED
  BY <1>1, <1>8, <1>9, <1>10

LEMMA WriteKeepsInv ==
    ASSUME GoldInv, NEW u \in Updaters, At(u, "writing"), Goes(u, "replaced"),
           Written(u, update[u].candidate), sources' = sources
    PROVE  GoldInv'
<1> USE DEF GoldInv, GoldTypeOK
<1>1. gold' = update[u].candidate /\ Overtake(Updaters \ {u})
  BY DEF Written
<1>2. \A v \in Updaters \ {u} : update'[v] = update[v]
  BY DEF Goes
<1>3. update'[u] = [update[u] EXCEPT !.step = "replaced"] /\ touched'[u] = touched[u]
  BY <1>1 DEF Goes, Overtake
<1>4. update[u].candidate \in sources /\ update[u].ready
  BY DEF Local, Sourced, At, Checked
<1>5. update' \in [Updaters -> Update]
  BY DEF Goes, Update, Steps
<1>6. Local(u)'
  <2>1. Knows(u)'
    BY <1>1, <1>3 DEF Local, Knows, At, Update
  <2>2. Whole(u)' /\ Sourced(u)'
    BY <1>3 DEF Local, Whole, Sourced, At, Update
  <2>3. QED
    BY <2>1, <2>2 DEF Local
<1>7. \A v \in Updaters \ {u} : Local(v)'
  BY <1>1, <1>2, OthersLearn
<1>8. GoldTypeOK'
  BY <1>1, <1>2, <1>3, <1>4, <1>5, OvertakenTypes DEF Checked, At, Update
<1>9. QED
  BY <1>1, <1>4, <1>6, <1>7, <1>8

LEMMA RestoreKeepsInv ==
    ASSUME GoldInv, NEW u \in Updaters, At(u, "restoring"), Goes(u, "raised"),
           Written(u, PutBack(u)), sources' = sources
    PROVE  GoldInv'
<1> USE DEF GoldInv, GoldTypeOK
<1>1. gold' = update[u].previous /\ Overtake(Updaters \ {u})
  BY DEF Written, PutBack
<1>2. \A v \in Updaters \ {u} : update'[v] = update[v]
  BY DEF Goes
<1>3. update'[u] = [update[u] EXCEPT !.step = "raised"] /\ touched'[u] = touched[u]
  BY <1>1 DEF Goes, Overtake
<1>4. update[u].previous \in sources /\ update[u].ready
  BY DEF Local, Sourced, At, Checked
<1>5. update' \in [Updaters -> Update]
  BY DEF Goes, Update, Outcomes
<1>6. Local(u)'
  <2>1. Knows(u)' /\ Sourced(u)'
    BY <1>3 DEF Local, Knows, Sourced, At, Update
  <2>2. Whole(u)'
    BY <1>1, <1>3 DEF Local, Knows, Whole, At, Update
  <2>3. QED
    BY <2>1, <2>2 DEF Local
<1>7. \A v \in Updaters \ {u} : Local(v)'
  BY <1>1, <1>2, OthersLearn
<1>8. GoldTypeOK'
  BY <1>1, <1>2, <1>3, <1>4, <1>5, OvertakenTypes DEF Checked, At, Update
<1>9. QED
  BY <1>1, <1>4, <1>6, <1>7, <1>8

LEMMA EditKeepsInv ==
    ASSUME GoldInv, NEW contents \in Edits \cup {Absent, Binary}, Edit(contents)
    PROVE  GoldInv'
<1>1. /\ gold' = contents /\ Overtake(Updaters) /\ sources' = sources \cup {contents}
      /\ update' = update
  BY DEF Edit
<1>2. \A v \in Updaters : Local(v)'
  BY <1>1, OthersLearn
<1>3. GoldTypeOK'
  BY <1>1, OvertakenTypes DEF GoldInv, GoldTypeOK, Contents, Checked, At
<1>4. QED
  BY <1>1, <1>2, <1>3 DEF GoldInv

LEMMA StutterKeepsInv == GoldInv /\ UNCHANGED vars => GoldInv'
  BY DEF GoldInv, GoldTypeOK, vars, Local, Knows, Whole, Sourced, At, Checked

\* The invariant of GoldUpdate is inductive: every action keeps it.
THEOREM GoldInvariant == Spec => []GoldInv
<1>1. GoldInv /\ [Next]_vars => GoldInv'
  <2> SUFFICES ASSUME GoldInv, [Next]_vars PROVE GoldInv'
    OBVIOUS
  <2>1. CASE UNCHANGED vars
    BY <2>1, StutterKeepsInv
  <2>2. CASE \E contents \in Edits \cup {Absent, Binary} : Edit(contents)
    BY <2>2, EditKeepsInv
  <2>3. ASSUME NEW u \in Updaters, NEW request \in Request, Prepare(u, request)
        PROVE  GoldInv'
    BY <2>3, PrepareKeepsInv
  <2>4. ASSUME NEW u \in Updaters,
               Decline(u) \/ RefuseChanged(u) \/ Check(u) \/ KeepPrevious(u)
                 \/ Verify(u) \/ Record(u) \/ Stop(u)
        PROVE  GoldInv'
    BY <2>4, QuietKeepsInv
  <2>5. ASSUME NEW u \in Updaters, Write(u) PROVE GoldInv'
    BY <2>5, QuietKeepsInv, WriteKeepsInv DEF Write
  <2>6. ASSUME NEW u \in Updaters, Restore(u) PROVE GoldInv'
    BY <2>6, QuietKeepsInv, RestoreKeepsInv DEF Restore
  <2>7. QED
    BY <2>1, <2>2, <2>3, <2>4, <2>5, <2>6 DEF Next
<1>2. QED
  BY InitialInv, <1>1, PTL DEF Spec

-----------------------------------------------------------------------------
(***************************************************************************)
(* The properties.                                                         *)
(***************************************************************************)

\* The state the updates share has its types, and only sound and reviewed
\* requests get past prepare_gold_update.
THEOREM GoldTypeCorrect == Spec => []GoldTypeOK
<1>1. GoldInv => GoldTypeOK
  BY DEF GoldInv
<1>2. QED
  BY <1>1, GoldInvariant, PTL

\* The gold file only ever holds what somebody edited or what a confirmed
\* request proposed, whatever fails (apply_gold_update).
THEOREM GoldHasASource == Spec => []OnlyConfirmedBecomesGold
<1>1. GoldInv => OnlyConfirmedBecomesGold
  BY DEF GoldInv, OnlyConfirmedBecomesGold
<1>2. QED
  BY <1>1, GoldInvariant, PTL

\* While nobody else writes the file, an update is all or nothing
\* (apply_gold_update, _restore_previous_gold).
THEOREM UpdateIsWhole == Spec => []AllOrNothing
<1>1. GoldInv => AllOrNothing
  BY DEF GoldInv, AllOrNothing, Local, Whole
<1>2. QED
  BY <1>1, GoldInvariant, PTL

\* A candidate replaces contents its review did not compare only when they
\* appeared after _ensure_no_concurrent_change.
THEOREM ReviewedIsReplaced == Spec => OnlyLateChangesAreOverwritten
<1> DEFINE Replaced == \A u \in Updaters :
          At(u, "writing") /\ gold' # gold /\ update'[u] # update[u] /\ touched[u] # "late"
          => gold = update[u].reviewed
<1>1. GoldInv => [Replaced]_vars
  BY DEF GoldInv, Local, Knows, At
<1>2. QED
  BY <1>1, GoldInvariant, PTL DEF OnlyLateChangesAreOverwritten

=============================================================================
