----------------------------- MODULE GoldUpdate -----------------------------
(***************************************************************************)
(* Reviewed updates of one scenario gold file                              *)
(* (validation/scenarios/gold_update.py): prepare a plan from what the     *)
(* file holds, look again before writing, replace the file atomically,     *)
(* read it back, and put the previous contents back when anything fails.   *)
(* Nothing locks the file: other updates and an editor change it between   *)
(* any two of the calls. Contents stand for their SHA-256.                 *)
(***************************************************************************)


CONSTANTS
    Updaters,    \* processes that update the file
    Candidates,  \* outputs a request may propose, all valid and meaningful
    Edits,       \* what an editor or a checkout may leave in the file
    Absent,      \* no file
    Binary,      \* contents that are not UTF-8
    Unstated     \* no expected_previous_sha256

ASSUME ContentsAssumption ==
    /\ {Absent, Binary} \cap (Candidates \cup Edits) = {}
    /\ Unstated \notin Candidates \cup Edits \cup {Absent, Binary}

VARIABLES
    gold,     \* the contents of the gold file
    update,   \* what each updater is doing
    touched,  \* whether another one wrote the file since the plan, and when
    sources   \* edits and the candidates of confirmed, reviewed requests

vars == <<gold, update, touched, sources>>

Contents == Candidates \cup Edits \cup {Absent, Binary}
Steps == {"idle", "planned", "checked", "writing", "replaced", "verified", "restoring"}
Outcomes == {"refused", "unchanged", "declined", "updated", "raised",
             "unrecorded", "not_restored", "stopped"}
Request == [candidate : Candidates, sound : BOOLEAN, confirmed : BOOLEAN,
            expected : Candidates \cup Edits \cup {Unstated}]
Update == [step : Steps \cup Outcomes, candidate : Candidates, ready : BOOLEAN,
           confirmed : BOOLEAN, reviewed : Contents, previous : Contents]
Ended == Outcomes \cup {"idle"}

Init ==
    /\ gold \in Edits \cup {Absent, Binary}
    /\ update \in [Updaters -> {[step |-> "idle", candidate |-> c, ready |-> FALSE,
                                 confirmed |-> FALSE, reviewed |-> Absent,
                                 previous |-> Absent] : c \in Candidates}]
    /\ touched = [u \in Updaters |-> "no"]
    /\ sources = {gold, Absent}

At(u, step) == update[u].step = step
Goes(u, step) == update' = [update EXCEPT ![u].step = step]
Checked(u) == update[u].step \notin {"idle", "planned"}

\* The file gets other contents while these updaters are not looking.
Overtake(others) ==
    touched' = [v \in Updaters |->
        IF v \notin others \/ gold' = gold \/ At(v, "idle") THEN touched[v]
        ELSE IF Checked(v) THEN "late"
        ELSE IF touched[v] = "no" THEN "early" ELSE touched[v]]

Written(u, contents) == gold' = contents /\ Overtake(Updaters \ {u})

-----------------------------------------------------------------------------

\* _request_refusals and the refusals of prepare_gold_update: the requirements
\* on the output and its review are one flag of the request.
Refused(request) ==
    \/ ~request.sound
    \/ request.expected # Unstated /\ request.expected # gold
    \/ gold = Binary

\* prepare_gold_update.
Prepare(u, request) ==
    /\ update[u].step \in Ended
    /\ update' = [update EXCEPT ![u] =
           [step |-> IF Refused(request) THEN "refused"
                     ELSE IF gold = request.candidate THEN "unchanged" ELSE "planned",
            candidate |-> request.candidate, ready |-> request.sound,
            confirmed |-> request.confirmed, reviewed |-> gold, previous |-> Absent]]
    /\ touched' = [touched EXCEPT ![u] = "no"]
    /\ UNCHANGED <<gold, sources>>

\* Mutant: a plan that is ready is applied.
ConfirmedByBeingReady(u) == update[u].ready
\* plan.request.confirmed.
Confirmed(u) == update[u].confirmed

Decline(u) ==
    /\ At(u, "planned") /\ ~Confirmed(u)
    /\ Goes(u, "declined")
    /\ UNCHANGED <<gold, touched, sources>>

\* Mutant: the contents are not compared.
AnyCurrent(u) == gold \in Contents
\* The comparison of _ensure_no_concurrent_change.
IsReviewed(u) == gold = update[u].reviewed

\* _ensure_no_concurrent_change: the file changed, or cannot be read.
RefuseChanged(u) ==
    /\ At(u, "planned") /\ Confirmed(u)
    /\ Goes(u, "raised")
    /\ UNCHANGED <<gold, touched, sources>>

Check(u) ==
    /\ At(u, "planned") /\ Confirmed(u) /\ IsReviewed(u)
    /\ Goes(u, "checked")
    /\ sources' = IF update[u].confirmed THEN sources \cup {update[u].candidate}
                                         ELSE sources
    /\ UNCHANGED <<gold, touched>>

\* apply_gold_update reads the file once more, for the rollback.
KeepPrevious(u) ==
    /\ At(u, "checked")
    /\ \/ update' = [update EXCEPT ![u].step = "writing", ![u].previous = gold]
       \/ Goes(u, "raised")
    /\ UNCHANGED <<gold, touched, sources>>

\* write_text: the file is replaced, or an error leaves it as it was.
Write(u) ==
    /\ At(u, "writing")
    /\ \/ Goes(u, "replaced") /\ Written(u, update[u].candidate)
       \/ Goes(u, "restoring") /\ UNCHANGED <<gold, touched>>
    /\ UNCHANGED sources

\* The read-back, its hash and its parse; reading it may fail.
Verify(u) ==
    /\ At(u, "replaced")
    /\ \/ gold = update[u].candidate /\ Goes(u, "verified")
       \/ Goes(u, "restoring")
    /\ UNCHANGED <<gold, touched, sources>>

\* The record is built after the replacement, and nothing is put back when the
\* clock raises or the record refuses a rationale the request accepted.
Record(u) ==
    /\ At(u, "verified")
    /\ Goes(u, "updated") \/ Goes(u, "unrecorded")
    /\ UNCHANGED <<gold, touched, sources>>

\* Mutant: what is put back is what the plan proposed.
PutBackCandidate(u) == update[u].candidate
\* The contents _restore_previous_gold writes; Absent unlinks the file.
PutBack(u) == update[u].previous

\* _restore_previous_gold, after a write that changed nothing as well.
Restore(u) ==
    /\ At(u, "restoring")
    /\ \/ Goes(u, "raised") /\ Written(u, PutBack(u))
       \/ Goes(u, "not_restored") /\ UNCHANGED <<gold, touched>>
    /\ UNCHANGED sources

\* The process of an updater is killed between two of its calls.
Stop(u) ==
    /\ update[u].step \notin Ended
    /\ Goes(u, "stopped")
    /\ UNCHANGED <<gold, touched, sources>>

\* Somebody edits the file, removes it or checks another revision out.
Edit(contents) ==
    /\ contents # gold
    /\ gold' = contents
    /\ Overtake(Updaters)
    /\ sources' = sources \cup {contents}
    /\ UNCHANGED update

Next ==
    \/ \E u \in Updaters :
        \/ \E request \in Request : Prepare(u, request)
        \/ Decline(u) \/ RefuseChanged(u) \/ Check(u) \/ KeepPrevious(u)
        \/ Write(u) \/ Verify(u) \/ Record(u) \/ Restore(u) \/ Stop(u)
    \/ \E contents \in Edits \cup {Absent, Binary} : Edit(contents)

Spec == Init /\ [][Next]_vars

-----------------------------------------------------------------------------
(***************************************************************************)
(* Properties.                                                             *)
(***************************************************************************)

\* The state the updates share has its types, and no request reaches the
\* write without the sound, reviewed output that READY stands for.
GoldTypeOK ==
    /\ gold \in Contents
    /\ update \in [Updaters -> Update]
    /\ touched \in [Updaters -> {"no", "early", "late"}]
    /\ sources \subseteq Contents
    /\ \A u \in Updaters : update[u].step \notin {"idle", "refused"} => update[u].ready

\* The file only ever holds what somebody edited or what a confirmed request
\* proposed, whoever fails, restores or is killed in whatever order
\* (prepare_gold_update, apply_gold_update, _restore_previous_gold).
OnlyConfirmedBecomesGold == gold \in sources

\* While nobody else writes, an update is all or nothing: one that raised before
\* its candidate was verified has left the reviewed contents, one that raised
\* later (GoldUpdateRecord) the candidate, and one that is killed or cannot
\* restore leaves either of them whole (apply_gold_update).
AllOrNothing ==
    \A u \in Updaters : touched[u] = "no" =>
        /\ At(u, "raised") => gold = update[u].reviewed
        /\ update[u].step \in {"updated", "unrecorded"} => gold = update[u].candidate
        /\ update[u].step \in {"stopped", "not_restored"} =>
               gold \in {update[u].reviewed, update[u].candidate}

\* A candidate replaces other contents than the ones its review compared only
\* when these appeared after the last look at the file: that window is all
\* that _ensure_no_concurrent_change leaves open.
OnlyLateChangesAreOverwritten ==
    [][\A u \in Updaters :
          At(u, "writing") /\ gold' # gold /\ update'[u] # update[u] /\ touched[u] # "late"
          => gold = update[u].reviewed]_vars

=============================================================================
