---------------------------- MODULE GuiRun_proofs ----------------------------
(***************************************************************************)
(* Proofs about GuiRun, for any number of runs in a session: the types,    *)
(* that the window is busy exactly for the run it shows, and that the      *)
(* shell never goes away under a run.                                      *)
(***************************************************************************)
EXTENDS GuiRun, TLAPS

-----------------------------------------------------------------------------
(***************************************************************************)
(* Posted events: at most one end of each run is among them.               *)
(***************************************************************************)

EndOf(r) == [kind |-> "ended", run |-> r]
Has(s, r) == \E i \in DOMAIN s : s[i] = EndOf(r)
Once(s, r) == \A i, j \in DOMAIN s : s[i] = EndOf(r) /\ s[j] = EndOf(r) => i = j

LEMMA AppendElements ==
    ASSUME NEW s \in Seq(Event), NEW e \in Event
    PROVE  /\ Append(s, e) \in Seq(Event)
           /\ DOMAIN s = 1 .. Len(s) /\ Len(s) \in Nat
           /\ DOMAIN Append(s, e) = 1 .. (Len(s) + 1)
           /\ \A i \in 1 .. Len(s) : Append(s, e)[i] = s[i]
           /\ Append(s, e)[Len(s) + 1] = e
  OBVIOUS

LEMMA TailElements ==
    ASSUME NEW s \in Seq(Event), s # <<>>
    PROVE  /\ Tail(s) \in Seq(Event) /\ Head(s) = s[1] /\ Head(s) \in Event
           /\ DOMAIN s = 1 .. Len(s) /\ Len(s) \in Nat \ {0}
           /\ DOMAIN Tail(s) = 1 .. (Len(s) - 1)
           /\ \A i \in 1 .. (Len(s) - 1) : Tail(s)[i] = s[i + 1]
  OBVIOUS

LEMMA AppendOther ==
    ASSUME NEW s \in Seq(Event), NEW e \in Event, NEW r \in Runs, e # EndOf(r)
    PROVE  /\ Has(Append(s, e), r) <=> Has(s, r)
           /\ Once(s, r) => Once(Append(s, e), r)
<1> DEFINE t == Append(s, e)
<1>1. /\ DOMAIN s = 1 .. Len(s) /\ Len(s) \in Nat
      /\ DOMAIN t = 1 .. (Len(s) + 1)
      /\ \A i \in 1 .. Len(s) : t[i] = s[i]
      /\ t[Len(s) + 1] = e
  BY AppendElements
<1> HIDE DEF t
<1>2. Has(t, r) <=> Has(s, r)
  BY <1>1 DEF Has
<1>3. Once(s, r) => Once(t, r)
  BY <1>1 DEF Once
<1>4. QED
  BY <1>2, <1>3 DEF t

LEMMA AppendEnd ==
    ASSUME NEW s \in Seq(Event), NEW r \in Runs, ~Has(s, r)
    PROVE  Has(Append(s, EndOf(r)), r) /\ Once(Append(s, EndOf(r)), r)
<1> DEFINE t == Append(s, EndOf(r))
<1>1. EndOf(r) \in Event
  BY DEF EndOf, Event
<1>2. /\ DOMAIN s = 1 .. Len(s) /\ Len(s) \in Nat
      /\ DOMAIN t = 1 .. (Len(s) + 1)
      /\ \A i \in 1 .. Len(s) : t[i] = s[i]
      /\ t[Len(s) + 1] = EndOf(r)
  BY <1>1, AppendElements
<1> HIDE DEF t
<1>3. Has(t, r) /\ Once(t, r)
  BY <1>2 DEF Has, Once
<1>4. QED
  BY <1>3 DEF t

LEMMA TailOther ==
    ASSUME NEW s \in Seq(Event), s # <<>>, NEW r \in Runs, Head(s) # EndOf(r)
    PROVE  /\ Has(Tail(s), r) <=> Has(s, r)
           /\ Once(s, r) => Once(Tail(s), r)
<1> DEFINE t == Tail(s)
<1>1. /\ Head(s) = s[1] /\ DOMAIN s = 1 .. Len(s) /\ Len(s) \in Nat \ {0}
      /\ DOMAIN t = 1 .. (Len(s) - 1)
      /\ \A i \in 1 .. (Len(s) - 1) : t[i] = s[i + 1]
  BY TailElements
<1> HIDE DEF t
<1>2. Has(t, r) => Has(s, r)
  BY <1>1 DEF Has
<1>3. ASSUME NEW i \in DOMAIN s, s[i] = EndOf(r) PROVE Has(t, r)
  <2>1. i - 1 \in DOMAIN t /\ t[i - 1] = s[i]
    BY <1>1, <1>3
  <2>2. QED
    BY <1>3, <2>1 DEF Has
<1>4. Once(s, r) => Once(t, r)
  <2> SUFFICES ASSUME Once(s, r), NEW i \in DOMAIN t, NEW j \in DOMAIN t,
                      t[i] = EndOf(r), t[j] = EndOf(r)
               PROVE  i = j
    BY DEF Once
  <2>1. i + 1 \in DOMAIN s /\ j + 1 \in DOMAIN s /\ s[i + 1] = EndOf(r) /\ s[j + 1] = EndOf(r)
    BY <1>1
  <2>2. i + 1 = j + 1
    BY <2>1 DEF Once
  <2>3. QED
    BY <2>2, <1>1
<1>5. QED
  BY <1>2, <1>3, <1>4 DEF t, Has

LEMMA TailEnd ==
    ASSUME NEW s \in Seq(Event), s # <<>>, NEW r \in Runs, Head(s) = EndOf(r), Once(s, r)
    PROVE  ~Has(Tail(s), r) /\ Once(Tail(s), r)
<1> DEFINE t == Tail(s)
<1>1. /\ Head(s) = s[1] /\ DOMAIN s = 1 .. Len(s) /\ Len(s) \in Nat \ {0}
      /\ DOMAIN t = 1 .. (Len(s) - 1)
      /\ \A i \in 1 .. (Len(s) - 1) : t[i] = s[i + 1]
  BY TailElements
<1> HIDE DEF t
<1>2. ASSUME NEW i \in DOMAIN t, t[i] = EndOf(r) PROVE FALSE
  <2>1. i + 1 \in DOMAIN s /\ s[i + 1] = EndOf(r) /\ 1 \in DOMAIN s /\ s[1] = EndOf(r)
    BY <1>1, <1>2
  <2>2. i + 1 = 1
    BY <2>1 DEF Once
  <2>3. QED
    BY <2>2, <1>1
<1>3. QED
  BY <1>2 DEF t, Has, Once

LEMMA DeletionsOfSequences ==
    ASSUME NEW s \in Seq(Event), NEW e \in Event
    PROVE  /\ (\A i \in DOMAIN s : s[i].kind # "delete") /\ e.kind # "delete" =>
                  \A i \in DOMAIN Append(s, e) : Append(s, e)[i].kind # "delete"
           /\ s # <<>> /\ (\A i \in DOMAIN s : s[i].kind # "delete") =>
                  \A i \in DOMAIN Tail(s) : Tail(s)[i].kind # "delete"
<1>1. ASSUME \A i \in DOMAIN s : s[i].kind # "delete", e.kind # "delete",
             NEW i \in DOMAIN Append(s, e)
      PROVE  Append(s, e)[i].kind # "delete"
  BY <1>1, AppendElements
<1>2. ASSUME \A i \in DOMAIN s : s[i].kind # "delete", s # <<>>, NEW i \in DOMAIN Tail(s)
      PROVE  Tail(s)[i].kind # "delete"
  <2>1. i + 1 \in DOMAIN s /\ Tail(s)[i] = s[i + 1]
    BY <1>2, TailElements
  <2>2. QED
    BY <1>2, <2>1
<1>3. QED
  BY <1>1, <1>2

-----------------------------------------------------------------------------
(***************************************************************************)
(* The inductive invariant.                                                *)
(***************************************************************************)

\* What is true of one run.
RunInv(r) ==
    /\ r > shown => stage[r] = "none"
    /\ Has(events, r) => stage[r] \in {"signalled", "stopped"}
    /\ Once(events, r)
    /\ Unfinished(r) <=> r = shown /\ runState # "ready"

NoDelete(s) == \A i \in DOMAIN s : s[i].kind # "delete"

GuiInv ==
    /\ GuiTypeOK
    /\ window # "open" => runState = "ready"
    /\ window = "open" => gui # "switch_wait" /\ NoDelete(events)
    /\ \A r \in Runs : RunInv(r)

LEMMA PostedIsHas == \A r \in Runs : Posted("ended", r) <=> Has(events, r)
  BY DEF Posted, Has, EndOf

LEMMA InitialInv == Init => GuiInv
<1> SUFFICES ASSUME Init PROVE GuiInv
  OBVIOUS
<1>1. events = <<>> /\ events \in Seq(Event)
  BY DEF Init
<1>2. GuiTypeOK
  BY <1>1, GuiAssumption DEF Init, GuiTypeOK
<1>3. \A r \in Runs : ~Has(events, r) /\ Once(events, r) /\ r # 0
  BY <1>1 DEF Has, Once, Runs
<1>4. \A r \in Runs : RunInv(r)
  BY <1>3, PostedIsHas DEF Init, RunInv, Unfinished, NoRun
<1>5. QED
  BY <1>1, <1>2, <1>4 DEF Init, GuiInv, NoDelete

-----------------------------------------------------------------------------
(***************************************************************************)
(* Steps that leave the runs as they are and post no end.                  *)
(***************************************************************************)

\* The ends that are posted are what they were.
EndsKept ==
    \A r \in Runs :
        /\ Has(events', r) <=> Has(events, r)
        /\ Once(events, r) => Once(events', r)

\* So are the runs and the window's state.
RunsKept ==
    /\ stage' = stage /\ shown' = shown
    /\ (runState' = "ready") <=> (runState = "ready")
    /\ EndsKept

LEMMA KeptInv ==
    ASSUME GuiInv, RunsKept PROVE \A r \in Runs : RunInv(r)'
<1>1. \A r \in Runs : Posted("ended", r)' <=> Has(events', r)
  BY DEF Posted, Has, EndOf
<1>2. SUFFICES ASSUME NEW r \in Runs PROVE RunInv(r)'
  OBVIOUS
<1>3. RunInv(r)
  BY DEF GuiInv
<1>4. (Has(events', r) <=> Has(events, r)) /\ Once(events', r)
  BY <1>3 DEF RunsKept, EndsKept, RunInv
<1>5. Unfinished(r)' <=> Unfinished(r)
  BY <1>1, <1>4, PostedIsHas DEF Unfinished, RunsKept
<1>6. QED
  BY <1>3, <1>4, <1>5 DEF RunInv, RunsKept

LEMMA SameEndsKept == ASSUME events' = events PROVE EndsKept
  BY DEF EndsKept


\* Posting anything but an end, taking anything but an end.
LEMMA PostKeeps ==
    ASSUME GuiTypeOK, NEW kind, NEW q, [kind |-> kind, run |-> q] \in Event, kind # "ended",
           Post(kind, q)
    PROVE  EndsKept
<1>1. events' = Append(events, [kind |-> kind, run |-> q]) /\ events \in Seq(Event)
  BY DEF Post, GuiTypeOK
<1>2. \A r \in Runs : [kind |-> kind, run |-> q] # EndOf(r)
  <2> SUFFICES ASSUME NEW r \in Runs PROVE [kind |-> kind, run |-> q].kind # EndOf(r).kind
    OBVIOUS
  <2>1. QED
    BY DEF EndOf
<1>3. QED
  BY <1>1, <1>2, AppendOther DEF EndsKept

LEMMA TakeKeeps ==
    ASSUME GuiTypeOK, NEW kind, NEW q, kind # "ended", Deliver(kind, q),
           events' = Tail(events)
    PROVE  EndsKept
<1>1. events \in Seq(Event) /\ events # <<>> /\ Head(events) = [kind |-> kind, run |-> q]
  BY DEF Deliver, GuiTypeOK
<1>2. \A r \in Runs : Head(events) # EndOf(r)
  <2> SUFFICES ASSUME NEW r \in Runs PROVE [kind |-> kind, run |-> q].kind # EndOf(r).kind
    BY <1>1
  <2>1. QED
    BY DEF EndOf
<1>3. QED
  BY <1>1, <1>2, TailOther DEF EndsKept

-----------------------------------------------------------------------------
(***************************************************************************)
(* Types.                                                                  *)
(***************************************************************************)

LEMMA PostTypes ==
    ASSUME GuiTypeOK, NEW kind, NEW q, Post(kind, q),
           \/ kind \in {"ended", "quit", "cleaned"} /\ q \in Runs
           \/ kind \in {"exit", "delete"} /\ q = NoRun
    PROVE  events' \in Seq(Event)
<1>1. [kind |-> kind, run |-> q] \in Event
  BY DEF Event
<1>2. events \in Seq(Event) /\ events' = Append(events, [kind |-> kind, run |-> q])
  BY DEF Post, GuiTypeOK
<1>3. QED
  BY <1>1, <1>2, AppendElements

LEMMA TakeTypes ==
    ASSUME GuiTypeOK, events # <<>>
    PROVE  /\ Tail(events) \in Seq(Event)
           /\ Append(Tail(events), [kind |-> "exit", run |-> NoRun]) \in Seq(Event)
<1>1. events \in Seq(Event)
  BY DEF GuiTypeOK
<1>2. [kind |-> "exit", run |-> NoRun] \in Event
  BY DEF Event
<1>3. Tail(events) \in Seq(Event)
  BY <1>1, TailElements
<1>4. QED
  BY <1>2, <1>3, AppendElements

LEMMA WorkerTypes ==
    ASSUME GuiTypeOK, NEW r \in Runs, WorkerThread(r) PROVE GuiTypeOK'
<1>1. CASE WorkerBegins(r)
  BY <1>1, PostTypes DEF WorkerBegins, GuiTypeOK, windowVars
<1>2. CASE WorkerEnds(r)
  BY <1>2, PostTypes DEF WorkerEnds, GuiTypeOK, windowVars
<1>3. CASE WorkerStops(r)
  BY <1>3, PostTypes DEF WorkerStops, GuiTypeOK, windowVars
<1>4. CASE ThreadExits(r)
  BY <1>4, PostTypes DEF ThreadExits, GuiTypeOK, windowVars
<1>5. QED
  BY <1>1, <1>2, <1>3, <1>4 DEF WorkerThread

LEMMA UserTypes ==
    ASSUME GuiTypeOK,
           StartRun \/ CancelClicked \/ EditPanel \/ CloseWindow \/ AnswerConfirmation
             \/ SwitchLanguage
    PROVE  GuiTypeOK'
<1> USE DEF workerVars, windowVars
<1>1. CASE StartRun
  <2>1. shown \in Nat /\ shown < MaxRuns => shown + 1 \in Runs
    BY GuiAssumption DEF GuiTypeOK, Runs, NoRun
  <2>2. shown \in Nat
    BY GuiAssumption DEF GuiTypeOK, Runs, NoRun
  <2>3. QED
    BY <1>1, <2>1, <2>2 DEF StartRun, GuiTypeOK
<1>2. CASE CancelClicked
  BY <1>2 DEF CancelClicked, RequestCancel, AskWorker, IsRunning, GuiTypeOK
<1>3. CASE EditPanel
  BY <1>3 DEF EditPanel, IsRunning, GuiTypeOK
<1>4. CASE CloseWindow
  BY <1>4, PostTypes DEF CloseWindow, WindowCloses, GuiTypeOK
<1>5. CASE AnswerConfirmation
  BY <1>5 DEF AnswerConfirmation, RequestCancel, AskWorker, IsRunning, GuiTypeOK
<1>6. CASE SwitchLanguage
  <2>1. events' \in Seq(Event)
    <3>1. CASE IsRunning(worker)
      BY <1>6, <3>1 DEF SwitchLanguage, GuiTypeOK
    <3>2. CASE ~IsRunning(worker)
      BY <1>6, <3>2, PostTypes DEF SwitchLanguage, Post
    <3>3. QED
      BY <3>1, <3>2
  <2>2. QED
    BY <1>6, <2>1 DEF SwitchLanguage, ShutdownBegins, Switching, IsRunning, GuiTypeOK
<1>7. QED
  BY <1>1, <1>2, <1>3, <1>4, <1>5, <1>6

LEMMA LoopTypes ==
    ASSUME GuiTypeOK, EventLoop \/ ShutdownWaited PROVE GuiTypeOK'
<1> USE DEF workerVars, windowVars
<1>1. ASSUME NEW r \in Runs, RunEnded(r) PROVE GuiTypeOK'
  <2>1. events' \in Seq(Event) /\ window' \in {window, "closed"}
    BY <1>1, TakeTypes DEF RunEnded, Deliver, CompletePendingClose
  <2>2. available' \in BOOLEAN
    BY <1>1 DEF RunEnded
  <2>3. QED
    BY <1>1, <2>1, <2>2 DEF RunEnded, GuiTypeOK
<1>2. ASSUME NEW r \in Runs, QuitThread(r) PROVE GuiTypeOK'
  BY <1>2, TakeTypes DEF QuitThread, Deliver, GuiTypeOK
<1>3. ASSUME NEW r \in Runs, WorkerCleaned(r) PROVE GuiTypeOK'
  BY <1>3, TakeTypes DEF WorkerCleaned, Deliver, GuiTypeOK
<1>4. CASE ApplicationExits
  BY <1>4, TakeTypes
     DEF ApplicationExits, Deliver, ShutdownBegins, Exiting, IsRunning, GuiTypeOK
<1>5. CASE WindowDeleted
  <2>1. events' \in Seq(Event)
    BY <1>5 DEF WindowDeleted
  <2>2. QED
    BY <1>5, <2>1 DEF WindowDeleted, GuiTypeOK
<1>6. CASE ShutdownWaited
  BY <1>6, PostTypes DEF ShutdownWaited, GuiTypeOK
<1>7. QED
  BY <1>1, <1>2, <1>3, <1>4, <1>5, <1>6 DEF EventLoop

LEMMA TypesStep == GuiTypeOK /\ [Next]_vars => GuiTypeOK'
<1> SUFFICES ASSUME GuiTypeOK, [Next]_vars PROVE GuiTypeOK'
  OBVIOUS
<1>1. CASE UNCHANGED vars
  BY <1>1 DEF vars, workerVars, windowVars, GuiTypeOK
<1>2. CASE Next
  BY <1>1, <1>2, WorkerTypes, UserTypes, LoopTypes DEF Next, Finished
<1>3. QED
  BY <1>1, <1>2

-----------------------------------------------------------------------------
(***************************************************************************)
(* What each step does to the runs.                                        *)
(***************************************************************************)

WindowInv ==
    /\ window # "open" => runState = "ready"
    /\ window = "open" => gui # "switch_wait" /\ NoDelete(events)

LEMMA PostNoDelete ==
    ASSUME GuiTypeOK, NEW kind, NEW q, Post(kind, q), [kind |-> kind, run |-> q] \in Event,
           kind # "delete", NoDelete(events)
    PROVE  NoDelete(events')
  BY DeletionsOfSequences DEF Post, NoDelete, GuiTypeOK

LEMMA TakeNoDelete ==
    ASSUME GuiTypeOK, events # <<>>, NoDelete(events) PROVE NoDelete(Tail(events))
<1>1. [kind |-> "exit", run |-> NoRun] \in Event
  BY DEF Event
<1>2. QED
  BY <1>1, DeletionsOfSequences DEF NoDelete, GuiTypeOK

LEMMA SignalKeepsRuns ==
    ASSUME GuiInv, NEW q \in Runs, stage[q] \in {"created", "executing"},
           stage' = [stage EXCEPT ![q] = "signalled"], Post("ended", q),
           shown' = shown, runState' = runState
    PROVE  \A r \in Runs : RunInv(r)'
<1> SUFFICES ASSUME NEW r \in Runs PROVE RunInv(r)'
  OBVIOUS
<1>1. RunInv(r) /\ RunInv(q) /\ GuiTypeOK /\ events \in Seq(Event)
  BY DEF GuiInv, GuiTypeOK
<1>2. events' = Append(events, EndOf(q)) /\ EndOf(q) \in Event /\ ~Has(events, q)
  BY <1>1 DEF Post, EndOf, Event, RunInv
<1>3. Posted("ended", r)' <=> Has(events', r)
  BY DEF Posted, Has, EndOf
<1>4. CASE r = q
  <2>1. Has(events', r) /\ Once(events', r)
    BY <1>1, <1>2, <1>4, AppendEnd
  <2>2. stage'[r] = "signalled"
    BY <1>1, <1>4 DEF GuiTypeOK
  <2>3. Unfinished(r) /\ Unfinished(r)'
    BY <1>3, <1>4, <2>1 DEF Unfinished
  <2>4. QED
    BY <1>1, <1>4, <2>1, <2>2, <2>3 DEF RunInv
<1>5. CASE r # q
  <2>1. EndOf(q) # EndOf(r)
    <3>1. EndOf(q).run = q /\ EndOf(r).run = r
      BY DEF EndOf
    <3>2. QED
      BY <3>1, <1>5
  <2>2. (Has(events', r) <=> Has(events, r)) /\ Once(events', r)
    BY <1>1, <1>2, <2>1, AppendOther DEF RunInv
  <2>3. stage'[r] = stage[r]
    BY <1>1, <1>5 DEF GuiTypeOK
  <2>4. Unfinished(r)' <=> Unfinished(r)
    BY <1>3, <2>2, <2>3, PostedIsHas DEF Unfinished
  <2>5. QED
    BY <1>1, <2>2, <2>3, <2>4 DEF RunInv
<1>6. QED
  BY <1>4, <1>5

\* A worker moves between two stages that mean the same to the window.
LEMMA MoveKeepsRuns ==
    ASSUME GuiInv, NEW q \in Runs, NEW s,
           \/ stage[q] = "created" /\ s = "executing" /\ events' = events
           \/ stage[q] = "signalled" /\ s = "stopped" /\ Post("quit", q),
           stage' = [stage EXCEPT ![q] = s], shown' = shown, runState' = runState
    PROVE  \A r \in Runs : RunInv(r)'
<1> SUFFICES ASSUME NEW r \in Runs PROVE RunInv(r)'
  OBVIOUS
<1>1. RunInv(r) /\ GuiTypeOK
  BY DEF GuiInv
<1>2. (Has(events', r) <=> Has(events, r)) /\ Once(events', r)
  <2>1. [kind |-> "quit", run |-> q] \in Event
    BY DEF Event
  <2>2. EndsKept
    BY <1>1, <2>1, PostKeeps, SameEndsKept
  <2>3. QED
    BY <1>1, <2>2 DEF RunInv, EndsKept
<1>3. Posted("ended", r)' <=> Has(events', r)
  BY DEF Posted, Has, EndOf
<1>4. stage'[r] = IF r = q THEN s ELSE stage[r]
  BY <1>1 DEF GuiTypeOK
<1>5. Unfinished(r)' <=> Unfinished(r)
  BY <1>2, <1>3, <1>4, PostedIsHas DEF Unfinished
<1>6. QED
  BY <1>1, <1>2, <1>4, <1>5 DEF RunInv

LEMMA WorkerKeepsInv ==
    ASSUME GuiInv, NEW q \in Runs, WorkerThread(q)
    PROVE  (\A r \in Runs : RunInv(r)') /\ WindowInv'
<1> USE DEF windowVars
<1>1. GuiTypeOK /\ WindowInv
  BY DEF GuiInv, WindowInv
<1>2. \A kind \in {"ended", "quit", "cleaned"} : [kind |-> kind, run |-> q] \in Event
  BY DEF Event
<1>3. CASE WorkerBegins(q)
  <2>1. CASE q \in asked
    BY <1>1, <1>2, <1>3, <2>1, SignalKeepsRuns, PostNoDelete DEF WorkerBegins, WindowInv
  <2>2. CASE q \notin asked
    BY <1>1, <1>3, <2>2, MoveKeepsRuns DEF WorkerBegins, WindowInv
  <2>3. QED
    BY <2>1, <2>2
<1>4. CASE WorkerEnds(q)
  BY <1>1, <1>2, <1>4, SignalKeepsRuns, PostNoDelete DEF WorkerEnds, WindowInv
<1>5. CASE WorkerStops(q)
  BY <1>1, <1>2, <1>5, MoveKeepsRuns, PostNoDelete DEF WorkerStops, WindowInv
<1>6. CASE ThreadExits(q)
  <2>1. RunsKept
    BY <1>1, <1>2, <1>6, PostKeeps DEF ThreadExits, RunsKept
  <2>2. WindowInv'
    BY <1>1, <1>2, <1>6, PostNoDelete DEF ThreadExits, WindowInv
  <2>3. QED
    BY <2>1, <2>2, KeptInv
<1>7. QED
  BY <1>3, <1>4, <1>5, <1>6 DEF WorkerThread

LEMMA StartKeepsInv ==
    ASSUME GuiInv, StartRun PROVE (\A r \in Runs : RunInv(r)') /\ WindowInv'
<1>1. /\ GuiTypeOK /\ WindowInv /\ shown \in Nat /\ runState = "ready"
      /\ window' = window /\ events' = events /\ gui' = gui /\ window = "open"
  BY GuiAssumption
     DEF GuiInv, GuiTypeOK, WindowInv, StartRun, UserCanAct, RunEnabled, Runs, NoRun
<1>2. WindowInv'
  BY <1>1 DEF WindowInv
<1>3. CASE shown' = shown
  <2>1. RunsKept
    BY <1>1, <1>3 DEF StartRun, RunsKept, EndsKept
  <2>2. QED
    BY <1>2, <2>1, KeptInv
<1>4. CASE shown' # shown
  <2> SUFFICES ASSUME NEW r \in Runs PROVE RunInv(r)'
    BY <1>2
  <2>1. /\ shown' = shown + 1 /\ stage' = [stage EXCEPT ![shown + 1] = "created"]
        /\ runState' = "running"
    BY <1>4 DEF StartRun
  <2>2. RunInv(r) /\ r \in Nat
    BY GuiAssumption DEF GuiInv, Runs
  <2>3. Posted("ended", r)' <=> Has(events', r)
    BY DEF Posted, Has, EndOf
  <2>4. ~Unfinished(r) /\ ~Has(events, r)
    BY <1>1, <2>2, PostedIsHas DEF RunInv, Unfinished
  <2>5. CASE r = shown + 1
    <3>1. stage'[r] = "created"
      BY <1>1, <2>1, <2>5 DEF GuiTypeOK
    <3>2. Unfinished(r)'
      BY <3>1 DEF Unfinished
    <3>3. QED
      BY <1>1, <2>1, <2>2, <2>4, <2>5, <3>1, <3>2 DEF RunInv
  <2>6. CASE r # shown + 1
    <3>1. stage'[r] = stage[r]
      BY <1>1, <2>1, <2>6 DEF GuiTypeOK
    <3>2. ~Unfinished(r)'
      BY <1>1, <2>3, <2>4, <3>1, PostedIsHas DEF Unfinished
    <3>3. r > shown + 1 => r > shown
      BY <1>1, <2>2
    <3>4. QED
      BY <1>1, <2>1, <2>2, <2>4, <2>6, <3>1, <3>2, <3>3 DEF RunInv
  <2>7. QED
    BY <2>5, <2>6
<1>5. QED
  BY <1>3, <1>4

LEMMA UserKeepsInv ==
    ASSUME GuiInv,
           CancelClicked \/ EditPanel \/ CloseWindow \/ AnswerConfirmation \/ SwitchLanguage
    PROVE  (\A r \in Runs : RunInv(r)') /\ WindowInv'
<1> USE DEF workerVars, windowVars
<1>1. GuiTypeOK /\ WindowInv
  BY DEF GuiInv, WindowInv
<1>2. /\ [kind |-> "exit", run |-> NoRun] \in Event
      /\ [kind |-> "delete", run |-> NoRun] \in Event
  BY DEF Event
<1>3. CASE CancelClicked
  <2>1. RunsKept /\ WindowInv'
    BY <1>1, <1>3
       DEF CancelClicked, RequestCancel, UserCanAct, RunsKept, EndsKept, WindowInv
  <2>2. QED
    BY <2>1, KeptInv
<1>4. CASE EditPanel
  <2>1. RunsKept /\ WindowInv'
    BY <1>1, <1>4 DEF EditPanel, RunsKept, EndsKept, WindowInv
  <2>2. QED
    BY <2>1, KeptInv
<1>5. CASE CloseWindow
  <2>1. RunsKept
    BY <1>1, <1>2, <1>5, PostKeeps, SameEndsKept DEF CloseWindow, WindowCloses, RunsKept
  <2>2. WindowInv'
    BY <1>1, <1>2, <1>5 DEF CloseWindow, WindowCloses, MayClose, UserCanAct, WindowInv
  <2>3. QED
    BY <2>1, <2>2, KeptInv
<1>6. CASE AnswerConfirmation
  <2>1. RunsKept /\ WindowInv'
    BY <1>1, <1>6 DEF AnswerConfirmation, RequestCancel, RunsKept, EndsKept, WindowInv
  <2>2. QED
    BY <2>1, KeptInv
<1>7. CASE SwitchLanguage
  <2>1. RunsKept
    BY <1>1, <1>2, <1>7, PostKeeps, SameEndsKept DEF SwitchLanguage, Post, RunsKept
  <2>2. WindowInv'
    BY <1>7 DEF SwitchLanguage, WindowInv
  <2>3. QED
    BY <2>1, <2>2, KeptInv
<1>8. QED
  BY <1>3, <1>4, <1>5, <1>6, <1>7

LEMMA EndKeepsInv ==
    ASSUME GuiInv, NEW q \in Runs, RunEnded(q)
    PROVE  (\A r \in Runs : RunInv(r)') /\ WindowInv'
<1>1. GuiTypeOK /\ WindowInv /\ events \in Seq(Event) /\ events # <<>>
  BY DEF GuiInv, GuiTypeOK, WindowInv, RunEnded, Deliver
<1>2. /\ Head(events) = EndOf(q) /\ runState' = "ready" /\ stage' = stage /\ shown' = shown
      /\ gui' = gui /\ gui = "loop"
      /\ \/ events' = Tail(events) /\ window' = window
         \/ events' = Append(Tail(events), [kind |-> "exit", run |-> NoRun])
            /\ window' = "closed"
  BY DEF RunEnded, Deliver, EndOf, CompletePendingClose, workerVars
<1>3. WindowInv'
  BY <1>1, <1>2, TakeNoDelete DEF WindowInv
<1>4. ASSUME NEW r \in Runs
      PROVE  (Has(events', r) <=> Has(Tail(events), r))
             /\ (Once(Tail(events), r) => Once(events', r))
  <2>1. [kind |-> "exit", run |-> NoRun] # EndOf(r)
    <3>1. [kind |-> "exit", run |-> NoRun].kind # EndOf(r).kind
      BY DEF EndOf
    <3>2. QED
      BY <3>1
  <2>2. [kind |-> "exit", run |-> NoRun] \in Event /\ Tail(events) \in Seq(Event)
    BY <1>1, TailElements DEF Event
  <2>3. CASE events' = Tail(events)
    BY <2>3
  <2>4. CASE events' = Append(Tail(events), [kind |-> "exit", run |-> NoRun])
    BY <2>1, <2>2, <2>4, AppendOther
  <2>5. QED
    BY <1>2, <2>3, <2>4
<1>5. Has(events, q)
  <2>1. 1 \in DOMAIN events /\ events[1] = EndOf(q)
    BY <1>1, <1>2, TailElements
  <2>2. QED
    BY <2>1 DEF Has
<1>6. ASSUME NEW r \in Runs PROVE RunInv(r)'
  <2>1. RunInv(r) /\ RunInv(q)
    BY DEF GuiInv
  <2>2. Posted("ended", r)' <=> Has(events', r)
    BY DEF Posted, Has, EndOf
  <2>3. q = shown
    BY <1>5, <2>1, PostedIsHas DEF RunInv, Unfinished
  <2>4. CASE r = q
    <3>1. ~Has(events', r) /\ Once(events', r)
      BY <1>1, <1>2, <1>4, <2>1, <2>4, TailEnd DEF RunInv
    <3>2. stage[r] \in {"signalled", "stopped"}
      BY <1>5, <2>1, <2>4 DEF RunInv
    <3>3. QED
      BY <1>2, <2>1, <2>2, <3>1, <3>2 DEF RunInv, Unfinished
  <2>5. CASE r # q
    <3>1. Head(events) # EndOf(r)
      <4>1. EndOf(q).run = q /\ EndOf(r).run = r
        BY DEF EndOf
      <4>2. QED
        BY <1>2, <2>5, <4>1
    <3>2. (Has(events', r) <=> Has(events, r)) /\ Once(events', r)
      BY <1>1, <1>4, <2>1, <3>1, TailOther DEF RunInv
    <3>3. ~Unfinished(r) /\ ~Unfinished(r)'
      BY <1>2, <2>1, <2>2, <2>3, <2>5, <3>2, PostedIsHas DEF RunInv, Unfinished
    <3>4. QED
      BY <1>2, <2>1, <3>2, <3>3 DEF RunInv
  <2>6. QED
    BY <2>4, <2>5
<1>7. QED
  BY <1>3, <1>6

LEMMA LoopKeepsInv ==
    ASSUME GuiInv,
           \/ \E q \in Runs : QuitThread(q) \/ WorkerCleaned(q)
           \/ ApplicationExits \/ ShutdownWaited
    PROVE  (\A r \in Runs : RunInv(r)') /\ WindowInv'
<1> USE DEF workerVars, windowVars
<1>1. GuiTypeOK /\ WindowInv
  BY DEF GuiInv, WindowInv
<1>2. ASSUME NEW q \in Runs, QuitThread(q) \/ WorkerCleaned(q)
      PROVE  RunsKept /\ WindowInv'
  <2>1. /\ events' = Tail(events) /\ events # <<>> /\ gui' = gui
        /\ Deliver("quit", q) \/ Deliver("cleaned", q)
    BY <1>2 DEF QuitThread, WorkerCleaned, Deliver
  <2>a. ASSUME Deliver("quit", q) PROVE EndsKept
    BY <1>1, <2>1, <2>a, TakeKeeps
  <2>b. ASSUME Deliver("cleaned", q) PROVE EndsKept
    BY <1>1, <2>1, <2>b, TakeKeeps
  <2>2. EndsKept
    BY <2>1, <2>a, <2>b
  <2>3. QED
    BY <1>1, <1>2, <2>1, <2>2, TakeNoDelete DEF QuitThread, WorkerCleaned, RunsKept, WindowInv
<1>3. ASSUME ApplicationExits PROVE RunsKept /\ WindowInv'
  <2>a. Deliver("exit", NoRun) /\ events' = Tail(events)
    BY <1>3 DEF ApplicationExits
  <2>1. EndsKept
    BY <1>1, <2>a, TakeKeeps
  <2>2. gui' # "switch_wait" /\ events' = Tail(events) /\ events # <<>>
    BY <1>3 DEF ApplicationExits, ShutdownBegins, Exiting, Deliver
  <2>3. QED
    BY <1>1, <1>3, <2>1, <2>2, TakeNoDelete DEF ApplicationExits, RunsKept, WindowInv
<1>4. ASSUME ShutdownWaited PROVE RunsKept /\ WindowInv'
  <2>1. [kind |-> "delete", run |-> NoRun] \in Event
    BY DEF Event
  <2>a. Post("delete", NoRun) \/ events' = events
    BY <1>4 DEF ShutdownWaited
  <2>2. EndsKept
    BY <1>1, <2>1, <2>a, PostKeeps, SameEndsKept
  <2>3. QED
    BY <1>1, <1>4, <2>2 DEF ShutdownWaited, RunsKept, WindowInv
<1>5. QED
  BY <1>2, <1>3, <1>4, KeptInv

\* The window that is deleted is a hidden one: no run goes on.
LEMMA DeleteKeepsInv ==
    ASSUME GuiInv, WindowDeleted PROVE (\A r \in Runs : RunInv(r)') /\ WindowInv'
<1>1. /\ GuiTypeOK /\ WindowInv /\ events # <<>> /\ events \in Seq(Event)
      /\ Head(events).kind = "delete" /\ events' = <<>> /\ window' = "deleted"
      /\ stage' = stage /\ shown' = shown /\ runState' = runState
  BY DEF GuiInv, GuiTypeOK, WindowInv, WindowDeleted, Deliver, workerVars
<1>2. ~NoDelete(events)
  <2>1. 1 \in DOMAIN events /\ events[1].kind = "delete"
    BY <1>1, TailElements
  <2>2. QED
    BY <2>1 DEF NoDelete
<1>3. runState = "ready"
  BY <1>1, <1>2 DEF WindowInv
<1>4. WindowInv'
  BY <1>1, <1>3 DEF WindowInv
<1>5. ASSUME NEW r \in Runs PROVE RunInv(r)'
  <2>1. RunInv(r)
    BY DEF GuiInv
  <2>2. ~Has(events', r) /\ Once(events', r)
    BY <1>1 DEF Has, Once
  <2>3. Posted("ended", r)' <=> Has(events', r)
    BY DEF Posted, Has, EndOf
  <2>4. QED
    BY <1>1, <1>3, <2>1, <2>2, <2>3 DEF RunInv, Unfinished
<1>6. QED
  BY <1>4, <1>5

LEMMA StutterKeepsInv ==
    ASSUME GuiInv, UNCHANGED vars PROVE (\A r \in Runs : RunInv(r)') /\ WindowInv'
<1>1. RunsKept /\ WindowInv'
  BY DEF GuiInv, WindowInv, RunsKept, EndsKept, vars, workerVars, windowVars
<1>2. QED
  BY <1>1, KeptInv

\* The invariant of GuiRun is inductive: every action keeps it.
THEOREM GuiInvariant == Spec => []GuiInv
<1>1. GuiInv /\ [Next]_vars => GuiInv'
  <2> SUFFICES ASSUME GuiInv, [Next]_vars PROVE GuiInv'
    OBVIOUS
  <2>1. GuiTypeOK'
    BY TypesStep DEF GuiInv
  <2>2. (\A r \in Runs : RunInv(r)') /\ WindowInv'
    BY WorkerKeepsInv, StartKeepsInv, UserKeepsInv, EndKeepsInv, LoopKeepsInv,
       DeleteKeepsInv, StutterKeepsInv
       DEF Next, EventLoop, Finished
  <2>3. QED
    BY <2>1, <2>2 DEF GuiInv, WindowInv
<1>2. QED
  BY InitialInv, <1>1, PTL DEF Spec

-----------------------------------------------------------------------------
(***************************************************************************)
(* The properties.                                                         *)
(***************************************************************************)

\* The state of the window, the runtime, the workers and the events keeps its
\* types.
THEOREM GuiTypeCorrect == Spec => []GuiTypeOK
<1>1. GuiInv => GuiTypeOK
  BY DEF GuiInv
<1>2. QED
  BY <1>1, GuiInvariant, PTL

\* The window is busy exactly while the run it shows is unfinished, in
\* whatever order the signals of the workers come (_finish_worker_ui).
THEOREM BusyIsTheShownRun == Spec => []BusyForTheShownRun
<1>1. GuiInv => BusyForTheShownRun
  BY DEF GuiInv, RunInv, BusyForTheShownRun
<1>2. QED
  BY <1>1, GuiInvariant, PTL

\* No use case executes behind a window that is closed, hidden or deleted
\* (closeEvent, notify_run_finished, _switch_language).
THEOREM ShellOutlivesRuns == Spec => []NoRunOutlivesWindow
<1>1. GuiInv => NoRunOutlivesWindow
  BY DEF GuiInv, RunInv, Unfinished, NoRunOutlivesWindow
<1>2. QED
  BY <1>1, GuiInvariant, PTL

=============================================================================
