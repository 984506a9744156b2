--------------------------- MODULE StreamCapture ---------------------------
(***************************************************************************)
(* ProcessStreamCapture and the pipe session around it                     *)
(* (infrastructure/process/streams.py, runner.py): two pump threads drain  *)
(* the stdout and stderr pipes of a child into two evidence files under    *)
(* one shared byte budget, while the owner thread opens, starts and        *)
(* finally closes and summarises the capture.                              *)
(*                                                                         *)
(* Bytes are counted, not represented: produced[s] bytes have been written *)
(* into pipe s, taken[s] of them have left it, file[s] are on disk.        *)
(***************************************************************************)
EXTENDS Integers

CONSTANTS
    Writers,       \* external processes that may hold the write ends
    Parent,        \* the runner's own copies of the write ends
    Limit,         \* output_limit_bytes
    ChunkSize,     \* chunk_size of one read
    PipeCapacity,  \* bytes the operating system buffers in one pipe
    MaxBytes,      \* bound: bytes a writer may produce on one stream
    IOFaults,      \* whether reads and writes may raise OSError
    Interrupts     \* whether KeyboardInterrupt may reach the owner thread

ASSUME WritersAssumption == Parent \notin Writers
ASSUME SizesAssumption ==
    /\ Limit \in Nat \ {0}
    /\ ChunkSize \in Nat \ {0}
    /\ PipeCapacity \in Nat \ {0}
    /\ MaxBytes \in Nat
    /\ IOFaults \in BOOLEAN /\ Interrupts \in BOOLEAN

Streams == {"stdout", "stderr"}

VARIABLES
    lifecycle,     \* _lifecycle of the capture
    reserved,      \* the capture paths are in _RESERVED_CAPTURE_PATHS
    owner,         \* where the owner thread is inside open/finalize
    holders,       \* who holds the write end of each pipe
    produced,      \* bytes ever written into each pipe
    taken,         \* bytes read out of each pipe
    pump,          \* program counter of each pump thread
    chunk,         \* len(data) of the chunk a pump holds
    writable,      \* how much of it account() let the pump write
    writeFailed,   \* local write_failed of each pump
    observed,      \* observed_size_bytes
    file,          \* size of the evidence file
    truncated,     \* truncated flag
    eof,           \* reached_eof
    sourceClosed,  \* source_closed
    sinkClosed,    \* sink_closed
    budget,        \* _OutputBudget: [observed, exceeded]
    failures,      \* operations of the recorded CaptureFailures
    summary        \* the immutable ProcessCapture, once built

pumpVars == <<pump, chunk, writable, writeFailed, observed, file, eof, budget>>
closeVars == <<truncated, sourceClosed, sinkClosed, failures>>
ownerVars == <<lifecycle, reserved, owner, summary>>
pipeVars == <<holders, produced>>
captureVars == <<pumpVars, closeVars, ownerVars, pipeVars, taken>>

NoSummary == [built |-> FALSE]

All(value) == [s \in Streams |-> value]
Total(count) == count["stdout"] + count["stderr"]
LesserOf(a, b) == IF a <= b THEN a ELSE b
InPipe(s) == produced[s] - taken[s]

\* Thread.is_alive for a pump; an unstarted thread is not alive.
Alive(s) == pump[s] \notin {"none", "done"}

CaptureInit ==
    /\ lifecycle = "new" /\ reserved = FALSE /\ owner = "idle"
    /\ holders = All({}) /\ produced = All(0) /\ taken = All(0)
    /\ pump = All("none") /\ chunk = All(0) /\ writable = All(0)
    /\ writeFailed = All(FALSE) /\ observed = All(0) /\ file = All(0)
    /\ truncated = All(FALSE) /\ eof = All(FALSE)
    /\ sourceClosed = All(FALSE) /\ sinkClosed = All(FALSE)
    /\ budget = [observed |-> 0, exceeded |-> FALSE]
    /\ failures = {} /\ summary = NoSummary

-----------------------------------------------------------------------------
(***************************************************************************)
(* The owner thread: open, start.                                          *)
(***************************************************************************)

\* capture.open(): reserve both paths, create both files; then both pipes.
Open ==
    /\ lifecycle = "new" /\ owner = "idle"
    /\ lifecycle' = "open" /\ reserved' = TRUE
    /\ holders' = All({Parent})
    /\ UNCHANGED <<owner, summary, produced, taken, pumpVars, closeVars>>

\* A path is already reserved, or a file cannot be created: what was created
\* is closed and unlinked, the reservation is given back, and open() raises.
OpenFails ==
    /\ lifecycle = "new" /\ owner = "idle"
    /\ owner' = "open_failed"
    /\ sinkClosed' \in {sinkClosed, All(TRUE)}
    /\ UNCHANGED <<lifecycle, reserved, summary, pipeVars, taken, pumpVars,
                   truncated, sourceClosed, failures>>

\* session.start(): both pumps run; the parent's write ends are closed.
Start ==
    /\ lifecycle = "open" /\ owner = "idle"
    /\ lifecycle' = "running"
    /\ pump' = All("enter")
    /\ holders' = [s \in Streams |-> holders[s] \ {Parent}]
    /\ UNCHANGED <<reserved, owner, summary, produced, taken, chunk, writable,
                   writeFailed, observed, file, eof, budget, closeVars>>

\* thread.start() raises RuntimeError with none or one pump already running.
StartFails ==
    /\ lifecycle = "open" /\ owner = "idle"
    /\ lifecycle' = "running"
    /\ \E first \in {"none", "enter"} :
           pump' = [pump EXCEPT !["stdout"] = first]
    /\ failures' = failures \cup {"read"}
    /\ truncated' = All(TRUE)
    /\ sourceClosed' = All(TRUE)
    /\ owner' = "post_close_join"
    /\ UNCHANGED <<reserved, summary, pipeVars, taken, chunk, writable,
                   writeFailed, observed, file, eof, budget, sinkClosed>>

-----------------------------------------------------------------------------
(***************************************************************************)
(* The pump thread of stream s.                                            *)
(***************************************************************************)

\* source.read on a source the owner has closed raises ValueError; otherwise
\* the thread blocks in the system call, which a later close does not wake.
PumpEnterRead(s) ==
    /\ pump[s] = "enter"
    /\ IF sourceClosed[s]
       THEN /\ pump' = [pump EXCEPT ![s] = "close_source"]
            /\ truncated' = [truncated EXCEPT ![s] = TRUE]
            /\ failures' = failures \cup {"read"}
       ELSE /\ pump' = [pump EXCEPT ![s] = "reading"]
            /\ UNCHANGED <<truncated, failures>>
    /\ UNCHANGED <<chunk, writable, writeFailed, observed, file, eof, budget,
                   sourceClosed, sinkClosed, ownerVars, pipeVars, taken>>

\* Mutant: a pump stops reading, and closes nothing, at the limit.
PumpReadDataToLimit(s) ==
    /\ pump[s] = "reading" /\ InPipe(s) > 0 /\ budget.observed < Limit
    /\ LET n == LesserOf(InPipe(s), ChunkSize) IN
           /\ taken' = [taken EXCEPT ![s] = @ + n]
           /\ chunk' = [chunk EXCEPT ![s] = n]
    /\ pump' = [pump EXCEPT ![s] = "account"]
    /\ UNCHANGED <<writable, writeFailed, observed, file, eof, budget,
                   closeVars, ownerVars, pipeVars>>

PumpReadData(s) ==
    /\ pump[s] = "reading" /\ InPipe(s) > 0
    /\ LET n == LesserOf(InPipe(s), ChunkSize) IN
           /\ taken' = [taken EXCEPT ![s] = @ + n]
           /\ chunk' = [chunk EXCEPT ![s] = n]
    /\ pump' = [pump EXCEPT ![s] = "account"]
    /\ UNCHANGED <<writable, writeFailed, observed, file, eof, budget,
                   closeVars, ownerVars, pipeVars>>

\* Mutant: an empty pipe is taken for its end.
PumpReadEmpty(s) ==
    /\ pump[s] = "reading" /\ InPipe(s) = 0
    /\ eof' = [eof EXCEPT ![s] = TRUE]
    /\ pump' = [pump EXCEPT ![s] = "close_source"]
    /\ UNCHANGED <<chunk, writable, writeFailed, observed, file, budget,
                   closeVars, ownerVars, pipeVars, taken>>

PumpReadEof(s) ==
    /\ pump[s] = "reading" /\ InPipe(s) = 0 /\ holders[s] = {}
    /\ eof' = [eof EXCEPT ![s] = TRUE]
    /\ pump' = [pump EXCEPT ![s] = "close_source"]
    /\ UNCHANGED <<chunk, writable, writeFailed, observed, file, budget,
                   closeVars, ownerVars, pipeVars, taken>>

PumpReadFails(s) ==
    /\ IOFaults /\ pump[s] = "reading"
    /\ truncated' = [truncated EXCEPT ![s] = TRUE]
    /\ failures' = failures \cup {"read"}
    /\ pump' = [pump EXCEPT ![s] = "close_source"]
    /\ UNCHANGED <<chunk, writable, writeFailed, observed, file, eof, budget,
                   sourceClosed, sinkClosed, ownerVars, pipeVars, taken>>

\* Mutant: a budget per chunk.
WritablePerChunk(n, before) == LesserOf(n, Limit)

\* _OutputBudget.account under its lock: how much of a chunk of n bytes may
\* still be written when `before` bytes were observed on both streams.
WritableOf(n, before) ==
    LesserOf(n, IF before <= Limit THEN Limit - before ELSE 0)

PumpAccount(s) ==
    /\ pump[s] = "account"
    /\ LET n == chunk[s]
           w == WritableOf(n, budget.observed)
       IN  /\ observed' = [observed EXCEPT ![s] = @ + n]
           /\ budget' = [observed |-> budget.observed + n,
                         exceeded |-> budget.exceeded
                                        \/ budget.observed + n > Limit]
           /\ writable' = [writable EXCEPT ![s] = w]
           /\ truncated' = [truncated EXCEPT ![s] = @ \/ w < n]
    /\ pump' = [pump EXCEPT ![s] = "write"]
    /\ UNCHANGED <<chunk, writeFailed, file, eof, sourceClosed, sinkClosed,
                   failures, ownerVars, pipeVars, taken>>

\* The pump is done with its chunk, and reads on.
ChunkDone(s) ==
    /\ writable' = [writable EXCEPT ![s] = 0]
    /\ chunk' = [chunk EXCEPT ![s] = 0]
    /\ pump' = [pump EXCEPT ![s] = "enter"]
    /\ UNCHANGED <<observed, eof, budget, sourceClosed, sinkClosed, ownerVars,
                   pipeVars, taken>>

\* Nothing of the chunk may be written.
PumpSkipsWrite(s) ==
    /\ pump[s] = "write" /\ (writable[s] = 0 \/ writeFailed[s])
    /\ ChunkDone(s)
    /\ UNCHANGED <<writeFailed, file, truncated, failures>>

\* The sink is found open, and write(2) begins: a later close does not stop it.
PumpBeginsWrite(s) ==
    /\ pump[s] = "write" /\ writable[s] > 0 /\ ~writeFailed[s] /\ ~sinkClosed[s]
    /\ pump' = [pump EXCEPT ![s] = "writing"]
    /\ UNCHANGED <<chunk, writable, writeFailed, observed, file, eof, budget,
                   closeVars, ownerVars, pipeVars, taken>>

\* The bytes of one chunk are on disk.
PumpWrite(s) ==
    /\ pump[s] = "writing"
    /\ file' = [file EXCEPT ![s] = @ + writable[s]]
    /\ ChunkDone(s)
    /\ UNCHANGED <<writeFailed, truncated, failures>>

\* _write_all raises: the owner has closed the sink before the write, or within it
\* after a part of the chunk, or the disk failed. The pump goes on reading, and
\* writes nothing more.
PumpWriteFails(s) ==
    /\ \/ /\ pump[s] = "write" /\ writable[s] > 0 /\ ~writeFailed[s] /\ sinkClosed[s]
          /\ UNCHANGED file
       \/ /\ pump[s] = "writing" /\ (IOFaults \/ sinkClosed[s])
          /\ \E part \in 0 .. writable[s] - 1 :
                 file' = [file EXCEPT ![s] = @ + part]
    /\ writeFailed' = [writeFailed EXCEPT ![s] = TRUE]
    /\ truncated' = [truncated EXCEPT ![s] = TRUE]
    /\ failures' = failures \cup {"write"}
    /\ ChunkDone(s)

\* The finally block of _pump: close the source, then the sink.
PumpCloseSource(s) ==
    /\ pump[s] = "close_source"
    /\ sourceClosed' = [sourceClosed EXCEPT ![s] = TRUE]
    /\ pump' = [pump EXCEPT ![s] = "close_sink"]
    /\ UNCHANGED <<chunk, writable, writeFailed, observed, file, eof, budget,
                   truncated, sinkClosed, failures, ownerVars, pipeVars, taken>>

PumpCloseSink(s) ==
    /\ pump[s] = "close_sink"
    /\ sinkClosed' = [sinkClosed EXCEPT ![s] = TRUE]
    /\ pump' = [pump EXCEPT ![s] = "done"]
    /\ UNCHANGED <<chunk, writable, writeFailed, observed, file, eof, budget,
                   truncated, sourceClosed, failures, ownerVars, pipeVars, taken>>

PumpStep(s) ==
    \/ PumpEnterRead(s) \/ PumpReadData(s) \/ PumpReadEof(s)
    \/ PumpReadFails(s) \/ PumpAccount(s) \/ PumpSkipsWrite(s)
    \/ PumpBeginsWrite(s) \/ PumpWrite(s) \/ PumpWriteFails(s)
    \/ PumpCloseSource(s) \/ PumpCloseSink(s)

-----------------------------------------------------------------------------
(***************************************************************************)
(* The owner thread: finalize.                                             *)
(***************************************************************************)

\* finalize() may be called again after an interrupt left it.
MayFinalize == owner \in {"idle", "interrupted"}

\* A capture whose pumps never ran is closed as it stands.
FinalizeUnstarted ==
    /\ lifecycle = "open" /\ MayFinalize
    /\ owner' = "summarize"
    /\ eof' = All(TRUE) /\ sourceClosed' = All(TRUE) /\ sinkClosed' = All(TRUE)
    /\ holders' = [s \in Streams |-> holders[s] \ {Parent}]
    /\ UNCHANGED <<lifecycle, reserved, summary, produced, taken, pump, chunk,
                   writable, writeFailed, observed, file, budget, truncated,
                   failures>>

\* _drain_running_threads: join both pumps until the drain deadline.
FinalizeRunning ==
    /\ lifecycle = "running" /\ MayFinalize
    /\ owner' = "drain_join"
    /\ UNCHANGED <<lifecycle, reserved, summary, pipeVars, taken, pumpVars,
                   closeVars>>

PumpsJoined ==
    /\ owner = "drain_join" /\ \A s \in Streams : ~Alive(s)
    /\ owner' = "close_sinks"
    /\ UNCHANGED <<lifecycle, reserved, summary, pipeVars, taken, pumpVars,
                   closeVars>>

\* Mutant: join() without a timeout.
DrainNeverExpires == FALSE /\ UNCHANGED captureVars

DrainExpires ==
    /\ owner = "drain_join" /\ \E s \in Streams : Alive(s)
    /\ failures' = failures \cup {"drain"}
    /\ truncated' = All(TRUE)
    /\ sourceClosed' = All(TRUE)
    /\ owner' = "post_close_join"
    /\ UNCHANGED <<lifecycle, reserved, summary, pipeVars, taken, pumpVars,
                   sinkClosed>>

\* join(_POST_CLOSE_JOIN_SEC): the pumps stop in time or they do not.
PostCloseJoin ==
    /\ owner = "post_close_join"
    /\ owner' = "close_sinks"
    /\ UNCHANGED <<lifecycle, reserved, summary, pipeVars, taken, pumpVars,
                   closeVars>>

\* Mutant: the sinks are left to their pumps.
CloseSinksForgotten ==
    /\ owner = "close_sinks"
    /\ owner' = "summarize"
    /\ UNCHANGED <<lifecycle, reserved, summary, pipeVars, taken, pumpVars,
                   closeVars>>

CloseSinks ==
    /\ owner = "close_sinks"
    /\ sinkClosed' = All(TRUE)
    /\ owner' = "summarize"
    /\ UNCHANGED <<lifecycle, reserved, summary, pipeVars, taken, pumpVars,
                   truncated, sourceClosed, failures>>

\* _build_summary's capture_complete.
CaptureComplete ==
    /\ \A s \in Streams : /\ ~Alive(s) /\ eof[s] /\ ~truncated[s]
                          /\ sourceClosed[s] /\ sinkClosed[s]
    /\ failures = {}

\* _build_summary, then the finalized state.
Summarize ==
    /\ owner = "summarize"
    /\ summary' = [built |-> TRUE, size |-> file, observed |-> observed,
                   truncated |-> truncated, exceeded |-> budget.exceeded,
                   complete |-> CaptureComplete]
    /\ lifecycle' = "finalized" /\ owner' = "release"
    /\ UNCHANGED <<reserved, holders, produced, taken, pumpVars, closeVars>>

\* _release_paths; start() that could not run its pumps closes the parent's ends.
Release ==
    /\ owner = "release"
    /\ reserved' = FALSE /\ owner' = "done"
    /\ holders' = [s \in Streams |-> holders[s] \ {Parent}]
    /\ UNCHANGED <<lifecycle, summary, produced, taken, pumpVars, closeVars>>

FinalizeStep ==
    \/ PumpsJoined \/ DrainExpires \/ PostCloseJoin \/ CloseSinks
    \/ Summarize \/ Release

Finalizes == {"drain_join", "post_close_join", "close_sinks", "summarize", "release"}

\* KeyboardInterrupt in a join of finalize() or between its steps: what comes after
\* is skipped, but for the finally clause of the session, which closes the parent's
\* ends of both pipes.
FinalizeInterrupted ==
    /\ Interrupts /\ owner \in Finalizes
    /\ owner' = "interrupted"
    /\ sourceClosed' = All(TRUE)
    /\ holders' = [s \in Streams |-> holders[s] \ {Parent}]
    /\ UNCHANGED <<lifecycle, reserved, summary, produced, taken, pumpVars, truncated,
                   sinkClosed, failures>>

-----------------------------------------------------------------------------
(***************************************************************************)
(* The child side of the pipes (external).                                 *)
(***************************************************************************)

\* A read end exists while the source is open or a read is in progress.
HasReader(s) == ~sourceClosed[s] \/ pump[s] = "reading"

WriterEmits(w, s) ==
    /\ w \in holders[s] /\ HasReader(s)
    /\ InPipe(s) < PipeCapacity /\ produced[s] < MaxBytes
    /\ produced' = [produced EXCEPT ![s] = @ + 1]
    /\ UNCHANGED <<holders, taken, pumpVars, closeVars, ownerVars>>

WriterCloses(w, s) ==
    /\ w \in holders[s]
    /\ holders' = [holders EXCEPT ![s] = @ \ {w}]
    /\ UNCHANGED <<produced, taken, pumpVars, closeVars, ownerVars>>

\* The launched child and what it spawned hold the write ends.
ChildInherits(W) ==
    /\ lifecycle = "open" /\ owner = "idle" /\ \A s \in Streams : holders[s] = {Parent}
    /\ holders' = All(W \cup {Parent})
    /\ UNCHANGED <<produced, taken, pumpVars, closeVars, ownerVars>>

-----------------------------------------------------------------------------
(***************************************************************************)
(* The capture on its own, with an owner that follows the protocol.        *)
(***************************************************************************)

\* Only a capture whose child never ran is finalized without its pumps.
ChildUsedPipes == \E s \in Streams : holders[s] \cap Writers # {} \/ produced[s] > 0

OwnerCalls ==
    \/ Open \/ OpenFails \/ Start \/ StartFails \/ FinalizeRunning
    \/ ~ChildUsedPipes /\ FinalizeUnstarted

ChildStep ==
    \/ \E W \in (SUBSET Writers) \ {{}} : ChildInherits(W)
    \/ \E w \in Writers, s \in Streams : WriterEmits(w, s) \/ WriterCloses(w, s)

CaptureFinished ==
    /\ owner \in {"done", "open_failed", "interrupted"}
    /\ UNCHANGED captureVars

CaptureNext ==
    \/ OwnerCalls
    \/ FinalizeStep
    \/ FinalizeInterrupted
    \/ \E s \in Streams : PumpStep(s)
    \/ ChildStep
    \/ CaptureFinished

\* join() and read() return, and a thread that can run is scheduled; nothing
\* makes a read fail.
CaptureFairness ==
    /\ WF_captureVars(FinalizeStep)
    /\ \A s \in Streams : WF_captureVars(PumpStep(s) /\ ~PumpReadFails(s))

CaptureSpec == CaptureInit /\ [][CaptureNext]_captureVars /\ CaptureFairness

-----------------------------------------------------------------------------
(***************************************************************************)
(* Properties.                                                             *)
(***************************************************************************)

PumpStates == {"none", "enter", "reading", "account", "write", "writing",
               "close_source", "close_sink", "done"}
OwnerStates == {"idle", "open_failed", "drain_join", "post_close_join",
                "close_sinks", "summarize", "release", "interrupted", "done"}
Operations == {"read", "write", "drain"}
Summaries == [built : {TRUE}, size : [Streams -> Nat], observed : [Streams -> Nat],
              truncated : [Streams -> BOOLEAN], exceeded : BOOLEAN,
              complete : BOOLEAN]

\* Every variable keeps its type.
CaptureTypeOK ==
    /\ lifecycle \in {"new", "open", "running", "finalized"}
    /\ reserved \in BOOLEAN
    /\ owner \in OwnerStates
    /\ holders \in [Streams -> SUBSET (Writers \cup {Parent})]
    /\ produced \in [Streams -> Nat] /\ taken \in [Streams -> Nat]
    /\ pump \in [Streams -> PumpStates]
    /\ chunk \in [Streams -> Nat] /\ writable \in [Streams -> Nat]
    /\ writeFailed \in [Streams -> BOOLEAN]
    /\ observed \in [Streams -> Nat] /\ file \in [Streams -> Nat]
    /\ truncated \in [Streams -> BOOLEAN] /\ eof \in [Streams -> BOOLEAN]
    /\ sourceClosed \in [Streams -> BOOLEAN]
    /\ sinkClosed \in [Streams -> BOOLEAN]
    /\ budget \in [observed : Nat, exceeded : BOOLEAN]
    /\ failures \in SUBSET Operations
    /\ summary \in Summaries \cup {NoSummary}

\* However the two pumps interleave, the evidence files together never hold
\* more than output_limit_bytes (_OutputBudget.account under its lock).
EvidenceWithinLimit == Total(file) <= Limit

\* capture_complete is claimed only for evidence that holds every byte any
\* holder of the pipes wrote or can still write (_build_summary).
CompleteMeansWhole ==
    summary.built /\ summary.complete =>
        \A s \in Streams : file[s] = produced[s] /\ holders[s] = {}

\* Truncation is never silent: a stream not reported as truncated lost no
\* byte, whichever thread gave up first (_pump, _drain_running_threads).
NoSilentTruncation ==
    summary.built => \A s \in Streams :
        ~summary.truncated[s] => /\ summary.size[s] = produced[s]
                                 /\ summary.observed[s] = produced[s]

\* A write that was under way when the owner closed the sinks may still reach the
\* evidence after the summary: it takes nothing back, adds nothing that was not yet
\* observed, and the stream is reported as truncated (finalize, _drain_running_threads).
LateWriteIsTold ==
    summary.built => \A s \in Streams :
        /\ file[s] \in summary.size[s] .. summary.observed[s]
        /\ file[s] # summary.size[s] => summary.truncated[s] /\ ~summary.complete

\* finalize() returns even if a descendant keeps the pipes open for ever, unless an
\* interrupt leaves it.
FinalizeReturns == owner = "drain_join" ~> owner \in {"done", "interrupted"}

\* Over the limit or not, after a failed write or not, the pumps keep reading:
\* no child blocks for ever on a pipe that still has its reader (_pump).
PipesAreDrained ==
    \A s \in Streams :
        lifecycle = "running" /\ InPipe(s) > 0
            ~> InPipe(s) = 0 \/ sourceClosed[s]

-----------------------------------------------------------------------------
(***************************************************************************)
(* What the documentation says of the capture and the code does not do.    *)
(***************************************************************************)

\* "leave captured evidence immutable after finalization."
\* (docs/architecture/PROCESS_EXECUTION_MODEL.md, 25)
EvidenceFrozen == [][summary.built => file' = file]_captureVars

-----------------------------------------------------------------------------
(***************************************************************************)
(* The inductive strengthening of the properties above.                    *)
(***************************************************************************)

Closing == {"close_source", "close_sink", "done"}
Draining == {"close_sinks", "summarize", "release", "done"}

\* What is granted but not yet written already counts against the limit.
BudgetAccounts ==
    /\ lifecycle \in {"new", "open"} => pump = All("none")
    /\ \A s \in Streams : pump[s] \notin {"write", "writing"} => writable[s] = 0
    /\ Total(file) + Total(writable) <= Limit
    /\ Total(file) + Total(writable) <= budget.observed

\* Where every byte of stream s is, until something is given up on.
BytesAccounted(s) ==
    /\ taken[s] <= produced[s]
    /\ taken[s] = observed[s] + IF pump[s] = "account" THEN chunk[s] ELSE 0
    /\ ~truncated[s] => ~writeFailed[s] /\ file[s] + writable[s] = observed[s]
    /\ file[s] + writable[s] <= observed[s]
    /\ eof[s] => /\ holders[s] = {} /\ taken[s] = produced[s]
                 /\ pump[s] \in Closing \cup {"none"}
    /\ pump[s] \in Closing => eof[s] \/ truncated[s]
    /\ lifecycle \in {"new", "open"} => observed[s] = 0
    /\ lifecycle = "new" => ~eof[s]
    /\ lifecycle = "open" /\ owner = "idle" => Parent \in holders[s]
    /\ lifecycle = "running" => pump[s] # "none" \/ (truncated[s] /\ sourceClosed[s])
    /\ owner = "drain_join" => lifecycle = "running"
    /\ owner = "post_close_join" => truncated[s]
    /\ owner \in Draining => eof[s] \/ truncated[s]
    /\ owner \in {"summarize", "release", "done"} \/ lifecycle = "finalized" => sinkClosed[s]
    /\ pump[s] \in {"close_sink", "done"} => sourceClosed[s]
    /\ owner \in Draining \cup {"post_close_join", "interrupted"} => sourceClosed[s]

\* What of the chunk of stream s is being written.
InFlight(s) == IF pump[s] = "writing" THEN writable[s] ELSE 0

\* The summary is a true account of evidence to which only writes that had begun
\* may add.
SummaryAccounts ==
    summary.built =>
        /\ lifecycle = "finalized" /\ owner \in {"release", "interrupted", "done"}
        /\ \A s \in Streams :
              /\ summary.size[s] <= file[s]
              /\ file[s] + InFlight(s) <= summary.observed[s]
              /\ file[s] # summary.size[s] \/ pump[s] = "writing" => summary.truncated[s]
              /\ ~summary.truncated[s] =>
                    eof[s] /\ summary.size[s] = produced[s] /\ summary.observed[s] = produced[s]
        /\ summary.complete => \A s \in Streams : ~summary.truncated[s]

CaptureInv ==
    /\ CaptureTypeOK
    /\ BudgetAccounts
    /\ \A s \in Streams : BytesAccounted(s)
    /\ SummaryAccounts

=============================================================================
