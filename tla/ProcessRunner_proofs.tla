------------------------ MODULE ProcessRunner_proofs ------------------------
(***************************************************************************)
(* Proofs about StreamCapture and about ProcessRunner, which extends it,   *)
(* for any set of processes, any limits and any kind of containment. The   *)
(* capture comes first, by itself; its invariants then hold under the      *)
(* runner that owns it, results tell the observed cause, confirmed         *)
(* terminations are confirmed, everything is released, and every step is a *)
(* step of ProcessExecution or a stutter.                                  *)
(***************************************************************************)
EXTENDS ProcessRunner, TLAPS

USE DEF Streams, All

-----------------------------------------------------------------------------
(***************************************************************************)
(* The capture by itself: its types.                                       *)
(***************************************************************************)

\* What the budget grants is a number of bytes, and not more than was read.
LEMMA WritableOfBounds ==
    ASSUME NEW n \in Nat, NEW before \in Nat
    PROVE  /\ WritableOf(n, before) \in Nat
           /\ WritableOf(n, before) <= n
           /\ before <= Limit => WritableOf(n, before) <= Limit - before
           /\ before > Limit => WritableOf(n, before) = 0
BY SizesAssumption DEF WritableOf, LesserOf

\* The steps of the pump of stream s keep every type.
LEMMA PumpTypeOK ==
    ASSUME CaptureTypeOK, NEW s \in Streams, PumpStep(s)
    PROVE  CaptureTypeOK'
<1> USE DEF CaptureTypeOK, PumpStates, Operations, closeVars, ownerVars, pipeVars
<1>1. CASE PumpEnterRead(s)
  <2>1. pump' \in [Streams -> PumpStates]
    BY <1>1 DEF PumpEnterRead
  <2>2. truncated' \in [Streams -> BOOLEAN]
    <3>1. CASE sourceClosed[s]
      <4>1. truncated' = [truncated EXCEPT ![s] = TRUE]
        BY <1>1, <3>1 DEF PumpEnterRead
      <4> QED
        BY <4>1
    <3>2. CASE ~sourceClosed[s]
      BY <1>1, <3>2 DEF PumpEnterRead
    <3> QED
      BY <3>1, <3>2
  <2>3. failures' \in SUBSET Operations
    BY <1>1 DEF PumpEnterRead
  <2> QED
    BY <1>1, <2>1, <2>2, <2>3 DEF PumpEnterRead
<1>2. CASE PumpReadData(s)
  <2>1. LesserOf(InPipe(s), ChunkSize) \in Nat
    BY <1>2, SizesAssumption DEF PumpReadData, LesserOf, InPipe
  <2> QED
    BY <1>2, <2>1 DEF PumpReadData
<1>3. CASE PumpReadEof(s)
  BY <1>3 DEF PumpReadEof
<1>4. CASE PumpReadFails(s)
  BY <1>4 DEF PumpReadFails
<1>5. CASE PumpAccount(s)
  <2> DEFINE w == WritableOf(chunk[s], budget.observed)
  <2>1. chunk[s] \in Nat /\ budget.observed \in Nat /\ budget.exceeded \in BOOLEAN
    OBVIOUS
  <2>2. w \in Nat
    BY <2>1, WritableOfBounds
  <2>3. writable' = [writable EXCEPT ![s] = w]
    BY <1>5 DEF PumpAccount
  <2>4. writable' \in [Streams -> Nat]
    BY <2>2, <2>3
  <2>5. truncated' \in [Streams -> BOOLEAN]
    BY <1>5 DEF PumpAccount
  <2>6. budget' \in [observed : Nat, exceeded : BOOLEAN]
    BY <1>5, <2>1 DEF PumpAccount
  <2>7. observed' \in [Streams -> Nat] /\ pump' \in [Streams -> PumpStates]
    BY <1>5, <2>1 DEF PumpAccount
  <2> QED
    BY <1>5, <2>4, <2>5, <2>6, <2>7 DEF PumpAccount
<1>6. CASE PumpSkipsWrite(s)
  BY <1>6 DEF PumpSkipsWrite, ChunkDone
<1>7. CASE PumpBeginsWrite(s)
  BY <1>7 DEF PumpBeginsWrite
<1>8. CASE PumpWrite(s)
  BY <1>8 DEF PumpWrite, ChunkDone
<1>9. CASE PumpWriteFails(s)
  <2>1. file' \in [Streams -> Nat]
    <3>1. CASE UNCHANGED file
      BY <3>1
    <3>2. ASSUME NEW part \in 0 .. writable[s] - 1,
                 file' = [file EXCEPT ![s] = @ + part]
          PROVE  file' \in [Streams -> Nat]
      BY <3>2
    <3> QED
      BY <1>9, <3>1, <3>2 DEF PumpWriteFails
  <2> QED
    BY <1>9, <2>1 DEF PumpWriteFails, ChunkDone
<1>10. CASE PumpCloseSource(s)
  BY <1>10 DEF PumpCloseSource
<1>11. CASE PumpCloseSink(s)
  BY <1>11 DEF PumpCloseSink
<1> QED
  BY <1>1, <1>2, <1>3, <1>4, <1>5, <1>6, <1>7, <1>8, <1>9, <1>10, <1>11 DEF PumpStep

\* The owner's steps keep every type.
LEMMA OwnerTypeOK ==
    ASSUME CaptureTypeOK, OwnerCalls \/ FinalizeStep \/ FinalizeInterrupted
    PROVE  CaptureTypeOK'
<1> USE DEF CaptureTypeOK, PumpStates, OwnerStates, Operations, pumpVars,
            closeVars, pipeVars
<1>1. CASE Open
  BY <1>1 DEF Open
<1>2. CASE OpenFails
  BY <1>2 DEF OpenFails
<1>3. CASE Start
  BY <1>3 DEF Start
<1>4. CASE StartFails
  BY <1>4 DEF StartFails
<1>5. CASE FinalizeRunning
  BY <1>5 DEF FinalizeRunning
<1>6. CASE FinalizeUnstarted
  BY <1>6 DEF FinalizeUnstarted
<1>7. CASE PumpsJoined
  BY <1>7 DEF PumpsJoined
<1>8. CASE DrainExpires
  BY <1>8 DEF DrainExpires
<1>9. CASE PostCloseJoin
  BY <1>9 DEF PostCloseJoin
<1>10. CASE CloseSinks
  BY <1>10 DEF CloseSinks
<1>11. CASE Summarize
  <2>1. CaptureComplete \in BOOLEAN
    BY DEF CaptureComplete
  <2>2. summary' \in Summaries
    BY <1>11, <2>1 DEF Summarize, Summaries
  <2> QED
    BY <1>11, <2>2 DEF Summarize
<1>12. CASE Release
  BY <1>12 DEF Release
<1>13. CASE FinalizeInterrupted
  BY <1>13 DEF FinalizeInterrupted
<1> QED
  BY <1>1, <1>2, <1>3, <1>4, <1>5, <1>6, <1>7, <1>8, <1>9, <1>10, <1>11, <1>12, <1>13
     DEF OwnerCalls, FinalizeStep

\* What the child does to the pipes keeps every type.
LEMMA ChildTypeOK ==
    ASSUME CaptureTypeOK, ChildStep
    PROVE  CaptureTypeOK'
<1> USE DEF CaptureTypeOK, pumpVars, closeVars, ownerVars
<1>1. ASSUME NEW W \in SUBSET Writers, ChildInherits(W) PROVE CaptureTypeOK'
  BY <1>1 DEF ChildInherits
<1>2. ASSUME NEW w \in Writers, NEW s \in Streams, WriterEmits(w, s)
      PROVE  CaptureTypeOK'
  BY <1>2 DEF WriterEmits
<1>3. ASSUME NEW w \in Writers, NEW s \in Streams, WriterCloses(w, s)
      PROVE  CaptureTypeOK'
  BY <1>3 DEF WriterCloses
<1> QED
  BY <1>1, <1>2, <1>3 DEF ChildStep

\* Every variable of the capture keeps its type (streams.py).
THEOREM CaptureTypeCorrect == CaptureSpec => []CaptureTypeOK
<1>1. CaptureInit => CaptureTypeOK
  <2> SUFFICES ASSUME CaptureInit PROVE CaptureTypeOK
    OBVIOUS
  <2>1. holders \in [Streams -> SUBSET (Writers \cup {Parent})]
    BY DEF CaptureInit
  <2>2. budget \in [observed : Nat, exceeded : BOOLEAN]
    BY DEF CaptureInit
  <2> QED
    BY <2>1, <2>2 DEF CaptureInit, CaptureTypeOK, PumpStates, OwnerStates, Operations
<1>2. CaptureTypeOK /\ [CaptureNext]_captureVars => CaptureTypeOK'
  <2> SUFFICES ASSUME CaptureTypeOK, [CaptureNext]_captureVars
               PROVE  CaptureTypeOK'
    OBVIOUS
  <2>1. CASE UNCHANGED captureVars
    BY <2>1 DEF CaptureTypeOK, captureVars, pumpVars, closeVars, ownerVars, pipeVars
  <2> QED
    BY <2>1, PumpTypeOK, OwnerTypeOK, ChildTypeOK DEF CaptureNext, CaptureFinished
<1> QED
  BY <1>1, <1>2, PTL DEF CaptureSpec

-----------------------------------------------------------------------------
(***************************************************************************)
(* The capture by itself: what is on disk and granted is within the limit. *)
(***************************************************************************)

\* The pump steps that neither grant nor end a write.
LEMMA PumpKeepsBudget ==
    ASSUME CaptureTypeOK, BudgetAccounts, NEW s \in Streams,
           \/ PumpEnterRead(s) \/ PumpReadData(s) \/ PumpReadEof(s)
           \/ PumpReadFails(s) \/ PumpBeginsWrite(s)
           \/ PumpCloseSource(s) \/ PumpCloseSink(s)
    PROVE  BudgetAccounts'
<1>1. UNCHANGED <<file, writable, budget>>
  BY DEF PumpEnterRead, PumpReadData, PumpReadEof, PumpReadFails, PumpBeginsWrite,
         PumpCloseSource, PumpCloseSink
<1>2. \E v \in PumpStates : /\ pump' = [pump EXCEPT ![s] = v]
                            /\ pump[s] \notin {"write", "writing"} \/ v = "writing"
  BY DEF PumpEnterRead, PumpReadData, PumpReadEof, PumpReadFails, PumpBeginsWrite,
         PumpCloseSource, PumpCloseSink, PumpStates
<1>3. \A r \in Streams : pump'[r] \notin {"write", "writing"} => writable'[r] = 0
  BY <1>1, <1>2 DEF BudgetAccounts, CaptureTypeOK
<1>4. lifecycle' \notin {"new", "open"}
  BY DEF BudgetAccounts, PumpEnterRead, PumpReadData, PumpReadEof, PumpReadFails,
         PumpBeginsWrite, PumpCloseSource, PumpCloseSink, ownerVars
<1> QED
  BY <1>1, <1>3, <1>4 DEF BudgetAccounts, Total

\* account() grants no more than the limit leaves.
LEMMA AccountKeepsBudget ==
    ASSUME CaptureTypeOK, BudgetAccounts, NEW s \in Streams, PumpAccount(s)
    PROVE  BudgetAccounts'
<1> DEFINE n == chunk[s]
           before == budget.observed
           w == WritableOf(n, before)
<1>1. n \in Nat /\ before \in Nat /\ writable[s] = 0
  BY DEF CaptureTypeOK, BudgetAccounts, PumpAccount
<1>2. /\ w \in Nat /\ w <= n
      /\ before <= Limit => w <= Limit - before
      /\ before > Limit => w = 0
  BY <1>1, WritableOfBounds
<1>3. /\ writable' = [writable EXCEPT ![s] = w] /\ file' = file
      /\ budget'.observed = before + n
      /\ pump' = [pump EXCEPT ![s] = "write"]
  BY DEF PumpAccount
<1>4. Total(writable') = Total(writable) + w
  <2> HIDE DEF w
  <2> QED
    BY <1>1, <1>2, <1>3 DEF Total, CaptureTypeOK
<1>5. /\ Total(file) \in Nat /\ Total(writable) \in Nat /\ Total(file') = Total(file)
  BY <1>3 DEF Total, CaptureTypeOK
<1>6. Total(file') + Total(writable') <= Limit
  <2> HIDE DEF w, before, n
  <2> QED
    BY <1>1, <1>2, <1>4, <1>5, SizesAssumption DEF BudgetAccounts, before
<1>7. Total(file') + Total(writable') <= budget'.observed
  <2> HIDE DEF w, n
  <2> QED
    BY <1>1, <1>2, <1>3, <1>4, <1>5 DEF BudgetAccounts
<1>8. \A r \in Streams : pump'[r] \notin {"write", "writing"} => writable'[r] = 0
  BY <1>3 DEF BudgetAccounts, CaptureTypeOK
<1>9. lifecycle' \notin {"new", "open"}
  BY DEF BudgetAccounts, PumpAccount, ownerVars
<1> QED
  BY <1>6, <1>7, <1>8, <1>9 DEF BudgetAccounts, Total

\* A write moves granted bytes to the file, and drops what it cannot move.
LEMMA WriteKeepsBudget ==
    ASSUME CaptureTypeOK, BudgetAccounts, NEW s \in Streams,
           PumpSkipsWrite(s) \/ PumpWrite(s) \/ PumpWriteFails(s)
    PROVE  BudgetAccounts'
<1>1. /\ file' \in [Streams -> Nat]
      /\ file'[s] <= file[s] + writable[s]
      /\ \A r \in Streams \ {s} : file'[r] = file[r]
  <2>1. CASE PumpSkipsWrite(s)
    BY <2>1 DEF PumpSkipsWrite, CaptureTypeOK
  <2>2. CASE PumpWrite(s)
    BY <2>2 DEF PumpWrite, CaptureTypeOK
  <2>3. CASE PumpWriteFails(s)
    BY <2>3 DEF PumpWriteFails, CaptureTypeOK
  <2> QED
    BY <2>1, <2>2, <2>3
<1>2. /\ writable' = [writable EXCEPT ![s] = 0] /\ budget' = budget
      /\ pump' = [pump EXCEPT ![s] = "enter"] /\ lifecycle' = lifecycle
      /\ pump[s] \in {"write", "writing"}
  BY DEF PumpSkipsWrite, PumpWrite, PumpWriteFails, ChunkDone, ownerVars
<1>3. Total(file') + Total(writable') <= Total(file) + Total(writable)
  <2>1. \A r \in Streams : /\ file'[r] \in Nat /\ file[r] \in Nat
                           /\ writable'[r] \in Nat /\ writable[r] \in Nat
                           /\ file'[r] + writable'[r] <= file[r] + writable[r]
    BY <1>1, <1>2 DEF CaptureTypeOK
  <2> QED
    BY <2>1 DEF Total
<1>4. /\ Total(file) + Total(writable) \in Nat
      /\ Total(file') + Total(writable') \in Nat
      /\ budget.observed \in Nat
  BY <1>1, <1>2 DEF Total, CaptureTypeOK
<1>5. Total(file') + Total(writable') <= Limit
  BY <1>3, <1>4, SizesAssumption DEF BudgetAccounts
<1>6. Total(file') + Total(writable') <= budget'.observed
  BY <1>2, <1>3, <1>4 DEF BudgetAccounts
<1>7. \A r \in Streams : pump'[r] \notin {"write", "writing"} => writable'[r] = 0
  BY <1>2 DEF BudgetAccounts, CaptureTypeOK
<1>8. lifecycle' \notin {"new", "open"}
  BY <1>2 DEF BudgetAccounts
<1> QED
  BY <1>5, <1>6, <1>7, <1>8 DEF BudgetAccounts, Total

\* The owner and the child leave the budget alone.
LEMMA OthersKeepBudget ==
    ASSUME CaptureTypeOK, BudgetAccounts,
           OwnerCalls \/ FinalizeStep \/ FinalizeInterrupted \/ ChildStep
    PROVE  BudgetAccounts'
<1>1. UNCHANGED <<file, writable, budget>>
  BY DEF OwnerCalls, FinalizeStep, ChildStep, Open, OpenFails, Start, StartFails,
         FinalizeRunning, FinalizeUnstarted, PumpsJoined, DrainExpires,
         PostCloseJoin, CloseSinks, Summarize, Release, FinalizeInterrupted,
         ChildInherits, WriterEmits, WriterCloses, pumpVars
<1>2. \/ UNCHANGED <<pump, lifecycle>>
      \/ /\ lifecycle' \notin {"new", "open"}
         /\ pump' = pump \/ lifecycle \in {"new", "open"}
      \/ pump' = pump /\ lifecycle = "new"
  BY DEF OwnerCalls, FinalizeStep, ChildStep, Open, OpenFails, Start, StartFails,
         FinalizeRunning, FinalizeUnstarted, PumpsJoined, DrainExpires,
         PostCloseJoin, CloseSinks, Summarize, Release, FinalizeInterrupted,
         ChildInherits, WriterEmits, WriterCloses, pumpVars, ownerVars
<1>3. lifecycle \in {"new", "open"} => writable = All(0)
  BY DEF BudgetAccounts, CaptureTypeOK
<1> QED
  BY <1>1, <1>2, <1>3 DEF BudgetAccounts, Total

\* Together the evidence files never hold more than output_limit_bytes, however
\* the pumps, the child and the owner interleave (_OutputBudget.account).
THEOREM EvidenceBounded == CaptureSpec => []EvidenceWithinLimit
<1>1. CaptureInit => BudgetAccounts
  BY SizesAssumption DEF CaptureInit, BudgetAccounts, Total
<1>2. CaptureTypeOK /\ BudgetAccounts /\ [CaptureNext]_captureVars => BudgetAccounts'
  <2> SUFFICES ASSUME CaptureTypeOK, BudgetAccounts, [CaptureNext]_captureVars
               PROVE  BudgetAccounts'
    OBVIOUS
  <2>1. CASE UNCHANGED captureVars
    BY <2>1 DEF BudgetAccounts, captureVars, pumpVars, ownerVars, Total
  <2> QED
    BY <2>1, PumpKeepsBudget, AccountKeepsBudget, WriteKeepsBudget, OthersKeepBudget
       DEF CaptureNext, CaptureFinished, PumpStep
<1>3. CaptureTypeOK /\ BudgetAccounts => EvidenceWithinLimit
  BY SizesAssumption DEF CaptureTypeOK, BudgetAccounts, EvidenceWithinLimit, Total
<1> QED
  BY <1>1, <1>2, <1>3, CaptureTypeCorrect, PTL DEF CaptureSpec

-----------------------------------------------------------------------------
(***************************************************************************)
(* The capture by itself: where the bytes are.                             *)
(***************************************************************************)

\* A pump touches no counter and no flag of the other stream.
LEMMA PumpKeepsOther ==
    ASSUME CaptureTypeOK, NEW s \in Streams, NEW r \in Streams, r # s,
           PumpStep(s), BytesAccounted(r)
    PROVE  BytesAccounted(r)'
<1>1. /\ taken'[r] = taken[r] /\ produced'[r] = produced[r]
      /\ observed'[r] = observed[r] /\ pump'[r] = pump[r] /\ chunk'[r] = chunk[r]
      /\ truncated'[r] = truncated[r] /\ writeFailed'[r] = writeFailed[r]
      /\ file'[r] = file[r] /\ writable'[r] = writable[r] /\ eof'[r] = eof[r]
      /\ holders'[r] = holders[r] /\ sinkClosed'[r] = sinkClosed[r]
      /\ sourceClosed'[r] = sourceClosed[r]
      /\ lifecycle' = lifecycle /\ owner' = owner
  <2> USE DEF CaptureTypeOK, closeVars, ownerVars, pipeVars
  <2>1. CASE PumpEnterRead(s)
    BY <2>1 DEF PumpEnterRead
  <2>2. CASE PumpReadData(s)
    BY <2>2 DEF PumpReadData
  <2>3. CASE PumpReadEof(s)
    BY <2>3 DEF PumpReadEof
  <2>4. CASE PumpReadFails(s)
    BY <2>4 DEF PumpReadFails
  <2>5. CASE PumpAccount(s)
    BY <2>5 DEF PumpAccount
  <2>6. CASE PumpSkipsWrite(s)
    BY <2>6 DEF PumpSkipsWrite, ChunkDone
  <2>7. CASE PumpBeginsWrite(s)
    BY <2>7 DEF PumpBeginsWrite
  <2>8. CASE PumpWrite(s)
    BY <2>8 DEF PumpWrite, ChunkDone
  <2>9. CASE PumpWriteFails(s)
    BY <2>9 DEF PumpWriteFails, ChunkDone
  <2>10. CASE PumpCloseSource(s)
    BY <2>10 DEF PumpCloseSource
  <2>11. CASE PumpCloseSink(s)
    BY <2>11 DEF PumpCloseSink
  <2> QED
    BY <2>1, <2>2, <2>3, <2>4, <2>5, <2>6, <2>7, <2>8, <2>9, <2>10, <2>11 DEF PumpStep
<1> QED
  BY <1>1 DEF BytesAccounted, Closing, Draining

\* A pump accounts for every byte of its own stream.
LEMMA PumpKeepsBytes ==
    ASSUME CaptureTypeOK, BudgetAccounts, NEW s \in Streams, PumpStep(s),
           BytesAccounted(s)
    PROVE  BytesAccounted(s)'
<1> USE DEF CaptureTypeOK, BytesAccounted, BudgetAccounts, Closing, Draining,
            closeVars, ownerVars, pipeVars
<1>1. CASE PumpEnterRead(s)
  BY <1>1 DEF PumpEnterRead
<1>2. CASE PumpReadData(s)
  <2> DEFINE n == LesserOf(InPipe(s), ChunkSize)
  <2>1. n \in Nat /\ n <= produced[s] - taken[s]
    BY <1>2, SizesAssumption DEF PumpReadData, LesserOf, InPipe
  <2>2. /\ taken'[s] = taken[s] + n /\ chunk'[s] = n /\ pump'[s] = "account"
        /\ pump[s] = "reading"
    BY <1>2 DEF PumpReadData
  <2> HIDE DEF n
  <2> QED
    BY <1>2, <2>1, <2>2 DEF PumpReadData
<1>3. CASE PumpReadEof(s)
  <2>1. /\ holders[s] = {} /\ taken[s] = produced[s] /\ pump[s] = "reading"
        /\ eof'[s] = TRUE /\ pump'[s] = "close_source"
    BY <1>3 DEF PumpReadEof, InPipe
  <2> QED
    BY <1>3, <2>1 DEF PumpReadEof
<1>4. CASE PumpReadFails(s)
  BY <1>4 DEF PumpReadFails
<1>5. CASE PumpAccount(s)
  <2> DEFINE w == WritableOf(chunk[s], budget.observed)
  <2>1. w \in Nat /\ w <= chunk[s] /\ pump[s] = "account" /\ writable[s] = 0
    BY <1>5, WritableOfBounds DEF PumpAccount
  <2>0. truncated' = [truncated EXCEPT ![s] = truncated[s] \/ w < chunk[s]]
    BY <1>5 DEF PumpAccount
  <2>2. /\ observed'[s] = observed[s] + chunk[s] /\ writable'[s] = w
        /\ pump'[s] = "write"
        /\ truncated'[s] = (truncated[s] \/ w < chunk[s])
    <3>1. truncated'[s] = (truncated[s] \/ w < chunk[s])
      <4> HIDE DEF w
      <4> QED
        BY <2>0, Zenon
    <3> QED
      BY <1>5, <3>1 DEF PumpAccount
  <2> HIDE DEF w
  <2>3. ~truncated'[s] => w = chunk[s] /\ ~truncated[s]
    <3>1. CASE w < chunk[s]
      <4>1. truncated'[s]
        BY <2>2, <3>1, Zenon
      <4> QED
        BY <4>1, Zenon
    <3>2. CASE w = chunk[s]
      BY <2>2, <3>2, Zenon
    <3> QED
      BY <2>1, <3>1, <3>2
  <2>4. /\ writeFailed'[s] = writeFailed[s] /\ file'[s] = file[s] /\ taken' = taken
        /\ produced' = produced /\ chunk' = chunk /\ eof' = eof /\ holders' = holders
        /\ lifecycle' = lifecycle /\ owner' = owner
        /\ sinkClosed' = sinkClosed /\ sourceClosed' = sourceClosed
    BY <1>5 DEF PumpAccount
  <2>5. ~truncated'[s] => ~writeFailed'[s] /\ file'[s] + writable'[s] = observed'[s]
    BY <2>1, <2>2, <2>3, <2>4
  <2>6. truncated[s] => truncated'[s]
    BY <2>2, Zenon
  <2>7. /\ taken'[s] <= produced'[s]
        /\ taken'[s] = observed'[s] + IF pump'[s] = "account" THEN chunk'[s] ELSE 0
    BY <2>1, <2>2, <2>4
  <2>8. pump'[s] = "write" /\ ~eof'[s] /\ lifecycle' \notin {"new", "open"}
    BY <2>1, <2>2, <2>4
  <2>9. file'[s] + writable'[s] <= observed'[s]
    BY <2>1, <2>2, <2>4
  <2> QED
    BY <2>4, <2>5, <2>6, <2>7, <2>8, <2>9
<1>6. CASE PumpSkipsWrite(s)
  BY <1>6 DEF PumpSkipsWrite, ChunkDone
<1>7. CASE PumpBeginsWrite(s)
  BY <1>7 DEF PumpBeginsWrite
<1>8. CASE PumpWrite(s)
  BY <1>8 DEF PumpWrite, ChunkDone
<1>9. CASE PumpWriteFails(s)
  <2>1. /\ file'[s] \in Nat /\ file'[s] <= file[s] + writable[s]
        /\ writable'[s] = 0 /\ truncated'[s] /\ pump'[s] = "enter"
        /\ pump[s] \in {"write", "writing"}
    BY <1>9 DEF PumpWriteFails, ChunkDone
  <2> QED
    BY <1>9, <2>1 DEF PumpWriteFails, ChunkDone
<1>10. CASE PumpCloseSource(s)
  BY <1>10 DEF PumpCloseSource
<1>11. CASE PumpCloseSink(s)
  BY <1>11 DEF PumpCloseSink
<1> QED
  BY <1>1, <1>2, <1>3, <1>4, <1>5, <1>6, <1>7, <1>8, <1>9, <1>10, <1>11 DEF PumpStep

\* The owner gives up bytes only when it marks the stream truncated.
LEMMA OwnerKeepsBytes ==
    ASSUME CaptureTypeOK, BudgetAccounts, NEW s \in Streams,
           OwnerCalls \/ FinalizeStep \/ FinalizeInterrupted, BytesAccounted(s)
    PROVE  BytesAccounted(s)'
<1> USE DEF CaptureTypeOK, BytesAccounted, BudgetAccounts, Closing, Draining,
            pumpVars, closeVars, pipeVars
<1>1. CASE Open
  BY <1>1 DEF Open
<1>2. CASE OpenFails
  BY <1>2 DEF OpenFails
<1>3. CASE Start
  BY <1>3 DEF Start
<1>4. CASE StartFails
  BY <1>4 DEF StartFails
<1>5. CASE FinalizeRunning
  BY <1>5 DEF FinalizeRunning
<1>6. CASE PumpsJoined
  BY <1>6 DEF PumpsJoined, Alive, PumpStates
<1>7. CASE DrainExpires
  BY <1>7 DEF DrainExpires
<1>8. CASE PostCloseJoin
  BY <1>8 DEF PostCloseJoin
<1>9. CASE CloseSinks
  BY <1>9 DEF CloseSinks
<1>10. CASE Summarize
  BY <1>10 DEF Summarize
<1>11. CASE ~ChildUsedPipes /\ FinalizeUnstarted
  BY <1>11 DEF FinalizeUnstarted, ChildUsedPipes
<1>12. CASE Release
  BY <1>12 DEF Release
<1>13. CASE FinalizeInterrupted
  BY <1>13 DEF FinalizeInterrupted, Finalizes
<1> QED
  BY <1>1, <1>2, <1>3, <1>4, <1>5, <1>6, <1>7, <1>8, <1>9, <1>10, <1>11, <1>12, <1>13
     DEF OwnerCalls, FinalizeStep

\* After the end of a stream nobody can write to it any more.
LEMMA ChildKeepsBytes ==
    ASSUME CaptureTypeOK, NEW s \in Streams, ChildStep, BytesAccounted(s)
    PROVE  BytesAccounted(s)'
<1> USE WritersAssumption DEF CaptureTypeOK, BytesAccounted, Closing, Draining,
            pumpVars, closeVars, ownerVars
<1>1. ASSUME NEW W \in SUBSET Writers, ChildInherits(W) PROVE BytesAccounted(s)'
  BY <1>1 DEF ChildInherits
<1>2. ASSUME NEW w \in Writers, NEW r \in Streams, WriterEmits(w, r)
      PROVE  BytesAccounted(s)'
  BY <1>2 DEF WriterEmits
<1>3. ASSUME NEW w \in Writers, NEW r \in Streams, WriterCloses(w, r)
      PROVE  BytesAccounted(s)'
  BY <1>3 DEF WriterCloses
<1> QED
  BY <1>1, <1>2, <1>3 DEF ChildStep

-----------------------------------------------------------------------------
(***************************************************************************)
(* The capture by itself: its summary.                                     *)
(***************************************************************************)

\* A summary counts bytes.
LEMMA SummarySizes ==
    ASSUME CaptureInv, summary.built, NEW s \in Streams
    PROVE  /\ summary.size[s] \in Nat /\ summary.observed[s] \in Nat
           /\ file[s] \in Nat /\ InFlight(s) \in Nat
<1>1. summary \in Summaries
  BY DEF CaptureInv, CaptureTypeOK, NoSummary
<1>2. file[s] \in Nat /\ writable[s] \in Nat
  BY DEF CaptureInv, CaptureTypeOK
<1> QED
  BY <1>1, <1>2 DEF Summaries, InFlight

\* What happens to stream s once the summary is built: at most a write that was under
\* way ends, with some of its bytes.
LateWriteOnly(s) ==
    /\ file'[s] \in Nat /\ file[s] <= file'[s]
    /\ file'[s] + InFlight(s)' <= file[s] + InFlight(s)
    /\ file'[s] # file[s] \/ pump'[s] = "writing" => pump[s] = "writing"
    /\ eof[s] => eof'[s] /\ produced'[s] = produced[s]

\* Once the summary is built no pump begins a write: both sinks are closed.
LEMMA PumpWritesLate ==
    ASSUME CaptureInv, summary.built, NEW s \in Streams, PumpStep(s)
    PROVE  /\ UNCHANGED <<summary, lifecycle, owner>>
           /\ \A r \in Streams : LateWriteOnly(r)
<1>1. /\ sinkClosed[s] /\ file \in [Streams -> Nat] /\ writable \in [Streams -> Nat]
      /\ pump \in [Streams -> PumpStates] /\ eof \in [Streams -> BOOLEAN]
  BY DEF CaptureInv, CaptureTypeOK, SummaryAccounts, BytesAccounted
<1> USE DEF LateWriteOnly, InFlight, closeVars, ownerVars, pipeVars
<1>2. CASE PumpEnterRead(s)
  BY <1>1, <1>2 DEF PumpEnterRead
<1>3. CASE PumpReadData(s)
  BY <1>1, <1>3 DEF PumpReadData
<1>4. CASE PumpReadEof(s)
  BY <1>1, <1>4 DEF PumpReadEof
<1>5. CASE PumpReadFails(s)
  BY <1>1, <1>5 DEF PumpReadFails
<1>6. CASE PumpAccount(s)
  <2>1. /\ UNCHANGED <<summary, lifecycle, owner, file, eof, produced>>
        /\ pump' = [pump EXCEPT ![s] = "write"] /\ pump[s] = "account"
        /\ \A r \in Streams \ {s} : writable'[r] = writable[r]
    BY <1>1, <1>6 DEF PumpAccount
  <2> QED
    BY <1>1, <2>1
<1>7. CASE PumpSkipsWrite(s)
  BY <1>1, <1>7 DEF PumpSkipsWrite, ChunkDone
<1>8. CASE PumpBeginsWrite(s)
  BY <1>1, <1>8 DEF PumpBeginsWrite
<1>9. CASE PumpWrite(s)
  BY <1>1, <1>9 DEF PumpWrite, ChunkDone
<1>10. CASE PumpWriteFails(s)
  BY <1>1, <1>10 DEF PumpWriteFails, ChunkDone
<1>11. CASE PumpCloseSource(s)
  BY <1>1, <1>11 DEF PumpCloseSource
<1>12. CASE PumpCloseSink(s)
  BY <1>1, <1>12 DEF PumpCloseSink
<1> QED
  BY <1>2, <1>3, <1>4, <1>5, <1>6, <1>7, <1>8, <1>9, <1>10, <1>11, <1>12 DEF PumpStep

\* Nothing changes a built summary, and only late writes the evidence it describes.
LEMMA SummaryStays ==
    ASSUME CaptureInv, summary.built, CaptureNext
    PROVE  /\ summary' = summary /\ lifecycle' = "finalized"
           /\ owner' \in {"release", "interrupted", "done"}
           /\ \A s \in Streams : LateWriteOnly(s)
<1>1. /\ lifecycle = "finalized" /\ owner \in {"release", "interrupted", "done"}
      /\ file \in [Streams -> Nat] /\ writable \in [Streams -> Nat]
      /\ produced \in [Streams -> Nat] /\ holders \in [Streams -> SUBSET (Writers \cup {Parent})]
      /\ \A s \in Streams : eof[s] => holders[s] = {}
  BY DEF CaptureInv, CaptureTypeOK, SummaryAccounts, BytesAccounted
<1>2. CASE OwnerCalls \/ FinalizeStep \/ FinalizeInterrupted
  <2>1. /\ UNCHANGED <<summary, lifecycle, file, writable, pump, eof, produced>>
        /\ owner' \in {"interrupted", "done"}
    BY <1>1, <1>2 DEF OwnerCalls, FinalizeStep, Open, OpenFails, Start, StartFails,
       FinalizeRunning, FinalizeUnstarted, PumpsJoined, DrainExpires, PostCloseJoin,
       CloseSinks, Summarize, Release, FinalizeInterrupted, pumpVars
  <2> QED
    BY <1>1, <2>1 DEF LateWriteOnly, InFlight
<1>3. CASE ChildStep
  <2>1. UNCHANGED <<summary, lifecycle, owner, file, writable, pump, eof>>
    BY <1>3 DEF ChildStep, ChildInherits, WriterEmits, WriterCloses, pumpVars, ownerVars
  <2>2. \A s \in Streams : eof[s] => produced'[s] = produced[s]
    BY <1>1, <1>3 DEF ChildStep, ChildInherits, WriterEmits, WriterCloses
  <2> QED
    BY <1>1, <2>1, <2>2 DEF LateWriteOnly, InFlight
<1>4. ASSUME NEW s \in Streams, PumpStep(s)
      PROVE  /\ UNCHANGED <<summary, lifecycle, owner>>
             /\ \A r \in Streams : LateWriteOnly(r)
  BY <1>4, PumpWritesLate
<1>5. CASE CaptureFinished
  BY <1>1, <1>5 DEF CaptureFinished, captureVars, pumpVars, ownerVars, pipeVars,
     LateWriteOnly, InFlight
<1> QED
  BY <1>1, <1>2, <1>3, <1>4, <1>5 DEF CaptureNext

\* Building the summary establishes what it claims.
LEMMA SummarizeAccounts ==
    ASSUME CaptureInv, Summarize
    PROVE  SummaryAccounts'
<1>1. /\ owner = "summarize" /\ owner' = "release" /\ lifecycle' = "finalized"
      /\ UNCHANGED <<file, produced, eof, pump, writable>>
      /\ summary' = [built |-> TRUE, size |-> file, observed |-> observed,
                     truncated |-> truncated, exceeded |-> budget.exceeded,
                     complete |-> CaptureComplete]
  BY DEF Summarize, pumpVars
<1>2. ASSUME NEW s \in Streams, ~truncated[s]
      PROVE  /\ eof[s] /\ file[s] = produced[s] /\ observed[s] = produced[s]
             /\ pump[s] # "writing"
  <2>1. /\ BytesAccounted(s) /\ file[s] \in Nat /\ observed[s] \in Nat
        /\ pump[s] \notin {"write", "writing"} => writable[s] = 0
    BY DEF CaptureInv, CaptureTypeOK, BudgetAccounts
  <2>2. eof[s] /\ pump[s] \in Closing \cup {"none"} /\ taken[s] = produced[s]
    BY <1>1, <1>2, <2>1 DEF BytesAccounted, Draining
  <2>3. taken[s] = observed[s] + 0 /\ file[s] + 0 = observed[s]
    BY <1>2, <2>1, <2>2 DEF BytesAccounted, Closing
  <2> QED
    BY <2>1, <2>2, <2>3 DEF Closing
<1>3. ASSUME NEW s \in Streams
      PROVE  file[s] \in Nat /\ file[s] + InFlight(s) <= observed[s]
  BY DEF CaptureInv, CaptureTypeOK, BytesAccounted, InFlight
<1>4. CaptureComplete => \A s \in Streams : ~truncated[s]
  BY DEF CaptureComplete
<1> QED
  BY <1>1, <1>2, <1>3, <1>4 DEF SummaryAccounts, InFlight

\* The strengthened invariant is preserved by every step.
LEMMA CaptureInvInductive ==
    ASSUME CaptureInv, [CaptureNext]_captureVars
    PROVE  CaptureInv'
<1>1. CASE UNCHANGED captureVars
  BY <1>1, SMTT(20) DEF CaptureInv, CaptureTypeOK, BudgetAccounts, BytesAccounted,
     SummaryAccounts, InFlight, Total, captureVars, pumpVars, closeVars, ownerVars,
     pipeVars
<1>2. CASE CaptureNext
  <2>1. CaptureTypeOK'
    BY <1>1, <1>2, PumpTypeOK, OwnerTypeOK, ChildTypeOK
       DEF CaptureInv, CaptureNext, CaptureFinished
  <2>2. BudgetAccounts'
    BY <1>1, <1>2, PumpKeepsBudget, AccountKeepsBudget, WriteKeepsBudget,
       OthersKeepBudget DEF CaptureInv, CaptureNext, CaptureFinished, PumpStep
  <2>3. ASSUME NEW s \in Streams PROVE BytesAccounted(s)'
    <3>1. BytesAccounted(s) /\ CaptureTypeOK /\ BudgetAccounts
      BY DEF CaptureInv
    <3>2. CASE OwnerCalls \/ FinalizeStep \/ FinalizeInterrupted
      BY <3>1, <3>2, OwnerKeepsBytes
    <3>3. CASE ChildStep
      BY <3>1, <3>3, ChildKeepsBytes
    <3>4. ASSUME NEW r \in Streams, PumpStep(r) PROVE BytesAccounted(s)'
      BY <3>1, <3>4, PumpKeepsOther, PumpKeepsBytes
    <3>5. CASE CaptureFinished
      BY <1>1, <3>5 DEF CaptureFinished, CaptureInv
    <3> QED
      BY <1>2, <3>2, <3>3, <3>4, <3>5 DEF CaptureNext
  <2>4. SummaryAccounts'
    <3>1. CASE Summarize
      BY <3>1, SummarizeAccounts
    <3>2. CASE summary.built
      <4>1. /\ summary' = summary /\ lifecycle' = "finalized"
            /\ owner' \in {"release", "interrupted", "done"}
            /\ \A s \in Streams : LateWriteOnly(s)
        BY <1>2, <3>2, SummaryStays
      <4>2. ASSUME NEW s \in Streams
            PROVE  /\ summary.size[s] <= file'[s]
                   /\ file'[s] + InFlight(s)' <= summary.observed[s]
                   /\ file'[s] # summary.size[s] \/ pump'[s] = "writing"
                         => summary.truncated[s]
                   /\ ~summary.truncated[s] =>
                         /\ eof'[s] /\ summary.size[s] = produced'[s]
                         /\ summary.observed[s] = produced'[s]
        <5>1. /\ summary.size[s] \in Nat /\ summary.observed[s] \in Nat
              /\ file[s] \in Nat /\ InFlight(s) \in Nat /\ InFlight(s)' \in Nat
          <6>1. InFlight(s)' \in Nat
            BY <2>1 DEF CaptureTypeOK, InFlight
          <6> QED
            BY <3>2, <6>1, SummarySizes
        <5> QED
          BY <3>2, <4>1, <5>1 DEF CaptureInv, SummaryAccounts, LateWriteOnly
      <4> QED
        BY <3>2, <4>1, <4>2 DEF CaptureInv, SummaryAccounts
    <3>3. CASE ~Summarize /\ ~summary.built
      <4>1. summary' = summary
        BY <1>2, <3>3 DEF CaptureNext, OwnerCalls, FinalizeStep, ChildStep,
           CaptureFinished, PumpStep, Open, OpenFails, Start, StartFails,
           FinalizeRunning, FinalizeUnstarted, PumpsJoined, DrainExpires,
           PostCloseJoin, CloseSinks, Release, FinalizeInterrupted, ChildInherits,
           WriterEmits, WriterCloses, PumpEnterRead, PumpReadData, PumpReadEof,
           PumpReadFails, PumpAccount, PumpSkipsWrite, PumpBeginsWrite, PumpWrite,
           PumpWriteFails, ChunkDone, PumpCloseSource, PumpCloseSink, captureVars,
           ownerVars
      <4> QED
        BY <3>3, <4>1 DEF SummaryAccounts
    <3> QED
      BY <3>1, <3>2, <3>3
  <2> QED
    BY <2>1, <2>2, <2>3, <2>4 DEF CaptureInv
<1> QED
  BY <1>1, <1>2

LEMMA CaptureInvInit == CaptureInit => CaptureInv
<1> SUFFICES ASSUME CaptureInit PROVE CaptureInv
  OBVIOUS
<1>1. CaptureTypeOK
  <2>1. holders \in [Streams -> SUBSET (Writers \cup {Parent})]
    BY DEF CaptureInit
  <2>2. budget \in [observed : Nat, exceeded : BOOLEAN]
    BY DEF CaptureInit
  <2> QED
    BY <2>1, <2>2 DEF CaptureInit, CaptureTypeOK, PumpStates, OwnerStates, Operations
<1>2. BudgetAccounts
  BY SizesAssumption DEF CaptureInit, BudgetAccounts, Total
<1>3. \A s \in Streams : BytesAccounted(s)
  BY DEF CaptureInit, BytesAccounted, Closing, Draining
<1>4. SummaryAccounts
  BY DEF CaptureInit, SummaryAccounts, NoSummary
<1> QED
  BY <1>1, <1>2, <1>3, <1>4 DEF CaptureInv

\* The strengthened invariant holds from the beginning on.
THEOREM CaptureInvariant == CaptureSpec => []CaptureInv
  BY CaptureInvInit, CaptureInvInductive, PTL DEF CaptureSpec

\* capture_complete is claimed only for evidence that holds every byte ever
\* written, with no writer left (_build_summary).
THEOREM CompleteIsWhole == CaptureSpec => []CompleteMeansWhole
<1>1. CaptureInv => CompleteMeansWhole
  BY DEF CaptureInv, CompleteMeansWhole, SummaryAccounts, BytesAccounted
<1> QED
  BY <1>1, CaptureInvariant, PTL

\* A stream that is not reported as truncated lost no byte (_pump).
THEOREM TruncationIsTold == CaptureSpec => []NoSilentTruncation
<1>1. CaptureInv => NoSilentTruncation
  BY DEF CaptureInv, NoSilentTruncation, SummaryAccounts
<1> QED
  BY <1>1, CaptureInvariant, PTL

\* What a pump that missed the drain deadline still writes after the summary was under
\* way when the sinks were closed, was observed, and is of a stream reported as
\* truncated (finalize).
THEOREM LateWritesAreTold == CaptureSpec => []LateWriteIsTold
<1>1. CaptureInv => LateWriteIsTold
  <2> SUFFICES ASSUME CaptureInv, summary.built, NEW s \in Streams
               PROVE  /\ file[s] \in summary.size[s] .. summary.observed[s]
                      /\ file[s] # summary.size[s]
                            => summary.truncated[s] /\ ~summary.complete
    BY DEF LateWriteIsTold
  <2>1. /\ summary.size[s] \in Nat /\ summary.observed[s] \in Nat
        /\ file[s] \in Nat /\ InFlight(s) \in Nat
    BY SummarySizes
  <2> QED
    BY <2>1 DEF CaptureInv, SummaryAccounts
<1> QED
  BY <1>1, CaptureInvariant, PTL

-----------------------------------------------------------------------------
(***************************************************************************)
(* The runner: its inductive invariant.                                    *)
(***************************************************************************)

Monitoring == {"check_limit", "check_cancel", "check_exit", "check_deadline"}
Terminating == {"terminate", "grace_wait", "force", "force_wait"}
Finalizing == {"finalize", "finalizing", "reconcile"}
Early == {"open", "check_token", "launch", "start", "start_failing"} \cup Monitoring

\* What the capture has given back when it is done or an interrupt left it, and that
\* the budget counts what the pumps have observed.
CaptureEnds ==
    /\ lifecycle = "finalized" <=> summary.built
    /\ owner \in {"release", "done"} => lifecycle = "finalized"
    /\ lifecycle = "finalized" => owner \in {"release", "interrupted", "done"}
    /\ owner = "done" => ~reserved
    /\ owner \in {"interrupted", "done"} => \A s \in Streams : Parent \notin holders[s]
    /\ owner = "open_failed" => lifecycle = "new"
    /\ budget.observed = Total(observed)
    /\ budget.exceeded <=> budget.observed > Limit
    /\ summary.built => (summary.exceeded <=> Total(summary.observed) > Limit)

\* Where the capture is at each step of the runner.
Owned ==
    /\ rpc = "open" => lifecycle = "new" /\ owner = "idle"
    /\ rpc \in {"check_token", "launch", "start"} => lifecycle = "open" /\ owner = "idle"
    /\ rpc = "start_failing" => owner \in Finalizes \cup {"done"} /\ lifecycle # "open"
    /\ rpc \in Monitoring => lifecycle = "running" /\ owner = "idle"
    /\ rpc \in Terminating \cup {"contain"} =>
          \/ owner \in {"interrupted", "done"} /\ lifecycle # "open"
          \/ lifecycle = "running" /\ owner = "idle"
    /\ rpc = "finalize" => owner \in {"idle", "interrupted", "done"}
    /\ rpc = "finalizing" =>
          \/ owner \in Finalizes \cup {"done"}
          \/ owner = "interrupted" /\ lifecycle = "finalized"
    /\ rpc \in {"finalize", "finalizing"} /\ lifecycle = "open" => ~Launched
    /\ rpc \in {"reconcile", "construct"} => owner = "done"
    /\ rpc = "end" =>
          owner = "done" \/ (owner \in {"interrupted", "open_failed"} /\ outcome = "raised")
    /\ owner = "interrupted" => raising

\* Before the launch there is nobody; the root never leaves its group.
Born ==
    /\ rpc \in {"open", "check_token", "launch"} => ~Launched
    /\ rpc \in {"start", "start_failing", "contain"} \cup Monitoring \cup Terminating => Launched
    /\ proc[Root] # "escaped"
    /\ ~Launched => /\ \A p \in Writers : proc[p] = "unborn"
                    /\ \A s \in Streams : holders[s] \cap Writers = {} /\ produced[s] = 0

\* The facts f tell the cause.
Tells(f) ==
    /\ cause # None
    /\ f.state = IF cause = "output_limit" THEN "cancelled" ELSE cause
    /\ cause = "output_limit" => f.reason = "output_limit"
    /\ cause = "cancelled" => f.reason = token /\ token # None
    /\ cause \notin {"output_limit", "cancelled"} => f.reason = None
    /\ cause = "completed" => f.pid /\ ~f.attempted

\* Facts that no ProcessResult accepts.
Rejected(f) == f.state = "cancelled" /\ f.pid /\ ~f.attempted

Factual ==
    /\ rpc \in Early => cause = None /\ facts = NoFacts /\ ~raising /\ outcome = None
    /\ rpc \in Terminating \cup {"contain"} =>
          /\ facts = NoFacts /\ outcome = None
          /\ cause \in {"timed_out", "cancelled", "output_limit", None}
          /\ ~raising => cause # None
          /\ cause = "cancelled" => token # None
    /\ rpc = "contain" => raising
    /\ rpc \in Finalizing => outcome = None /\ (~raising => Tells(facts))
    /\ rpc \in {"reconcile", "construct"} => ~raising
    /\ rpc = "construct" => outcome = None
    /\ rpc = "end" => outcome # None
    /\ rpc = "construct" \/ outcome = "result" =>
          Rejected(facts) \/ (Tells(facts) /\ (summary.exceeded => facts.overflow))
    /\ outcome = "result" => ValidFacts(facts)

\* A root that is not known to be dead was sent the forced signal.
RootSignalled ==
    ~Interrupts /\ ~IOFaults =>
        (rpc \in Finalizing \cup {"force_wait", "construct", "end"} /\ Running(Root)
            => Root \in killed)

RunnerInv ==
    /\ RunnerTypeOK /\ CaptureInv /\ CaptureEnds
    /\ Owned /\ Born /\ Factual /\ ConfirmedTermination /\ RootSignalled

-----------------------------------------------------------------------------
(***************************************************************************)
(* The capture under its runner.                                           *)
(***************************************************************************)

\* Processes come and go at the pipes without touching the parent's ends.
HoldersChange ==
    /\ holders' \in [Streams -> SUBSET (Writers \cup {Parent})]
    /\ \A s \in Streams : /\ holders[s] = {} => holders'[s] = {}
                          /\ Parent \in holders[s] <=> Parent \in holders'[s]
    /\ UNCHANGED <<produced, taken, pumpVars, closeVars, ownerVars>>

LEMMA HoldersKeepCapture ==
    ASSUME CaptureInv, HoldersChange
    PROVE  CaptureInv'
<1>1. CaptureTypeOK' /\ BudgetAccounts'
  BY DEF CaptureInv, CaptureTypeOK, BudgetAccounts, Total, HoldersChange, pumpVars,
     closeVars, ownerVars
<1>2. ASSUME NEW s \in Streams PROVE BytesAccounted(s)'
  BY DEF CaptureInv, BytesAccounted, HoldersChange, pumpVars, closeVars, ownerVars
<1>3. SummaryAccounts'
  BY DEF CaptureInv, SummaryAccounts, InFlight, HoldersChange, pumpVars, closeVars,
     ownerVars
<1>4. QED
  BY <1>1, <1>2, <1>3 DEF CaptureInv

LEMMA ProcessesChangeHolders ==
    ASSUME RunnerTypeOK, NEW p \in Writers, NEW d \in Writers, Spawn(p, d) \/ Exit(p)
    PROVE  HoldersChange
<1>1. holders \in [Streams -> SUBSET (Writers \cup {Parent})]
  BY DEF RunnerTypeOK, CaptureTypeOK
<1>2. CASE Spawn(p, d)
  BY <1>1, <1>2, WritersAssumption DEF Spawn, HoldersChange
<1>3. CASE Exit(p)
  BY <1>1, <1>3, WritersAssumption DEF Exit, HoldersChange
<1>4. QED
  BY <1>2, <1>3

\* What a step of the runner is to its capture.
LEMMA RunnerStepsCapture ==
    ASSUME RunnerInv, [RunnerNext]_runnerVars
    PROVE  [CaptureNext]_captureVars \/ HoldersChange
<1>1. CASE RunnerStep
  <2>1. CASE OpenSession \/ StartCapture
    BY <2>1 DEF OpenSession, StartCapture, CaptureNext, OwnerCalls
  <2>2. CASE Launch
    <3>1. {Root} \in (SUBSET Writers) \ {{}} /\ ChildInherits({Root})
      BY <2>2, RunnerAssumption DEF Launch
    <3>2. QED
      BY <3>1 DEF CaptureNext, ChildStep
  <2>3. CASE FinalizeCapture
    <3>1. CASE FinalizeUnstarted
      <4>1. ~Launched
        BY <2>3, <3>1 DEF FinalizeCapture, FinalizeUnstarted, RunnerInv, Owned
      <4>2. ~ChildUsedPipes
        BY <4>1 DEF RunnerInv, Born, ChildUsedPipes
      <4>3. QED
        BY <3>1, <4>2 DEF CaptureNext, OwnerCalls
    <3>2. QED
      BY <2>3, <3>1 DEF FinalizeCapture, CaptureNext, OwnerCalls
  <2>4. CASE FinalizeCaptureStep
    BY <2>4 DEF FinalizeCaptureStep, CaptureNext
  <2>5. CASE \/ CancelledBeforeLaunch \/ TokenClear \/ LaunchFails \/ StartRaises
             \/ CheckLimit \/ CheckCancel \/ CheckExit \/ DeadlinePassed \/ MonitorSleeps
             \/ Contain \/ CaptureFinalized \/ Reconcile \/ ConstructResult
    BY <2>5 DEF CancelledBeforeLaunch, TokenClear, LaunchFails, StartRaises, CheckLimit,
       CheckCancel, CheckExit, DeadlinePassed, MonitorSleeps, Contain, CaptureFinalized,
       Reconcile, ConstructResult
  <2>6. CASE \/ AlreadyStopped \/ RequestSoftTermination \/ StoppedInGrace
             \/ GraceExpires \/ RequestForcedTermination \/ StoppedByForce \/ ForceWaitExpires
    BY <2>6 DEF AlreadyStopped, RequestSoftTermination, StoppedInGrace, GraceExpires,
       RequestForcedTermination, StoppedByForce, ForceWaitExpires, TerminationEnds
  <2>7. QED
    BY <1>1, <2>1, <2>2, <2>3, <2>4, <2>5, <2>6 DEF RunnerStep
<1>2. CASE ProcessStep
  BY <1>2, ProcessesChangeHolders
     DEF ProcessStep, RunnerInv, CaptureNext, ChildStep, LeaveGroup
<1>3. ASSUME NEW s \in Streams, PumpThread(s) PROVE CaptureNext
  BY <1>3 DEF PumpThread, CaptureNext
<1>4. CASE \/ Interrupted \/ InterruptedOutside
           \/ \E reason \in Reasons : RequestCancellation(reason)
  BY <1>4 DEF Interrupted, InterruptedOutside, RequestCancellation
<1>5. CASE StartInterrupted \/ FinalizationInterrupted
  BY <1>5 DEF StartInterrupted, FinalizationInterrupted, CaptureNext
<1>6. CASE RunnerFinished \/ UNCHANGED runnerVars
  BY <1>6 DEF RunnerFinished, runnerVars
<1>7. QED
  BY <1>1, <1>2, <1>3, <1>4, <1>5, <1>6 DEF RunnerNext

\* So the capture's invariant is kept by the runner too.
LEMMA CaptureKept ==
    ASSUME RunnerInv, [RunnerNext]_runnerVars
    PROVE  CaptureInv'
  BY RunnerStepsCapture, HoldersKeepCapture, CaptureInvInductive DEF RunnerInv

LEMMA PumpKeepsEnds ==
    ASSUME CaptureInv, CaptureEnds, NEW s \in Streams, PumpStep(s)
    PROVE  CaptureEnds'
<1> USE DEF CaptureEnds, pumpVars, closeVars, ownerVars, pipeVars
<1>1. CASE PumpAccount(s)
  <2>1. /\ observed' = [observed EXCEPT ![s] = @ + chunk[s]]
        /\ budget'.observed = budget.observed + chunk[s]
        /\ budget'.exceeded <=> budget.exceeded \/ budget.observed + chunk[s] > Limit
        /\ UNCHANGED <<ownerVars, pipeVars>>
    BY <1>1 DEF PumpAccount
  <2>2. /\ observed \in [Streams -> Nat] /\ chunk[s] \in Nat /\ budget.observed \in Nat
    BY DEF CaptureInv, CaptureTypeOK
  <2>3. Total(observed') = Total(observed) + chunk[s]
    BY <2>1, <2>2 DEF Total, Streams
  <2>4. budget'.exceeded <=> budget'.observed > Limit
    BY <2>1, <2>2, SizesAssumption
  <2>5. QED
    BY <2>1, <2>3, <2>4 DEF Total
<1>2. CASE ~PumpAccount(s)
  <2>1. UNCHANGED <<observed, budget, ownerVars, pipeVars>>
    BY <1>2 DEF PumpStep, PumpEnterRead, PumpReadData, PumpReadEof, PumpReadFails,
       PumpSkipsWrite, PumpBeginsWrite, PumpWrite, PumpWriteFails, ChunkDone,
       PumpCloseSource, PumpCloseSink
  <2>2. QED
    BY <2>1 DEF Total
<1>3. QED
  BY <1>1, <1>2

LEMMA CaptureKeepsEnds ==
    ASSUME CaptureInv, CaptureEnds, [CaptureNext]_captureVars \/ HoldersChange
    PROVE  CaptureEnds'
<1> USE DEF CaptureEnds, pumpVars, closeVars, ownerVars, pipeVars
<1>1. CASE OwnerCalls
  <2>1. UNCHANGED <<observed, budget, summary>> /\ ~summary.built /\ ~summary'.built
    BY <1>1 DEF OwnerCalls, Open, OpenFails, Start, StartFails, FinalizeRunning,
       FinalizeUnstarted
  <2>2. owner' \notin {"release", "interrupted", "done"} /\ lifecycle' # "finalized"
    BY <1>1 DEF OwnerCalls, Open, OpenFails, Start, StartFails, FinalizeRunning,
       FinalizeUnstarted
  <2>3. owner' = "open_failed" => lifecycle' = "new"
    BY <1>1 DEF OwnerCalls, Open, OpenFails, Start, StartFails, FinalizeRunning,
       FinalizeUnstarted
  <2>4. QED
    BY <2>1, <2>2, <2>3 DEF Total
<1>2. CASE FinalizeStep \/ FinalizeInterrupted
  <2>1. CASE Summarize
    <3>1. /\ summary'.built /\ summary'.observed = observed
          /\ summary'.exceeded = budget.exceeded
          /\ lifecycle' = "finalized" /\ owner' = "release"
          /\ UNCHANGED <<observed, budget>>
      BY <2>1 DEF Summarize
    <3>2. QED
      BY <3>1 DEF Total
  <2>2. CASE Release \/ FinalizeInterrupted
    <3>1. /\ UNCHANGED <<observed, budget, summary, lifecycle>>
          /\ \/ owner = "release" /\ owner' = "done" /\ reserved' = FALSE
             \/ owner' = "interrupted"
      BY <2>2 DEF Release, FinalizeInterrupted
    <3>2. \A s \in Streams : Parent \notin holders'[s]
      BY <2>2 DEF Release, FinalizeInterrupted
    <3>3. QED
      BY <3>1, <3>2 DEF Total
  <2>3. CASE PumpsJoined \/ DrainExpires \/ PostCloseJoin \/ CloseSinks
    <3>1. /\ UNCHANGED <<observed, budget, summary, lifecycle>>
          /\ owner \notin {"release", "interrupted", "done"}
          /\ owner' \notin {"release", "interrupted", "done", "open_failed"}
      BY <2>3 DEF PumpsJoined, DrainExpires, PostCloseJoin, CloseSinks
    <3>2. QED
      BY <3>1 DEF Total
  <2>4. QED
    BY <1>2, <2>1, <2>2, <2>3 DEF FinalizeStep
<1>3. CASE ChildStep
  <2>1. UNCHANGED <<observed, budget, ownerVars>>
    BY <1>3 DEF ChildStep, ChildInherits, WriterEmits, WriterCloses
  <2>2. owner \in {"interrupted", "done"} => \A s \in Streams : Parent \notin holders'[s]
    <3>1. CASE \E W \in (SUBSET Writers) \ {{}} : ChildInherits(W)
      BY <3>1 DEF ChildInherits
    <3>2. ASSUME NEW w \in Writers, NEW t \in Streams, WriterEmits(w, t) \/ WriterCloses(w, t)
          PROVE  \A s \in Streams : holders'[s] \subseteq holders[s]
      BY <3>2 DEF WriterEmits, WriterCloses, CaptureInv, CaptureTypeOK
    <3>3. QED
      BY <1>3, <3>1, <3>2 DEF ChildStep
  <2>3. QED
    BY <2>1, <2>2 DEF Total
<1>4. CASE CaptureFinished \/ UNCHANGED captureVars
  BY <1>4 DEF CaptureFinished, captureVars, Total
<1>5. CASE HoldersChange
  BY <1>5 DEF HoldersChange, Total
<1>6. QED
  BY <1>1, <1>2, <1>3, <1>4, <1>5, PumpKeepsEnds DEF CaptureNext

-----------------------------------------------------------------------------
(***************************************************************************)
(* What a process can do to the rest, whoever it is.                       *)
(***************************************************************************)

\* The root is born once, and nobody comes back.
LEMMA ProcessesKeep ==
    ASSUME RunnerInv, ProcessStep
    PROVE  /\ UNCHANGED <<killed, token, runVars, lifecycle, owner, summary>>
           /\ proc' \in [Writers -> {"unborn", "alive", "escaped", "dead"}]
           /\ Launched' <=> Launched
           /\ Born'
           /\ Running(Root)' => Running(Root)
           /\ Stopped => Stopped'
<1> USE RunnerAssumption DEF Launched, Running, InGroup
<1>1. /\ proc \in [Writers -> {"unborn", "alive", "escaped", "dead"}]
      /\ holders \in [Streams -> SUBSET (Writers \cup {Parent})]
      /\ produced \in [Streams -> Nat]
  BY DEF RunnerInv, RunnerTypeOK, CaptureTypeOK
<1>2. ASSUME NEW p \in Writers, NEW d \in Writers, Spawn(p, d)
      PROVE  /\ UNCHANGED <<killed, token, runVars, lifecycle, owner, summary, produced>>
             /\ proc' = [proc EXCEPT ![d] = proc[p]] /\ d # Root /\ Launched
             /\ Stopped => Stopped'
  <2>1. /\ UNCHANGED <<killed, token, runVars, lifecycle, owner, summary, produced>>
        /\ proc' = [proc EXCEPT ![d] = proc[p]] /\ proc[d] = "unborn"
        /\ proc[p] \in {"alive", "escaped"}
    BY <1>2 DEF Spawn, ownerVars
  <2>2. Launched /\ d # Root
    BY <2>1 DEF RunnerInv, Born
  <2>3. QED
    BY <1>1, <2>1, <2>2 DEF Stopped
<1>3. ASSUME NEW d \in Writers, LeaveGroup(d)
      PROVE  /\ UNCHANGED <<killed, token, runVars, captureVars>>
             /\ proc' = [proc EXCEPT ![d] = "escaped"] /\ d # Root /\ Launched
             /\ Stopped => Stopped'
  <2>1. /\ UNCHANGED <<killed, token, runVars, captureVars>>
        /\ proc' = [proc EXCEPT ![d] = "escaped"] /\ proc[d] = "alive" /\ d # Root
    BY <1>3 DEF LeaveGroup
  <2>2. Launched
    BY <2>1 DEF RunnerInv, Born
  <2>3. QED
    BY <1>1, <2>1, <2>2 DEF Stopped
<1>4. ASSUME NEW p \in Writers, Exit(p)
      PROVE  /\ UNCHANGED <<killed, token, runVars, lifecycle, owner, summary, produced>>
             /\ proc' = [proc EXCEPT ![p] = "dead"] /\ Launched
             /\ Stopped => Stopped'
  <2>1. /\ UNCHANGED <<killed, token, runVars, lifecycle, owner, summary, produced>>
        /\ proc' = [proc EXCEPT ![p] = "dead"] /\ proc[p] \in {"alive", "escaped"}
    BY <1>4 DEF Exit, ownerVars
  <2>2. Launched
    BY <2>1 DEF RunnerInv, Born
  <2>3. QED
    BY <1>1, <2>1, <2>2 DEF Stopped
<1>5. ASSUME NEW p \in Writers, NEW s \in Streams, WriterEmits(p, s) \/ WriterCloses(p, s),
             UNCHANGED <<procVars, token, runVars>>
      PROVE  UNCHANGED <<procVars, token, runVars, lifecycle, owner, summary>> /\ Launched
  <2>1. p \in holders[s]
    BY <1>5 DEF WriterEmits, WriterCloses
  <2>2. Launched
    BY <1>1, <2>1 DEF RunnerInv, Born
  <2>3. QED
    BY <1>5, <2>2 DEF WriterEmits, WriterCloses, ownerVars
<1>6. CASE \E p, d \in Writers : Spawn(p, d)
  BY <1>1, <1>2, <1>6 DEF RunnerInv, Born, runVars
<1>7. CASE \E d \in Writers : LeaveGroup(d)
  BY <1>1, <1>3, <1>7 DEF RunnerInv, Born, runVars, captureVars, ownerVars
<1>8. CASE \E p \in Writers : Exit(p)
  BY <1>1, <1>4, <1>8 DEF RunnerInv, Born, runVars
<1>9. CASE /\ \E p \in Writers, s \in Streams : WriterEmits(p, s) \/ WriterCloses(p, s)
           /\ UNCHANGED <<procVars, token, runVars>>
  BY <1>1, <1>5, <1>9 DEF RunnerInv, Born, runVars, procVars, Stopped
<1>10. QED
  BY <1>6, <1>7, <1>8, <1>9 DEF ProcessStep

LEMMA PumpsKeep ==
    ASSUME NEW s \in Streams, PumpThread(s)
    PROVE  UNCHANGED <<procVars, token, runVars, lifecycle, owner, summary, holders, produced>>
  BY DEF PumpThread, PumpStep, PumpEnterRead, PumpReadData, PumpReadEof, PumpReadFails,
     PumpAccount, PumpSkipsWrite, PumpBeginsWrite, PumpWrite, PumpWriteFails, ChunkDone,
     PumpCloseSource, PumpCloseSink, ownerVars, pipeVars

-----------------------------------------------------------------------------
(***************************************************************************)
(* The runner's own steps, by what they do to the process call.            *)
(***************************************************************************)

\* Steps that leave capture and processes alone.
Decides ==
    \/ CancelledBeforeLaunch \/ TokenClear \/ LaunchFails \/ StartRaises
    \/ CheckLimit \/ CheckCancel \/ CheckExit \/ DeadlinePassed \/ MonitorSleeps
    \/ Contain \/ CaptureFinalized \/ Reconcile \/ ConstructResult
    \/ Interrupted \/ InterruptedOutside
Terminates ==
    \/ AlreadyStopped \/ RequestSoftTermination \/ StoppedInGrace \/ GraceExpires
    \/ RequestForcedTermination \/ StoppedByForce \/ ForceWaitExpires
Captures == OpenSession \/ Launch \/ StartCapture \/ FinalizeCapture \/ FinalizeCaptureStep
Abandons == StartInterrupted \/ FinalizationInterrupted

LEMMA RunnerStepsAre ==
    RunnerStep \/ Interrupted \/ StartInterrupted \/ InterruptedOutside \/ FinalizationInterrupted
        <=> Decides \/ Terminates \/ Captures \/ Abandons
  BY DEF RunnerStep, Decides, Terminates, Captures, Abandons

LEMMA DecidesFrame == ASSUME Decides PROVE UNCHANGED <<captureVars, procVars, token>>
  BY DEF Decides, CancelledBeforeLaunch, TokenClear, LaunchFails, StartRaises, CheckLimit,
     CheckCancel, CheckExit, DeadlinePassed, MonitorSleeps, Contain, CaptureFinalized,
     Reconcile, ConstructResult, Interrupted, InterruptedOutside

LEMMA TerminatesFrame == ASSUME Terminates PROVE UNCHANGED <<captureVars, proc, token>>
  BY DEF Terminates, AlreadyStopped, RequestSoftTermination, StoppedInGrace, GraceExpires,
     RequestForcedTermination, StoppedByForce, ForceWaitExpires, TerminationEnds, procVars

\* What the steps of the capture do to the state the runner looks at.
LEMMA CapturesFrame ==
    ASSUME RunnerInv, Captures
    PROVE  /\ UNCHANGED <<killed, token, cause, facts, raising>>
           /\ \/ /\ rpc = "open" /\ rpc' = "check_token"
                 /\ lifecycle' = "open" /\ UNCHANGED <<proc, outcome, owner>>
              \/ /\ rpc = "open" /\ rpc' = "end" /\ outcome' = "raised"
                 /\ owner' = "open_failed" /\ UNCHANGED <<proc, lifecycle>>
              \/ /\ rpc = "launch" /\ rpc' = "start"
                 /\ proc' = [proc EXCEPT ![Root] = "alive"]
                 /\ UNCHANGED <<outcome, lifecycle, owner>>
              \/ /\ rpc = "start" /\ rpc' = "check_limit"
                 /\ lifecycle' = "running" /\ UNCHANGED <<proc, outcome, owner>>
              \/ /\ rpc = "start" /\ rpc' = "start_failing"
                 /\ lifecycle' = "running" /\ owner' = "post_close_join"
                 /\ UNCHANGED <<proc, outcome>>
              \/ /\ rpc = "finalize" /\ rpc' = "finalizing"
                 /\ \/ owner' \in Finalizes
                    \/ /\ owner' = owner /\ owner \in {"interrupted", "done"}
                       /\ lifecycle = "finalized"
                 /\ UNCHANGED <<proc, outcome, lifecycle>>
              \/ /\ rpc \in {"start_failing", "finalizing"}
                 /\ owner' \in Finalizes \cup {"done"} /\ lifecycle' \in {lifecycle, "finalized"}
                 /\ UNCHANGED <<proc, outcome, rpc>>
           /\ rpc # "launch" => \A s \in Streams : /\ holders'[s] \cap Writers \subseteq holders[s]
                                                   /\ produced'[s] = produced[s]
<1> USE DEF Goto, ownerVars, pipeVars, procVars
<1>1. CASE OpenSession
  <2>1. \A s \in Streams : /\ holders'[s] \cap Writers \subseteq holders[s]
                            /\ produced'[s] = produced[s]
    BY <1>1, WritersAssumption DEF OpenSession, Open, OpenFails, All
  <2>2. CASE Open /\ Goto("check_token")
    BY <1>1, <2>1, <2>2 DEF OpenSession, Open
  <2>3. CASE OpenFails
    BY <1>1, <2>1, <2>3 DEF OpenSession, Open, OpenFails
  <2>4. QED
    BY <1>1, <2>2, <2>3 DEF OpenSession
<1>2. CASE Launch
  BY <1>2 DEF Launch, ChildInherits
<1>3. CASE StartCapture
  BY <1>3 DEF StartCapture, Start, StartFails
<1>4. CASE FinalizeCapture
  <2>1. owner \in {"idle", "interrupted", "done"}
    BY <1>4 DEF FinalizeCapture, RunnerInv, Owned
  <2>2. CASE FinalizeRunning \/ FinalizeUnstarted
    BY <1>4, <2>2 DEF FinalizeCapture, FinalizeRunning, FinalizeUnstarted, Finalizes
  <2>3. CASE lifecycle = "finalized" /\ UNCHANGED captureVars
    BY <1>4, <2>1, <2>3 DEF FinalizeCapture, captureVars, RunnerInv, CaptureEnds
  <2>4. QED
    BY <1>4, <2>2, <2>3 DEF FinalizeCapture
<1>5. CASE FinalizeCaptureStep
  <2>1. UNCHANGED <<procVars, token, runVars>>
    BY <1>5 DEF FinalizeCaptureStep
  <2>2. /\ owner \in Finalizes /\ owner' \in Finalizes \cup {"done"}
        /\ lifecycle' \in {lifecycle, "finalized"}
        /\ \A s \in Streams : /\ holders'[s] \cap Writers \subseteq holders[s]
                              /\ produced'[s] = produced[s]
    BY <1>5 DEF FinalizeCaptureStep, FinalizeStep, PumpsJoined, DrainExpires,
       PostCloseJoin, CloseSinks, Summarize, Release, Finalizes
  <2>3. rpc \in {"start_failing", "finalizing"}
    BY <2>2 DEF RunnerInv, RunnerTypeOK, RunnerStates, Owned, Monitoring, Terminating,
       Finalizes
  <2>4. QED
    BY <2>1, <2>2, <2>3 DEF runVars
<1>6. QED
  BY <1>1, <1>2, <1>3, <1>4, <1>5 DEF Captures

-----------------------------------------------------------------------------
(***************************************************************************)
(* Deciding: the capture and the processes stay as they are.               *)
(***************************************************************************)

\* The state Decides leaves alone.
LEMMA DecidesKeepsBorn ==
    ASSUME RunnerInv, Decides
    PROVE  Born' /\ (Stopped' <=> Stopped) /\ (Running(Root)' <=> Running(Root))
<1>1. UNCHANGED <<captureVars, procVars, token>>
  BY DecidesFrame
<1>2. /\ rpc' \in {"open", "check_token", "launch"} => ~Launched
      /\ rpc' \in {"start", "start_failing", "contain"} \cup Monitoring \cup Terminating => Launched
  BY DEF Decides, RunnerInv, Born, Goto, TerminateFor, Monitoring, Terminating,
     CancelledBeforeLaunch, TokenClear, LaunchFails, StartRaises, CheckLimit,
     CheckCancel, CheckExit, DeadlinePassed, MonitorSleeps, Contain, CaptureFinalized,
     Reconcile, ConstructResult, Interrupted, InterruptedOutside
<1>3. QED
  BY <1>1, <1>2 DEF RunnerInv, Born, Launched, Stopped, Running, InGroup, captureVars,
     pipeVars, procVars

LEMMA DecidesKeepsOwned ==
    ASSUME RunnerInv, Decides
    PROVE  Owned'
<1>1. UNCHANGED <<lifecycle, owner, proc>>
  BY DecidesFrame DEF captureVars, ownerVars, procVars
<1>2. CASE CaptureFinalized \/ Reconcile \/ ConstructResult
  BY <1>1, <1>2 DEF RunnerInv, Owned, CaptureFinalized, Reconcile, ConstructResult, Goto,
     Monitoring, Terminating
<1>3. CASE CancelledBeforeLaunch \/ TokenClear \/ LaunchFails \/ StartRaises \/ Contain
  BY <1>1, <1>3 DEF RunnerInv, Owned, Born, CancelledBeforeLaunch, TokenClear, LaunchFails,
     StartRaises, Contain, Goto, Monitoring, Terminating, Launched
<1>4. CASE CheckLimit \/ CheckCancel \/ CheckExit \/ DeadlinePassed \/ MonitorSleeps
  BY <1>1, <1>4 DEF RunnerInv, Owned, Born, CheckLimit, CheckCancel, CheckExit,
     DeadlinePassed, MonitorSleeps, TerminateFor, Goto, Monitoring, Terminating, Launched
<1>5. CASE Interrupted \/ InterruptedOutside
  BY <1>1, <1>5 DEF RunnerInv, Owned, Born, Interrupted, InterruptedOutside, Monitoring,
     Terminating, Launched
<1>6. QED
  BY <1>2, <1>3, <1>4, <1>5 DEF Decides

LEMMA DecidesKeepsFacts ==
    ASSUME RunnerInv, Decides
    PROVE  Factual' /\ facts' \in Facts /\ cause' \in Causes \cup {None}
           /\ (facts'.succeeded => facts.succeeded)
<1> USE DEF RunnerInv, RunnerTypeOK, Factual, Facts, Causes, None, Finalizing, Early,
            Monitoring, Terminating
<1>1. UNCHANGED <<token, summary>> /\ token \in Reasons \cup {None}
  BY DecidesFrame DEF captureVars, ownerVars
<1>2. CASE CancelledBeforeLaunch
  BY <1>1, <1>2 DEF CancelledBeforeLaunch, NoFacts, Tells
<1>3. CASE LaunchFails
  BY <1>1, <1>3 DEF LaunchFails, NoFacts, Tells
<1>4. CASE TokenClear \/ MonitorSleeps
  BY <1>1, <1>4 DEF TokenClear, MonitorSleeps, Goto
<1>5. CASE StartRaises
  BY <1>1, <1>5 DEF StartRaises, NoFacts
<1>6. CASE CheckLimit \/ CheckCancel \/ DeadlinePassed
  BY <1>1, <1>6 DEF CheckLimit, CheckCancel, DeadlinePassed, TerminateFor, Goto
<1>7. CASE CheckExit
  <2>1. CASE Running(Root)
    BY <1>1, <1>7, <2>1 DEF CheckExit, Goto
  <2>2. CASE ~Running(Root)
    <3>1. /\ facts' = [NoFacts EXCEPT !.state = "completed", !.pid = TRUE, !.exit = TRUE]
          /\ cause' = "completed" /\ rpc' = "finalize" /\ UNCHANGED <<raising, outcome>>
          /\ rpc = "check_exit"
      BY <1>7, <2>2 DEF CheckExit
    <3>2. NoFacts \in Facts /\ NoFacts.reason = None /\ ~NoFacts.attempted /\ ~NoFacts.succeeded
      BY DEF NoFacts
    <3>3. /\ facts' \in Facts /\ facts'.state = "completed" /\ facts'.reason = None
          /\ facts'.pid /\ ~facts'.attempted /\ ~facts'.succeeded
      BY <3>1, <3>2
    <3>4. QED
      BY <1>1, <3>1, <3>3 DEF Tells
  <2>3. QED
    BY <2>1, <2>2
<1>8. CASE Interrupted \/ InterruptedOutside
  BY <1>1, <1>8 DEF Interrupted, InterruptedOutside
<1>9. CASE Contain
  BY <1>1, <1>9 DEF Contain, Goto
<1>10. CASE CaptureFinalized
  BY <1>1, <1>10 DEF CaptureFinalized, Goto, Tells
<1>11. CASE Reconcile
  <2>1. Tells(facts) /\ ~raising /\ cause \in Causes
    BY <1>11 DEF Reconcile, Tells
  <2>2. facts' = Reconciled(facts) /\ rpc' = "construct"
        /\ UNCHANGED <<cause, raising, outcome, token, summary>>
    BY <1>1, <1>11 DEF Reconcile
  <2>3. facts' \in Facts /\ facts'.succeeded = facts.succeeded
    BY <2>2 DEF Reconciled
  <2>4. Rejected(facts)' \/ (Tells(facts)' /\ (summary'.exceeded => facts'.overflow))
    <3>1. CASE ~summary.exceeded
      BY <2>1, <2>2, <3>1 DEF Reconciled, Tells
    <3>2. CASE summary.exceeded /\ facts.state # "completed"
      <4>1. facts' = [facts EXCEPT !.overflow = TRUE]
        BY <2>2, <3>2 DEF Reconciled
      <4>2. Tells(facts)' /\ facts'.overflow
        BY <2>1, <2>2, <4>1 DEF Tells
      <4>3. QED
        BY <4>2
    <3>3. CASE summary.exceeded /\ facts.state = "completed"
      <4>1. facts' = [facts EXCEPT !.overflow = TRUE, !.state = "cancelled",
                                   !.reason = "output_limit"]
        BY <2>2, <3>3 DEF Reconciled
      <4>2. facts.pid /\ ~facts.attempted
        BY <2>1, <3>3 DEF Tells
      <4>3. QED
        BY <4>1, <4>2 DEF Rejected
    <3>4. QED
      BY <3>1, <3>2, <3>3
  <2>5. rpc = "reconcile" /\ outcome = None
    BY <1>11 DEF Reconcile
  <2>6. QED
    BY <1>1, <2>1, <2>2, <2>3, <2>4, <2>5
<1>12. CASE ConstructResult
  BY <1>1, <1>12 DEF ConstructResult, Tells, Rejected, ValidFacts
<1>13. QED
  BY <1>2, <1>3, <1>4, <1>5, <1>6, <1>7, <1>8, <1>9, <1>10, <1>11, <1>12 DEF Decides

LEMMA DecidesKeepsRest ==
    ASSUME RunnerInv, Decides
    PROVE  /\ RootSignalled' /\ ConfirmedTermination'
           /\ rpc' \in RunnerStates /\ raising' \in BOOLEAN
           /\ outcome' \in {None, "result", "raised"}
<1>1. UNCHANGED killed /\ (Running(Root)' <=> Running(Root)) /\ (Stopped' <=> Stopped)
  BY DecidesFrame, DecidesKeepsBorn DEF procVars
<1>2. ConfirmedTermination'
  BY <1>1, DecidesKeepsFacts DEF RunnerInv, ConfirmedTermination, Stopped
<1>3. rpc' \in RunnerStates /\ raising' \in BOOLEAN /\ outcome' \in {None, "result", "raised"}
  BY DEF Decides, RunnerInv, RunnerTypeOK, RunnerStates, Goto, TerminateFor,
     CancelledBeforeLaunch, TokenClear, LaunchFails, StartRaises, CheckLimit,
     CheckCancel, CheckExit, DeadlinePassed, MonitorSleeps, Contain, CaptureFinalized,
     Reconcile, ConstructResult, Interrupted, InterruptedOutside
<1>4. RootSignalled'
  <2>1. CASE CancelledBeforeLaunch \/ LaunchFails
    BY <1>1, <2>1 DEF RunnerInv, Born, Launched, Running, CancelledBeforeLaunch,
       LaunchFails, RootSignalled
  <2>2. CASE Interrupted \/ InterruptedOutside
    BY <2>2 DEF Interrupted, InterruptedOutside, RootSignalled
  <2>3. CASE CheckExit \/ Contain
    BY <1>1, <2>3 DEF CheckExit, Contain, Goto, RootSignalled, Finalizing
  <2>4. CASE CaptureFinalized \/ Reconcile \/ ConstructResult
    BY <1>1, <2>4 DEF RunnerInv, CaptureFinalized, Reconcile, ConstructResult, Goto,
       RootSignalled, Finalizing
  <2>5. CASE TokenClear \/ StartRaises \/ CheckLimit \/ CheckCancel \/ DeadlinePassed
             \/ MonitorSleeps
    BY <2>5 DEF TokenClear, StartRaises, CheckLimit, CheckCancel, DeadlinePassed,
       MonitorSleeps, TerminateFor, Goto, RootSignalled, Finalizing
  <2>6. QED
    BY <2>1, <2>2, <2>3, <2>4, <2>5 DEF Decides
<1>5. QED
  BY <1>2, <1>3, <1>4

-----------------------------------------------------------------------------
(***************************************************************************)
(* Terminating: the monitor's cause becomes facts when the wait is over.   *)
(***************************************************************************)

\* Waits move on, and the steps that end termination say so.
LEMMA TerminationMoves ==
    ASSUME RunnerInv, Terminates
    PROVE  /\ rpc \in Terminating
           /\ UNCHANGED <<cause, raising, outcome>>
           /\ \/ rpc' \in Terminating /\ facts' = facts
                 /\ (rpc' = "force_wait" => killed' = killed \cup ForceTargets \/ IOFaults)
              \/ /\ rpc' = "finalize" /\ UNCHANGED killed
                 /\ rpc = "force_wait" \/ Stopped
                 /\ \E attempted, succeeded \in BOOLEAN :
                       /\ succeeded => Stopped
                       /\ facts' = IF raising THEN facts ELSE FactsOf(attempted, succeeded)
<1> USE DEF Terminating
<1>1. CASE RequestSoftTermination \/ GraceExpires \/ RequestForcedTermination
  BY <1>1 DEF RequestSoftTermination, GraceExpires, RequestForcedTermination, Goto
<1>2. CASE AlreadyStopped \/ StoppedInGrace \/ StoppedByForce \/ ForceWaitExpires
  BY <1>2 DEF AlreadyStopped, StoppedInGrace, StoppedByForce, ForceWaitExpires,
     TerminationEnds, procVars
<1>3. QED
  BY <1>1, <1>2 DEF Terminates

LEMMA FactsOfTells ==
    ASSUME RunnerInv, rpc \in Terminating, ~raising,
           NEW a \in BOOLEAN, NEW b \in BOOLEAN
    PROVE  FactsOf(a, b) \in Facts /\ Tells(FactsOf(a, b)) /\ FactsOf(a, b).succeeded = b
<1>1. /\ cause \in {"timed_out", "cancelled", "output_limit"}
      /\ cause = "cancelled" => token # None
      /\ token \in Reasons \cup {None}
  BY DEF RunnerInv, Factual, RunnerTypeOK, None
<1>2. QED
  BY <1>1 DEF FactsOf, Facts, Tells, None

LEMMA TerminatesKeeps ==
    ASSUME RunnerInv, Terminates
    PROVE  /\ Born' /\ Owned' /\ Factual' /\ ConfirmedTermination' /\ RootSignalled'
           /\ facts' \in Facts /\ rpc' \in RunnerStates /\ killed' \in SUBSET Writers
           /\ UNCHANGED <<cause, raising, outcome>>
<1>1. /\ UNCHANGED <<captureVars, proc, token, cause, raising, outcome>>
      /\ rpc \in Terminating
  BY TerminatesFrame, TerminationMoves
<1>2. (Running(Root)' <=> Running(Root)) /\ (Stopped' <=> Stopped)
  BY <1>1 DEF Running, Stopped, InGroup
<1>3. killed' \in SUBSET Writers
  BY RunnerAssumption DEF Terminates, RunnerInv, RunnerTypeOK, AlreadyStopped,
     RequestSoftTermination, StoppedInGrace, GraceExpires, RequestForcedTermination,
     StoppedByForce, ForceWaitExpires, TerminationEnds, ForceTargets, procVars
<1>4. CASE rpc' \in Terminating /\ facts' = facts
           /\ (rpc' = "force_wait" => killed' = killed \cup ForceTargets \/ IOFaults)
  <2>1. Born'
    BY <1>1, <1>4 DEF RunnerInv, Born, Terminating, Monitoring, Launched, captureVars,
       pipeVars
  <2>2. Owned'
    BY <1>1, <1>4 DEF RunnerInv, Owned, Terminating, Monitoring, Finalizing, Launched,
       captureVars, ownerVars
  <2>3. Factual'
    BY <1>1, <1>4 DEF RunnerInv, Factual, Terminating, Monitoring, Finalizing, Early,
       captureVars, ownerVars, None
  <2>4. ConfirmedTermination'
    BY <1>1, <1>2, <1>4 DEF RunnerInv, ConfirmedTermination, Stopped
  <2>5. Running(Root) => Root \in ForceTargets
    BY RunnerAssumption DEF ForceTargets, Running, InGroup, RunnerInv, Born
  <2>6. RootSignalled'
    BY <1>1, <1>2, <1>4, <2>5 DEF RootSignalled, Terminating, Finalizing
  <2>7. QED
    BY <1>1, <1>3, <1>4, <2>1, <2>2, <2>3, <2>4, <2>6
       DEF RunnerInv, RunnerTypeOK, RunnerStates, Terminating
<1>5. CASE /\ rpc' = "finalize" /\ UNCHANGED killed
           /\ rpc = "force_wait" \/ Stopped
           /\ \E attempted, succeeded \in BOOLEAN :
                 /\ succeeded => Stopped
                 /\ facts' = IF raising THEN facts ELSE FactsOf(attempted, succeeded)
  <2>1. PICK a \in BOOLEAN, b \in BOOLEAN :
           /\ b => Stopped
           /\ facts' = IF raising THEN facts ELSE FactsOf(a, b)
    BY <1>5
  <2>2. /\ facts' \in Facts /\ (facts'.succeeded => facts.succeeded \/ Stopped)
        /\ (~raising => Tells(facts'))
    BY <1>1, <2>1, FactsOfTells DEF RunnerInv, RunnerTypeOK
  <2>3. Born'
    BY <1>1, <1>5 DEF RunnerInv, Born, Terminating, Monitoring, Launched, captureVars,
       pipeVars
  <2>4. Owned'
    <3>1. Launched
      BY <1>1 DEF RunnerInv, Born
    <3>2. QED
      BY <1>1, <1>5, <3>1 DEF RunnerInv, Owned, Terminating, Monitoring, Finalizing,
         Launched, captureVars, ownerVars
  <2>5. Factual'
    <3>1. ~raising => Tells(facts)'
      BY <1>1, <2>2 DEF Tells
    <3>2. outcome = None
      BY <1>1 DEF RunnerInv, Factual
    <3>3. QED
      BY <1>1, <1>5, <3>1, <3>2 DEF Factual, Terminating, Finalizing, Early, Monitoring,
         None
  <2>6. ConfirmedTermination'
    BY <1>2, <2>2 DEF RunnerInv, ConfirmedTermination, Stopped
  <2>7. RootSignalled'
    BY <1>1, <1>2, <1>5 DEF RunnerInv, RootSignalled, Stopped
  <2>8. QED
    BY <1>1, <1>3, <1>5, <2>2, <2>3, <2>4, <2>5, <2>6, <2>7 DEF RunnerStates
<1>6. QED
  BY <1>4, <1>5, TerminationMoves

-----------------------------------------------------------------------------
(***************************************************************************)
(* The invariant: the steps of the capture, the processes, the pumps and   *)
(* the thread that cancels.                                                *)
(***************************************************************************)

LEMMA CapturesKeeps ==
    ASSUME RunnerInv, Captures
    PROVE  /\ Born' /\ Owned' /\ Factual' /\ ConfirmedTermination' /\ RootSignalled'
           /\ UNCHANGED <<killed, token, cause, facts, raising>>
           /\ proc' \in [Writers -> {"unborn", "alive", "escaped", "dead"}]
           /\ rpc' \in RunnerStates /\ outcome' \in {None, "result", "raised"}
<1> USE DEF Monitoring, Terminating, Finalizing, Early, None
<1>1. /\ proc \in [Writers -> {"unborn", "alive", "escaped", "dead"}]
      /\ rpc \in RunnerStates /\ outcome \in {None, "result", "raised"}
  BY DEF RunnerInv, RunnerTypeOK
<1>2. Born'
  <2>1. CASE rpc = "launch"
    <3>1. proc' = [proc EXCEPT ![Root] = "alive"] /\ rpc' = "start"
      BY <2>1, CapturesFrame
    <3>2. QED
      BY <1>1, <3>1, RunnerAssumption DEF Born, Launched
  <2>2. CASE rpc # "launch"
    <3>1. /\ UNCHANGED proc
          /\ \A s \in Streams : /\ holders'[s] \cap Writers \subseteq holders[s]
                                /\ produced'[s] = produced[s]
      BY <2>2, CapturesFrame
    <3>2. /\ rpc' \in {"open", "check_token", "launch"} => rpc = "open"
          /\ rpc' \in {"start", "start_failing", "contain"} \cup Monitoring \cup Terminating
                => rpc \in {"start", "start_failing"}
      BY <2>2, CapturesFrame
    <3>3. QED
      BY <3>1, <3>2 DEF RunnerInv, Born, Launched
  <2>3. QED
    BY <2>1, <2>2
<1>3. Owned'
  <2>1. rpc' \in {"check_token", "start", "check_limit", "start_failing", "finalizing", "end"}
    BY CapturesFrame
  <2>2. CASE rpc \in {"open", "launch", "start"}
    BY <2>1, <2>2, CapturesFrame DEF RunnerInv, Owned, Finalizes
  <2>3. CASE rpc \in {"finalize", "start_failing", "finalizing"}
    BY <2>1, <2>3, CapturesFrame DEF RunnerInv, Owned, Launched, Finalizes
  <2>4. QED
    BY <2>2, <2>3, CapturesFrame
<1>4. Factual'
  <2>1. UNCHANGED <<token, cause, facts, raising>>
    BY CapturesFrame
  <2>2. \/ rpc \in Early /\ rpc' \in {"check_token", "start", "check_limit", "start_failing"}
           /\ outcome' = outcome
        \/ rpc = "open" /\ rpc' = "end" /\ outcome' = "raised"
        \/ rpc \in {"finalize", "finalizing"} /\ rpc' = "finalizing" /\ outcome' = outcome
    BY CapturesFrame
  <2>3. rpc \in {"finalize", "finalizing"} => (~raising => Tells(facts)) /\ outcome = None
    BY DEF RunnerInv, Factual
  <2>4. Tells(facts) => Tells(facts)'
    BY <2>1 DEF Tells
  <2>5. rpc \in Early => cause = None /\ facts = NoFacts /\ ~raising /\ outcome = None
    BY DEF RunnerInv, Factual
  <2>6. QED
    BY <2>1, <2>2, <2>3, <2>4, <2>5 DEF Factual
<1>5. ConfirmedTermination'
  <2>1. CASE rpc = "launch"
    <3>1. ~facts.succeeded
      BY <2>1 DEF RunnerInv, Factual, NoFacts
    <3>2. QED
      BY <3>1, CapturesFrame DEF ConfirmedTermination
  <2>2. CASE rpc # "launch"
    <3>1. UNCHANGED <<proc, facts>>
      BY <2>2, CapturesFrame
    <3>2. QED
      BY <3>1 DEF RunnerInv, ConfirmedTermination, Running, InGroup
  <2>3. QED
    BY <2>1, <2>2
<1>6. RootSignalled'
  <2>1. CASE rpc = "open"
    <3>1. ~Running(Root) /\ UNCHANGED proc
      BY <2>1, CapturesFrame DEF RunnerInv, Born, Launched, Running
    <3>2. QED
      BY <3>1 DEF RootSignalled, Running
  <2>2. CASE rpc \in {"launch", "start"}
    BY <2>2, CapturesFrame DEF RootSignalled
  <2>3. CASE rpc \in {"finalize", "start_failing", "finalizing"}
    BY <2>3, CapturesFrame DEF RunnerInv, RootSignalled, Running
  <2>4. QED
    BY <2>1, <2>2, <2>3, CapturesFrame
<1>7. QED
  BY <1>1, <1>2, <1>3, <1>4, <1>5, <1>6, CapturesFrame DEF RunnerStates

\* An interrupt that leaves the finalization leaves it to the caller or to another.
LEMMA AbandonsKeeps ==
    ASSUME RunnerInv, Abandons
    PROVE  /\ Born' /\ Owned' /\ Factual' /\ ConfirmedTermination' /\ RootSignalled'
           /\ UNCHANGED <<procVars, token, cause, facts>>
           /\ raising' = TRUE /\ rpc' \in RunnerStates
           /\ outcome = None /\ outcome' \in {None, "raised"}
<1> USE DEF Monitoring, Terminating, Finalizing, Early, None
<1>1. /\ UNCHANGED <<procVars, token, cause, facts, lifecycle, summary, produced>>
      /\ raising' = TRUE /\ owner' = "interrupted" /\ Interrupts
      /\ \A s \in Streams : holders'[s] \subseteq holders[s]
  BY DEF Abandons, StartInterrupted, FinalizationInterrupted, FinalizeInterrupted
<1>2. \/ rpc = "start_failing" /\ rpc' = "contain" /\ outcome' = outcome
      \/ rpc = "finalizing" /\ rpc' = "finalize" /\ outcome' = outcome
      \/ rpc = "finalizing" /\ rpc' = "end" /\ outcome' = "raised"
  BY DEF Abandons, StartInterrupted, FinalizationInterrupted
<1>3. Born'
  BY <1>1, <1>2 DEF RunnerInv, Born, Launched, procVars
<1>4. Owned'
  BY <1>1, <1>2 DEF RunnerInv, Owned, Launched, procVars
<1>5. /\ outcome = None
      /\ rpc = "start_failing" => cause = None /\ facts = NoFacts
  BY <1>2 DEF RunnerInv, Factual
<1>6. Factual'
  BY <1>1, <1>2, <1>5 DEF Factual
<1>7. ConfirmedTermination' /\ RootSignalled'
  BY <1>1 DEF RunnerInv, ConfirmedTermination, RootSignalled, Running, InGroup, procVars
<1>8. QED
  BY <1>1, <1>2, <1>3, <1>4, <1>5, <1>6, <1>7 DEF RunnerStates

\* RunnerInv does not look at the pumps, and at the processes only as above.
LEMMA OthersKeep ==
    ASSUME RunnerInv, ProcessStep \/ (\E s \in Streams : PumpThread(s))
    PROVE  Born' /\ Owned' /\ Factual' /\ ConfirmedTermination' /\ RootSignalled'
           /\ UNCHANGED <<killed, token, runVars>>
           /\ proc' \in [Writers -> {"unborn", "alive", "escaped", "dead"}]
<1>1. /\ UNCHANGED <<killed, token, runVars, lifecycle, owner, summary>>
      /\ proc' \in [Writers -> {"unborn", "alive", "escaped", "dead"}]
      /\ Launched' <=> Launched
      /\ Born'
      /\ Running(Root)' => Running(Root)
      /\ Stopped => Stopped'
  <2>1. CASE ProcessStep
    BY <2>1, ProcessesKeep
  <2>2. CASE \E s \in Streams : PumpThread(s)
    <3>1. UNCHANGED <<procVars, token, runVars, lifecycle, owner, summary, holders, produced>>
      BY <2>2, PumpsKeep
    <3>2. QED
      BY <3>1 DEF RunnerInv, RunnerTypeOK, Born, procVars, runVars, Launched, Running,
         Stopped, InGroup
  <2>3. QED
    BY <2>1, <2>2
<1>2. Owned'
  BY <1>1 DEF RunnerInv, Owned, runVars
<1>3. Factual'
  <2>1. Tells(facts)' <=> Tells(facts)
    BY <1>1 DEF Tells, runVars
  <2>2. QED
    BY <1>1, <2>1 DEF RunnerInv, Factual, Rejected, ValidFacts, runVars
<1>4. ConfirmedTermination'
  BY <1>1 DEF RunnerInv, ConfirmedTermination, Stopped, runVars
<1>5. RootSignalled'
  BY <1>1 DEF RunnerInv, RootSignalled, runVars
<1>6. QED
  BY <1>1, <1>2, <1>3, <1>4, <1>5

\* A token is set once, so a cause that was taken from it stays its reason.
LEMMA CancellingKeeps ==
    ASSUME RunnerInv, NEW reason \in Reasons, RequestCancellation(reason)
    PROVE  Born' /\ Owned' /\ Factual' /\ ConfirmedTermination' /\ RootSignalled'
           /\ UNCHANGED <<captureVars, procVars, runVars>> /\ token' \in Reasons
<1>1. /\ token = None /\ token' = reason /\ outcome = None
      /\ UNCHANGED <<captureVars, procVars, runVars>>
  BY DEF RequestCancellation
<1>2. Born' /\ Owned' /\ ConfirmedTermination' /\ RootSignalled'
  BY <1>1 DEF RunnerInv, Born, Owned, ConfirmedTermination, RootSignalled, Launched,
     Running,
     InGroup, captureVars, ownerVars, pipeVars, procVars, runVars
<1>3. token' # None
  BY <1>1, RunnerAssumption DEF None
<1>4. Tells(facts) => Tells(facts)'
  BY <1>1, <1>3 DEF Tells, runVars
<1>5. Factual'
  BY <1>1, <1>3, <1>4 DEF RunnerInv, Factual, Rejected, ValidFacts, runVars, captureVars,
     ownerVars
<1>6. QED
  BY <1>1, <1>2, <1>5

\* The invariant is inductive.
LEMMA RunnerInvInductive ==
    ASSUME RunnerInv, [RunnerNext]_runnerVars
    PROVE  RunnerInv'
<1>1. CaptureInv' /\ CaptureEnds'
  BY CaptureKept, RunnerStepsCapture, CaptureKeepsEnds DEF RunnerInv
<1>2. CaptureTypeOK'
  BY <1>1 DEF CaptureInv
<1>3. CASE Decides
  <2>1. UNCHANGED <<proc, killed, token>>
    BY <1>3, DecidesFrame DEF procVars
  <2>2. QED
    BY <1>1, <1>2, <1>3, <2>1, DecidesKeepsBorn, DecidesKeepsOwned, DecidesKeepsFacts,
       DecidesKeepsRest DEF RunnerInv, RunnerTypeOK
<1>4. CASE Terminates
  BY <1>1, <1>2, <1>4, TerminatesFrame, TerminatesKeeps DEF RunnerInv, RunnerTypeOK
<1>5. CASE Captures
  BY <1>1, <1>2, <1>5, CapturesKeeps DEF RunnerInv, RunnerTypeOK
<1>6. CASE ProcessStep \/ (\E s \in Streams : PumpThread(s))
  BY <1>1, <1>2, <1>6, OthersKeep DEF RunnerInv, RunnerTypeOK, runVars
<1>7. ASSUME NEW reason \in Reasons, RequestCancellation(reason) PROVE RunnerInv'
  BY <1>1, <1>2, <1>7, CancellingKeeps DEF RunnerInv, RunnerTypeOK, runVars, procVars
<1>8. CASE UNCHANGED runnerVars
  <2>1. UNCHANGED <<captureVars, procVars, token, runVars>>
    BY <1>8 DEF runnerVars
  <2>2. Tells(facts) => Tells(facts)'
    BY <2>1 DEF Tells, runVars
  <2>3. Factual'
    BY <2>1, <2>2 DEF RunnerInv, Factual, Rejected, ValidFacts, runVars, captureVars,
       ownerVars
  <2>4. QED
    BY <1>1, <1>2, <2>1, <2>3 DEF RunnerInv, RunnerTypeOK, Born, Owned,
       ConfirmedTermination,
       RootSignalled, Launched, Running, InGroup, captureVars, ownerVars, pipeVars, procVars,
       runVars
<1>9. CASE Abandons
  BY <1>1, <1>2, <1>9, AbandonsKeeps DEF RunnerInv, RunnerTypeOK, procVars
<1>10. QED
  BY <1>3, <1>4, <1>5, <1>6, <1>7, <1>8, <1>9, RunnerStepsAre DEF RunnerNext, RunnerFinished

LEMMA RunnerInvInit == RunnerInit => RunnerInv
<1> SUFFICES ASSUME RunnerInit PROVE RunnerInv
  OBVIOUS
<1>1. CaptureInv
  BY CaptureInvInit DEF RunnerInit
<1>2. RunnerTypeOK
  BY <1>1 DEF CaptureInv, RunnerInit, RunnerTypeOK, RunnerStates, Facts, NoFacts, None
<1>3. CaptureEnds
  BY SizesAssumption DEF RunnerInit, CaptureInit, CaptureEnds, NoSummary, Total, All,
     Streams
<1>4. Owned /\ Factual
  BY DEF RunnerInit, CaptureInit, Owned, Factual, Early, Monitoring, Terminating,
     Finalizing,
     None
<1>5. Born
  BY RunnerAssumption DEF RunnerInit, CaptureInit, Born, Launched, Monitoring,
     Terminating, All
<1>6. ConfirmedTermination /\ RootSignalled
  BY RunnerAssumption DEF RunnerInit, ConfirmedTermination, RootSignalled, NoFacts, Running
<1>7. QED
  BY <1>1, <1>2, <1>3, <1>4, <1>5, <1>6 DEF RunnerInv

-----------------------------------------------------------------------------
(***************************************************************************)
(* The theorems.                                                           *)
(***************************************************************************)

\* Capture, processes, facts and outcome of run_process stay in step with the
\* runner, whatever the pumps, processes and callers do.
THEOREM RunnerInvariant == RunnerSpec => []RunnerInv
  BY RunnerInvInit, RunnerInvInductive, PTL DEF RunnerSpec

\* Every variable of the runner keeps its type (runner.py, models.py).
THEOREM RunnerTypeCorrect == RunnerSpec => []RunnerTypeOK
<1>1. RunnerInv => RunnerTypeOK
  BY DEF RunnerInv
<1>2. QED
  BY <1>1, RunnerInvariant, PTL

\* A request that has an outcome is at its end.
LEMMA OutcomeIsLast == RunnerInv /\ outcome # None => rpc = "end"
  BY DEF RunnerInv, RunnerTypeOK, RunnerStates, Factual, Early, Monitoring, Terminating,
     Finalizing

\* A result of run_process tells the cause its monitor observed first, and the
\* reason the token had (_facts_from_termination, _reconcile_capture_limit).
THEOREM ObservedCauseIsTold == RunnerSpec => []ResultTellsObservedCause
<1>1. RunnerInv => ResultTellsObservedCause
  <2> SUFFICES ASSUME RunnerInv, outcome = "result"
               PROVE  /\ cause = "output_limit" => /\ facts.state = "cancelled"
                                                   /\ facts.reason = "output_limit"
                      /\ cause = "cancelled" => /\ facts.state = "cancelled"
                                                /\ facts.reason = token
                      /\ cause \notin {"output_limit", "cancelled"}
                            => facts.state = cause /\ facts.reason = None
    BY DEF ResultTellsObservedCause
  <2>1. ValidFacts(facts) /\ (Rejected(facts) \/ Tells(facts))
    BY DEF RunnerInv, Factual
  <2>2. ~Rejected(facts)
    BY <2>1 DEF Rejected, ValidFacts
  <2>3. QED
    BY <2>1, <2>2 DEF Tells
<1>2. QED
  BY <1>1, RunnerInvariant, PTL

\* Completed means that the limit was not crossed, and a complete capture of it
\* that the evidence files hold all there was (ProcessResult, ProcessCapture).
THEOREM CompletedKeptBudget == RunnerSpec => []CompletedWithinBudget
<1>1. RunnerInv => CompletedWithinBudget
  <2> SUFFICES ASSUME RunnerInv, outcome = "result", facts.state = "completed"
               PROVE  /\ Total(summary.observed) <= Limit
                      /\ summary.complete => /\ \A s \in Streams : file[s] = produced[s]
                                             /\ Total(produced) <= Limit
    BY DEF CompletedWithinBudget
  <2>1. summary.built
    <3>1. owner = "done"
      BY OutcomeIsLast DEF RunnerInv, Owned, None
    <3>2. QED
      BY <3>1 DEF RunnerInv, CaptureEnds
  <2>2. ~summary.exceeded
    BY DEF RunnerInv, Factual, ValidFacts, Rejected
  <2>3. Total(summary.observed) <= Limit
    <3>1. summary \in Summaries
      BY <2>1 DEF RunnerInv, CaptureInv, CaptureTypeOK, NoSummary
    <3>2. Total(summary.observed) \in Nat
      BY <3>1 DEF Summaries, Total, Streams
    <3>3. QED
      BY <2>1, <2>2, <3>2, SizesAssumption DEF RunnerInv, CaptureEnds
  <2>4. ASSUME summary.complete
        PROVE  (\A s \in Streams : file[s] = produced[s]) /\ Total(produced) <= Limit
    <3>1. ASSUME NEW s \in Streams PROVE file[s] = produced[s]
      BY <2>1, <2>4 DEF RunnerInv, CaptureInv, SummaryAccounts
    <3>2. Total(file) <= Limit
      BY SizesAssumption DEF RunnerInv, CaptureInv, CaptureTypeOK, BudgetAccounts, Total,
         Streams
    <3>3. QED
      BY <3>1, <3>2 DEF Total, Streams
  <2>5. QED
    BY <2>3, <2>4
<1>2. QED
  BY <1>1, RunnerInvariant, PTL

\* A termination reported as succeeded left nobody of the group alive, and
\* nobody is alive again later (terminate_owned_processes, _is_stopped).
THEOREM TerminationIsConfirmed == RunnerSpec => []ConfirmedTermination
<1>1. RunnerInv => ConfirmedTermination
  BY DEF RunnerInv
<1>2. QED
  BY <1>1, RunnerInvariant, PTL

\* Every request that opened its capture gives the ends of its pipes back, on the
\* paths of exceptions too, and everything else unless an interrupt left the release
\* of the paths or the finalization of last resort (open_capture_session, finalize).
THEOREM AllIsReleased == RunnerSpec => []EverythingReleased
<1>1. RunnerInv => EverythingReleased
  <2> SUFFICES ASSUME RunnerInv, rpc = "end", lifecycle # "new"
               PROVE  /\ \A s \in Streams : Parent \notin holders[s] /\ sourceClosed[s]
                      /\ owner # "interrupted" =>
                            ~reserved /\ summary.built /\ \A s \in Streams : sinkClosed[s]
    BY DEF EverythingReleased
  <2>1. owner \in {"interrupted", "done"}
    BY DEF RunnerInv, Owned, CaptureEnds
  <2>2. QED
    BY <2>1 DEF RunnerInv, CaptureEnds, CaptureInv, BytesAccounted, Draining
<1>2. QED
  BY <1>1, RunnerInvariant, PTL

\* Without interrupts and failing signals no request ends with a root that was
\* not sent the forced signal (_contain_after_internal_failure).
THEOREM RootIsSignalled == RunnerSpec => [](~Interrupts /\ ~IOFaults => RootNotLeftRunning)
<1>1. RunnerInv => (~Interrupts /\ ~IOFaults => RootNotLeftRunning)
  BY DEF RunnerInv, RootSignalled, RootNotLeftRunning
<1>2. QED
  BY <1>1, RunnerInvariant, PTL

\* What the capture guarantees to a well-behaved owner it guarantees under
\* run_process (runner.py's use of ProcessStreamCapture).
THEOREM CaptureUnderRunner ==
    RunnerSpec => [](EvidenceWithinLimit /\ CompleteMeansWhole /\ NoSilentTruncation)
<1>1. RunnerInv => EvidenceWithinLimit
  BY SizesAssumption DEF RunnerInv, CaptureInv, CaptureTypeOK, BudgetAccounts,
     EvidenceWithinLimit, Total, Streams
<1>2. RunnerInv => CompleteMeansWhole /\ NoSilentTruncation
  BY DEF RunnerInv, CaptureInv, CompleteMeansWhole, NoSilentTruncation, SummaryAccounts,
     BytesAccounted
<1>3. QED
  BY <1>1, <1>2, RunnerInvariant, PTL

-----------------------------------------------------------------------------
(***************************************************************************)
(* The steps of the promise.                                               *)
(***************************************************************************)

LEMMA PhaseIs ==
    /\ outcome # None => Phase = "delivered"
    /\ outcome = None /\ cause # None => Phase = "settled"
    /\ outcome = None /\ cause = None /\ Launched => Phase = "running"
    /\ outcome = None /\ cause = None /\ ~Launched => Phase = "requested"
  BY DEF Phase

LEMMA NextPhaseIs ==
    /\ outcome' # None => Phase' = "delivered"
    /\ outcome' = None /\ cause' # None => Phase' = "settled"
    /\ outcome' = None /\ cause' = None /\ Launched' => Phase' = "running"
    /\ outcome' = None /\ cause' = None /\ ~Launched' => Phase' = "requested"
  BY DEF Phase

Verdict == IF outcome = "result" THEN facts.state ELSE outcome

\* A step that leaves cause and outcome alone is a stutter of the promise.
LEMMA QuietSteps ==
    ASSUME RunnerInv, UNCHANGED <<cause, outcome>>, Launched' <=> Launched,
           outcome = "result" => facts' = facts
    PROVE  UNCHANGED <<Phase, cause, Verdict>>
  BY PhaseIs, NextPhaseIs DEF Verdict

LEMMA DecidesPromised ==
    ASSUME RunnerInv, Decides
    PROVE  \/ UNCHANGED <<Phase, cause, Verdict>>
           \/ Promise!NotLaunched \/ Promise!Settle \/ Promise!Deliver \/ Promise!Abandon
<1> USE PhaseIs, NextPhaseIs
    DEF Promise!NotLaunched, Promise!Settle, Promise!Deliver, Promise!Abandon, Verdict, None
<1>1. Launched' <=> Launched
  BY DecidesFrame DEF procVars, Launched
<1>2. CASE CancelledBeforeLaunch \/ LaunchFails
  <2>1. /\ outcome = None /\ cause = None /\ ~Launched /\ outcome' = outcome
        /\ cause' \in {"cancelled", "launch_failed"}
    BY <1>2 DEF CancelledBeforeLaunch, LaunchFails, RunnerInv, Factual, Early, Born
  <2>2. QED
    BY <2>1
<1>3. CASE CheckLimit \/ CheckCancel \/ CheckExit \/ DeadlinePassed
  <2>1. /\ outcome = None /\ cause = None /\ Launched /\ outcome' = outcome
        /\ cause' \in (Causes \ {"launch_failed"}) \cup {None}
    BY <1>3 DEF CheckLimit, CheckCancel, CheckExit, DeadlinePassed, TerminateFor, Goto,
       RunnerInv, Factual, Early, Monitoring, Born, Causes
  <2>2. QED
    BY <1>1, <2>1
<1>4. CASE TokenClear \/ StartRaises \/ MonitorSleeps \/ Contain \/ Interrupted \/ Reconcile
  <2>1. UNCHANGED <<cause, outcome>> /\ outcome = None
    BY <1>4, OutcomeIsLast DEF TokenClear, StartRaises, MonitorSleeps, Contain, Interrupted,
       Reconcile, Goto
  <2>2. QED
    BY <1>1, <2>1
<1>5. CASE CaptureFinalized \/ InterruptedOutside
  <2>1. outcome = None /\ cause' = cause /\ outcome' \in {None, "raised"}
    BY <1>5, OutcomeIsLast DEF CaptureFinalized, InterruptedOutside, Goto
  <2>2. QED
    BY <1>1, <2>1
<1>6. CASE ConstructResult
  <2>1. /\ outcome = None /\ cause' = cause /\ facts' = facts
        /\ outcome' \in {"result", "raised"}
        /\ outcome' = "result" => ValidFacts(facts)
        /\ Rejected(facts) \/ Tells(facts)
    BY <1>6 DEF ConstructResult, RunnerInv, Factual
  <2>2. outcome' = "result" => cause # None /\ facts.state = Promise!StateOf(cause)
    BY <2>1 DEF Rejected, ValidFacts, Tells, Promise!StateOf
  <2>3. QED
    BY <2>1, <2>2
<1>7. QED
  BY <1>2, <1>3, <1>4, <1>5, <1>6 DEF Decides

LEMMA CapturesPromised ==
    ASSUME RunnerInv, Captures
    PROVE  UNCHANGED <<Phase, cause, Verdict>> \/ Promise!Launch \/ Promise!Abandon
<1> USE PhaseIs, NextPhaseIs DEF Promise!Launch, Promise!Abandon, Verdict, None
<1>1. UNCHANGED <<cause, facts>>
  BY CapturesFrame
<1>2. CASE rpc = "launch"
  <2>1. /\ outcome = None /\ cause = None /\ ~Launched /\ outcome' = outcome
        /\ proc' = [proc EXCEPT ![Root] = "alive"]
    BY <1>2, CapturesFrame DEF RunnerInv, Factual, Early, Born
  <2>2. Launched'
    BY <2>1, RunnerAssumption DEF Launched, RunnerInv, RunnerTypeOK
  <2>3. QED
    BY <1>1, <2>1, <2>2
<1>3. CASE rpc = "open" /\ rpc' = "end"
  <2>1. outcome = None /\ cause = None /\ ~Launched /\ outcome' = "raised"
    BY <1>3, CapturesFrame DEF RunnerInv, Factual, Early, Born
  <2>2. QED
    BY <1>1, <2>1
<1>4. CASE rpc # "launch" /\ ~(rpc = "open" /\ rpc' = "end")
  <2>1. UNCHANGED <<proc, outcome>>
    BY <1>4, CapturesFrame
  <2>2. QED
    BY <1>1, <2>1 DEF Launched
<1>5. QED
  BY <1>2, <1>3, <1>4

\* Every step of the runner, its pumps and its processes is a step of the
\* promise or invisible to it.
LEMMA StepsPromised ==
    ASSUME RunnerInv, [RunnerNext]_runnerVars
    PROVE  [Promise!Next]_(Promise!vars)
<1> USE DEF Promise!Next, Promise!vars, Verdict
<1>1. CASE Decides
  BY <1>1, DecidesPromised
<1>2. CASE Captures
  BY <1>2, CapturesPromised
<1>3. CASE Terminates
  <2>1. UNCHANGED <<cause, outcome, proc>> /\ outcome # "result"
    BY <1>3, TerminationMoves, TerminatesFrame DEF RunnerInv, Factual, None
  <2>2. QED
    BY <2>1, QuietSteps DEF Launched
<1>4. CASE ProcessStep \/ (\E s \in Streams : PumpThread(s))
  <2>1. UNCHANGED runVars /\ (Launched' <=> Launched)
    BY <1>4, ProcessesKeep, PumpsKeep DEF procVars, Launched
  <2>2. QED
    BY <2>1, QuietSteps DEF runVars
<1>5. CASE (\E reason \in Reasons : RequestCancellation(reason)) \/ UNCHANGED runnerVars
  <2>1. UNCHANGED runVars /\ (Launched' <=> Launched)
    BY <1>5 DEF RequestCancellation, runnerVars, procVars, Launched
  <2>2. QED
    BY <2>1, QuietSteps DEF runVars
<1>6. CASE Abandons
  <2>1. /\ outcome = None /\ UNCHANGED <<cause, proc>> /\ outcome' \in {None, "raised"}
    BY <1>6, AbandonsKeeps DEF procVars
  <2>2. Launched' <=> Launched
    BY <2>1 DEF Launched
  <2>3. QED
    BY <2>1, <2>2, PhaseIs, NextPhaseIs DEF Promise!Deliver, Promise!Abandon, None
<1>7. QED
  BY <1>1, <1>2, <1>3, <1>4, <1>5, <1>6, RunnerStepsAre DEF RunnerNext, RunnerFinished

\* run_process launches at most once, settles on one cause, and delivers one
\* verdict that tells this cause (the safety part of ImplementsPromise).
THEOREM RunnerKeepsPromise == RunnerSpec => Promise!Init /\ [][Promise!Next]_(Promise!vars)
<1>1. RunnerInit => Promise!Init
  BY RunnerAssumption DEF RunnerInit, Promise!Init, Phase, Launched, None
<1>2. RunnerInv /\ [RunnerNext]_runnerVars => [Promise!Next]_(Promise!vars)
  BY StepsPromised
<1>3. QED
  BY <1>1, <1>2, RunnerInvariant, PTL DEF RunnerSpec
=============================================================================
