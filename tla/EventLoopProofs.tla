---------------------------- MODULE EventLoopProofs ----------------------------
(***************************************************************************)
(* What EventLoop guarantees for any number of producers and callables:    *)
(* the safety invariants of the module, and that it implements the safety  *)
(* part of SerialExecutor.  The inductive invariant adds to the checked    *)
(* invariants who may hold the mutex (HolderInv), what is in readBuffer at *)
(* each point of taskFunc (BatchInv), which frames of enqueue() are live   *)
(* (FrameInv) and that Stop is only ever queued by a destructor (StopInv). *)
(***************************************************************************)
EXTENDS EventLoop, SequenceTheorems, TLAPS

\* _mutex is only ever held for the lines that the code guards with it, or
\* for ever by a loop task that was deleted there.
HolderInv ==
    /\ \A t \in Producers : mutex = t => InEnqueueSection(t)
    /\ mutex = Loop => LoopHolds \/ InEnqueueSection(Loop) \/ at = "deleted"

\* readBuffer is empty except from the swap to the clear, and wholly invoked
\* at the clear.
BatchInv ==
    /\ at \in {"test", "acquire", "pred", "asleep", "swap", "none"} =>
           readBuffer = <<>> /\ ran = 0
    /\ at = "release" => ran = 0
    /\ at = "call" => ran > 0
    /\ at = "clear" => ran = Len(readBuffer)

\* A task inside enqueue() has a callable to hand over, and the loop task is
\* there only from within a callable.
FrameInv ==
    /\ \A t \in Tasks : pc[t] # "idle" => arg[t] \in Callables
    /\ pc[Loop] # "idle" => at \in {"call", "deleted"}

\* Before a destructor starts, nobody has queued Stop and _running is true.
StopInv ==
    destroyer = NoTask =>
        /\ running
        /\ \A t \in Tasks : arg[t] # Stop
        /\ \A i \in 1 .. Len(writeBuffer) : writeBuffer[i] # Stop
        /\ \A i \in 1 .. Len(readBuffer) : readBuffer[i] # Stop

ControlInv == TypeOK /\ LockDiscipline /\ HolderInv /\ BatchInv /\ FrameInv

-------------------------------------------------------------------------------
(* The state types *)

LEMMA TypeInit == Init => TypeOK
  BY TasksAssumption, CallsAssumption
     DEF Init, TypeOK, LoopAt, EnqueueAt, Tasks, Callables

\* A step of a task inside enqueue() keeps the types: the callable it pushes
\* is one.
LEMMA TypeEnqueue ==
  ASSUME TypeOK, FrameInv, NEW t \in Tasks, EnqueueStep(t)
  PROVE  TypeOK'
  <1>1. CASE Lock(t)
    BY <1>1 DEF TypeOK, Lock, EnqueueAt, LoopAt, Tasks, buffers, frames, history
  <1>2. CASE Push(t)
    <2>1. arg[t] \in Callables
      BY <1>2 DEF FrameInv, Push
    <2>2. writeBuffer' \in Seq(Callables) /\ posted' \in Seq(Callables)
      BY <1>2, <2>1, AppendProperties DEF TypeOK, Push
    <2> QED
      BY <1>2, <2>2 DEF TypeOK, Push, EnqueueAt
  <1>3. CASE Unlock(t)
    BY <1>3 DEF TypeOK, Unlock, EnqueueAt, buffers, history
  <1>4. CASE Notify(t)
    BY <1>4 DEF TypeOK, Notify, EnqueueAt, LoopAt, buffers, history
  <1> QED
    BY <1>1, <1>2, <1>3, <1>4 DEF EnqueueStep

\* A step of taskFunc keeps the types.
LEMMA TypeLoop ==
  ASSUME TypeOK, BatchInv, LoopStep
  PROVE  TypeOK'
  <1> USE DEF TypeOK, LoopAt, buffers, frames, history
  <1>1. CASE TestRunning      BY <1>1 DEF TestRunning
  <1>2. CASE Acquire          BY <1>2 DEF Acquire, Tasks
  <1>3. CASE WaitForWork      BY <1>3 DEF WaitForWork
  <1>4. CASE FindWork         BY <1>4 DEF FindWork
  <1>5. CASE Swap             BY <1>5 DEF Swap, BatchInv
  <1>6. CASE Release          BY <1>6 DEF Release
  <1>7. CASE Invoke
    <2>1. readBuffer[ran + 1] \in Callables
      BY <1>7 DEF Invoke
    <2>2. called' \in Seq(Callables)
      BY <1>7, <2>1, AppendProperties DEF Invoke
    <2> QED
      BY <1>7, <2>2 DEF Invoke
  <1>8. CASE CallReturns      BY <1>8 DEF CallReturns
  <1>9. CASE BatchDone        BY <1>9 DEF BatchDone
  <1>10. CASE ClearBatch      BY <1>10 DEF ClearBatch
  <1> QED
    BY <1>1, <1>2, <1>3, <1>4, <1>5, <1>6, <1>7, <1>8, <1>9, <1>10 DEF LoopStep

-------------------------------------------------------------------------------
(* The control part of the invariant *)

LEMMA ControlInit == Init => ControlInv
  BY TypeInit, TasksAssumption
     DEF Init, ControlInv, LockDiscipline, HolderInv, BatchInv, FrameInv,
         InEnqueueSection, LoopHolds, Tasks

\* enqueue() takes and gives back _mutex around its append only, from outside
\* the loop task or from within a callable.
LEMMA ControlEnqueue ==
  ASSUME ControlInv, NEW t \in Tasks, EnqueueStep(t)
  PROVE  ControlInv'
  <1> USE TasksAssumption
  <1> USE DEF ControlInv, LockDiscipline, HolderInv, FrameInv, BatchInv,
              InEnqueueSection, LoopHolds, Runs, Tasks, TypeOK, EnqueueAt
  <1>1. TypeOK'
    BY TypeEnqueue
  <1>2. CASE Lock(t)    BY <1>1, <1>2 DEF Lock, buffers, history
  <1>3. CASE Push(t)    BY <1>1, <1>3 DEF Push
  <1>4. CASE Unlock(t)  BY <1>1, <1>4 DEF Unlock, buffers, history
  <1>5. CASE Notify(t)  BY <1>1, <1>5 DEF Notify, buffers, history
  <1> QED
    BY <1>2, <1>3, <1>4, <1>5 DEF EnqueueStep

\* taskFunc holds _mutex from the wait's return to the end of the swap only.
LEMMA ControlLoop ==
  ASSUME ControlInv, LoopStep
  PROVE  ControlInv'
  <1>1. TypeOK'
    BY TypeLoop DEF ControlInv
  <1>2. LockDiscipline' /\ HolderInv' /\ FrameInv'
    <2> USE TasksAssumption
    <2> USE DEF ControlInv, LockDiscipline, HolderInv, FrameInv,
                InEnqueueSection, LoopHolds, Tasks, TypeOK, EnqueueAt,
                buffers, frames, history
    <2>1. CASE TestRunning  BY <2>1 DEF TestRunning
    <2>2. CASE Acquire      BY <2>2 DEF Acquire
    <2>3. CASE WaitForWork  BY <2>3 DEF WaitForWork
    <2>4. CASE FindWork     BY <2>4 DEF FindWork
    <2>5. CASE Swap         BY <2>5 DEF Swap
    <2>6. CASE Release      BY <2>6 DEF Release
    <2>7. CASE Invoke       BY <2>7 DEF Invoke
    <2>8. CASE CallReturns  BY <2>8 DEF CallReturns
    <2>9. CASE BatchDone    BY <2>9 DEF BatchDone
    <2>10. CASE ClearBatch  BY <2>10 DEF ClearBatch
    <2> QED
      BY <2>1, <2>2, <2>3, <2>4, <2>5, <2>6, <2>7, <2>8, <2>9, <2>10 DEF LoopStep
  <1>3. BatchInv'
    BY DEF ControlInv, TypeOK, BatchInv, LoopStep, TestRunning, Acquire,
           WaitForWork, FindWork, Swap, Release, Invoke, CallReturns,
           BatchDone, ClearBatch, buffers, frames, history
  <1> QED
    BY <1>1, <1>2, <1>3 DEF ControlInv

\* The other steps: a call of enqueue() or of the destructor starts, the loop
\* task wakes up by itself, or it is deleted.
LEMMA ControlOthers ==
  ASSUME ControlInv,
         \/ \E t \in Tasks, c \in Calls : BeginEnqueue(t, c)
         \/ SpuriousWakeup
         \/ \E t \in Producers : BeginDestroy(t)
         \/ DeleteTask
  PROVE  ControlInv'
  <1> USE TasksAssumption, CallsAssumption
  <1> USE DEF ControlInv, LockDiscipline, HolderInv, FrameInv, BatchInv,
              InEnqueueSection, LoopHolds, Runs, Tasks, Callables, TypeOK,
              EnqueueAt, LoopAt, buffers, frames, history
  <1>1. ASSUME NEW t \in Tasks, NEW c \in Calls, BeginEnqueue(t, c)
        PROVE  ControlInv'
    BY <1>1 DEF BeginEnqueue
  <1>2. CASE SpuriousWakeup
    BY <1>2 DEF SpuriousWakeup
  <1>3. ASSUME NEW t \in Producers, BeginDestroy(t)
        PROVE  ControlInv'
    BY <1>3 DEF BeginDestroy
  <1>4. CASE DeleteTask
    BY <1>4 DEF DeleteTask
  <1> QED
    BY <1>1, <1>2, <1>3, <1>4

LEMMA ControlStep == ControlInv /\ [Next]_vars => ControlInv'
  <1> SUFFICES ASSUME ControlInv, [Next]_vars PROVE ControlInv'
    OBVIOUS
  <1>1. CASE UNCHANGED vars
    BY <1>1 DEF ControlInv, TypeOK, LockDiscipline, HolderInv, BatchInv,
                FrameInv, InEnqueueSection, LoopHolds, vars, buffers, frames,
                history
  <1> QED
    BY <1>1, ControlEnqueue, ControlLoop, ControlOthers DEF Next

\* For every number of producers and callables the state keeps its types, and
\* _mutex guards every access to the buffers and is never held by the loop
\* task across a callable (EventLoop::enqueue and taskFunc).
THEOREM ControlCorrect == Safety => []ControlInv
  BY ControlInit, ControlStep, PTL DEF Safety

THEOREM TypeCorrect == Safety => []TypeOK
  <1>1. ControlInv => TypeOK
    BY DEF ControlInv
  <1> QED
    BY <1>1, ControlCorrect, PTL

THEOREM LockDisciplineHolds == Safety => []LockDiscipline
  <1>1. ControlInv => LockDiscipline
    BY DEF ControlInv
  <1> QED
    BY <1>1, ControlCorrect, PTL

-------------------------------------------------------------------------------
(* What is pending *)

\* Appending to _writeBuffer queues behind everything that is pending.
LEMMA AppendAssociative ==
  ASSUME NEW s \in Seq(Callables), NEW t \in Seq(Callables), NEW c \in Callables
  PROVE  s \o Append(t, c) = Append(s \o t, c)
  <1>1. Append(t, c) = t \o <<c>> /\ <<c>> \in Seq(Callables)
    BY AppendIsConcat
  <1>2. s \o t \in Seq(Callables)
    BY ConcatProperties
  <1>3. Append(s \o t, c) = (s \o t) \o <<c>>
    BY <1>2, AppendIsConcat
  <1>4. (s \o t) \o <<c>> = s \o (t \o <<c>>)
    BY <1>1, ConcatAssociative
  <1> QED
    BY <1>1, <1>3, <1>4, Zenon

\* The next callable of the batch is the oldest pending one.
LEMMA PendingHead ==
  ASSUME NEW r \in Seq(Callables), NEW w \in Seq(Callables),
         NEW n \in 0 .. Len(r), n < Len(r)
  PROVE  /\ r[n + 1] \in Callables
         /\ SubSeq(r, n + 2, Len(r)) \o w \in Seq(Callables)
         /\ SubSeq(r, n + 1, Len(r)) \o w
                = <<r[n + 1]>> \o (SubSeq(r, n + 2, Len(r)) \o w)
  <1>1. n + 1 \in 1 .. Len(r) /\ Len(r) \in (n + 1) .. Len(r) /\ (n + 1) + 1 = n + 2
    OBVIOUS
  <1>2. /\ SubSeq(r, n + 2, Len(r)) \in Seq(Callables)
        /\ <<r[n + 1]>> \in Seq(Callables)
        /\ r[n + 1] \in Callables
    BY <1>1, SubSeqProperties
  <1>3. SubSeq(r, n + 1, Len(r)) = <<r[n + 1]>> \o SubSeq(r, n + 2, Len(r))
    BY <1>1, SubSeqRecursiveFirst
  <1>4. SubSeq(r, n + 2, Len(r)) \o w \in Seq(Callables)
    BY <1>2, ConcatProperties
  <1>5. (<<r[n + 1]>> \o SubSeq(r, n + 2, Len(r))) \o w
            = <<r[n + 1]>> \o (SubSeq(r, n + 2, Len(r)) \o w)
    <2> DEFINE head == <<r[n + 1]>>
               rest == SubSeq(r, n + 2, Len(r))
    <2>1. head \in Seq(Callables) /\ rest \in Seq(Callables)
      BY <1>2
    <2> HIDE DEF head, rest
    <2>2. (head \o rest) \o w = head \o (rest \o w)
      BY <2>1, ConcatAssociative
    <2> QED
      BY <2>2 DEF head, rest
  <1> QED
    BY <1>2, <1>3, <1>4, <1>5, Zenon

\* With no batch, or one wholly invoked, pending is what producers wrote.
LEMMA PendingWritten ==
  ASSUME NEW r \in Seq(Callables), NEW w \in Seq(Callables)
  PROVE  SubSeq(r, Len(r) + 1, Len(r)) \o w = w
  BY SubSeqEmpty, ConcatEmptySeq

\* Just after the swap, pending is the whole batch.
LEMMA PendingSwapped ==
  ASSUME NEW r \in Seq(Callables)
  PROVE  SubSeq(r, 1, Len(r)) \o <<>> = r
  BY SubSeqFull, ConcatEmptySeq

\* How each step changes what is pending, posted and called: enqueue()'s
\* append adds one at the end, the start of a callable takes the oldest, and
\* no other step, the swap and the clear included, changes any of them.
LEMMA PendingStep ==
  ASSUME ControlInv, [Next]_vars
  PROVE  \/ /\ \E t \in Tasks : Push(t)
            /\ \E c \in Callables : /\ Pending' = Append(Pending, c)
                                    /\ posted' = Append(posted, c)
            /\ UNCHANGED <<called, at, ran, readBuffer>>
         \/ /\ Invoke
            /\ readBuffer[ran + 1] \in Callables
            /\ Pending' \in Seq(Callables)
            /\ Pending = <<readBuffer[ran + 1]>> \o Pending'
            /\ UNCHANGED posted
         \/ UNCHANGED <<Pending, posted, called>>
  <1> USE DEF ControlInv, TypeOK
  <1>1. ASSUME NEW t \in Tasks, Push(t)
        PROVE  /\ \E c \in Callables : /\ Pending' = Append(Pending, c)
                                       /\ posted' = Append(posted, c)
               /\ UNCHANGED <<called, at, ran, readBuffer>>
    <2>1. arg[t] \in Callables
      BY <1>1 DEF FrameInv, Push
    <2>2. Pending' = Append(Pending, arg[t])
      <3>1. SubSeq(readBuffer, ran + 1, Len(readBuffer)) \in Seq(Callables)
        BY SubSeqProperties
      <3> QED
        BY <1>1, <2>1, <3>1, AppendAssociative DEF Push, Pending
    <2> QED
      BY <1>1, <2>1, <2>2 DEF Push
  <1>2. CASE Invoke
    <2>1. ran + 1 + 1 = ran + 2
      OBVIOUS
    <2>2. Pending' = SubSeq(readBuffer, ran + 2, Len(readBuffer)) \o writeBuffer
      BY <1>2, <2>1 DEF Invoke, Pending
    <2>3. ran \in 0 .. Len(readBuffer) /\ ran < Len(readBuffer) /\ UNCHANGED posted
      BY <1>2 DEF Invoke
    <2>4. /\ readBuffer[ran + 1] \in Callables
          /\ Pending' \in Seq(Callables)
          /\ Pending = <<readBuffer[ran + 1]>> \o Pending'
      <3>1. /\ readBuffer[ran + 1] \in Callables
            /\ SubSeq(readBuffer, ran + 2, Len(readBuffer)) \o writeBuffer
                   \in Seq(Callables)
            /\ SubSeq(readBuffer, ran + 1, Len(readBuffer)) \o writeBuffer
                   = <<readBuffer[ran + 1]>>
                     \o (SubSeq(readBuffer, ran + 2, Len(readBuffer)) \o writeBuffer)
        BY <2>3, PendingHead
      <3> QED
        BY <2>2, <3>1, Zenon DEF Pending
    <2> QED
      BY <1>2, <2>3, <2>4
  <1>3. CASE Swap
    <2>1. readBuffer = <<>> /\ ran = 0 /\ ran' = 0
      BY <1>3 DEF Swap, BatchInv
    <2>2. Pending = writeBuffer
      BY <2>1, PendingWritten DEF Pending
    <2>3. Pending' = writeBuffer
      BY <1>3, <2>1, PendingSwapped DEF Swap, Pending
    <2> QED
      BY <1>3, <2>2, <2>3 DEF Swap, history
  <1>4. CASE ClearBatch
    <2>1. Pending = writeBuffer
      BY <1>4, PendingWritten DEF ClearBatch, BatchInv, Pending
    <2>2. Pending' = writeBuffer
      BY <1>4, PendingWritten DEF ClearBatch, Pending
    <2> QED
      BY <1>4, <2>1, <2>2 DEF ClearBatch, history
  <1>5. ASSUME UNCHANGED <<buffers, history>>
        PROVE  UNCHANGED <<Pending, posted, called>>
    BY <1>5 DEF Pending, buffers, history
  <1> QED
    BY <1>1, <1>2, <1>3, <1>4, <1>5
       DEF Next, EnqueueStep, LoopStep, Lock, Unlock, Notify, BeginEnqueue,
           BeginDestroy, DeleteTask, SpuriousWakeup, TestRunning, Acquire,
           WaitForWork, FindWork, Release, CallReturns, BatchDone, vars

-------------------------------------------------------------------------------
(* No callable lost, duplicated or overtaken *)

\* What was emplaced is what has been invoked followed by what is pending, for
\* any number of producers and any number of callables (enqueue, taskFunc).
THEOREM FifoHolds == Safety => []FifoExactlyOnce
  <1>1. Init => FifoExactlyOnce
    BY SubSeqEmpty DEF Init, FifoExactlyOnce, Pending
  <1>2. ControlInv /\ FifoExactlyOnce /\ [Next]_vars => FifoExactlyOnce'
    <2> SUFFICES ASSUME ControlInv, FifoExactlyOnce, [Next]_vars
                 PROVE  FifoExactlyOnce'
      OBVIOUS
    <2>1. Pending \in Seq(Callables) /\ called \in Seq(Callables)
      BY SubSeqProperties, ConcatProperties DEF Pending, ControlInv, TypeOK
    <2>2. ASSUME NEW c \in Callables, Pending' = Append(Pending, c),
                 posted' = Append(posted, c), UNCHANGED called
          PROVE  FifoExactlyOnce'
      BY <2>1, <2>2, AppendAssociative DEF FifoExactlyOnce
    <2>3. ASSUME Invoke, readBuffer[ran + 1] \in Callables,
                 Pending' \in Seq(Callables),
                 Pending = <<readBuffer[ran + 1]>> \o Pending',
                 UNCHANGED posted
          PROVE  FifoExactlyOnce'
      <3>1. called' = called \o <<readBuffer[ran + 1]>>
        BY <2>1, <2>3, AppendIsConcat DEF Invoke
      <3>2. <<readBuffer[ran + 1]>> \in Seq(Callables)
        BY <2>3
      <3>3. called \o (<<readBuffer[ran + 1]>> \o Pending')
                = (called \o <<readBuffer[ran + 1]>>) \o Pending'
        BY <2>1, <2>3, <3>2, ConcatAssociative
      <3> QED
        BY <2>3, <3>1, <3>3, Zenon DEF FifoExactlyOnce
    <2>4. CASE UNCHANGED <<Pending, posted, called>>
      BY <2>4 DEF FifoExactlyOnce
    <2> QED
      BY <2>2, <2>3, <2>4, PendingStep
  <1> QED
    BY <1>1, <1>2, ControlCorrect, PTL DEF Safety

-------------------------------------------------------------------------------
(* No lost wake-up *)

\* A loop task asleep on work has a producer about to notify it, whatever the
\* number of producers.  The wait's own step falls asleep on an empty buffer,
\* the buffer only grows by producers while the loop sleeps, and a producer
\* leaves enqueue() by notifying.
THEOREM NoLostWakeupHolds == Safety => []NoLostWakeup
  <1>1. Init => NoLostWakeup
    BY DEF Init, NoLostWakeup
  <1>2. ControlInv /\ NoLostWakeup /\ [Next]_vars => NoLostWakeup'
    <2> SUFFICES ASSUME ControlInv, NoLostWakeup, [Next]_vars
                 PROVE  NoLostWakeup'
      OBVIOUS
    <2> USE DEF NoLostWakeup
    <2>1. ASSUME NEW t \in Tasks, EnqueueStep(t)
          PROVE  NoLostWakeup'
      <3>1. pc \in [Tasks -> EnqueueAt] /\ Producers \subseteq Tasks
        BY DEF ControlInv, TypeOK, Tasks
      <3>2. CASE Lock(t)
        BY <3>1, <3>2 DEF Lock, buffers
      <3>3. CASE Push(t)
        <4>1. at = "asleep" => t \in Producers
          BY <3>3 DEF Push, Runs, Tasks
        <4> QED
          BY <3>1, <3>3, <4>1 DEF Push
      <3>4. CASE Unlock(t)
        BY <3>1, <3>4 DEF Unlock, buffers
      <3>5. CASE Notify(t)
        BY <3>5 DEF Notify
      <3> QED
        BY <2>1, <3>2, <3>3, <3>4, <3>5 DEF EnqueueStep
    <2>2. CASE LoopStep
      BY <2>2 DEF LoopStep, TestRunning, Acquire, WaitForWork, FindWork, Swap,
                  Release, Invoke, CallReturns, BatchDone, ClearBatch, buffers,
                  frames
    <2>3. ASSUME NEW t \in Tasks, NEW c \in Calls, BeginEnqueue(t, c)
          PROVE  NoLostWakeup'
      BY <2>3 DEF BeginEnqueue, buffers, ControlInv, TypeOK, Tasks
    <2>4. ASSUME NEW t \in Producers, BeginDestroy(t)
          PROVE  NoLostWakeup'
      BY <2>4 DEF BeginDestroy, buffers, ControlInv, TypeOK, Tasks
    <2>5. CASE SpuriousWakeup \/ DeleteTask
      BY <2>5 DEF SpuriousWakeup, DeleteTask
    <2>6. CASE UNCHANGED vars
      BY <2>6 DEF vars, buffers, frames
    <2> QED
      BY <2>1, <2>2, <2>3, <2>4, <2>5, <2>6 DEF Next
  <1> QED
    BY <1>1, <1>2, ControlCorrect, PTL DEF Safety

-------------------------------------------------------------------------------
(* taskFunc returns in the destructor only *)

LEMMA StopStep ==
  ASSUME ControlInv, StopInv, [Next]_vars
  PROVE  StopInv'
  <1> USE CallsAssumption
  <1> USE DEF StopInv
  <1>1. ASSUME NEW t \in Tasks, EnqueueStep(t)
        PROVE  StopInv'
    <2>1. CASE Push(t)
      <3>1. /\ \A i \in 1 .. Len(writeBuffer) : writeBuffer'[i] = writeBuffer[i]
            /\ writeBuffer'[Len(writeBuffer) + 1] = arg[t]
            /\ Len(writeBuffer') = Len(writeBuffer) + 1
            /\ Len(writeBuffer) \in Nat
        BY <2>1, AppendProperties, LenProperties
           DEF Push, ControlInv, TypeOK, FrameInv
      <3> QED
        BY <2>1, <3>1 DEF Push
    <2> QED
      BY <1>1, <2>1 DEF EnqueueStep, Lock, Unlock, Notify, ControlInv, TypeOK,
                        buffers, frames, history
  <1>2. CASE LoopStep
    BY <1>2 DEF LoopStep, TestRunning, Acquire, WaitForWork, FindWork, Swap,
                Release, Invoke, CallReturns, BatchDone, ClearBatch, buffers,
                frames, ControlInv, TypeOK
  <1>3. ASSUME NEW t \in Tasks, NEW c \in Calls, BeginEnqueue(t, c)
        PROVE  StopInv'
    BY <1>3 DEF BeginEnqueue, buffers, ControlInv, TypeOK
  <1>4. ASSUME NEW t \in Producers, BeginDestroy(t)
        PROVE  StopInv'
    BY <1>4, TasksAssumption DEF BeginDestroy
  <1>5. CASE SpuriousWakeup \/ DeleteTask \/ UNCHANGED vars
    BY <1>5 DEF SpuriousWakeup, DeleteTask, vars, buffers, frames
  <1> QED
    BY <1>1, <1>2, <1>3, <1>4, <1>5 DEF Next

\* taskFunc may only return (FreeRTOS aborts) once a destructor has started:
\* nothing clients queue can end the loop task.
ReturnsOnlyInDestructor == at = "returned" => destroyer # NoTask

\* No callable a client can queue makes taskFunc return: only Stop clears
\* _running, and only ~EventLoop queues Stop.
THEOREM ReturnsOnlyInDestructorHolds == Safety => []ReturnsOnlyInDestructor
  <1>1. Init => StopInv /\ ReturnsOnlyInDestructor
    BY CallsAssumption DEF Init, StopInv, ReturnsOnlyInDestructor
  <1>2. ControlInv /\ StopInv /\ [Next]_vars => StopInv'
    BY StopStep
  <1>3. StopInv /\ ReturnsOnlyInDestructor /\ [Next]_vars
            => ReturnsOnlyInDestructor'
    BY DEF StopInv, ReturnsOnlyInDestructor, Next, EnqueueStep, Lock, Push,
           Unlock, Notify, BeginEnqueue, BeginDestroy, DeleteTask,
           SpuriousWakeup, LoopStep, TestRunning, Acquire, WaitForWork,
           FindWork, Swap, Release, Invoke, CallReturns, BatchDone, ClearBatch,
           vars, frames, Runs
  <1> QED
    BY <1>1, <1>2, <1>3, ControlCorrect, PTL DEF Safety

-------------------------------------------------------------------------------
(* EventLoop implements the safety part of SerialExecutor *)

\* Every step of the detailed module is a step of the serial executor or
\* leaves it unchanged: the append in enqueue() is Accept, the call of func()
\* is Begin and its return is End, and the loop task's end is Retire.
THEOREM ImplementsSerialExecutor == Safety => Executor!Safety
  <1> USE DEF Executor!vars
  <1>1. Init => Executor!Init
    BY SubSeqEmpty DEF Init, Executor!Init, Pending
  <1>2. ControlInv /\ [Next]_vars => [Executor!Next]_(Executor!vars)
    <2> SUFFICES ASSUME ControlInv, [Next]_vars
                 PROVE  [Executor!Next]_(Executor!vars)
      OBVIOUS
    <2>1. ASSUME NEW t \in Tasks, Push(t)
          PROVE  Executor!Next
      <3>1. /\ \E c \in Callables : Pending' = Append(Pending, c)
            /\ UNCHANGED <<called, at, ran, readBuffer>>
        BY <2>1, PendingStep, TasksAssumption
           DEF Push, Invoke, Runs
      <3> QED
        BY <3>1 DEF Executor!Next, Executor!Accept
    <2>2. CASE Invoke
      BY <2>2, PendingStep
         DEF Executor!Next, Executor!Begin, Invoke
    <2>3. ASSUME ~Invoke, ~\E t \in Tasks : Push(t)
          PROVE  UNCHANGED <<Pending, called>>
      BY <2>3, PendingStep
    <2>4. CASE CallReturns
      <3>1. readBuffer[ran] # NoCall
        BY <2>4, CallsAssumption
           DEF CallReturns, ControlInv, TypeOK, BatchInv, Callables
      <3>2. UNCHANGED <<Pending, called>>
        BY <2>4 DEF CallReturns, buffers, history, Pending
      <3> QED
        BY <2>4, <3>1, <3>2 DEF CallReturns, Executor!Next, Executor!End
    <2>5. CASE TestRunning \/ DeleteTask
      <3>1. UNCHANGED <<Pending, called>>
        BY <2>5 DEF TestRunning, DeleteTask, buffers, history, Pending
      <3> QED
        BY <2>5, <3>1 DEF TestRunning, DeleteTask, Executor!Next, Executor!Retire
    <2>6. ASSUME ~Invoke, ~\E t \in Tasks : Push(t),
                 \/ \E t \in Tasks : \/ EnqueueStep(t)
                                      \/ \E c \in Calls : BeginEnqueue(t, c)
                 \/ \E t \in Producers : BeginDestroy(t)
                 \/ SpuriousWakeup \/ UNCHANGED vars
                 \/ Acquire \/ WaitForWork \/ FindWork \/ Swap \/ Release
                 \/ BatchDone \/ ClearBatch
          PROVE  UNCHANGED Executor!vars
      <3>1. UNCHANGED <<Pending, called>>
        BY <2>3, <2>6
      <3>2. /\ at = "call" <=> at' = "call"
            /\ at = "call" => UNCHANGED <<readBuffer, ran>>
            /\ at \in {"none", "returned", "deleted"}
                  <=> at' \in {"none", "returned", "deleted"}
        BY <2>6 DEF EnqueueStep, Lock, Unlock, Notify, BeginEnqueue,
                    BeginDestroy, SpuriousWakeup, Acquire, WaitForWork,
                    FindWork, Swap, Release, BatchDone, ClearBatch, vars,
                    buffers
      <3> QED
        BY <3>1, <3>2
    <2> QED
      BY <2>1, <2>2, <2>4, <2>5, <2>6 DEF Next, LoopStep
  <1> QED
    BY <1>1, <1>2, ControlCorrect, PTL DEF Safety, Executor!Safety

===============================================================================
