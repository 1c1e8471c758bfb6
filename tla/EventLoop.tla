------------------------------- MODULE EventLoop -------------------------------
(***************************************************************************)
(* src/eventLoop: a FreeRTOS task that runs the callables other tasks      *)
(* queue with enqueue().  Producers append to _writeBuffer under _mutex    *)
(* and notify _condVar after the unlock; the loop task waits for a         *)
(* non-empty _writeBuffer, swaps it with its local readBuffer under the    *)
(* mutex, and runs the batch with the mutex released.  A callable may      *)
(* itself call enqueue().                                                  *)
(*                                                                         *)
(* One action per statement that another task can observe.  The mutex and  *)
(* the condition variable (spurious wake-ups included) are external.       *)
(***************************************************************************)
EXTENDS Sequences, Naturals

CONSTANTS Producers,   \* the tasks that call enqueue(), and one of them the destructor
          Loop,        \* the task running EventLoop::taskFunc
          NoTask,      \* mutex free / nobody runs the destructor
          Calls,       \* the callables of the clients, each queued at most once
          Stop,        \* the callable of the destructor: _running = false
          NoCall

ASSUME TasksAssumption == /\ Loop \notin Producers
                          /\ NoTask \notin Producers
                          /\ Loop # NoTask
ASSUME CallsAssumption == /\ Stop \notin Calls
                          /\ NoCall \notin Calls
                          /\ Stop # NoCall

Tasks == Producers \union {Loop}
Callables == Calls \union {Stop}

VARIABLES writeBuffer, readBuffer,
          mutex,       \* the task holding _mutex, or NoTask
          running,     \* _running
          at,          \* where taskFunc is (see LoopAt)
          ran,         \* how many callables of readBuffer have been invoked
          pc, arg,     \* where each task is in enqueue(), and with which callable
          destroyer,   \* the task inside ~EventLoop, or NoTask
          posted,      \* history: every callable emplaced in _writeBuffer
          called       \* history: every callable invoked

buffers == <<writeBuffer, readBuffer, ran>>
frames  == <<pc, arg, destroyer>>
history == <<posted, called>>
vars == <<buffers, mutex, running, at, frames, history>>

(***************************************************************************)
(* "test"     about to test while(_running)                                *)
(* "acquire"  taking _mutex (first lock, or the re-lock after a wake-up)   *)
(* "pred"     holding _mutex, about to test the predicate of wait()        *)
(* "asleep"   blocked in _condVar.wait                                     *)
(* "swap" "release"  holding _mutex, predicate true                        *)
(* "run"      between two callables of the batch                           *)
(* "call"     inside readBuffer[ran]                                       *)
(* "clear"    the batch is done                                            *)
(* "none"     xTaskCreate failed, there is no loop task                    *)
(* "returned" taskFunc returned, which FreeRTOS answers with an abort      *)
(* "deleted"  vTaskDelete'd, the object is gone                            *)
(***************************************************************************)
LoopAt == {"test", "acquire", "pred", "asleep", "swap", "release", "run",
           "call", "clear", "none", "returned", "deleted"}
EnqueueAt == {"idle", "lock", "push", "unlock", "notify"}

Init == /\ writeBuffer = <<>> /\ readBuffer = <<>> /\ ran = 0
        /\ mutex = NoTask
        /\ running = TRUE
        /\ at \in {"test", "none"}       \* the constructor ignores xTaskCreate's result
        /\ pc = [t \in Tasks |-> "idle"]
        /\ arg = [t \in Tasks |-> NoCall]
        /\ destroyer = NoTask
        /\ posted = <<>> /\ called = <<>>

\* A task can take a step: no abort, and the loop task only runs enqueue()
\* from within a callable.
Runs(t) == /\ at # "returned"
           /\ t = Loop => at = "call"

NeverQueued(c) == /\ \A i \in DOMAIN posted : posted[i] # c
                  /\ \A t \in Tasks : arg[t] # c

-------------------------------------------------------------------------------
(* enqueue() *)

\* The destructor's precondition is C++'s: no other task uses the object any
\* more.  A callable that is running may still call enqueue().
BeginEnqueue(t, c) ==
    /\ Runs(t)
    /\ pc[t] = "idle"
    /\ IF t = Loop THEN readBuffer[ran] # Stop ELSE destroyer = NoTask
    /\ NeverQueued(c)
    /\ pc' = [pc EXCEPT ![t] = "lock"]
    /\ arg' = [arg EXCEPT ![t] = c]
    /\ UNCHANGED <<buffers, mutex, running, at, destroyer, history>>

\* Mutant: an enqueue() without the lock_guard's wait.
LockUnguarded(t) ==
    /\ Runs(t)
    /\ pc[t] = "lock"
    /\ mutex' = t
    /\ pc' = [pc EXCEPT ![t] = "push"]
    /\ UNCHANGED <<buffers, running, at, arg, destroyer, history>>

Lock(t) ==
    /\ Runs(t)
    /\ pc[t] = "lock"
    /\ mutex = NoTask
    /\ mutex' = t
    /\ pc' = [pc EXCEPT ![t] = "push"]
    /\ UNCHANGED <<buffers, running, at, arg, destroyer, history>>

\* Mutant: the callable is emplaced at the front.
PushFront(t) ==
    /\ Runs(t)
    /\ pc[t] = "push"
    /\ writeBuffer' = <<arg[t]>> \o writeBuffer
    /\ posted' = Append(posted, arg[t])
    /\ pc' = [pc EXCEPT ![t] = "unlock"]
    /\ UNCHANGED <<readBuffer, ran, mutex, running, at, arg, destroyer, called>>

Push(t) ==
    /\ Runs(t)
    /\ pc[t] = "push"
    /\ writeBuffer' = Append(writeBuffer, arg[t])
    /\ posted' = Append(posted, arg[t])
    /\ pc' = [pc EXCEPT ![t] = "unlock"]
    /\ UNCHANGED <<readBuffer, ran, mutex, running, at, arg, destroyer, called>>

Unlock(t) ==
    /\ Runs(t)
    /\ pc[t] = "unlock"
    /\ mutex' = NoTask
    /\ pc' = [pc EXCEPT ![t] = "notify"]
    /\ UNCHANGED <<buffers, running, at, arg, destroyer, history>>

\* Mutant: enqueue() forgets to notify.
NotifyForgotten(t) ==
    /\ Runs(t)
    /\ pc[t] = "notify"
    /\ pc' = [pc EXCEPT ![t] = "idle"]
    /\ arg' = [arg EXCEPT ![t] = NoCall]
    /\ UNCHANGED <<buffers, mutex, running, at, destroyer, history>>

\* notify_one() wakes the loop task if it is blocked in wait(), and is
\* otherwise lost.
Notify(t) ==
    /\ Runs(t)
    /\ pc[t] = "notify"
    /\ at' = IF at = "asleep" THEN "acquire" ELSE at
    /\ pc' = [pc EXCEPT ![t] = "idle"]
    /\ arg' = [arg EXCEPT ![t] = NoCall]
    /\ UNCHANGED <<buffers, mutex, running, destroyer, history>>

EnqueueStep(t) == Lock(t) \/ Push(t) \/ Unlock(t) \/ Notify(t)

-------------------------------------------------------------------------------
(* taskFunc() *)

TestRunning == /\ at = "test"
               /\ at' = IF running THEN "acquire" ELSE "returned"
               /\ UNCHANGED <<buffers, mutex, running, frames, history>>

Acquire == /\ at = "acquire"
           /\ mutex = NoTask
           /\ mutex' = Loop
           /\ at' = "pred"
           /\ UNCHANGED <<buffers, running, frames, history>>

\* wait() gives the mutex back and blocks in one step.
WaitForWork == /\ at = "pred"
               /\ writeBuffer = <<>>
               /\ mutex' = NoTask
               /\ at' = "asleep"
               /\ UNCHANGED <<buffers, running, frames, history>>

SpuriousWakeup == /\ at = "asleep"
                  /\ at' = "acquire"
                  /\ UNCHANGED <<buffers, mutex, running, frames, history>>

\* Mutant: the predicate asks for more than one callable.
FindMoreWork == /\ at = "pred"
                /\ Len(writeBuffer) > 1
                /\ at' = "swap"
                /\ UNCHANGED <<buffers, mutex, running, frames, history>>

FindWork == /\ at = "pred"
            /\ writeBuffer # <<>>
            /\ at' = "swap"
            /\ UNCHANGED <<buffers, mutex, running, frames, history>>

Swap == /\ at = "swap"
        /\ readBuffer' = writeBuffer
        /\ writeBuffer' = readBuffer
        /\ at' = "release"
        /\ UNCHANGED <<ran, mutex, running, frames, history>>

\* Mutant: the batch is run inside the unique_lock's scope.
ReleaseForgotten == /\ at = "release"
                    /\ at' = "run"
                    /\ UNCHANGED <<buffers, mutex, running, frames, history>>

Release == /\ at = "release"
           /\ mutex' = NoTask
           /\ at' = "run"
           /\ UNCHANGED <<buffers, running, frames, history>>

\* The only effect of Stop is _running = false.
Invoke == /\ at = "run"
          /\ ran < Len(readBuffer)
          /\ ran' = ran + 1
          /\ called' = Append(called, readBuffer[ran + 1])
          /\ running' = (running /\ readBuffer[ran + 1] # Stop)
          /\ at' = "call"
          /\ UNCHANGED <<writeBuffer, readBuffer, mutex, frames, posted>>

CallReturns == /\ at = "call"
               /\ pc[Loop] = "idle"
               /\ at' = "run"
               /\ UNCHANGED <<buffers, mutex, running, frames, history>>

BatchDone == /\ at = "run"
             /\ ran = Len(readBuffer)
             /\ at' = "clear"
             /\ UNCHANGED <<buffers, mutex, running, frames, history>>

\* Mutant: readBuffer.clear() forgotten, the next swap hands the batch back.
ClearForgotten == /\ at = "clear"
                  /\ ran' = 0
                  /\ at' = "test"
                  /\ UNCHANGED <<writeBuffer, readBuffer, mutex, running, frames, history>>

\* Mutant: the iteration goes on from where the last batch stopped.
ClearWithoutRewind == /\ at = "clear"
                      /\ readBuffer' = <<>>
                      /\ at' = "test"
                      /\ UNCHANGED <<writeBuffer, ran, mutex, running, frames, history>>

ClearBatch == /\ at = "clear"
              /\ readBuffer' = <<>>
              /\ ran' = 0
              /\ at' = "test"
              /\ UNCHANGED <<writeBuffer, mutex, running, frames, history>>

LoopStep == \/ TestRunning \/ Acquire \/ WaitForWork \/ FindWork \/ Swap
            \/ Release \/ Invoke \/ CallReturns \/ BatchDone \/ ClearBatch

-------------------------------------------------------------------------------
(* ~EventLoop() *)

BeginDestroy(t) ==
    /\ at # "returned"
    /\ destroyer = NoTask
    /\ \A p \in Producers : pc[p] = "idle"
    /\ destroyer' = t
    /\ pc' = [pc EXCEPT ![t] = "lock"]
    /\ arg' = [arg EXCEPT ![t] = Stop]
    /\ UNCHANGED <<buffers, mutex, running, at, history>>

\* Straight after enqueue(Stop) returned: the loop task is deleted wherever
\* it is.
DeleteTask ==
    /\ at \notin {"returned", "deleted"}
    /\ destroyer # NoTask
    /\ pc[destroyer] = "idle"
    /\ at' = "deleted"
    /\ UNCHANGED <<buffers, mutex, running, frames, history>>

-------------------------------------------------------------------------------
Next == \/ \E t \in Tasks : \/ EnqueueStep(t)
                            \/ \E c \in Calls : BeginEnqueue(t, c)
        \/ LoopStep
        \/ SpuriousWakeup
        \/ \E t \in Producers : BeginDestroy(t)
        \/ DeleteTask

Safety == Init /\ [][Next]_vars

(***************************************************************************)
(* FreeRTOS runs every ready task eventually, hands _mutex to a task that  *)
(* keeps asking for it, and callables return.  Nobody is obliged to call   *)
(* enqueue() or the destructor, and no spurious wake-up is owed.           *)
(***************************************************************************)
Fairness == /\ \A t \in Tasks : WF_vars(EnqueueStep(t)) /\ SF_vars(Lock(t))
            /\ WF_vars(LoopStep) /\ SF_vars(Acquire)
            /\ WF_vars(DeleteTask)

Spec == Safety /\ Fairness

-------------------------------------------------------------------------------
(* The state seen as a SerialExecutor *)

\* Queued and not yet invoked: the rest of the batch, then what producers wrote.
Pending == SubSeq(readBuffer, ran + 1, Len(readBuffer)) \o writeBuffer

Executor == INSTANCE SerialExecutor WITH
                Nothing  <- NoCall,
                queue    <- Pending,
                current  <- IF at = "call" THEN readBuffer[ran] ELSE NoCall,
                executed <- called,
                worker   <- IF at \in {"none", "returned", "deleted"}
                            THEN "down" ELSE "up"

\* The event loop is a serial executor that serves its queue as long as its
\* task exists (enqueue and taskFunc, src/eventLoop/eventLoop.cpp).
ImplementsExecutor == Executor!Spec

-------------------------------------------------------------------------------
(* Properties *)

TypeOK == /\ writeBuffer \in Seq(Callables) /\ readBuffer \in Seq(Callables)
          /\ ran \in 0 .. Len(readBuffer)
          /\ mutex \in Tasks \union {NoTask}
          /\ running \in BOOLEAN
          /\ at \in LoopAt
          /\ pc \in [Tasks -> EnqueueAt]
          /\ arg \in [Tasks -> Callables \union {NoCall}]
          /\ destroyer \in Producers \union {NoTask}
          /\ posted \in Seq(Callables) /\ called \in Seq(Callables)

\* Whatever the interleaving of producers, swaps and callables that enqueue,
\* no callable is lost, duplicated or overtaken: what was emplaced is what
\* has been invoked followed by what is still pending, in that order.
FifoExactlyOnce == posted = called \o Pending

InEnqueueSection(t) == pc[t] \in {"push", "unlock"}
LoopHolds == at \in {"pred", "swap", "release"}

\* Each buffer access made under _mutex really holds it, so no producer
\* appends to a vector that another producer or the swap is changing; and the
\* loop task never keeps _mutex while it runs a callable, so a callable that
\* enqueues cannot deadlock on the loop's own (non-recursive) mutex.
LockDiscipline ==
    /\ \A t \in Tasks : InEnqueueSection(t) => mutex = t
    /\ LoopHolds => mutex = Loop
    /\ at = "call" /\ mutex = Loop => InEnqueueSection(Loop)

\* enqueue() notifies after the unlock.  If the loop task sleeps on work, a
\* producer is still about to wake it: no order of unlock, wait and notify
\* leaves work behind a sleeping loop.
NoLostWakeup ==
    at = "asleep" /\ writeBuffer # <<>> =>
        \E t \in Producers : pc[t] \in {"unlock", "notify"}

\* Every callable a producer gets to hand over is run, unless the object is
\* being destroyed or its task could not be created.
EveryCallRuns ==
    \A c \in Calls :
        (\E t \in Tasks : arg[t] = c) ~>
            \/ \E i \in DOMAIN called : called[i] = c
            \/ destroyer # NoTask
            \/ at = "none"

\* enqueue() returns to its caller whatever the loop task is running, even
\* when it is called from a callable, or when there is no loop task at all.
EnqueueReturns ==
    \A t \in Tasks :
        (pc[t] # "idle") ~> (pc[t] = "idle" \/ at \in {"returned", "deleted"})
===============================================================================
