---------------------------- MODULE ThreadPoolMan ----------------------------
(***************************************************************************)
(* The worker pool of src/src/threadpoolman.cpp: a singleton holding a    *)
(* job list (instruction_list) and a counting semaphore (thpoolman_sem),   *)
(* guarded by one mutex (thread_list_lock), served by a fixed set of      *)
(* worker threads; callers submit jobs with Instruct (their own           *)
(* completion semaphore) or AwaitInstruct (a local one it blocks on), and *)
(* the main thread shuts the pool down with Destroy (StopThreads).        *)
(*                                                                         *)
(* A job is identified by the caller that submitted it; each caller makes *)
(* one call.  The job function itself is opaque (its return value is only *)
(* logged), so running it is one step.  Worker critical sections under    *)
(* thread_list_lock contain no blocking call and are one step each; the   *)
(* lock is a variable because StopThreads holds it across joins.          *)
(***************************************************************************)
EXTENDS Integers, Sequences, FiniteSets

CONSTANTS Workers,          \* the worker threads a pool can have, in thread_list order
          DefaultCount,     \* the initial value of the static worker_count
          Counts,           \* the counts passed to Initialize and SetWorkerCount
          Callers,          \* threads submitting one job each
          CurlCanFail,      \* whether S3fsCurl::CreateCurlHandle may fail
          DestroyWhenIdle,  \* whether Destroy is only called with no job in flight
          NoJob             \* the job slot of a worker holding no job

ASSUME /\ Workers = 1..Cardinality(Workers) /\ Workers # {}
       /\ DefaultCount \in Workers /\ -1 \in Counts /\ Counts \subseteq -1..Cardinality(Workers)
       /\ CurlCanFail \in BOOLEAN /\ DestroyWhenIdle \in BOOLEAN

ASSUME NoJob \notin Callers

VARIABLES worker_count, \* ThreadPoolMan::worker_count (static)
          nthreads,    \* the size of the live pool's thread_list
          singleton,   \* "none" before Initialize, "live", "gone" after Destroy
          is_exit,     \* ThreadPoolMan::is_exit
          sem,         \* permits of thpoolman_sem
          queue,       \* instruction_list, jobs in FIFO order
          lock,        \* thread_list_lock: "free" or "destroy" (held by StopThreads)
          wpc,         \* each worker's place in ThreadPoolMan::Worker
          wjob,        \* the job a worker popped
          cpc,         \* each caller's place
          csem,        \* permits of each caller's completion semaphore
          ran,         \* how many times each caller's job function ran
          dpc,         \* the main thread's place in Destroy / StopThreads
          joined       \* how many workers StopThreads has joined

vars == <<worker_count, nthreads, singleton, is_exit, sem, queue, lock, wpc, wjob, cpc, csem, ran, dpc, joined>>

-----------------------------------------------------------------------------

Init ==
    /\ worker_count = DefaultCount
    /\ nthreads = 0
    /\ singleton = "none"
    /\ is_exit = FALSE
    /\ sem = 0
    /\ queue = <<>>
    /\ lock = "free"
    /\ wpc = [w \in Workers |-> "none"]
    /\ wjob = [w \in Workers |-> NoJob]
    /\ cpc = [c \in Callers |-> "idle"]
    /\ csem = [c \in Callers |-> 0]
    /\ ran = [c \in Callers |-> 0]
    /\ dpc = "idle"
    /\ joined = 0

\* SetWorkerCount(count): a count that is not positive is refused; else it
\* becomes the count of the next pool (a running pool keeps its threads).
SetCount(count) == IF count > 0 THEN count ELSE worker_count

SetWorkerCount(count) ==
    /\ worker_count' = SetCount(count)
    /\ UNCHANGED <<nthreads, singleton, is_exit, sem, queue, lock, wpc, wjob, cpc, csem, ran, dpc, joined>>

\* StartThreads(count) from the constructor: StopThreads finds the new
\* object's thread list empty and returns; each of the count threads is
\* started at the top of Worker and added to thread_list.
StartThreads(n) == [w \in Workers |-> IF w <= n THEN "loop" ELSE "none"]

\* Initialize(count): SetWorkerCount(count) unless count is -1, then the
\* constructor -> StartThreads: StopThreads on the empty thread list does
\* nothing, is_exit is cleared and worker_count threads start at the top
\* of their loop.  The new object has an empty instruction_list and
\* semaphore.  Initialize is possible again after Destroy (the singleton
\* is null then); with a live singleton it aborts the program.
Initialize(count) ==
    /\ singleton \in {"none", "gone"}
    /\ dpc \in {"idle", "done"}
    /\ LET n == IF count # -1 THEN SetCount(count) ELSE worker_count
       IN  /\ worker_count' = n
           /\ nthreads' = n
           /\ wpc' = StartThreads(n)
    /\ singleton' = "live"
    /\ is_exit' = FALSE
    /\ sem' = 0
    /\ queue' = <<>>
    /\ wjob' = [w \in Workers |-> NoJob]
    /\ dpc' = "idle"
    /\ joined' = 0
    /\ UNCHANGED <<lock, cpc, csem, ran>>

\* Instruct / AwaitInstruct refused: the semaphore argument is the wrong
\* one for the call (null for Instruct, non-null for AwaitInstruct), or
\* the singleton is null.  Nothing is queued; false is returned.
CallRefused(c) ==
    /\ cpc[c] = "idle"
    /\ cpc' = [cpc EXCEPT ![c] = "failed"]
    /\ UNCHANGED <<worker_count, nthreads, singleton, is_exit, sem, queue, lock, wpc, wjob, csem, ran, dpc, joined>>

\* if(!ThreadPoolMan::singleton) return false; the call goes on when the
\* singleton is there
CallCheck(c) ==
    /\ cpc[c] = "idle"
    /\ singleton = "live"
    /\ cpc' = [cpc EXCEPT ![c] = "push"]
    /\ UNCHANGED <<worker_count, nthreads, singleton, is_exit, sem, queue, lock, wpc, wjob, csem, ran, dpc, joined>>

\* ThreadPoolMan::singleton->SetInstruction(param) reads the singleton
\* again (a call through a null one, after a Destroy since the check, is
\* undefined and not a step here; NoNullSingletonUse says when it is
\* due).  SetInstruction pushes the job under thread_list_lock ...
SetInstruction(c) ==
    /\ cpc[c] = "push"
    /\ singleton = "live"
    /\ lock = "free"
    /\ queue' = Append(queue, c)
    /\ cpc' = [cpc EXCEPT ![c] = "post"]
    /\ UNCHANGED <<worker_count, nthreads, singleton, is_exit, sem, lock, wpc, wjob, csem, ran, dpc, joined>>

\* (mutant) the caller returns without releasing thpoolman_sem
PostInstructionNoRelease(c) ==
    /\ cpc[c] = "post"
    /\ cpc' = [cpc EXCEPT ![c] = "wait"]
    /\ UNCHANGED <<worker_count, nthreads, singleton, is_exit, sem, queue, lock, wpc, wjob, csem, ran, dpc, joined>>

\* ... and, after unlocking, releases thpoolman_sem.  Instruct then returns
\* and the caller waits on its semaphore; AwaitInstruct waits inside the
\* call.
PostInstruction(c) ==
    /\ cpc[c] = "post"
    /\ sem' = sem + 1
    /\ cpc' = [cpc EXCEPT ![c] = "wait"]
    /\ UNCHANGED <<worker_count, nthreads, singleton, is_exit, queue, lock, wpc, wjob, csem, ran, dpc, joined>>

\* await_sem.acquire() (or the Instruct caller's acquire of its semaphore)
CallerAcquire(c) ==
    /\ cpc[c] = "wait"
    /\ csem[c] > 0
    /\ csem' = [csem EXCEPT ![c] = @ - 1]
    /\ cpc' = [cpc EXCEPT ![c] = "done"]
    /\ UNCHANGED <<worker_count, nthreads, singleton, is_exit, sem, queue, lock, wpc, wjob, ran, dpc, joined>>

-----------------------------------------------------------------------------
(* ThreadPoolMan::Worker                                                   *)

WSet(w, pc) == wpc' = [wpc EXCEPT ![w] = pc]

\* while(!IsExit()): leave the loop, or go wait on thpoolman_sem.  Leaving
\* destroys the thread's curl share handle and fulfils the promise, after
\* which the thread can be joined ("done").
WorkerLoop(w) ==
    /\ wpc[w] = "loop"
    /\ WSet(w, IF is_exit THEN "done" ELSE "acquire")
    /\ UNCHANGED <<worker_count, nthreads, singleton, is_exit, sem, queue, lock, wjob, cpc, csem, ran, dpc, joined>>

\* (mutant) the worker proceeds without a permit
WorkerAcquireNoWait(w) ==
    /\ wpc[w] = "acquire"
    /\ sem' = sem - 1
    /\ WSet(w, "check")
    /\ UNCHANGED <<worker_count, nthreads, singleton, is_exit, queue, lock, wjob, cpc, csem, ran, dpc, joined>>

\* thpoolman_sem.acquire()
WorkerAcquire(w) ==
    /\ wpc[w] = "acquire"
    /\ sem > 0
    /\ sem' = sem - 1
    /\ WSet(w, "check")
    /\ UNCHANGED <<worker_count, nthreads, singleton, is_exit, queue, lock, wjob, cpc, csem, ran, dpc, joined>>

\* if(IsExit()) break; then s3fscurl.CreateCurlHandle(true), whose failure
\* also breaks out of the loop.
WorkerCheck(w) ==
    /\ wpc[w] = "check"
    /\ \/ is_exit /\ WSet(w, "done")
       \/ ~is_exit /\ WSet(w, "pop")
       \/ ~is_exit /\ CurlCanFail /\ WSet(w, "done")
    /\ UNCHANGED <<worker_count, nthreads, singleton, is_exit, sem, queue, lock, wjob, cpc, csem, ran, dpc, joined>>

\* (mutant) the front job is read but not erased from the list
WorkerPopNoErase(w) ==
    /\ wpc[w] = "pop"
    /\ lock = "free"
    /\ IF queue = <<>>
       THEN WSet(w, "loop") /\ UNCHANGED <<queue, wjob>>
       ELSE /\ WSet(w, "run")
            /\ wjob' = [wjob EXCEPT ![w] = Head(queue)]
            /\ UNCHANGED queue
    /\ UNCHANGED <<worker_count, nthreads, singleton, is_exit, sem, lock, cpc, csem, ran, dpc, joined>>

\* Under thread_list_lock: an empty list means "continue" (back to the loop
\* condition); else pop the front job.
WorkerPop(w) ==
    /\ wpc[w] = "pop"
    /\ lock = "free"
    /\ IF queue = <<>>
       THEN WSet(w, "loop") /\ UNCHANGED <<queue, wjob>>
       ELSE /\ WSet(w, "run")
            /\ wjob' = [wjob EXCEPT ![w] = Head(queue)]
            /\ queue' = Tail(queue)
    /\ UNCHANGED <<worker_count, nthreads, singleton, is_exit, sem, lock, cpc, csem, ran, dpc, joined>>

\* param.pfunc(s3fscurl, param.args); a non-null result is only logged
WorkerRun(w) ==
    /\ wpc[w] = "run"
    /\ ran' = [ran EXCEPT ![wjob[w]] = @ + 1]
    /\ WSet(w, "signal")
    /\ UNCHANGED <<worker_count, nthreads, singleton, is_exit, sem, queue, lock, wjob, cpc, csem, dpc, joined>>

\* (mutant) the job's semaphore is never released
WorkerSignalNoRelease(w) ==
    /\ wpc[w] = "signal"
    /\ wjob' = [wjob EXCEPT ![w] = NoJob]
    /\ WSet(w, "loop")
    /\ UNCHANGED <<worker_count, nthreads, singleton, is_exit, sem, queue, lock, cpc, csem, ran, dpc, joined>>

\* if(param.psem) param.psem->release(); both public calls make it non-null
WorkerSignal(w) ==
    /\ wpc[w] = "signal"
    /\ csem' = [csem EXCEPT ![wjob[w]] = @ + 1]
    /\ wjob' = [wjob EXCEPT ![w] = NoJob]
    /\ WSet(w, "loop")
    /\ UNCHANGED <<worker_count, nthreads, singleton, is_exit, sem, queue, lock, cpc, ran, dpc, joined>>

-----------------------------------------------------------------------------
(* ThreadPoolMan::Destroy -> ~ThreadPoolMan -> StopThreads                 *)

\* no call in progress and no job queued or being served (the file system
\* has stopped serving)
Quiescent == /\ queue = <<>>
             /\ \A w \in Workers : wpc[w] \in {"none", "loop", "acquire", "done"}
             /\ \A c \in Callers : cpc[c] \notin {"push", "post"}

\* singleton.reset(): the pointer is nulled first, then the object is
\* deleted, whose destructor runs StopThreads
DestroyReset ==
    /\ dpc = "idle"
    /\ singleton = "live"
    /\ DestroyWhenIdle => Quiescent
    /\ singleton' = "gone"
    /\ dpc' = "lock"
    /\ UNCHANGED <<worker_count, nthreads, is_exit, sem, queue, lock, wpc, wjob, cpc, csem, ran, joined>>

\* take thread_list_lock (the thread list is not empty)
DestroyLock ==
    /\ dpc = "lock"
    /\ lock = "free"
    /\ lock' = "destroy"
    /\ dpc' = "signal"
    /\ UNCHANGED <<worker_count, nthreads, singleton, is_exit, sem, queue, wpc, wjob, cpc, csem, ran, joined>>

\* (mutant) thpoolman_sem is released once instead of once per thread
DestroySignalOnce ==
    /\ dpc = "signal"
    /\ is_exit' = TRUE
    /\ sem' = sem + 1
    /\ dpc' = "join"
    /\ UNCHANGED <<worker_count, nthreads, singleton, queue, lock, wpc, wjob, cpc, csem, ran, joined>>

\* SetExitFlag(true), then release thpoolman_sem once per thread
DestroySignal ==
    /\ dpc = "signal"
    /\ is_exit' = TRUE
    /\ sem' = sem + nthreads
    /\ dpc' = "join"
    /\ UNCHANGED <<worker_count, nthreads, singleton, queue, lock, wpc, wjob, cpc, csem, ran, joined>>

\* join the next thread of thread_list, still holding the lock
DestroyJoin ==
    /\ dpc = "join"
    /\ joined < nthreads
    /\ wpc[joined + 1] = "done"
    /\ joined' = joined + 1
    /\ UNCHANGED <<worker_count, nthreads, singleton, is_exit, sem, queue, lock, wpc, wjob, cpc, csem, ran, dpc>>

\* clear the thread list, drain thpoolman_sem, unlock; the object is then
\* freed (with any job still in instruction_list)
DestroyFinish ==
    /\ dpc = "join"
    /\ joined = nthreads
    /\ sem' = 0
    /\ lock' = "free"
    /\ dpc' = "done"
    /\ UNCHANGED <<worker_count, nthreads, singleton, is_exit, queue, wpc, wjob, cpc, csem, ran, joined>>

\* every thread has finished: the program has ended
Terminated ==
    /\ dpc = "done"
    /\ \A c \in Callers : cpc[c] \in {"done", "failed"}
    /\ UNCHANGED vars

Next ==
    \/ \E n \in Counts : Initialize(n) \/ SetWorkerCount(n)
    \/ \E c \in Callers : CallRefused(c) \/ CallCheck(c) \/ SetInstruction(c) \/ PostInstruction(c)
                         \/ CallerAcquire(c)
    \/ \E w \in Workers : \/ WorkerLoop(w) \/ WorkerAcquire(w) \/ WorkerCheck(w)
                          \/ WorkerPop(w) \/ WorkerRun(w) \/ WorkerSignal(w)
    \/ DestroyReset \/ DestroyLock \/ DestroySignal \/ DestroyJoin \/ DestroyFinish
    \/ Terminated

\* Every thread is scheduled by the OS: each step a thread can take
\* continuously is eventually taken.
Fairness ==
    /\ WF_vars(singleton = "none" /\ \E n \in Counts : Initialize(n))
    /\ \A c \in Callers : WF_vars(CallCheck(c)) /\ WF_vars(SetInstruction(c)) /\ WF_vars(PostInstruction(c))
                        /\ WF_vars(CallerAcquire(c))
    /\ \A w \in Workers : /\ WF_vars(WorkerLoop(w)) /\ WF_vars(WorkerAcquire(w))
                          /\ WF_vars(WorkerCheck(w)) /\ WF_vars(WorkerPop(w))
                          /\ WF_vars(WorkerRun(w)) /\ WF_vars(WorkerSignal(w))
    /\ WF_vars(DestroyReset) /\ WF_vars(DestroyLock) /\ WF_vars(DestroySignal)
    /\ WF_vars(DestroyJoin) /\ WF_vars(DestroyFinish)

Spec == Init /\ [][Next]_vars /\ Fairness

-----------------------------------------------------------------------------
(* Properties.                                                             *)

PC == {"none", "loop", "acquire", "check", "pop", "run", "signal", "done"}

TypeOK ==
    /\ worker_count \in Workers
    /\ nthreads \in 0..Cardinality(Workers)
    /\ singleton \in {"none", "live", "gone"}
    /\ is_exit \in BOOLEAN
    /\ sem \in Nat
    /\ queue \in Seq(Callers)
    /\ lock \in {"free", "destroy"}
    /\ wpc \in [Workers -> PC]
    /\ wjob \in [Workers -> Callers \cup {NoJob}]
    /\ cpc \in [Callers -> {"idle", "push", "post", "wait", "done", "failed"}]
    /\ csem \in [Callers -> Nat]
    /\ ran \in [Callers -> Nat]
    /\ dpc \in {"idle", "lock", "signal", "join", "done"}
    /\ joined \in 0..Cardinality(Workers)

\* Each submitted job function runs at most once, and its completion
\* semaphore is released (so AwaitInstruct returns) only after it ran:
\* the happens-before AwaitInstruct promises, across the caller, the
\* list, the semaphore and whichever worker popped the job.
JobLifecycle ==
    \A c \in Callers :
        /\ ran[c] <= 1
        /\ (cpc[c] = "done" \/ csem[c] > 0) => ran[c] = 1
        /\ (\E i \in DOMAIN queue : queue[i] = c) => ran[c] = 0

\* While the pool runs, queued jobs and permits match one to one: every
\* job in instruction_list is backed by a permit still in thpoolman_sem,
\* one a worker has taken and not yet used to pop, or one its caller has
\* still to release after unlocking.  A lost permit strands a job; an
\* extra one sends a worker to an empty list.
PermitAccounting ==
    (singleton = "live" /\ ~is_exit) =>
        sem + Cardinality({w \in Workers : wpc[w] \in {"check", "pop"}})
            + Cardinality({c \in Callers : cpc[c] = "post"}) = Len(queue)

\* Every accepted call's caller gets its completion semaphore: AwaitInstruct
\* returns, and an Instruct caller's wait ends.
AwaitReturns == \A c \in Callers : (cpc[c] = "wait") ~> (cpc[c] = "done")

\* No call goes through a null singleton: Instruct and AwaitInstruct read
\* ThreadPoolMan::singleton twice (the null check, then the call through
\* it) without a lock, and Destroy nulls it before StopThreads runs.  A
\* caller past the check finds the singleton there unless Destroy runs
\* while calls are in progress: the unmount path calls Destroy only after
\* the calls have returned, which Quiescent assumes, so the property is
\* checked only without that assumption, where the race shows.
NoNullSingletonUse == \A c \in Callers : cpc[c] = "push" => singleton = "live"

\* Once Destroy has started (StopThreads holds thread_list_lock and has set
\* the exit flag), it finishes: every worker is joined and the singleton is
\* gone.
DestroyCompletes == (dpc \in {"lock", "signal", "join"}) ~> (dpc = "done")

=============================================================================
