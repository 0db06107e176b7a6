----------------------------- MODULE CPUContext -----------------------------
(***************************************************************************)
(* The OpenCL emulation on the CPU: CPUContext runs the work items of a    *)
(* kernel on a fixed pool of threads, any number of callers at a time, and *)
(* GlobalFunctions tells a work item its global id through a thread local. *)
(*                                                                         *)
(* The pool is java.util.concurrent's: it starts a new thread for a task   *)
(* as long as it has fewer threads than its size, and puts the task into   *)
(* its queue otherwise; shutdownNow drops the queue.                       *)
(*                                                                         *)
(* A definition whose name ends in "_mutant" is a faulty variant of the    *)
(* one that follows it, used to test that the properties notice the fault. *)
(***************************************************************************)
EXTENDS Integers, FiniteSets

CONSTANTS
  Calls,    (* the calls of compute, each in a thread of its caller        *)
  Streams,  (* the numbers of streams they may ask for                     *)
  Workers   (* the threads of the pool: one for each available processor   *)

ASSUME CPUContextAssumption == Streams \subseteq Int

VARIABLES
  pc,       (* where every call is                                         *)
  streams,  (* aNumberOfStreams of every call                              *)
  next,     (* the number of tasks a call has submitted                    *)
  latch,    (* the count of every call's latch                             *)
  queue,    (* the tasks in the pool's queue                               *)
  worker,   (* what every pool thread is at                                *)
  local,    (* every pool thread's currentContext                          *)
  closed,   (* the context is closed                                       *)
  ran,      (* the global ids the kernel of a call ran for                 *)
  ended     (* the work items of every call whose task has ended           *)

callVars == <<pc, streams, next, latch>>
poolVars == <<queue, worker, local, closed>>
vars == <<callVars, poolVars, ran, ended>>

Task == Calls \X Nat

(* Steps of a pool thread: "new" before it is started, "idle" between two  *)
(* tasks, then the three statements of the task and the finally block.     *)
Steps == {"new", "idle", "set_id", "set_size", "process", "finally"}
Busy == Steps \ {"new", "idle"}

NoTask == [step |-> "idle"]
At(step, c, i) == [step |-> step, call |-> c, item |-> i]

Init ==
  /\ pc = [c \in Calls |-> "idle"]
  /\ streams = [c \in Calls |-> 0]
  /\ next = [c \in Calls |-> 0]
  /\ latch = [c \in Calls |-> 0]
  /\ queue = {}
  /\ worker = [w \in Workers |-> [step |-> "new"]]
  /\ local = [w \in Workers |-> [id |-> 0, size |-> 0]]
  /\ closed = FALSE
  /\ ran = [c \in Calls |-> {}]
  /\ ended = [c \in Calls |-> {}]

-----------------------------------------------------------------------------
(* The caller *)

(* new CountDownLatch(n) throws for a negative n. *)
Compute_mutant(c, n) ==
  /\ pc[c] = "idle"
  /\ pc' = [pc EXCEPT ![c] = "submitting"]
  /\ streams' = [streams EXCEPT ![c] = n]
  /\ latch' = [latch EXCEPT ![c] = n - 1]
  /\ UNCHANGED <<next, poolVars, ran, ended>>
Compute(c, n) ==
  /\ pc[c] = "idle"
  /\ IF n >= 0
     THEN /\ pc' = [pc EXCEPT ![c] = "submitting"]
          /\ streams' = [streams EXCEPT ![c] = n]
          /\ latch' = [latch EXCEPT ![c] = n]
     ELSE /\ pc' = [pc EXCEPT ![c] = "failed"]
          /\ UNCHANGED <<streams, latch>>
  /\ UNCHANGED <<next, poolVars, ran, ended>>

Submit(c) ==
  /\ pc[c] = "submitting"
  /\ next[c] < streams[c]
  /\ ~closed
  /\ \/ \E w \in Workers :
          /\ worker[w].step = "new"
          /\ worker' = [worker EXCEPT ![w] = At("set_id", c, next[c])]
          /\ UNCHANGED queue
     \/ /\ \A w \in Workers : worker[w].step # "new"
        /\ queue' = queue \union {<<c, next[c]>>}
        /\ UNCHANGED worker
  /\ next' = [next EXCEPT ![c] = @ + 1]
  /\ UNCHANGED <<pc, streams, latch, local, closed, ran, ended>>

(* A closed pool rejects the task: compute ends with an exception. *)
Reject(c) ==
  /\ pc[c] = "submitting"
  /\ next[c] < streams[c]
  /\ closed
  /\ pc' = [pc EXCEPT ![c] = "failed"]
  /\ UNCHANGED <<streams, next, latch, poolVars, ran, ended>>

Await(c) ==
  /\ pc[c] = "submitting"
  /\ next[c] = streams[c]
  /\ pc' = [pc EXCEPT ![c] = "waiting"]
  /\ UNCHANGED <<streams, next, latch, poolVars, ran, ended>>

Return(c) ==
  /\ pc[c] = "waiting"
  /\ latch[c] = 0
  /\ pc' = [pc EXCEPT ![c] = "returned"]
  /\ UNCHANGED <<streams, next, latch, poolVars, ran, ended>>

(* The calling thread is interrupted while it waits. *)
Interrupt(c) ==
  /\ pc[c] = "waiting"
  /\ pc' = [pc EXCEPT ![c] = "failed"]
  /\ UNCHANGED <<streams, next, latch, poolVars, ran, ended>>

(* close(): what is in the queue is dropped, what runs goes on. *)
Close ==
  /\ ~closed
  /\ closed' = TRUE
  /\ queue' = {}
  /\ UNCHANGED <<callVars, worker, local, ran, ended>>

-----------------------------------------------------------------------------
(* A thread of the pool *)

Take(w) ==
  /\ worker[w].step = "idle"
  /\ \E task \in queue :
       /\ queue' = queue \ {task}
       /\ worker' = [worker EXCEPT ![w] = At("set_id", task[1], task[2])]
  /\ UNCHANGED <<callVars, local, closed, ran, ended>>

(* The thread whose context GlobalFunctions.current() is. *)
ContextOf_mutant(w) == CHOOSE v \in Workers : TRUE
ContextOf(w) == w

GoTo(w, step) == worker' = [worker EXCEPT ![w].step = step]

SetGlobalId(w) ==
  /\ worker[w].step = "set_id"
  /\ local' = [local EXCEPT ![ContextOf(w)].id = worker[w].item]
  /\ GoTo(w, "set_size")
  /\ UNCHANGED <<callVars, queue, closed, ran, ended>>

SetGlobalSize(w) ==
  /\ worker[w].step = "set_size"
  /\ local' = [local EXCEPT ![ContextOf(w)].size = streams[worker[w].call]]
  /\ GoTo(w, "process")
  /\ UNCHANGED <<callVars, queue, closed, ran, ended>>

(* processWorkItem, with the id get_global_id gives it.  Whether it        *)
(* returns or throws makes no difference: nobody looks at the task's       *)
(* outcome.                                                                *)
Process_mutant(w) ==
  /\ worker[w].step = "process"
  /\ ran' = [ran EXCEPT ![worker[w].call] = @ \union {local[ContextOf(w)].id}]
  /\ \/ GoTo(w, "finally")
     \/ worker' = [worker EXCEPT ![w] = NoTask]
  /\ UNCHANGED <<callVars, queue, local, closed, ended>>
Process(w) ==
  /\ worker[w].step = "process"
  /\ ran' = [ran EXCEPT ![worker[w].call] = @ \union {local[ContextOf(w)].id}]
  /\ GoTo(w, "finally")
  /\ UNCHANGED <<callVars, queue, local, closed, ended>>

CountDown(w) ==
  /\ worker[w].step = "finally"
  /\ LET c == worker[w].call IN
       /\ latch' = [latch EXCEPT ![c] = IF @ = 0 THEN 0 ELSE @ - 1]
       /\ ended' = [ended EXCEPT ![c] = @ \union {worker[w].item}]
  /\ worker' = [worker EXCEPT ![w] = NoTask]
  /\ UNCHANGED <<pc, streams, next, queue, local, closed, ran>>

-----------------------------------------------------------------------------
Caller(c) == Submit(c) \/ Reject(c) \/ Await(c) \/ Return(c)

Worker(w) ==
  \/ Take(w)
  \/ SetGlobalId(w)
  \/ SetGlobalSize(w)
  \/ Process(w)
  \/ CountDown(w)

Next ==
  \/ \E c \in Calls, n \in Streams : Compute(c, n)
  \/ \E c \in Calls : Caller(c) \/ Interrupt(c)
  \/ \E w \in Workers : Worker(w)
  \/ Close

Spec == Init /\ [][Next]_vars

(* Every thread that can go on does: the scheduler's promise, and kernels  *)
(* that come to an end.  Nobody has to close the context or to interrupt.  *)
FairSpec ==
  /\ Spec
  /\ \A c \in Calls : WF_vars(Caller(c))
  /\ \A w \in Workers : WF_vars(Worker(w))

-----------------------------------------------------------------------------
States == {"idle", "submitting", "waiting", "returned", "failed"}

WorkerState ==
  [step: {"new", "idle"}] \union [step: Busy, call: Calls, item: Nat]

TypeOK ==
  /\ pc \in [Calls -> States]
  /\ streams \in [Calls -> Nat]
  /\ next \in [Calls -> Nat]
  /\ latch \in [Calls -> Nat]
  /\ queue \subseteq Task
  /\ worker \in [Workers -> WorkerState]
  /\ local \in [Workers -> [id: Nat, size: Nat]]
  /\ closed \in BOOLEAN
  /\ ran \in [Calls -> SUBSET Nat]
  /\ ended \in [Calls -> SUBSET Nat]

Runs(w, c) == worker[w].step \in Busy /\ worker[w].call = c

(* Once compute has returned, no work item of the call is still running or *)
(* waiting for a thread: the caller may read the results.                  *)
NothingRunsAfterReturn ==
  \A c \in Calls : pc[c] = "returned" =>
    /\ \A w \in Workers : ~Runs(w, c)
    /\ \A task \in queue : task[1] # c

(* A work item that runs sees the global id and size of its own call,      *)
(* whatever the thread did before and whoever else runs.                   *)
WorkItemSeesItsCall ==
  \A w \in Workers : worker[w].step = "process" =>
    local[w] = [id |-> worker[w].item, size |-> streams[worker[w].call]]

(* Calls of any number of threads implement what compute promises: every   *)
(* global id runs once, and the call returns only then.                    *)
P == INSTANCE ParallelFor WITH
       status <- [c \in Calls |->
                    IF pc[c] \in {"submitting", "waiting"} THEN "running" ELSE pc[c]]

ImplementsParallelFor == P!Spec

(* Every call comes to an end, even if there are more callers than pool    *)
(* threads, as long as the context stays open: a context closed under a    *)
(* call drops its queued work items, and the call waits for them forever.  *)
CallsEnd ==
  \A c \in Calls :
    pc[c] = "submitting" ~> (pc[c] \in {"returned", "failed"} \/ closed)

=============================================================================
