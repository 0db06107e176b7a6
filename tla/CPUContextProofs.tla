-------------------------- MODULE CPUContextProofs --------------------------
(***************************************************************************)
(* Proofs about CPUContext, for any number of calls, streams and threads.  *)
(*                                                                         *)
(* The inductive invariant follows every work item: it is at one place at  *)
(* a time (not yet submitted, in the queue, with one thread, ended), and   *)
(* the latch counts exactly those that have not ended.  A latch at zero    *)
(* then means that all of them have, which is what returning relies on.    *)
(***************************************************************************)
EXTENDS CPUContext, FiniteSetTheorems, TLAPS

(* An item of a call that was submitted and whose task has not ended.      *)
Open(c, i) == i \in 0 .. next[c] - 1 /\ i \notin ended[c]

CallsOK ==
  \A c \in Calls :
    /\ next[c] <= streams[c]
    /\ pc[c] = "idle" => streams[c] = 0
    /\ pc[c] \in {"waiting", "returned"} => next[c] = streams[c]
    /\ pc[c] = "returned" => latch[c] = 0

(* The latch counts the items that have not ended. *)
LatchCounts ==
  \A c \in Calls :
    /\ ended[c] \subseteq 0 .. next[c] - 1
    /\ latch[c] + Cardinality(ended[c]) = streams[c]

QueueOpen == \A task \in queue : Open(task[1], task[2]) /\ task[2] \notin ran[task[1]]

WorkersOpen ==
  \A w \in Workers : worker[w].step \in Busy =>
    LET c == worker[w].call
        i == worker[w].item
    IN  /\ Open(c, i)
        /\ <<c, i>> \notin queue
        /\ worker[w].step = "finally" <=> i \in ran[c]

(* No two threads have the same work item. *)
WorkersApart ==
  \A v, w \in Workers :
    /\ worker[v].step \in Busy
    /\ worker[w].step \in Busy
    /\ worker[v].call = worker[w].call
    /\ worker[v].item = worker[w].item
    => v = w

RanEnded == \A c \in Calls : ended[c] \subseteq ran[c] /\ ran[c] \subseteq 0 .. next[c] - 1

LocalSet ==
  \A w \in Workers :
    /\ worker[w].step \in {"set_size", "process"} => local[w].id = worker[w].item
    /\ worker[w].step = "process" => local[w].size = streams[worker[w].call]

IInv ==
  /\ TypeOK
  /\ CallsOK
  /\ LatchCounts
  /\ QueueOpen
  /\ WorkersOpen
  /\ WorkersApart
  /\ RanEnded
  /\ LocalSet

-----------------------------------------------------------------------------
LEMMA InitInv == Init => IInv
<1> SUFFICES ASSUME Init PROVE IInv
  OBVIOUS
<1>1. TypeOK
  BY DEF Init, TypeOK, States, WorkerState
<1>2. LatchCounts
  BY FS_EmptySet DEF Init, LatchCounts
<1>3. CallsOK /\ QueueOpen /\ WorkersOpen /\ WorkersApart /\ RanEnded /\ LocalSet
  BY DEF Init, CallsOK, QueueOpen, WorkersOpen, WorkersApart, RanEnded, LocalSet, Busy, Steps
<1> QED
  BY <1>1, <1>2, <1>3 DEF IInv

LEMMA WorkerFields ==
  ASSUME TypeOK, NEW w \in Workers
  PROVE  /\ worker[w].step \in Steps
         /\ worker[w].step \in Busy =>
               worker[w].call \in Calls /\ worker[w].item \in Nat
  BY DEF TypeOK, WorkerState, Busy, Steps

LEMMA IntervalCount ==
  ASSUME NEW n \in Nat
  PROVE  /\ IsFiniteSet(0 .. n - 1)
         /\ Cardinality(0 .. n - 1) = n
<1>1. 0 \in Int /\ n - 1 \in Int
  OBVIOUS
<1>2. /\ IsFiniteSet(0 .. n - 1)
      /\ Cardinality(0 .. n - 1) = IF 0 > n - 1 THEN 0 ELSE (n - 1) - 0 + 1
  BY <1>1, FS_Interval
<1> QED
  BY <1>2

(* What the items that have not ended leave to count: the latch of a call  *)
(* with an open item is not at zero, and an ended item takes one off.      *)
LEMMA OpenCounts ==
  ASSUME IInv, NEW c \in Calls, NEW i \in Nat, Open(c, i)
  PROVE  /\ latch[c] >= 1
         /\ Cardinality(ended[c] \union {i}) = Cardinality(ended[c]) + 1
<1>1. /\ next[c] \in Nat /\ streams[c] \in Nat /\ latch[c] \in Nat
      /\ next[c] <= streams[c]
      /\ ended[c] \subseteq 0 .. next[c] - 1
      /\ latch[c] + Cardinality(ended[c]) = streams[c]
  BY DEF IInv, TypeOK, CallsOK, LatchCounts
<1>2. /\ IsFiniteSet(0 .. next[c] - 1)
      /\ Cardinality(0 .. next[c] - 1) = next[c]
  BY <1>1, IntervalCount
<1>3. IsFiniteSet(ended[c]) /\ Cardinality(ended[c]) \in Nat
  BY <1>1, <1>2, FS_Subset, FS_CardinalityType
<1>4. Cardinality(ended[c] \union {i}) = Cardinality(ended[c]) + 1
  BY <1>3, FS_AddElement DEF Open
<1>5. ended[c] \union {i} \subseteq 0 .. next[c] - 1
  BY <1>1 DEF Open
<1>6. Cardinality(ended[c] \union {i}) <= next[c]
  BY <1>2, <1>5, FS_Subset
<1> QED
  BY <1>1, <1>3, <1>4, <1>6

(* A latch at zero: every work item of a call that waits has ended. *)
LEMMA ZeroMeansEnded ==
  ASSUME IInv, NEW c \in Calls, pc[c] \in {"waiting", "returned"}, latch[c] = 0
  PROVE  ended[c] = 0 .. streams[c] - 1
<1>1. /\ streams[c] \in Nat /\ next[c] = streams[c]
      /\ ended[c] \subseteq 0 .. streams[c] - 1
      /\ latch[c] + Cardinality(ended[c]) = streams[c]
  BY DEF IInv, TypeOK, CallsOK, LatchCounts
<1>2. /\ IsFiniteSet(0 .. streams[c] - 1)
      /\ Cardinality(0 .. streams[c] - 1) = streams[c]
  BY <1>1, IntervalCount
<1>3. Cardinality(ended[c]) = streams[c]
  BY <1>1, <1>2, FS_Subset, FS_CardinalityType
<1> QED
  BY <1>1, <1>2, <1>3, FS_Subset

-----------------------------------------------------------------------------
(* The steps of the callers *)

LEMMA ComputeInv ==
  ASSUME IInv, NEW c \in Calls, NEW n \in Streams, Compute(c, n)
  PROVE  IInv'
<1>1. /\ pc[c] = "idle"
      /\ UNCHANGED <<next, queue, worker, local, closed, ran, ended>>
  BY DEF Compute, poolVars
<1>2. /\ streams[c] = 0 /\ next[c] = 0 /\ ended[c] = {}
  BY <1>1 DEF IInv, TypeOK, CallsOK, LatchCounts
<1>3. CASE n < 0
  <2>1. pc' = [pc EXCEPT ![c] = "failed"] /\ streams' = streams /\ latch' = latch
    BY <1>3, CPUContextAssumption DEF Compute
  <2>2. TypeOK' /\ CallsOK'
    BY <1>1, <2>1 DEF IInv, TypeOK, CallsOK, States, Task
  <2>3. /\ LatchCounts' /\ QueueOpen' /\ WorkersOpen' /\ WorkersApart'
        /\ RanEnded' /\ LocalSet'
    BY <1>1, <2>1
    DEF IInv, LatchCounts, QueueOpen, WorkersOpen, WorkersApart, RanEnded, LocalSet, Open
  <2> QED
    BY <2>2, <2>3 DEF IInv
<1>4. CASE n >= 0
  <2>1. /\ n \in Nat
        /\ pc' = [pc EXCEPT ![c] = "submitting"]
        /\ streams' = [streams EXCEPT ![c] = n]
        /\ latch' = [latch EXCEPT ![c] = n]
    BY <1>4, CPUContextAssumption DEF Compute
  <2>2. TypeOK'
    BY <1>1, <2>1 DEF IInv, TypeOK, States, Task
  <2>3. CallsOK'
    BY <1>1, <1>2, <2>1 DEF IInv, TypeOK, CallsOK
  <2>4. LatchCounts'
    <3>1. \A d \in Calls : d # c =>
            latch'[d] = latch[d] /\ streams'[d] = streams[d]
      BY <2>1 DEF IInv, TypeOK
    <3>2. latch'[c] + Cardinality(ended[c]) = streams'[c]
      BY <1>2, <2>1, FS_EmptySet DEF IInv, TypeOK
    <3> QED
      BY <1>1, <3>1, <3>2 DEF IInv, LatchCounts
  <2>5. QueueOpen' /\ WorkersOpen' /\ WorkersApart' /\ RanEnded'
    BY <1>1 DEF IInv, QueueOpen, WorkersOpen, WorkersApart, RanEnded, Open
  <2>6. ASSUME NEW w \in Workers, worker[w].step = "process"
        PROVE  worker[w].call \in Calls /\ worker[w].call # c
    <3>1. Open(worker[w].call, worker[w].item)
      BY <2>6 DEF IInv, WorkersOpen, Busy, Steps
    <3>2. worker[w].call \in Calls
      BY <2>6, WorkerFields DEF Busy, Steps, IInv
    <3>3. ~Open(c, worker[w].item)
      BY <1>2 DEF Open
    <3> QED
      BY <3>1, <3>2, <3>3
  <2>7. LocalSet'
    BY <1>1, <2>1, <2>6 DEF IInv, TypeOK, LocalSet
  <2> QED
    BY <2>2, <2>3, <2>4, <2>5, <2>7 DEF IInv
<1> QED
  BY <1>3, <1>4, CPUContextAssumption

LEMMA SubmitInv ==
  ASSUME IInv, NEW c \in Calls, Submit(c)
  PROVE  IInv'
<1>0. /\ next[c] \in Nat /\ streams[c] \in Nat /\ next[c] < streams[c]
      /\ pc[c] = "submitting"
      /\ next' = [next EXCEPT ![c] = next[c] + 1]
      /\ next'[c] = next[c] + 1
      /\ \A d \in Calls : d # c => next'[d] = next[d]
      /\ UNCHANGED <<pc, streams, latch, local, closed, ran, ended>>
  BY DEF Submit, IInv, TypeOK
<1>k. PICK k \in Nat : k = next[c]
  BY <1>0
<1>1. CallsOK'
  BY <1>0 DEF IInv, TypeOK, CallsOK
<1>2. LatchCounts' /\ RanEnded'
  <2>1. \A d \in Calls : next[d] \in Nat /\ 0 .. next[d] - 1 \subseteq 0 .. next'[d] - 1
    BY <1>0 DEF IInv, TypeOK
  <2> QED
    BY <1>0, <2>1 DEF IInv, LatchCounts, RanEnded
<1>3. k \notin 0 .. next[c] - 1
  BY <1>0, <1>k
<1>4. /\ k \notin ended[c]
      /\ k \notin ran[c]
      /\ <<c, k>> \notin queue
  BY <1>3 DEF IInv, LatchCounts, RanEnded, QueueOpen, Open
<1>5. ASSUME NEW w \in Workers, worker[w].step \in Busy, worker[w].call = c
      PROVE  worker[w].item # k
  BY <1>3, <1>5 DEF IInv, WorkersOpen, Open
<1>6. \A d \in Calls, i \in Nat : Open(d, i) => Open(d, i)'
  BY <1>0 DEF Open, IInv, TypeOK
<1>7. Open(c, k)'
  <2>1. k \in 0 .. next'[c] - 1
    BY <1>0, <1>k
  <2> QED
    BY <1>0, <1>4, <2>1 DEF Open
<1>8. CASE queue' = queue \union {<<c, k>>} /\ worker' = worker
  <2>1. TypeOK'
    BY <1>0, <1>8 DEF IInv, TypeOK, Task
  <2>2. QueueOpen'
    <3> SUFFICES ASSUME NEW task \in queue'
                 PROVE  Open(task[1], task[2])' /\ task[2] \notin ran'[task[1]]
      BY DEF QueueOpen
    <3>1. CASE task \in queue
      BY <1>0, <1>6, <3>1 DEF IInv, TypeOK, QueueOpen, Task
    <3>2. CASE task = <<c, k>>
      BY <1>0, <1>4, <1>7, <3>2
    <3> QED
      BY <1>8, <3>1, <3>2
  <2>3. WorkersOpen'
    <3> SUFFICES ASSUME NEW w \in Workers, worker[w].step \in Busy
                 PROVE  /\ Open(worker[w].call, worker[w].item)'
                        /\ <<worker[w].call, worker[w].item>> \notin queue'
                        /\ worker[w].step = "finally" <=>
                              worker[w].item \in ran[worker[w].call]
      BY <1>0, <1>8 DEF WorkersOpen
    <3>1. worker[w].call \in Calls /\ worker[w].item \in Nat
      BY WorkerFields DEF IInv
    <3> QED
      BY <1>5, <1>6, <1>8, <3>1 DEF IInv, WorkersOpen
  <2>4. WorkersApart' /\ LocalSet'
    BY <1>0, <1>8 DEF IInv, WorkersApart, LocalSet
  <2> QED
    BY <1>1, <1>2, <2>1, <2>2, <2>3, <2>4 DEF IInv
<1>9. ASSUME NEW w \in Workers, worker[w].step = "new",
             worker' = [worker EXCEPT ![w] = At("set_id", c, k)],
             queue' = queue
      PROVE  IInv'
  <2>1. TypeOK'
    BY <1>0, <1>9 DEF IInv, TypeOK, WorkerState, At, Busy, Steps
  <2>2. QueueOpen'
    BY <1>0, <1>6, <1>9 DEF IInv, TypeOK, QueueOpen, Task
  <2>3. /\ worker'[w] = At("set_id", c, k)
        /\ \A v \in Workers : v # w => worker'[v] = worker[v]
    BY <1>9 DEF IInv, TypeOK
  <2>4. WorkersOpen'
    <3> SUFFICES ASSUME NEW v \in Workers, worker'[v].step \in Busy
                 PROVE  /\ Open(worker[v].call, worker[v].item)'
                        /\ <<worker'[v].call, worker'[v].item>> \notin queue
                        /\ worker'[v].step = "finally" <=>
                              worker'[v].item \in ran[worker'[v].call]
      BY <1>0, <1>9 DEF WorkersOpen
    <3>1. CASE v = w
      BY <1>4, <1>7, <2>3, <3>1 DEF At
    <3>2. CASE v # w
      <4>1. worker[v].call \in Calls /\ worker[v].item \in Nat
        BY <2>3, <3>2, WorkerFields DEF IInv
      <4> QED
        BY <1>6, <2>3, <3>2, <4>1 DEF IInv, WorkersOpen
    <3> QED
      BY <3>1, <3>2
  <2>5. WorkersApart'
    BY <1>5, <2>3 DEF IInv, WorkersApart, At
  <2>6. LocalSet'
    BY <1>0, <2>3 DEF IInv, LocalSet, At
  <2> QED
    BY <1>1, <1>2, <2>1, <2>2, <2>4, <2>5, <2>6 DEF IInv
<1> QED
  BY <1>8, <1>9, <1>k DEF Submit

(* The other steps of the callers change where a call is, and nothing else. *)
LEMMA CallerInv ==
  ASSUME IInv, NEW c \in Calls,
         Reject(c) \/ Await(c) \/ Return(c) \/ Interrupt(c)
  PROVE  IInv'
<1>1. /\ UNCHANGED <<streams, next, latch, queue, worker, local, closed, ran, ended>>
      /\ pc[c] # "idle"
      /\ \E s \in States :
            /\ pc' = [pc EXCEPT ![c] = s]
            /\ s # "idle"
            /\ s \in {"waiting", "returned"} => next[c] = streams[c]
            /\ s = "returned" => latch[c] = 0
  BY DEF Reject, Await, Return, Interrupt, poolVars, States, IInv, TypeOK, CallsOK
<1>2. TypeOK' /\ CallsOK'
  BY <1>1 DEF IInv, TypeOK, CallsOK, Task
<1>3. /\ LatchCounts' /\ QueueOpen' /\ WorkersOpen' /\ WorkersApart'
      /\ RanEnded' /\ LocalSet'
  BY <1>1
  DEF IInv, LatchCounts, QueueOpen, WorkersOpen, WorkersApart, RanEnded, LocalSet, Open
<1> QED
  BY <1>2, <1>3 DEF IInv

LEMMA CloseInv ==
  ASSUME IInv, Close
  PROVE  IInv'
<1>1. /\ queue' = {} /\ closed' \in BOOLEAN
      /\ UNCHANGED <<pc, streams, next, latch, worker, local, ran, ended>>
  BY DEF Close, callVars
<1>2. TypeOK' /\ CallsOK' /\ LatchCounts' /\ WorkersApart' /\ RanEnded' /\ LocalSet'
  BY <1>1 DEF IInv, TypeOK, CallsOK, LatchCounts, WorkersApart, RanEnded, LocalSet
<1>3. QueueOpen' /\ WorkersOpen'
  BY <1>1 DEF IInv, QueueOpen, WorkersOpen, Open
<1> QED
  BY <1>2, <1>3 DEF IInv

-----------------------------------------------------------------------------
(* The steps of the pool's threads *)

LEMMA TakeInv ==
  ASSUME IInv, NEW w \in Workers, Take(w)
  PROVE  IInv'
<1>1. PICK task \in queue :
        /\ queue' = queue \ {task}
        /\ worker' = [worker EXCEPT ![w] = At("set_id", task[1], task[2])]
  BY DEF Take
<1>2. /\ UNCHANGED <<pc, streams, next, latch, local, closed, ran, ended>>
      /\ worker[w].step = "idle"
  BY DEF Take, callVars
<1>3. /\ task[1] \in Calls /\ task[2] \in Nat
      /\ task = <<task[1], task[2]>>
      /\ Open(task[1], task[2])
      /\ task[2] \notin ran[task[1]]
  BY <1>1 DEF IInv, TypeOK, Task, QueueOpen
<1>4. /\ worker'[w] = At("set_id", task[1], task[2])
      /\ \A v \in Workers : v # w => worker'[v] = worker[v]
  BY <1>1 DEF IInv, TypeOK
<1>5. TypeOK'
  <2>1. At("set_id", task[1], task[2]) \in WorkerState
    BY <1>3 DEF At, WorkerState, Busy, Steps
  <2> QED
    BY <1>1, <1>2, <2>1 DEF IInv, TypeOK
<1>6. CallsOK' /\ LatchCounts' /\ RanEnded'
  BY <1>2 DEF IInv, CallsOK, LatchCounts, RanEnded
<1>7. QueueOpen'
  BY <1>1, <1>2 DEF IInv, QueueOpen, Open
<1>8. WorkersOpen'
  <2> SUFFICES ASSUME NEW v \in Workers, worker'[v].step \in Busy
               PROVE  /\ Open(worker'[v].call, worker'[v].item)
                      /\ <<worker'[v].call, worker'[v].item>> \notin queue'
                      /\ worker'[v].step = "finally" <=>
                            worker'[v].item \in ran[worker'[v].call]
    BY <1>2 DEF WorkersOpen, Open
  <2>1. CASE v = w
    BY <1>1, <1>3, <1>4, <2>1 DEF At
  <2>2. CASE v # w
    BY <1>1, <1>4, <2>2 DEF IInv, WorkersOpen
  <2> QED
    BY <2>1, <2>2
<1>9. WorkersApart'
  <2>1. ASSUME NEW v \in Workers, worker[v].step \in Busy
        PROVE  <<worker[v].call, worker[v].item>> # task
    BY <1>1, <2>1 DEF IInv, WorkersOpen
  <2> QED
    BY <1>3, <1>4, <2>1 DEF IInv, WorkersApart, At
<1>10. LocalSet'
  BY <1>2, <1>4 DEF IInv, LocalSet, At
<1> QED
  BY <1>5, <1>6, <1>7, <1>8, <1>9, <1>10 DEF IInv

(* Writing the global id, the global size, and running the kernel keep the *)
(* work item with its thread and take it one step further.                 *)
LEMMA SetGlobalIdInv ==
  ASSUME IInv, NEW w \in Workers, SetGlobalId(w)
  PROVE  IInv'
<1>1. /\ UNCHANGED <<pc, streams, next, latch, queue, closed, ran, ended>>
      /\ worker[w].step = "set_id"
      /\ local' = [local EXCEPT ![w].id = worker[w].item]
      /\ worker' = [worker EXCEPT ![w].step = "set_size"]
  BY DEF SetGlobalId, callVars, GoTo, ContextOf
<1>2. worker[w].call \in Calls /\ worker[w].item \in Nat
  BY <1>1, WorkerFields DEF IInv, Busy, Steps
<1>3. /\ worker'[w].step = "set_size"
      /\ worker'[w].call = worker[w].call
      /\ worker'[w].item = worker[w].item
      /\ \A v \in Workers : v # w => worker'[v] = worker[v] /\ local'[v] = local[v]
      /\ local'[w].id = worker[w].item
  BY <1>1 DEF IInv, TypeOK, WorkerState, Busy, Steps
<1>4. TypeOK'
  BY <1>1, <1>2 DEF IInv, TypeOK, WorkerState, Busy, Steps
<1>5. CallsOK' /\ LatchCounts' /\ RanEnded' /\ QueueOpen'
  BY <1>1 DEF IInv, CallsOK, LatchCounts, RanEnded, QueueOpen, Open
<1>6. WorkersOpen' /\ WorkersApart'
  BY <1>1, <1>3 DEF IInv, WorkersOpen, WorkersApart, Open, Busy, Steps
<1>7. LocalSet'
  BY <1>1, <1>3 DEF IInv, LocalSet
<1> QED
  BY <1>4, <1>5, <1>6, <1>7 DEF IInv

LEMMA SetGlobalSizeInv ==
  ASSUME IInv, NEW w \in Workers, SetGlobalSize(w)
  PROVE  IInv'
<1>1. /\ UNCHANGED <<pc, streams, next, latch, queue, closed, ran, ended>>
      /\ worker[w].step = "set_size"
      /\ local' = [local EXCEPT ![w].size = streams[worker[w].call]]
      /\ worker' = [worker EXCEPT ![w].step = "process"]
  BY DEF SetGlobalSize, callVars, GoTo, ContextOf
<1>2. worker[w].call \in Calls /\ worker[w].item \in Nat
  BY <1>1, WorkerFields DEF IInv, Busy, Steps
<1>3. /\ worker'[w].step = "process"
      /\ worker'[w].call = worker[w].call
      /\ worker'[w].item = worker[w].item
      /\ \A v \in Workers : v # w => worker'[v] = worker[v] /\ local'[v] = local[v]
      /\ local'[w].id = local[w].id
      /\ local'[w].size = streams[worker[w].call]
  BY <1>1 DEF IInv, TypeOK, WorkerState, Busy, Steps
<1>4. TypeOK'
  BY <1>1, <1>2 DEF IInv, TypeOK, WorkerState, Busy, Steps
<1>5. CallsOK' /\ LatchCounts' /\ RanEnded' /\ QueueOpen'
  BY <1>1 DEF IInv, CallsOK, LatchCounts, RanEnded, QueueOpen, Open
<1>6. WorkersOpen' /\ WorkersApart'
  BY <1>1, <1>3 DEF IInv, WorkersOpen, WorkersApart, Open, Busy, Steps
<1>7. LocalSet'
  BY <1>1, <1>3 DEF IInv, LocalSet
<1> QED
  BY <1>4, <1>5, <1>6, <1>7 DEF IInv

LEMMA ProcessInv ==
  ASSUME IInv, NEW w \in Workers, Process(w)
  PROVE  IInv'
<1> DEFINE c == worker[w].call
           i == worker[w].item
<1>1. /\ UNCHANGED <<pc, streams, next, latch, queue, local, closed, ended>>
      /\ worker[w].step = "process"
      /\ ran' = [ran EXCEPT ![c] = @ \union {local[w].id}]
      /\ worker' = [worker EXCEPT ![w].step = "finally"]
  BY DEF Process, callVars, GoTo, ContextOf
<1>2. c \in Calls /\ i \in Nat
  BY <1>1, WorkerFields DEF IInv, Busy, Steps
<1>3. /\ worker'[w].step = "finally"
      /\ worker'[w].call = c
      /\ worker'[w].item = i
      /\ \A v \in Workers : v # w => worker'[v] = worker[v]
  BY <1>1 DEF IInv, TypeOK, WorkerState, Busy, Steps
<1>4. local[w].id = i
  BY <1>1 DEF IInv, LocalSet
<1>5. /\ ran'[c] = ran[c] \union {i}
      /\ \A d \in Calls : d # c => ran'[d] = ran[d]
  BY <1>1, <1>2, <1>4 DEF IInv, TypeOK
<1>6. Open(c, i) /\ <<c, i>> \notin queue
  BY <1>1 DEF IInv, WorkersOpen, Busy, Steps
<1> HIDE DEF c, i
<1>7. TypeOK'
  <2>1. ran' \in [Calls -> SUBSET Nat]
    BY <1>1, <1>2, <1>4 DEF IInv, TypeOK
  <2> QED
    BY <1>1, <2>1 DEF IInv, TypeOK, WorkerState, Busy, Steps
<1>8. CallsOK' /\ LatchCounts'
  BY <1>1 DEF IInv, CallsOK, LatchCounts
<1>9. RanEnded'
  BY <1>1, <1>2, <1>5, <1>6 DEF IInv, RanEnded, Open
<1>10. QueueOpen'
  BY <1>1, <1>5, <1>6 DEF IInv, TypeOK, QueueOpen, Open, Task
<1>11. WorkersOpen'
  <2> SUFFICES ASSUME NEW v \in Workers, worker'[v].step \in Busy
               PROVE  /\ Open(worker'[v].call, worker'[v].item)
                      /\ <<worker'[v].call, worker'[v].item>> \notin queue
                      /\ worker'[v].step = "finally" <=>
                            worker'[v].item \in ran'[worker'[v].call]
    BY <1>1 DEF WorkersOpen, Open
  <2>1. CASE v = w
    BY <1>3, <1>5, <1>6, <2>1
  <2>2. CASE v # w
    <3>1. worker'[v] = worker[v] /\ worker[v].call \in Calls
      BY <1>3, <2>2, WorkerFields DEF IInv
    <3>2. worker[v].call = c => worker[v].item # i
      BY <1>1, <2>2, <3>1 DEF IInv, WorkersApart, Busy, Steps, c, i
    <3>3. worker[v].item \in ran'[worker[v].call] <=> worker[v].item \in ran[worker[v].call]
      BY <1>5, <3>1, <3>2
    <3> QED
      BY <3>1, <3>3 DEF IInv, WorkersOpen
  <2> QED
    BY <2>1, <2>2
<1>12. WorkersApart'
  BY <1>1, <1>3 DEF IInv, WorkersApart, Busy, Steps, c, i
<1>13. LocalSet'
  BY <1>1, <1>3 DEF IInv, LocalSet
<1> QED
  BY <1>7, <1>8, <1>9, <1>10, <1>11, <1>12, <1>13 DEF IInv

LEMMA CountDownInv ==
  ASSUME IInv, NEW w \in Workers, CountDown(w)
  PROVE  IInv'
<1> DEFINE c == worker[w].call
           i == worker[w].item
<1>1. /\ UNCHANGED <<pc, streams, next, queue, local, closed, ran>>
      /\ worker[w].step = "finally"
      /\ latch' = [latch EXCEPT ![c] = IF @ = 0 THEN 0 ELSE @ - 1]
      /\ ended' = [ended EXCEPT ![c] = @ \union {i}]
      /\ worker' = [worker EXCEPT ![w] = NoTask]
  BY DEF CountDown
<1>2. c \in Calls /\ i \in Nat
  BY <1>1, WorkerFields DEF IInv, Busy, Steps
<1>3. Open(c, i) /\ <<c, i>> \notin queue /\ i \in ran[c]
  BY <1>1 DEF IInv, WorkersOpen, Busy, Steps
<1>4. ASSUME NEW v \in Workers, v # w, worker[v].step \in Busy, worker[v].call = c
      PROVE  worker[v].item # i
  BY <1>1, <1>4 DEF IInv, WorkersApart, Busy, Steps
<1>5. /\ worker'[w].step = "idle"
      /\ \A v \in Workers : v # w => worker'[v] = worker[v]
  BY <1>1 DEF IInv, TypeOK, NoTask
<1> HIDE DEF c, i
<1>6. /\ latch[c] >= 1
      /\ Cardinality(ended[c] \union {i}) = Cardinality(ended[c]) + 1
  BY <1>2, <1>3, OpenCounts
<1>7. /\ latch[c] \in Nat
      /\ latch'[c] = latch[c] - 1
      /\ ended'[c] = ended[c] \union {i}
      /\ \A d \in Calls : d # c => latch'[d] = latch[d] /\ ended'[d] = ended[d]
  BY <1>1, <1>2, <1>6 DEF IInv, TypeOK
<1>8. TypeOK'
  <2>1. latch' \in [Calls -> Nat]
    <3>1. (IF latch[c] = 0 THEN 0 ELSE latch[c] - 1) \in Nat
      BY <1>6, <1>7
    <3> QED
      BY <1>1, <1>2, <3>1 DEF IInv, TypeOK
  <2>3. ended' \in [Calls -> SUBSET Nat]
    BY <1>1, <1>2 DEF IInv, TypeOK
  <2>2. worker' \in [Workers -> WorkerState]
    BY <1>1 DEF IInv, TypeOK, WorkerState, NoTask
  <2> QED
    BY <1>1, <2>1, <2>2, <2>3 DEF IInv, TypeOK
<1>9. CallsOK'
  BY <1>1, <1>6, <1>7 DEF IInv, CallsOK
<1>10. LatchCounts'
  <2> SUFFICES ASSUME NEW d \in Calls
               PROVE  /\ ended'[d] \subseteq 0 .. next[d] - 1
                      /\ latch'[d] + Cardinality(ended'[d]) = streams[d]
    BY <1>1 DEF LatchCounts
  <2>1. CASE d = c
    <3>1. IsFiniteSet(0 .. next[c] - 1) /\ ended[c] \subseteq 0 .. next[c] - 1
      BY <1>2, IntervalCount DEF IInv, TypeOK, LatchCounts
    <3>2. Cardinality(ended[c]) \in Nat
      BY <3>1, FS_Subset, FS_CardinalityType
    <3>3. latch[c] + Cardinality(ended[c]) = streams[c]
      BY <1>2 DEF IInv, LatchCounts
    <3>4. latch'[c] + Cardinality(ended'[c]) = streams[c]
      BY <1>6, <1>7, <3>2, <3>3
    <3> QED
      BY <1>3, <1>7, <2>1, <3>1, <3>4 DEF Open
  <2>2. CASE d # c
    BY <1>7, <2>2 DEF IInv, LatchCounts
  <2> QED
    BY <2>1, <2>2
<1>11. RanEnded'
  BY <1>1, <1>3, <1>7 DEF IInv, RanEnded
<1>12. QueueOpen'
  <2> SUFFICES ASSUME NEW task \in queue
               PROVE  Open(task[1], task[2])' /\ task[2] \notin ran[task[1]]
    BY <1>1 DEF QueueOpen
  <2>1. /\ task = <<task[1], task[2]>> /\ task[1] \in Calls
        /\ Open(task[1], task[2]) /\ task[2] \notin ran[task[1]]
    BY DEF IInv, TypeOK, QueueOpen, Task
  <2> QED
    BY <1>1, <1>3, <1>7, <2>1 DEF Open
<1>13. WorkersOpen'
  <2> SUFFICES ASSUME NEW v \in Workers, worker'[v].step \in Busy
               PROVE  /\ Open(worker[v].call, worker[v].item)'
                      /\ <<worker'[v].call, worker'[v].item>> \notin queue
                      /\ worker'[v].step = "finally" <=>
                            worker'[v].item \in ran[worker'[v].call]
    BY <1>1 DEF WorkersOpen
  <2>1. v # w /\ worker'[v] = worker[v]
    BY <1>5 DEF Busy, Steps
  <2>2. worker[v].call \in Calls
    BY <2>1, WorkerFields DEF IInv
  <2>3. Open(worker[v].call, worker[v].item)
    BY <2>1 DEF IInv, WorkersOpen
  <2>4. Open(worker[v].call, worker[v].item)'
    <3>1. worker[v].item \notin ended'[worker[v].call]
      BY <1>4, <1>7, <2>1, <2>2, <2>3 DEF Open
    <3> QED
      BY <1>1, <2>1, <2>3, <3>1 DEF Open
  <2> QED
    BY <2>1, <2>4 DEF IInv, WorkersOpen
<1>14. WorkersApart' /\ LocalSet'
  BY <1>1, <1>5 DEF IInv, WorkersApart, LocalSet, Busy, Steps
<1> QED
  BY <1>8, <1>9, <1>10, <1>11, <1>12, <1>13, <1>14 DEF IInv

-----------------------------------------------------------------------------
LEMMA NextInv == IInv /\ [Next]_vars => IInv'
<1> SUFFICES ASSUME IInv, [Next]_vars PROVE IInv'
  OBVIOUS
<1>1. CASE UNCHANGED vars
  BY <1>1 DEF vars, callVars, poolVars, IInv, TypeOK, CallsOK, LatchCounts, QueueOpen,
              WorkersOpen, WorkersApart, RanEnded, LocalSet, Open
<1>2. ASSUME NEW c \in Calls, NEW n \in Streams, Compute(c, n) PROVE IInv'
  BY <1>2, ComputeInv
<1>3. ASSUME NEW c \in Calls, Caller(c) \/ Interrupt(c) PROVE IInv'
  BY <1>3, SubmitInv, CallerInv DEF Caller
<1>4. ASSUME NEW w \in Workers, Worker(w) PROVE IInv'
  BY <1>4, TakeInv, SetGlobalIdInv, SetGlobalSizeInv, ProcessInv, CountDownInv DEF Worker
<1>5. CASE Close
  BY <1>5, CloseInv
<1> QED
  BY <1>1, <1>2, <1>3, <1>4, <1>5 DEF Next

THEOREM InvHolds == Spec => []IInv
<1>1. Init => IInv
  BY InitInv
<1>2. IInv /\ [Next]_vars => IInv'
  BY NextInv
<1> QED
  BY <1>1, <1>2, PTL DEF Spec

(* The state of the calls and of the pool always has its type: a latch is  *)
(* never counted below zero, whatever the threads do.                      *)
THEOREM TypesStayOK == Spec => []TypeOK
<1>1. IInv => TypeOK
  BY DEF IInv
<1> QED
  BY <1>1, InvHolds, PTL

(* Once compute has returned, none of its work items is still with a       *)
(* thread or in the queue: the latch is at zero, so that all have ended.   *)
THEOREM ReturnIsFinal == Spec => []NothingRunsAfterReturn
<1>1. IInv => NothingRunsAfterReturn
  <2> SUFFICES ASSUME IInv, NEW c \in Calls, pc[c] = "returned"
               PROVE  /\ \A w \in Workers : ~Runs(w, c)
                      /\ \A task \in queue : task[1] # c
    BY DEF NothingRunsAfterReturn
  <2>1. /\ ended[c] = 0 .. streams[c] - 1
        /\ next[c] = streams[c]
    BY ZeroMeansEnded DEF IInv, CallsOK
  <2>2. \A i : ~Open(c, i)
    BY <2>1 DEF Open
  <2> QED
    BY <2>2 DEF IInv, QueueOpen, WorkersOpen, Runs
<1> QED
  BY <1>1, InvHolds, PTL

(* A kernel that runs sees the global id and size of its own work item.    *)
THEOREM WorkItemsSeeTheirCall == Spec => []WorkItemSeesItsCall
<1>1. IInv => WorkItemSeesItsCall
  <2> SUFFICES ASSUME IInv, NEW w \in Workers, worker[w].step = "process"
               PROVE  local[w] = [id |-> worker[w].item, size |-> streams[worker[w].call]]
    BY DEF WorkItemSeesItsCall
  <2>1. local[w] \in [id: Nat, size: Nat]
    BY DEF IInv, TypeOK
  <2>2. local[w].id = worker[w].item /\ local[w].size = streams[worker[w].call]
    BY DEF IInv, LocalSet
  <2> QED
    BY <2>1, <2>2
<1> QED
  BY <1>1, InvHolds, PTL

-----------------------------------------------------------------------------
(* Implementing ParallelFor *)

LEMMA StepImplements ==
  ASSUME IInv, [Next]_vars
  PROVE  [P!Next]_(P!parVars)
<1> USE DEF P!parVars
<1>1. CASE UNCHANGED vars
  BY <1>1 DEF vars, callVars
<1>2. ASSUME NEW c \in Calls, NEW n \in Streams, Compute(c, n)
      PROVE  P!Begin(c, n) \/ P!Fail(c)
  <2>1. n \in Int /\ pc[c] = "idle" /\ ran' = ran
    BY <1>2, CPUContextAssumption DEF Compute
  <2>2. CASE n >= 0
    <3>1. pc' = [pc EXCEPT ![c] = "submitting"] /\ streams' = [streams EXCEPT ![c] = n]
      BY <1>2, <2>2 DEF Compute
    <3> QED
      BY <2>1, <2>2, <3>1 DEF IInv, TypeOK, P!Begin
  <2>3. CASE ~(n >= 0)
    <3>1. pc' = [pc EXCEPT ![c] = "failed"] /\ streams' = streams
      BY <1>2, <2>3 DEF Compute
    <3> QED
      BY <2>1, <3>1 DEF IInv, TypeOK, P!Fail
  <2> QED
    BY <2>2, <2>3
<1>3. ASSUME NEW c \in Calls, Submit(c) \/ Await(c)
      PROVE  UNCHANGED P!parVars
  BY <1>3 DEF Submit, Await, IInv, TypeOK
<1>4. ASSUME NEW c \in Calls, Reject(c) \/ Interrupt(c)
      PROVE  P!Fail(c)
  BY <1>4 DEF Reject, Interrupt, IInv, TypeOK, P!Fail
<1>5. ASSUME NEW c \in Calls, Return(c)
      PROVE  P!Return(c)
  <2>1. ended[c] = 0 .. streams[c] - 1 /\ next[c] = streams[c]
    BY <1>5, ZeroMeansEnded DEF Return, IInv, CallsOK
  <2>2. ran[c] = 0 .. streams[c] - 1
    BY <2>1 DEF IInv, RanEnded
  <2> QED
    BY <1>5, <2>2 DEF Return, IInv, TypeOK, P!Return
<1>6. ASSUME NEW w \in Workers, Process(w)
      PROVE  \E c \in Calls : \E i \in 0 .. streams[c] - 1 : P!Run(c, i)
  <2> DEFINE c == worker[w].call
             i == worker[w].item
  <2>1. /\ worker[w].step = "process"
        /\ c \in Calls /\ i \in Nat
        /\ Open(c, i) /\ i \notin ran[c]
    BY <1>6, WorkerFields DEF Process, IInv, WorkersOpen, Busy, Steps
  <2>2. /\ ran' = [ran EXCEPT ![c] = @ \union {i}]
        /\ pc' = pc /\ streams' = streams
    BY <1>6, <2>1 DEF Process, ContextOf, callVars, IInv, LocalSet
  <2> HIDE DEF c, i
  <2>3. /\ next[c] \in Nat /\ streams[c] \in Nat /\ next[c] <= streams[c]
        /\ pc[c] \in States
        /\ pc[c] = "idle" => streams[c] = 0
    BY <2>1 DEF IInv, TypeOK, CallsOK
  <2>4. i \in 0 .. streams[c] - 1
    BY <2>1, <2>3 DEF Open
  <2>5. pc[c] \notin {"idle", "returned"}
    <3>1. CASE pc[c] = "idle"
      BY <2>3, <2>4, <3>1
    <3>2. CASE pc[c] = "returned"
      <4>1. ended[c] = 0 .. streams[c] - 1
        BY <2>1, <3>2, ZeroMeansEnded DEF IInv, CallsOK
      <4> QED
        BY <2>1, <2>4, <4>1 DEF Open
    <3> QED
      BY <3>1, <3>2
  <2>6. P!Run(c, i)
    BY <2>1, <2>2, <2>3, <2>4, <2>5 DEF P!Run, States
  <2> QED
    BY <2>1, <2>4, <2>6
<1>7. ASSUME NEW w \in Workers,
             Take(w) \/ SetGlobalId(w) \/ SetGlobalSize(w) \/ CountDown(w)
      PROVE  UNCHANGED P!parVars
  BY <1>7 DEF Take, SetGlobalId, SetGlobalSize, CountDown, callVars
<1>8. CASE Close
  BY <1>8 DEF Close, callVars
<1>9. ASSUME NEW c \in Calls, P!Fail(c) \/ P!Return(c)
      PROVE  P!Next
  BY <1>9 DEF P!Next
<1>10. ASSUME NEW c \in Calls, NEW n \in Streams, P!Begin(c, n)
       PROVE  P!Next
  BY <1>10 DEF P!Next
<1>11. ASSUME NEW c \in Calls, NEW i \in 0 .. streams[c] - 1, P!Run(c, i)
       PROVE  P!Next
  BY <1>11 DEF P!Next
<1> HIDE DEF P!parVars
<1>12. ASSUME NEW c \in Calls, Caller(c) \/ Interrupt(c)
       PROVE  P!Next \/ UNCHANGED P!parVars
  BY <1>3, <1>4, <1>5, <1>9, <1>12 DEF Caller
<1>13. ASSUME NEW w \in Workers, Worker(w)
       PROVE  P!Next \/ UNCHANGED P!parVars
  BY <1>6, <1>7, <1>11, <1>13 DEF Worker
<1> QED
  BY <1>1, <1>2, <1>8, <1>9, <1>10, <1>12, <1>13 DEF Next

(* Any number of callers on any number of threads: compute runs every      *)
(* global id once, and returns only when it has run them all.              *)
THEOREM ContextImplementsParallelFor == Spec => ImplementsParallelFor
<1>1. Init => P!Init
  BY DEF Init, P!Init
<1>2. IInv /\ [Next]_vars => [P!Next]_(P!parVars)
  BY StepImplements
<1> QED
  BY <1>1, <1>2, InvHolds, PTL DEF Spec, ImplementsParallelFor, P!Spec

=============================================================================
