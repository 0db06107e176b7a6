---------------------------- MODULE ParallelFor ----------------------------
(***************************************************************************)
(* What Context.compute promises, however the work is spread over threads: *)
(* a call for n streams runs the kernel once for every global id 0 .. n-1, *)
(* and returns only when it has run for all of them.  A call may also end  *)
(* with an exception; what it has started may then still run.              *)
(***************************************************************************)
EXTENDS Integers

CONSTANTS
  Calls,   (* the calls of compute                                         *)
  Streams  (* the numbers of streams they may ask for, integers            *)

VARIABLES
  status,  (* "idle", "running", "returned" or "failed"                    *)
  streams, (* number of streams of every call                              *)
  ran      (* the global ids the kernel has run for                        *)

parVars == <<status, streams, ran>>

Init ==
  /\ status = [c \in Calls |-> "idle"]
  /\ streams = [c \in Calls |-> 0]
  /\ ran = [c \in Calls |-> {}]

Begin(c, n) ==
  /\ status[c] = "idle"
  /\ n >= 0
  /\ status' = [status EXCEPT ![c] = "running"]
  /\ streams' = [streams EXCEPT ![c] = n]
  /\ UNCHANGED ran

Run(c, i) ==
  /\ status[c] \in {"running", "failed"}
  /\ i \in 0 .. streams[c] - 1
  /\ i \notin ran[c]
  /\ ran' = [ran EXCEPT ![c] = @ \union {i}]
  /\ UNCHANGED <<status, streams>>

Return(c) ==
  /\ status[c] = "running"
  /\ ran[c] = 0 .. streams[c] - 1
  /\ status' = [status EXCEPT ![c] = "returned"]
  /\ UNCHANGED <<streams, ran>>

Fail(c) ==
  /\ status[c] \in {"idle", "running"}
  /\ status' = [status EXCEPT ![c] = "failed"]
  /\ UNCHANGED <<streams, ran>>

Next ==
  \E c \in Calls :
    \/ \E n \in Streams : Begin(c, n)
    \/ \E i \in 0 .. streams[c] - 1 : Run(c, i)
    \/ Return(c)
    \/ Fail(c)

Spec == Init /\ [][Next]_parVars

=============================================================================
