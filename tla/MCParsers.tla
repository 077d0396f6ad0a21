----------------------------- MODULE MCParsers -----------------------------
(***************************************************************************)
(* The parsers of host reports, each under several small loads; "load"      *)
(* picks one.                                                              *)
(***************************************************************************)
EXTENDS KernelParser, Communication

VARIABLE load
loadVars == <<load, gate, kernelVars, commVars>>

CONSTANTS plain, other, replayed
OneDevice == [k \in {plain, other, replayed} |-> 0]

(* Kernels of one key from two threads with a lost record; graphs' tasks and *)
(* kernels of two keys.                                                      *)
KShared == INSTANCE KernelParser WITH Keys <- {plain}, MaxGraphs <- 0, MaxReplays <- 0,
               DeviceOf <- [k \in {plain} |-> 0]
KGraph == INSTANCE KernelParser WITH Keys <- {plain, replayed}, HostThreads <- {1}, MaxLost <- 0,
              FLUSH_RETRY_MAX_COUNT <- 0, DeviceOf <- [k \in {plain, replayed} |-> 0]

(* Operations one after the other, of two tasks, of a graph, of two threads. *)
CSequence == INSTANCE Communication WITH CommKeys <- {plain}, CommGraphKeys <- {}, FftsKeys <- {},
                 Threads <- {1}, MaxTasks <- 1, MaxReruns <- 0, HomeOf <- [k \in {plain} |-> 0]
CTasks == INSTANCE Communication WITH MaxSessions <- 1, CommKeys <- {plain, other}, CommGraphKeys <- {}, Threads <- {1},
              MaxOps <- 1, MaxReruns <- 0, FLUSH_RETRY_MAX_COUNT <- 0, FftsKeys <- {other},
              HomeOf <- [k \in {plain, other} |-> 0]
CGraph == INSTANCE Communication WITH MaxSessions <- 1, CommKeys <- {replayed, plain}, CommGraphKeys <- {replayed}, Threads <- {1},
              MaxTasks <- 1, FLUSH_RETRY_MAX_COUNT <- 0, FftsKeys <- {},
              HomeOf <- [k \in {replayed, plain} |-> 0]
CThreads == INSTANCE Communication WITH FLUSH_RETRY_MAX_COUNT <- 0, CommKeys <- {plain}, CommGraphKeys <- {}, MaxTasks <- 1, MaxSessions <- 1,
                FftsKeys <- {}, MaxReruns <- 0, HomeOf <- [k \in {plain} |-> 0]

LoadInit ==
    /\ KernelInit /\ CommInit
    /\ load \in {"shared", "graph", "sequence", "tasks", "replays", "threads"}

LoadNext ==
    /\ UNCHANGED load
    /\ \/ load = "shared" /\ KShared!KernelNext /\ UNCHANGED commVars
       \/ load = "graph" /\ KGraph!KernelNext /\ UNCHANGED commVars
       \/ load = "sequence" /\ CSequence!CommNext /\ UNCHANGED kernelVars
       \/ load = "tasks" /\ CTasks!CommNext /\ UNCHANGED kernelVars
       \/ load = "replays" /\ CGraph!CommNext /\ UNCHANGED kernelVars
       \/ load = "threads" /\ ((CThreads!Register /\ UNCHANGED commVars) \/ CThreads!CommWork) /\ UNCHANGED kernelVars

LoadSpec == LoadInit /\ [][LoadNext]_loadVars
=============================================================================
