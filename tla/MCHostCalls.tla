---------------------------- MODULE MCHostCalls ----------------------------
(***************************************************************************)
(* Two loads of the callback API: "sessions" has two callers that          *)
(* subscribe, switch one callback and end the session beside a callback    *)
(* site; "lists" has no site and one session, and every call that switches *)
(* or lists callbacks, over names inside and outside the tables.           *)
(* Three loads of the other half of the wrappers, the memory records:      *)
(* "nested" has calls inside calls of one thread, "blocks" a block that    *)
(* wanders between two threads, "older" the same with a runtime that       *)
(* reports nothing itself.                                                 *)
(* And three of the ids that join records: "regions" has two threads that  *)
(* launch inside external regions, "calls" one thread whose calls nest at  *)
(* every level, "threads" two whose collectives launch kernels.            *)
(***************************************************************************)
EXTENDS CallbackManager, Memory, Correlation

\* INVALID is the first entry of each table; the bitmap is one entry longer
Tables == [RUNTIME |-> 3, HCCL |-> 2]
OneName == {<<"RUNTIME", 1>>}
SomeNames == {<<"RUNTIME", 1>>, <<"HCCL", 2>>, <<"RUNTIME", 3>>}

VARIABLE load
Sessions == INSTANCE CallbackManager WITH
              Names <- OneName,
              CallerOps <- {"Subscribe", "Unsubscribe", "Finalize", "EnableCallback"}
Lists == INSTANCE CallbackManager WITH
              Sites <- {}, Addrs <- {1}, MaxSubs <- 1,
              CallerOps <- {"Subscribe", "Unsubscribe"} \cup SwitchOps \cup Queries

MNested == INSTANCE Memory WITH MemThreads <- {1}, Sizes <- {1}, MaxTime <- 6
MShared == INSTANCE Memory WITH MemKinds <- {"memory"}, MaxDepth <- 0
MOlder == INSTANCE Memory WITH MemKinds <- {"memory"}, Sizes <- {1}, MaxDepth <- 0, MaxSwitches <- 0

Regional == INSTANCE Correlation WITH CallLevels <- {4}, MaxApiCalls <- 2, MaxIds <- 2
Calls == INSTANCE Correlation WITH CallThreads <- {1}, MaxOpened <- 0, MaxFailures <- 0
Both == INSTANCE Correlation WITH CallLevels <- {2, 4}, MaxIds <- 2, MaxOpened <- 0, MaxFailures <- 0

LoadInit ==
  /\ Init /\ MemoryInit /\ CorrelationInit
  /\ load \in {"sessions", "lists", "nested", "blocks", "older", "regions", "calls", "threads"}
  /\ supported = (load # "older")
  /\ memEnabled \in CASE load = "nested" -> SUBSET MemKinds
                      [] load \in {"blocks", "older"} -> {{}, {"memory"}}
                      [] OTHER -> {{}}
  /\ load \notin {"regions", "calls", "threads"} => enabled = {}
LoadNext ==
  /\ UNCHANGED load
  /\ \/ load = "sessions" /\ Sessions!Next /\ UNCHANGED <<memVars, corrVars>>
     \/ load = "lists" /\ Lists!Next /\ UNCHANGED <<memVars, corrVars>>
     \/ load = "nested" /\ MNested!MemoryNext /\ UNCHANGED <<vars, corrVars>>
     \/ load = "blocks" /\ MShared!MemoryNext /\ UNCHANGED <<vars, corrVars>>
     \/ load = "older" /\ MOlder!MemoryNext /\ UNCHANGED <<vars, corrVars>>
     \/ load = "regions" /\ Regional!CorrelationNext /\ UNCHANGED <<vars, memVars>>
     \/ load = "calls" /\ Calls!CorrelationNext /\ UNCHANGED <<vars, memVars>>
     \/ load = "threads" /\ Both!CorrelationNext /\ UNCHANGED <<vars, memVars>>
LoadSpec == LoadInit /\ [][LoadNext]_<<load, vars, memVars, corrVars>>
=============================================================================
