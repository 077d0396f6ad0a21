----------------------------- MODULE MCMarkers -----------------------------
(***************************************************************************)
(* Marks, domains and HCCL operations, each under a small load.            *)
(***************************************************************************)
EXTENDS HcclMarks

CONSTANTS a, ab
NameBegins == {<<a, a>>, <<ab, ab>>, <<a, ab>>}

VARIABLE load
loadVars == <<load, domainVars, markVars, hcclVars>>

(* Ranges that two threads open and end; marks of one thread whose calls    *)
(* may fail while the clock is read again; marks in domains; operations,     *)
(* alone and beside a client's marks.                                        *)
MRanges == INSTANCE HcclMarks WITH Names <- {}, Begins <- {}, MaxMarks <- 1, MaxSyncs <- 1, MaxFailures <- 0
MFailures == INSTANCE HcclMarks WITH Names <- {}, Begins <- {}, MarkThreads <- {1}, MaxMarks <- 1
MDomains == INSTANCE HcclMarks WITH MarkThreads <- {1}, MaxFailures <- 0, MaxSyncs <- 0
HOps == INSTANCE HcclMarks WITH Names <- {}, Begins <- {}, MarkThreads <- {}, MaxSyncs <- 1
HMixed == INSTANCE HcclMarks WITH Names <- {}, Begins <- {}, MarkThreads <- {1}, MaxSyncs <- 0,
                                  HcclThreads <- {1}, Shapes <- {"collective"}

LoadInit == HcclInit /\ load \in {"ranges", "failures", "domains", "ops", "mixed"}

LoadNext ==
    /\ UNCHANGED load
    /\ \/ load = "ranges" /\ MRanges!MarkerNext /\ UNCHANGED <<domainVars, hcclVars>>
       \/ load = "failures" /\ MFailures!MarkerNext /\ UNCHANGED <<domainVars, hcclVars>>
       \/ load = "domains" /\ MDomains!DomainsNext /\ UNCHANGED hcclVars
       \/ load = "ops" /\ HOps!HcclMarksNext /\ UNCHANGED domainVars
       \/ load = "mixed" /\ HMixed!HcclMarksNext /\ UNCHANGED domainVars

LoadSpec == LoadInit /\ [][LoadNext]_loadVars
=============================================================================
