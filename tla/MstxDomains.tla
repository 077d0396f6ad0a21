----------------------------- MODULE MstxDomains -----------------------------
(***************************************************************************)
(* MstxDomainMgr: the domains that marks are made in.  A name is a member  *)
(* of a set; that one name is the beginning of another, which is all the   *)
(* manager looks at, is a relation.  Handles are numbered; the default     *)
(* domain has a handle of its own and is used without one.                 *)
(***************************************************************************)
EXTENDS Integers, Sequences, FiniteSets

CONSTANTS
    Names,         \* names a client may ask for
    DefaultName,   \* g_defaultDomainName
    Begins         \* <<m, n>>: m is the beginning of n, or n itself

ASSUME DomainAssumption ==
    /\ DefaultName \notin Names
    /\ \A n \in Names : <<n, n>> \in Begins

VARIABLES
    domains,       \* domainHandleMap_; handle 1 is the default domain's
    disabled,      \* disableDomains_
    held           \* the handle a client has got for a name, or 0

domainVars == <<domains, disabled, held>>

Attr(name, on) == [name |-> name, destroyed |-> FALSE, enabled |-> on]
Handles == DOMAIN domains

DomainsTypeOK ==
    /\ domains \in Seq([name: Names \cup {DefaultName}, destroyed: BOOLEAN, enabled: BOOLEAN])
    /\ disabled \subseteq Names \cup {DefaultName}
    /\ held \in [Names -> 0 .. Len(domains)]

DomainsInit ==
    /\ domains = <<Attr(DefaultName, TRUE)>> /\ disabled = {}
    /\ held = [n \in Names |-> 0]

(* CreateDomainHandle: any domain whose stored name begins the new one will  *)
(* do, in the order of a hash map, and is no longer destroyed.               *)
Matching(name) == {h \in Handles : <<domains[h].name, name>> \in Begins}

StartsEnabled_Always(name) == TRUE
StartsEnabled(name) == name \notin disabled

CreateDomainHandle(name) ==
    /\ \/ \E h \in Matching(name) :
             /\ domains' = [domains EXCEPT ![h].destroyed = FALSE]
             /\ held' = [held EXCEPT ![name] = h]
       \/ /\ Matching(name) = {}
          /\ domains' = Append(domains, Attr(name, StartsEnabled(name)))
          /\ held' = [held EXCEPT ![name] = Len(domains) + 1]
    /\ UNCHANGED disabled

DestroyDomainHandle(name) ==
    /\ held[name] # 0
    /\ domains' = [domains EXCEPT ![held[name]].destroyed = TRUE]
    /\ UNCHANGED <<disabled, held>>

(* SetMstxDomainEnableStatus: by the whole name.                             *)
SetMstxDomainEnableStatus(name, flag) ==
    /\ disabled' = IF flag THEN disabled \ {name} ELSE disabled \cup {name}
    /\ domains' = [h \in Handles |-> IF domains[h].name = name THEN [domains[h] EXCEPT !.enabled = flag] ELSE domains[h]]
    /\ UNCHANGED held

(* isDomainEnable, by a handle and for the default domain by its name.       *)
IsHandleEnabled(h) == domains[h].enabled
IsNameEnabled(name) == name \notin disabled

(* GetDomainNameByHandle answers for a domain that is not destroyed.         *)
HasName(h) == ~domains[h].destroyed
=============================================================================
