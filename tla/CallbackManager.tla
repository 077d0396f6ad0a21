--------------------------- MODULE CallbackManager ---------------------------
(***************************************************************************)
(* The subscription of the callback API (callback_manager.cpp): Subscribe, *)
(* Unsubscribe and Finalize under subscriber_mutex_, the calls that switch *)
(* callbacks on and off or list them without it, and the callback sites of *)
(* the injected API calls, which read init_, the bitmap and the subscriber *)
(* one after the other.                                                    *)
(*                                                                         *)
(* Subscriptions are numbered; at[n] is the address of subscription n's    *)
(* object, which is free once no pointer holds it: a handle is an address. *)
(* setBy, seen, ended, stale and drawn only record what happened.          *)
(***************************************************************************)
EXTENDS Naturals, Sequences, FiniteSets

CONSTANTS Callers,    \* threads that use the callback API
          Sites,      \* threads inside an injected API call
          Addrs,      \* addresses of subscriber objects
          Count,      \* callbacks of a domain's table, INVALID included
          MapBits,    \* bits of a domain's bitmap
          HasLdPreload,
          Names,      \* <<domain, cbid>> arguments of the calls
          Rooms,      \* buffer sizes given to GetEnabledCallbacks
          CallerOps,  \* the calls the callers make
          SiteFinalizes, \* the callback at an EXIT site may call msptiFinalize
          MaxSubs,    \* bound on the subscriptions of a run
          Nobody

\* An address is not null, and a table fits its bitmap (callback_manager.h:90)
ASSUME CallbackAssumption ==
  /\ MapBits \in Nat /\ MaxSubs \in Nat /\ Nobody \notin Callers \cup Sites
  /\ 0 \notin Addrs /\ Rooms \subseteq Nat
  /\ \A d \in DOMAIN Count : Count[d] \in 0..MapBits
  /\ \A n \in Names : n = <<n[1], n[2]>> /\ n[2] \in Nat

VARIABLES init, ptr, bits,   \* init_, subscriber_ptr_ (0: null), cbid_map_
          mutex, up,         \* subscriber_mutex_; the services Init has started
          born, at,          \* subscriptions so far, the address of each
          pc, call,          \* where a thread is, and in which call
          todo,              \* names a call has still to visit
          room, out, number, \* GetEnabledCallbacks: writeCount, buffer, count
          local, phase,      \* a site: local_ptr, ENTER or EXIT
          setBy, seen, ended, stale, drawn

ctlVars == <<init, ptr, bits, mutex, up, born, at>>
listVars == <<room, out, number>>
siteVars == <<local, phase>>
ghostVars == <<setBy, seen, ended, stale, drawn>>
vars == <<ctlVars, pc, call, todo, listVars, siteVars, ghostVars>>

Threads == Callers \cup Sites
Domains == DOMAIN Count
Services == {"report", "sync", "mstx", "pool", "mgr"}
NoCall == [op |-> "none", on |-> TRUE, h |-> 0, d |-> "none"]

IsValidCBDomain(d) == d \in Domains
IsValidCBId(c) == c < MapBits
GetDomainCallbackCount(d) == IF d \in Domains THEN Count[d] ELSE 0
\* The names of d's table in the order of the loops over it
NamesOf(d) == [i \in 1..(GetDomainCallbackCount(d) - 1) |-> <<d, i>>]
GetCallbackName(d, c) ==
  IF IsValidCBDomain(d) /\ IsValidCBId(c) /\ c > 0 /\ c < GetDomainCallbackCount(d) THEN <<d, c>> ELSE "INVALID_PARAMETER"
SupportedDomains == {d \in Domains : GetDomainCallbackCount(d) # 0}

Holders(n) == ptr = n \/ \E s \in Sites : local[s] = n
FreeAddrs == Addrs \ {at[n] : n \in {m \in 1..born : Holders(m)}}
Handle_Last == IF born = 0 THEN 0 ELSE at[born]
Handle == IF ptr = 0 THEN 0 ELSE at[ptr]

Goto(t, place) == pc' = [pc EXCEPT ![t] = place]
\* A call returns; at a site it was made by the callback of the EXIT site
Leave(t) ==
  /\ Goto(t, IF t \in Sites THEN "called" ELSE "out")
  /\ call' = [call EXCEPT ![t] = NoCall]
  /\ todo' = [todo EXCEPT ![t] = <<>>]
Drop(t) ==
  /\ room' = [room EXCEPT ![t] = 0] /\ out' = [out EXCEPT ![t] = <<>>] /\ number' = [number EXCEPT ![t] = 0]

Lock_Missing(t) == mutex' = t
Lock(t) == mutex = Nobody /\ mutex' = t
Unlock(t) == mutex' = IF mutex = t THEN Nobody ELSE mutex

Init ==
  /\ init = FALSE /\ ptr = 0 /\ bits = {} /\ mutex = Nobody /\ up = {}
  /\ born = 0 /\ at = [n \in 1..MaxSubs |-> 0]
  /\ pc = [t \in Threads |-> "out"] /\ call = [t \in Threads |-> NoCall]
  /\ todo = [t \in Threads |-> <<>>]
  /\ room = [t \in Threads |-> 0] /\ out = [t \in Threads |-> <<>>] /\ number = [t \in Threads |-> 0]
  /\ local = [s \in Sites |-> 0] /\ phase = [s \in Sites |-> "ENTER"]
  /\ setBy = [n \in {} |-> 0] /\ seen = [s \in Sites |-> 0] /\ ended = 0 /\ stale = {}
  /\ drawn = [t \in Threads |-> 0]

-----------------------------------------------------------------------------
(* msptiSubscribe *)

InitCheck(t) ==
  /\ t \in Callers /\ pc[t] = "out" /\ "Subscribe" \in CallerOps /\ Lock(t)
  /\ \/ init /\ Goto(t, "unlock") \* MULTIPLE_SUBSCRIBERS_NOT_SUPPORTED
     \/ Goto(t, "unlock")         \* the allocation failed
     \/ ~init /\ born < MaxSubs /\ FreeAddrs # {} /\ Goto(t, "wipe")
  /\ call' = [call EXCEPT ![t] = [NoCall EXCEPT !.op = "Subscribe"]]
  /\ UNCHANGED <<init, ptr, bits, up, born, at, todo, listVars, siteVars, ghostVars>>

ClearBitmap_Trusts(t) == UNCHANGED <<bits, setBy>>
ClearBitmap(t) == bits' = {} /\ setBy' = [n \in {} |-> 0]

InitClears(t) ==
  /\ pc[t] = "wipe" /\ ClearBitmap(t) /\ stale' = {} /\ Goto(t, "publish")
  /\ UNCHANGED <<init, ptr, mutex, up, born, at, call, todo, listVars, siteVars, seen, ended, drawn>>

InitPublishes(t) ==
  /\ pc[t] = "publish" /\ Goto(t, "running")
  /\ \E a \in FreeAddrs : at' = [at EXCEPT ![born + 1] = a]
  /\ born' = born + 1 /\ ptr' = born + 1
  /\ UNCHANGED <<init, bits, mutex, up, call, todo, listVars, siteVars, ghostVars>>

InitRuns(t) ==
  /\ pc[t] = "running" /\ init' = TRUE /\ Goto(t, "start")
  /\ UNCHANGED <<ptr, bits, mutex, up, born, at, call, todo, listVars, siteVars, ghostVars>>

\* Services are started and stopped one after the other
Starts == <<"report", "sync", "mstx", "pool", "mgr">>
Stops == <<"mstx", "sync", "report", "pool", "mgr">>
InitStarts(t) ==
  /\ pc[t] = "start"
  /\ up' = up \cup {Starts[Cardinality(up) + 1]}
  /\ Goto(t, IF up' = Services THEN "unlock" ELSE "start")
  /\ UNCHANGED <<init, ptr, bits, mutex, born, at, call, todo, listVars, siteVars, ghostVars>>

\* The lock is released; what the call ended is counted as it returns
Return(t) ==
  /\ pc[t] = "unlock" /\ Unlock(t) /\ Leave(t)
  /\ ended' = IF call[t].op = "Finalize" \/ (call[t].op = "Unsubscribe" /\ call[t].on) THEN born ELSE ended
  /\ UNCHANGED <<init, ptr, bits, up, born, at, listVars, siteVars, setBy, seen, stale, drawn>>

-----------------------------------------------------------------------------
(* msptiUnsubscribe and msptiFinalize *)

UnInit(t) ==
  /\ t \in Callers /\ pc[t] = "out" /\ "Unsubscribe" \in CallerOps /\ Lock(t)
  /\ \E h \in Addrs :
       LET found == init /\ Handle = h IN
       /\ call' = [call EXCEPT ![t] = [op |-> "Unsubscribe", on |-> ~init \/ found, h |-> h, d |-> "none"]]
       /\ Goto(t, IF found THEN "detach" ELSE "unlock")
  /\ UNCHANGED <<init, ptr, bits, up, born, at, todo, listVars, siteVars, ghostVars>>

\* TeardownLocked follows whatever Detach returned, and does nothing when idle
AfterDetach_NeedsSuccess(detached) == IF init /\ detached THEN "detach" ELSE "unlock"
AfterDetach(detached) == IF init THEN "detach" ELSE "unlock"

Finalize(t) ==
  /\ \/ t \in Callers /\ pc[t] = "out" /\ "Finalize" \in CallerOps
     \/ t \in Sites /\ pc[t] = "calling" /\ phase[t] = "EXIT" /\ SiteFinalizes
  /\ Lock(t)
  /\ call' = [call EXCEPT ![t] = [NoCall EXCEPT !.op = "Finalize"]]
  /\ \E detached \in BOOLEAN : Goto(t, AfterDetach(detached))
  /\ UNCHANGED <<init, ptr, bits, up, born, at, todo, listVars, siteVars, ghostVars>>

TeardownDetaches(t) ==
  /\ pc[t] = "detach" /\ ptr' = 0 /\ Goto(t, "clear")
  /\ UNCHANGED <<init, bits, mutex, up, born, at, call, todo, listVars, siteVars, ghostVars>>

TeardownClears(t) ==
  /\ pc[t] = "clear" /\ bits' = {} /\ setBy' = [n \in {} |-> 0] /\ Goto(t, "stop")
  /\ UNCHANGED <<init, ptr, mutex, up, born, at, call, todo, listVars, siteVars, seen, ended, stale, drawn>>

TeardownStops(t) ==
  /\ pc[t] = "stop" /\ up # {}
  /\ up' = up \ {Stops[Cardinality(Services) - Cardinality(up) + 1]}
  /\ Goto(t, IF up' = {} THEN "off" ELSE "stop")
  /\ UNCHANGED <<init, ptr, bits, mutex, born, at, call, todo, listVars, siteVars, ghostVars>>

TeardownEnds(t) ==
  /\ pc[t] = "off" /\ init' = FALSE /\ Goto(t, "unlock")
  /\ UNCHANGED <<ptr, bits, mutex, up, born, at, call, todo, listVars, siteVars, ghostVars>>

-----------------------------------------------------------------------------
(* Switching callbacks: PreCheck, then one fetch_or or fetch_and per name *)

SwitchOps == {"EnableCallback", "EnableDomain", "EnableAllDomains"}
Queries == {"GetCallbackState", "GetEnabledCallbacks"}

\* The names a call visits: those of its domain, of all, or the one it is given
Visits(op, name) ==
  CASE op = "EnableCallback" \/ op = "GetCallbackState" ->
         IF IsValidCBDomain(name[1]) /\ IsValidCBId(name[2]) THEN <<name>> ELSE <<>>
    [] op = "EnableDomain" \/ op = "GetEnabledCallbacks" -> NamesOf(name[1])
    [] op = "EnableAllDomains" -> NamesOf("RUNTIME") \o NamesOf("HCCL")

\* PreCheck, first part: LD_PRELOAD is asked of the switches only, then init_
CallEnters(t) ==
  /\ t \in Callers /\ pc[t] = "out"
  /\ \E op \in CallerOps \cap (SwitchOps \cup Queries), name \in Names, on \in BOOLEAN, h \in Addrs :
       /\ op \in SwitchOps => HasLdPreload
       /\ op \in Queries => on
       /\ init
       /\ call' = [call EXCEPT ![t] = [op |-> op, on |-> on, h |-> h, d |-> name[1]]]
       /\ todo' = [todo EXCEPT ![t] = Visits(op, name)]
  /\ Goto(t, "check")
  /\ UNCHANGED <<ctlVars, listVars, siteVars, ghostVars>>

\* PreCheck, second part: the handle must be the subscriber's address
CallChecks(t) ==
  /\ pc[t] = "check"
  /\ IF Handle = call[t].h /\ todo[t] # <<>>
     THEN /\ Goto(t, CASE call[t].op \in SwitchOps -> "switch"
                       [] call[t].op = "GetEnabledCallbacks" -> "count"
                       [] OTHER -> "query")
          /\ UNCHANGED <<call, todo>>
          /\ drawn' = [drawn EXCEPT ![t] = ptr]
     ELSE Leave(t) /\ UNCHANGED drawn
  /\ UNCHANGED <<ctlVars, listVars, siteVars, setBy, seen, ended, stale>>

\* Register or UnRegister of one name
Switch(t) ==
  /\ pc[t] = "switch"
  /\ LET n == Head(todo[t])
     IN /\ bits' = IF call[t].on THEN bits \cup {n} ELSE bits \ {n}
        /\ setBy' = [m \in bits' |-> IF m = n THEN drawn[t] ELSE setBy[m]]
        /\ stale' = IF call[t].on /\ drawn[t] # ptr THEN stale \cup {n} ELSE stale \ {n}
  /\ IF Len(todo[t]) = 1
     THEN Leave(t) /\ drawn' = [drawn EXCEPT ![t] = 0]
     ELSE todo' = [todo EXCEPT ![t] = Tail(@)] /\ UNCHANGED <<pc, call, drawn>>
  /\ UNCHANGED <<init, ptr, mutex, up, born, at, listVars, siteVars, seen, ended>>

GetCallbackState(t) ==
  /\ pc[t] = "query" /\ Leave(t) /\ drawn' = [drawn EXCEPT ![t] = 0]
  /\ UNCHANGED <<ctlVars, listVars, siteVars, setBy, seen, ended, stale>>

\* GetEnabledCallbacks counts the domain's names that are on ...
CountEnabled(t) ==
  /\ pc[t] = "count"
  /\ number' = [number EXCEPT ![t] = IF Head(todo[t]) \in bits THEN @ + 1 ELSE @]
  /\ IF Len(todo[t]) > 1
     THEN todo' = [todo EXCEPT ![t] = Tail(@)] /\ UNCHANGED <<pc, room>>
     ELSE \E size \in Rooms :
            /\ room' = [room EXCEPT ![t] = IF size < number'[t] THEN size ELSE number'[t]]
            /\ todo' = [todo EXCEPT ![t] = NamesOf(call[t].d)]
            /\ Goto(t, "write")
  /\ UNCHANGED <<ctlVars, call, out, siteVars, ghostVars>>

\* ... and then writes those that are on by now, as many as there is room for
MayWrite_All(t) == todo[t] # <<>>
MayWrite(t) == todo[t] # <<>> /\ Len(out[t]) < room[t]

WriteEnabled(t) ==
  /\ pc[t] = "write"
  /\ IF MayWrite(t)
     THEN /\ out' = [out EXCEPT ![t] = IF Head(todo[t]) \in bits THEN Append(@, Head(todo[t])) ELSE @]
          /\ todo' = [todo EXCEPT ![t] = Tail(@)]
          /\ UNCHANGED <<pc, call, room, number, drawn>>
     ELSE Leave(t) /\ Drop(t) /\ drawn' = [drawn EXCEPT ![t] = 0]
  /\ UNCHANGED <<ctlVars, siteVars, setBy, seen, ended, stale>>

-----------------------------------------------------------------------------
(* A callback site: CallbackScope issues ENTER before and EXIT after the call *)

ScopeBegins(s) ==
  /\ pc[s] = "out" /\ Goto(s, "execute") /\ phase' = [phase EXCEPT ![s] = "ENTER"]
  /\ seen' = [seen EXCEPT ![s] = ended]
  /\ \E n \in {m \in Names : IsValidCBDomain(m[1]) /\ m[2] < GetDomainCallbackCount(m[1])} :
       todo' = [todo EXCEPT ![s] = <<n>>]
  /\ UNCHANGED <<ctlVars, call, listVars, local, setBy, ended, stale, drawn>>

\* The API call itself runs between the two
ScopeCalls(s) ==
  /\ pc[s] = "called" /\ phase[s] = "ENTER"
  /\ Goto(s, "execute") /\ phase' = [phase EXCEPT ![s] = "EXIT"]
  /\ seen' = [seen EXCEPT ![s] = ended]
  /\ UNCHANGED <<ctlVars, call, todo, listVars, local, setBy, ended, stale, drawn>>

ScopeEnds(s) ==
  /\ pc[s] = "called" /\ phase[s] = "EXIT" /\ Goto(s, "out")
  /\ todo' = [todo EXCEPT ![s] = <<>>] /\ phase' = [phase EXCEPT ![s] = "ENTER"] /\ seen' = [seen EXCEPT ![s] = 0]
  /\ local' = [local EXCEPT ![s] = 0]
  /\ UNCHANGED <<ctlVars, call, listVars, setBy, ended, stale, drawn>>

ExecuteReads(s) ==
  /\ pc[s] = "execute" /\ Goto(s, IF init THEN "bit" ELSE "called")
  /\ UNCHANGED <<ctlVars, call, todo, listVars, siteVars, ghostVars>>

IsCallbackIdEnable(s) ==
  /\ pc[s] = "bit" /\ Goto(s, IF todo[s][1] \in bits THEN "load" ELSE "called")
  /\ UNCHANGED <<ctlVars, call, todo, listVars, siteVars, ghostVars>>

ExecuteLoads(s) ==
  /\ pc[s] = "load"
  /\ local' = [local EXCEPT ![s] = ptr]
  /\ Goto(s, IF ptr # 0 THEN "invoke" ELSE "called")
  /\ UNCHANGED <<ctlVars, call, todo, listVars, phase, ghostVars>>

ExecuteInvokes(s) ==
  /\ pc[s] = "invoke" /\ Goto(s, "calling")
  /\ UNCHANGED <<ctlVars, call, todo, listVars, siteVars, ghostVars>>

\* The callback returns and the local pointer goes with it
ExecuteReturns(s) ==
  /\ pc[s] = "calling" /\ Goto(s, "called") /\ local' = [local EXCEPT ![s] = 0]
  /\ UNCHANGED <<ctlVars, call, todo, listVars, phase, ghostVars>>

-----------------------------------------------------------------------------
CallSteps(t) ==
  \/ InitCheck(t) \/ InitClears(t) \/ InitPublishes(t) \/ InitRuns(t) \/ InitStarts(t)
  \/ UnInit(t) \/ Finalize(t) \/ Return(t)
  \/ TeardownDetaches(t) \/ TeardownClears(t) \/ TeardownStops(t) \/ TeardownEnds(t)
  \/ CallEnters(t) \/ CallChecks(t) \/ Switch(t) \/ GetCallbackState(t)
  \/ CountEnabled(t) \/ WriteEnabled(t)
SiteSteps(s) ==
  \/ ScopeBegins(s) \/ ScopeCalls(s) \/ ScopeEnds(s) \/ ExecuteReads(s) \/ IsCallbackIdEnable(s)
  \/ ExecuteLoads(s) \/ ExecuteInvokes(s) \/ ExecuteReturns(s)
Next == (\E t \in Threads : CallSteps(t)) \/ (\E s \in Sites : SiteSteps(s))
Spec == Init /\ [][Next]_vars

-----------------------------------------------------------------------------
AllNames == {<<d, c>> : d \in Domains, c \in 0..(MapBits - 1)}

\* The types; a name that is on was switched on by a call that passed the
\* check of a subscription's handle (callback_manager.cpp:282)
TypeOK ==
  /\ init \in BOOLEAN /\ ptr \in 0..born /\ born \in 0..MaxSubs
  /\ bits \subseteq AllNames /\ setBy \in [bits -> 1..MaxSubs] /\ up \subseteq Services
  /\ mutex \in Threads \cup {Nobody}
  /\ \A t \in DOMAIN pc : /\ drawn[t] \in 0..MaxSubs /\ number[t] \in Nat
                          /\ pc[t] = "switch" => todo[t] # <<>>

\* While nobody holds the lock a session is there in full or not at all:
\* init_, the subscriber and the five services agree (lines 176-230)
SessionWhole ==
  /\ mutex = Nobody => IF init THEN ptr # 0 /\ up = Services ELSE ptr = 0 /\ up = {}
  /\ up # {} => init

\* A subscriber starts with every callback off: a name that is on was switched
\* on through its own handle, unless the call that did it had checked an older
\* handle and set the bit after the new session had cleared them (line 282)
OwnBits == init => \A n \in bits : setBy[n] = ptr \/ n \in stale \/ ptr = 0

\* GetEnabledCallbacks never writes past the caller's buffer, although the
\* names may be switched between its two loops (line 494)
BufferBounded == \A t \in DOMAIN pc : Len(out[t]) <= room[t]

\* A callback site entered after Unsubscribe or Finalize has returned passes
\* through, whatever Detach returned: it calls no subscriber of before
\* (callback_manager.h:90)
NoLateCallback == \A s \in Sites : pc[s] = "calling" => local[s] > seen[s]

\* After msptiUnsubscribe has returned no callback is issued to the subscriber
\* (mspti_callback.h:197)
NoFutureCallbacks == [][\A s \in Sites : pc[s] = "invoke" /\ pc'[s] = "calling" => local[s] > ended]_vars

(* What callback sites see of a session is whole, the bits are those its own *)
(* subscriber set, a list of them stays in its buffer, and a site entered    *)
(* after the session's end calls nobody.                                     *)
SubscriptionInv == TypeOK /\ SessionWhole /\ OwnBits /\ BufferBounded /\ NoLateCallback
=============================================================================
