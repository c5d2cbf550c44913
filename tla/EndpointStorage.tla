--------------------------- MODULE EndpointStorage ---------------------------
(***************************************************************************)
(* RdmaEndpointStorage (rdma_endpoint.cpp): the map from endpoint ids to   *)
(* stored endpoints, each with its own mutex and locked flag, and the two  *)
(* operations that walk the map and take or clear the flags of every       *)
(* endpoint of a path.  A step is what runs under one endpoint's mutex.    *)
(*                                                                         *)
(* The callers are server sessions.  RdmaServer runs all of them on the    *)
(* one thread that polls its io_context and neither operation suspends,    *)
(* so there a call runs to its end before the next begins: SingleLoop.     *)
(* With SingleLoop = FALSE the callers are threads of their own.           *)
(*                                                                         *)
(* Nothing in RegisterEndpoint, nor in RdmaServer::RegisterEndpoints, asks *)
(* whether Serve() runs; that all endpoints are registered before, as the  *)
(* error of Serve() demands (rdma_server.cpp:99), is an assumption about   *)
(* the caller: RegistersFirst.                                             *)
(***************************************************************************)
EXTENDS FiniteSets

CONSTANTS Sessions,      (* the callers                                    *)
          Paths,         (* the paths of the endpoints                     *)
          SingleLoop,    (* are all calls made from one thread?            *)
          RegistersFirst (* is every endpoint registered before Serve()?   *)

ASSUME CallersAssumption == SingleLoop \in BOOLEAN /\ RegistersFirst \in BOOLEAN

VARIABLES registered, (* the endpoints in the map                          *)
          serving,    (* has Serve() begun?                                *)
          locked,     (* StoredEndpoint::endpointLocked                    *)
          pc,         (* where each caller is                              *)
          path,       (* the path of its last call                         *)
          todo,       (* the endpoints its loop has yet to visit           *)
          wasLocked,  (* the local variable of TryLockEndpointsByPath      *)
          verdict     (* what its last TryLockEndpointsByPath returned     *)

vars == <<registered, serving, locked, pc, path, todo, wasLocked, verdict>>

Types == {"read", "write"}

(* An endpoint is named by its id, "<type>:<path>": its type and path.     *)
Endpoints == [type : Types, path : Paths]

(* Mutation: the loops do not compare the path.                            *)
EveryEndpoint(p) == registered

EndpointsOf(p) == {e \in registered : e.path = p}

(* The map is walked in the order of the ids: "read:..." before "write:...".*)
IsNext(s, e) ==
    /\ e \in todo[s]
    /\ \A f \in todo[s] : f.type = "read" => e.type = "read"

InCall(s) == pc[s] \in {"locking", "unlocking"}

(* A call may begin: on the one io_context thread only when none is running.*)
MayCall(s) ==
    /\ serving
    /\ SingleLoop => \A t \in Sessions : ~InCall(t)

Init ==
    /\ registered = {}
    /\ serving = FALSE
    /\ locked = [e \in Endpoints |-> FALSE]
    /\ pc = [s \in Sessions |-> "idle"]
    /\ path \in [Sessions -> Paths]
    /\ todo = [s \in Sessions |-> {}]
    /\ wasLocked = [s \in Sessions |-> FALSE]
    /\ verdict = [s \in Sessions |-> "none"]

(* A new id is inserted with its flag clear; a known one is an error.      *)
(* While Serve() runs only a service called by a session may do so: from   *)
(* another thread it would race with the loops over the map.               *)
RegisterEndpoint(e) ==
    /\ serving => ~RegistersFirst /\ \A s \in Sessions : ~InCall(s)
    /\ e \notin registered
    /\ registered' = registered \cup {e}
    /\ locked' = [locked EXCEPT ![e] = FALSE]
    /\ UNCHANGED <<serving, pc, path, todo, wasLocked, verdict>>

(* Serve() refuses an empty storage.                                       *)
BeginServing ==
    /\ ~serving
    /\ registered # {}
    /\ serving' = TRUE
    /\ UNCHANGED <<registered, locked, pc, path, todo, wasLocked, verdict>>

BeginTryLock(s, p) ==
    /\ MayCall(s)
    /\ pc[s] = "idle"
    /\ pc' = [pc EXCEPT ![s] = "locking"]
    /\ path' = [path EXCEPT ![s] = p]
    /\ todo' = [todo EXCEPT ![s] = EndpointsOf(p)]
    /\ wasLocked' = [wasLocked EXCEPT ![s] = FALSE]
    /\ UNCHANGED <<registered, serving, locked, verdict>>

(* Mutation: reports that the path was found, not that a flag was taken.   *)
TryLockFound(s, e) ==
    /\ pc[s] = "locking"
    /\ IsNext(s, e)
    /\ locked' = [locked EXCEPT ![e] = TRUE]
    /\ wasLocked' = [wasLocked EXCEPT ![s] = TRUE]
    /\ todo' = [todo EXCEPT ![s] = @ \ {e}]
    /\ UNCHANGED <<registered, serving, pc, path, verdict>>

(* The body of the loop, under the endpoint's mutex.                       *)
TryLockEndpoint(s, e) ==
    /\ pc[s] = "locking"
    /\ IsNext(s, e)
    /\ locked' = [locked EXCEPT ![e] = TRUE]
    /\ wasLocked' = [wasLocked EXCEPT ![s] = @ \/ ~locked[e]]
    /\ todo' = [todo EXCEPT ![s] = @ \ {e}]
    /\ UNCHANGED <<registered, serving, pc, path, verdict>>

(* Mutation: a refusal is reported as a verdict of its own.                *)
EndTryLockRaw(s) ==
    /\ pc[s] = "locking"
    /\ todo[s] = {}
    /\ pc' = [pc EXCEPT ![s] = IF wasLocked[s] THEN "holding" ELSE "idle"]
    /\ verdict' = [verdict EXCEPT ![s] = IF wasLocked[s] THEN "granted" ELSE "locked"]
    /\ UNCHANGED <<registered, serving, locked, path, todo, wasLocked>>

EndTryLock(s) ==
    /\ pc[s] = "locking"
    /\ todo[s] = {}
    /\ pc' = [pc EXCEPT ![s] = IF wasLocked[s] THEN "holding" ELSE "idle"]
    /\ verdict' = [verdict EXCEPT ![s] =
                     IF EndpointsOf(path[s]) = {} THEN "unknownPath"
                     ELSE IF wasLocked[s] THEN "granted" ELSE "refused"]
    /\ UNCHANGED <<registered, serving, locked, path, todo, wasLocked>>

(* Mutation: only the endpoint of one type is unlocked.                    *)
UnlockReadOnly(s) ==
    /\ MayCall(s)
    /\ pc[s] = "holding"
    /\ pc' = [pc EXCEPT ![s] = "unlocking"]
    /\ todo' = [todo EXCEPT ![s] = {e \in EndpointsOf(path[s]) : e.type = "read"}]
    /\ UNCHANGED <<registered, serving, locked, path, wasLocked, verdict>>

(* Only a session that was granted the path unlocks it.                    *)
BeginUnlock(s) ==
    /\ MayCall(s)
    /\ pc[s] = "holding"
    /\ pc' = [pc EXCEPT ![s] = "unlocking"]
    /\ todo' = [todo EXCEPT ![s] = EndpointsOf(path[s])]
    /\ UNCHANGED <<registered, serving, locked, path, wasLocked, verdict>>

UnlockEndpoint(s, e) ==
    /\ pc[s] = "unlocking"
    /\ IsNext(s, e)
    /\ locked' = [locked EXCEPT ![e] = FALSE]
    /\ todo' = [todo EXCEPT ![s] = @ \ {e}]
    /\ UNCHANGED <<registered, serving, pc, path, wasLocked, verdict>>

EndUnlock(s) ==
    /\ pc[s] = "unlocking"
    /\ todo[s] = {}
    /\ pc' = [pc EXCEPT ![s] = "idle"]
    /\ UNCHANGED <<registered, serving, locked, path, todo, wasLocked, verdict>>

Next ==
    \/ \E e \in Endpoints : RegisterEndpoint(e)
    \/ BeginServing
    \/ \E s \in Sessions, p \in Paths : BeginTryLock(s, p)
    \/ \E s \in Sessions, e \in Endpoints : TryLockEndpoint(s, e)
    \/ \E s \in Sessions : EndTryLock(s)
    \/ \E s \in Sessions : BeginUnlock(s)
    \/ \E s \in Sessions, e \in Endpoints : UnlockEndpoint(s, e)
    \/ \E s \in Sessions : EndUnlock(s)

Spec == Init /\ [][Next]_vars

-----------------------------------------------------------------------------
(* Properties.                                                             *)

(* Every variable has its type.                                            *)
TypeOK ==
    /\ registered \in SUBSET Endpoints
    /\ serving \in BOOLEAN
    /\ locked \in [Endpoints -> BOOLEAN]
    /\ pc \in [Sessions -> {"idle", "locking", "holding", "unlocking"}]
    /\ path \in [Sessions -> Paths]
    /\ todo \in [Sessions -> SUBSET Endpoints]
    /\ wasLocked \in [Sessions -> BOOLEAN]
    /\ verdict \in [Sessions -> {"none", "granted", "refused", "unknownPath"}]

Holders(p) == {s \in Sessions : pc[s] = "holding" /\ path[s] = p}

(* TryLockEndpointsByPath tells at most one session at a time that it has  *)
(* the endpoints of a path (rdma_endpoint.hpp, "for exclusive access").    *)
(* It needs both assumptions about the callers: an endpoint that is        *)
(* registered under a held path is free, and one free endpoint is enough.  *)
Exclusive ==
    \A s, t \in Sessions :
        pc[s] = "holding" /\ pc[t] = "holding" /\ path[s] = path[t] => s = t

(* s is going to clear the flag of e.                                      *)
Clears(s, e) ==
    /\ path[s] = e.path
    /\ \/ pc[s] = "holding"
       \/ pc[s] = "locking" /\ wasLocked[s]
       \/ pc[s] = "unlocking" /\ e \in todo[s]

(* A flag is set only on behalf of somebody who will clear it: a session   *)
(* that has the path, is about to be told so, or is on its way to clear    *)
(* the flag.  With an orphan, the path is refused to everybody for ever.   *)
NoOrphanLock ==
    \A e \in Endpoints : locked[e] => \E s \in Sessions : Clears(s, e)

(* The abstract lock: Spec implements it when all calls come from one      *)
(* thread and registration from before them, so a grant is exclusive and a *)
(* refusal means somebody holds it.                                        *)
Lock == INSTANCE EndpointLock WITH
            served  <- {e.path : e \in registered},
            holders <- [p \in Paths |-> Holders(p)]

LockSpec == Lock!Spec
=============================================================================
