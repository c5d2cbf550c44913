---------------------------- MODULE EndpointLock ----------------------------
(***************************************************************************)
(* What RdmaEndpointStorage promises to the sessions of a server           *)
(* (rdma_endpoint.hpp, "Tries to lock endpoint for exclusive access"):     *)
(* the endpoints that share a path are granted to one session at a time,   *)
(* and a session is refused only while another one has them.               *)
(***************************************************************************)
EXTENDS FiniteSets

CONSTANTS Sessions,  (* the sessions that lock endpoints                   *)
          Paths      (* the paths endpoints may be registered under        *)

VARIABLES served,    (* the paths that have a registered endpoint          *)
          holders,   (* the sessions each path is granted to               *)
          verdict    (* the last answer each session got to a lock request *)

vars == <<served, holders, verdict>>

Init ==
    /\ served = {}
    /\ holders = [p \in Paths |-> {}]
    /\ verdict = [s \in Sessions |-> "none"]

AddPath(p) ==
    /\ served' = served \cup {p}
    /\ UNCHANGED <<holders, verdict>>

Grant(s, p) ==
    /\ p \in served
    /\ holders[p] = {}
    /\ holders' = [holders EXCEPT ![p] = {s}]
    /\ verdict' = [verdict EXCEPT ![s] = "granted"]
    /\ UNCHANGED served

Refuse(s, p) ==
    /\ holders[p] # {}
    /\ verdict' = [verdict EXCEPT ![s] = "refused"]
    /\ UNCHANGED <<served, holders>>

ReportUnknown(s, p) ==
    /\ p \notin served
    /\ verdict' = [verdict EXCEPT ![s] = "unknownPath"]
    /\ UNCHANGED <<served, holders>>

Release(s, p) ==
    /\ s \in holders[p]
    /\ holders' = [holders EXCEPT ![p] = {}]
    /\ UNCHANGED <<served, verdict>>

Next ==
    \/ \E p \in Paths : AddPath(p)
    \/ \E s \in Sessions, p \in Paths :
          \/ Grant(s, p)
          \/ Refuse(s, p)
          \/ ReportUnknown(s, p)
          \/ Release(s, p)

Spec == Init /\ [][Next]_vars

=============================================================================
