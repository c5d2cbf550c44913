----------------------- MODULE EndpointStorageProofs -----------------------
(***************************************************************************)
(* For any number of sessions and paths: no flag is ever left set with     *)
(* nobody to clear it, whatever threads the calls come from; and when they *)
(* all come from one thread, registration first, the lock is exclusive and *)
(* EndpointStorage implements EndpointLock.                                *)
(***************************************************************************)
EXTENDS EndpointStorage, TLAPS

-----------------------------------------------------------------------------
(* Facts that hold with or without SingleLoop.                             *)

TodoOnPath == \A s \in Sessions : \A e \in todo[s] : e \in registered /\ e.path = path[s]

LockedRegistered == \A e \in Endpoints : locked[e] => e \in registered

Base == TypeOK /\ TodoOnPath /\ LockedRegistered /\ NoOrphanLock

(* TypeOK is inductive on its own.                                         *)
LEMMA TypeStep == TypeOK /\ [Next]_vars => TypeOK'
  <1> SUFFICES ASSUME TypeOK, [Next]_vars
               PROVE  TypeOK'
    OBVIOUS
  <1> USE DEF TypeOK, EndpointsOf
  <1>1. ASSUME NEW e \in Endpoints, RegisterEndpoint(e) PROVE TypeOK'
    BY <1>1 DEF RegisterEndpoint
  <1>2. CASE BeginServing
    BY <1>2 DEF BeginServing
  <1>3. ASSUME NEW s \in Sessions, NEW p \in Paths, BeginTryLock(s, p) PROVE TypeOK'
    BY <1>3 DEF BeginTryLock
  <1>4. ASSUME NEW s \in Sessions, NEW e \in Endpoints, TryLockEndpoint(s, e) PROVE TypeOK'
    BY <1>4 DEF TryLockEndpoint
  <1>5. ASSUME NEW s \in Sessions, EndTryLock(s) PROVE TypeOK'
    BY <1>5 DEF EndTryLock
  <1>6. ASSUME NEW s \in Sessions, BeginUnlock(s) PROVE TypeOK'
    BY <1>6 DEF BeginUnlock
  <1>7. ASSUME NEW s \in Sessions, NEW e \in Endpoints, UnlockEndpoint(s, e) PROVE TypeOK'
    BY <1>7 DEF UnlockEndpoint
  <1>8. ASSUME NEW s \in Sessions, EndUnlock(s) PROVE TypeOK'
    BY <1>8 DEF EndUnlock
  <1>9. CASE UNCHANGED vars
    BY <1>9 DEF vars
  <1> QED
    BY <1>1, <1>2, <1>3, <1>4, <1>5, <1>6, <1>7, <1>8, <1>9 DEF Next

LEMMA InitBase == Init => Base
  BY DEF Init, Base, TypeOK, TodoOnPath, LockedRegistered, NoOrphanLock, Clears, Endpoints

(* Base is inductive.                                                      *)
LEMMA BaseStep == Base /\ [Next]_vars => Base'
  <1> SUFFICES ASSUME Base, [Next]_vars
               PROVE  Base'
    OBVIOUS
  <1>0. TypeOK /\ TypeOK'
    BY TypeStep DEF Base
  <1> USE <1>0
  <1>1. ASSUME NEW e \in Endpoints, RegisterEndpoint(e) PROVE Base'
    BY <1>1 DEF RegisterEndpoint, Base, TypeOK, TodoOnPath, LockedRegistered, NoOrphanLock, Clears
  <1>2. CASE BeginServing
    BY <1>2 DEF BeginServing, Base, TypeOK, TodoOnPath, LockedRegistered, NoOrphanLock, Clears
  <1>3. ASSUME NEW s \in Sessions, NEW p \in Paths, BeginTryLock(s, p) PROVE Base'
    BY <1>3 DEF BeginTryLock, Base, TypeOK, TodoOnPath, LockedRegistered, NoOrphanLock, Clears, EndpointsOf
  <1>4. ASSUME NEW s \in Sessions, NEW e \in Endpoints, TryLockEndpoint(s, e) PROVE Base'
    <2>1. TodoOnPath'
      BY <1>4 DEF TryLockEndpoint, Base, TypeOK, TodoOnPath
    <2>2. e.path = path[s] /\ e \in todo[s] /\ e \in registered
      BY <1>4 DEF TryLockEndpoint, IsNext, Base, TodoOnPath
    <2>3. LockedRegistered'
      BY <2>2, <1>4 DEF TryLockEndpoint, Base, TypeOK, LockedRegistered
    <2>4. NoOrphanLock'
      <3> SUFFICES ASSUME NEW f \in Endpoints, locked'[f]
                   PROVE  \E t \in Sessions : Clears(t, f)'
        BY DEF NoOrphanLock, Clears
      <3>1. CASE locked[f]
        <4>1. PICK t \in Sessions : Clears(t, f)
          BY <3>1 DEF Base, NoOrphanLock, Clears
        <4>2. Clears(t, f)'
          BY <4>1, <1>4 DEF TryLockEndpoint, TypeOK, Clears
        <4> QED
          BY <4>2
      <3>2. CASE ~locked[f]
        <4>1. f = e
          BY <3>2, <1>4 DEF TryLockEndpoint, TypeOK
        <4>2. wasLocked'[s]
          BY <4>1, <3>2, <1>4 DEF TryLockEndpoint, TypeOK
        <4>3. Clears(s, f)'
          BY <4>1, <4>2, <2>2, <1>4 DEF TryLockEndpoint, TypeOK, Clears
        <4> QED
          BY <4>3
      <3> QED
        BY <3>1, <3>2
    <2> QED
      BY <2>1, <2>3, <2>4 DEF Base
  <1>5. ASSUME NEW s \in Sessions, EndTryLock(s) PROVE Base'
    BY <1>5 DEF EndTryLock, Base, TypeOK, TodoOnPath, LockedRegistered, NoOrphanLock, Clears
  <1>6. ASSUME NEW s \in Sessions, BeginUnlock(s) PROVE Base'
    BY <1>6 DEF BeginUnlock, Base, TypeOK, TodoOnPath, LockedRegistered, NoOrphanLock, Clears, EndpointsOf
  <1>7. ASSUME NEW s \in Sessions, NEW e \in Endpoints, UnlockEndpoint(s, e) PROVE Base'
    BY <1>7 DEF UnlockEndpoint, Base, TypeOK, TodoOnPath, LockedRegistered, NoOrphanLock, Clears
  <1>8. ASSUME NEW s \in Sessions, EndUnlock(s) PROVE Base'
    BY <1>8 DEF EndUnlock, Base, TypeOK, TodoOnPath, LockedRegistered, NoOrphanLock, Clears
  <1>9. CASE UNCHANGED vars
    BY <1>9 DEF vars, Base, TypeOK, TodoOnPath, LockedRegistered, NoOrphanLock, Clears
  <1> QED
    BY <1>1, <1>2, <1>3, <1>4, <1>5, <1>6, <1>7, <1>8, <1>9 DEF Next

(* Every behaviour keeps the types.                                        *)
THEOREM TypeCorrect == Spec => []TypeOK
  <1>1. Init => TypeOK
    BY InitBase DEF Base
  <1> QED
    BY <1>1, TypeStep, PTL DEF Spec

THEOREM BaseInvariant == Spec => []Base
  BY InitBase, BaseStep, PTL DEF Spec

(* A flag set in UnlockEndpointsByPath's or TryLockEndpointsByPath's       *)
(* bookkeeping always has a session that will clear it, also when the      *)
(* calls are interleaved endpoint by endpoint.                             *)
THEOREM NoOrphan == Spec => []NoOrphanLock
  <1>1. Base => NoOrphanLock
    BY DEF Base
  <1> QED
    BY <1>1, BaseInvariant, PTL

-----------------------------------------------------------------------------
(* Facts of one thread: while a call runs, no other one does.              *)

OneCall == \A s, t \in Sessions : InCall(s) /\ InCall(t) => s = t

(* Serve() has begun once anybody locks.                                   *)
ServingFirst == \A s \in Sessions : pc[s] # "idle" => serving

(* A holder has every endpoint of its path.                                *)
HeldLocked ==
    \A s \in Sessions : pc[s] = "holding" =>
        \A e \in EndpointsOf(path[s]) : locked[e]

(* The loop of TryLockEndpointsByPath leaves every endpoint it passed      *)
(* locked, and finds a free one only when nobody has the path.             *)
LoopSoFar ==
    \A s \in Sessions : pc[s] = "locking" =>
        /\ \A e \in EndpointsOf(path[s]) \ todo[s] : locked[e]
        /\ wasLocked[s] => Holders(path[s]) = {} /\ EndpointsOf(path[s]) # {}

(* While a session clears the flags of a path nobody else has it.          *)
UnlockingAlone ==
    \A s \in Sessions : pc[s] = "unlocking" => Holders(path[s]) = {}

LoopInv ==
    /\ OneCall
    /\ ServingFirst
    /\ Exclusive
    /\ HeldLocked
    /\ LoopSoFar
    /\ UnlockingAlone

LEMMA InitLoop == Init => LoopInv
  BY DEF Init, LoopInv, OneCall, ServingFirst, Exclusive, HeldLocked, LoopSoFar,
         UnlockingAlone, InCall

(* One lemma per action that touches what LoopInv relates.                 *)
LEMMA LoopBeginTryLock ==
  ASSUME SingleLoop, Base, LoopInv, NEW s \in Sessions, NEW p \in Paths, BeginTryLock(s, p)
  PROVE  LoopInv'
  <1> USE DEF BeginTryLock, MayCall, Base, TypeOK, LoopInv
  <1>1. OneCall' BY DEF OneCall, InCall
  <1>2. ServingFirst' BY DEF ServingFirst
  <1>3. Exclusive' BY DEF Exclusive
  <1>4. HeldLocked' BY DEF HeldLocked, EndpointsOf
  <1>5. LoopSoFar' BY DEF LoopSoFar, EndpointsOf, Holders, InCall
  <1>6. UnlockingAlone' BY DEF UnlockingAlone, Holders, InCall
  <1> QED BY <1>1, <1>2, <1>3, <1>4, <1>5, <1>6

LEMMA LoopTryLockEndpoint ==
  ASSUME Base, LoopInv, NEW s \in Sessions, NEW e \in Endpoints, TryLockEndpoint(s, e)
  PROVE  LoopInv'
  <1> USE DEF TryLockEndpoint, Base, TypeOK, LoopInv
  <1>0. e \in EndpointsOf(path[s])
    BY DEF IsNext, TodoOnPath, EndpointsOf
  <1>1. OneCall' BY DEF OneCall, InCall
  <1>2. ServingFirst' BY DEF ServingFirst
  <1>3. Exclusive' BY DEF Exclusive
  <1>4. HeldLocked' BY DEF HeldLocked, EndpointsOf
  <1>5. LoopSoFar'
    <2> SUFFICES ASSUME NEW t \in Sessions, pc'[t] = "locking"
                 PROVE  /\ \A f \in (EndpointsOf(path[t]) \ todo[t])' : locked'[f]
                        /\ wasLocked'[t] => (Holders(path[t]) = {} /\ EndpointsOf(path[t]) # {})'
      BY DEF LoopSoFar
    <2>1. t = s
      BY DEF OneCall, InCall
    <2>2. \A f \in (EndpointsOf(path[t]) \ todo[t])' : locked'[f]
      BY <2>1 DEF LoopSoFar, EndpointsOf
    <2>3. ASSUME wasLocked'[t] PROVE (Holders(path[t]) = {})'
      <3>1. CASE wasLocked[s]
        BY <3>1, <2>1 DEF LoopSoFar, Holders
      <3>2. CASE ~wasLocked[s]
        <4>1. ~locked[e]
          BY <3>2, <2>1, <2>3
        <4>2. \A u \in Sessions : ~(pc[u] = "holding" /\ path[u] = path[s])
          BY <4>1, <1>0 DEF HeldLocked
        <4> QED
          BY <4>2, <2>1 DEF Holders
      <3> QED BY <3>1, <3>2
    <2>4. (EndpointsOf(path[t]) # {})'
      BY <1>0, <2>1 DEF EndpointsOf
    <2> QED BY <2>2, <2>3, <2>4
  <1>6. UnlockingAlone' BY DEF UnlockingAlone, Holders
  <1> QED BY <1>1, <1>2, <1>3, <1>4, <1>5, <1>6

LEMMA LoopEndTryLock ==
  ASSUME Base, LoopInv, NEW s \in Sessions, EndTryLock(s)
  PROVE  LoopInv'
  <1> USE DEF EndTryLock, Base, TypeOK, LoopInv
  <1>1. OneCall' BY DEF OneCall, InCall
  <1>2. ServingFirst' BY DEF ServingFirst
  <1>3. Exclusive' BY DEF Exclusive, LoopSoFar, Holders
  <1>4. HeldLocked' BY DEF HeldLocked, EndpointsOf, LoopSoFar
  <1>5. LoopSoFar' BY DEF LoopSoFar, EndpointsOf, Holders, OneCall, InCall
  <1>6. UnlockingAlone' BY DEF UnlockingAlone, Holders, OneCall, InCall
  <1> QED BY <1>1, <1>2, <1>3, <1>4, <1>5, <1>6

LEMMA LoopBeginUnlock ==
  ASSUME SingleLoop, Base, LoopInv, NEW s \in Sessions, BeginUnlock(s)
  PROVE  LoopInv'
  <1> USE DEF BeginUnlock, MayCall, Base, TypeOK, LoopInv
  <1>1. OneCall' BY DEF OneCall, InCall
  <1>2. ServingFirst' BY DEF ServingFirst
  <1>3. Exclusive' BY DEF Exclusive
  <1>4. HeldLocked' BY DEF HeldLocked, EndpointsOf
  <1>5. LoopSoFar' BY DEF LoopSoFar, EndpointsOf, Holders, InCall
  <1>6. UnlockingAlone' BY DEF UnlockingAlone, Holders, Exclusive, InCall
  <1> QED BY <1>1, <1>2, <1>3, <1>4, <1>5, <1>6

LEMMA LoopUnlockEndpoint ==
  ASSUME Base, LoopInv, NEW s \in Sessions, NEW e \in Endpoints, UnlockEndpoint(s, e)
  PROVE  LoopInv'
  <1> USE DEF UnlockEndpoint, Base, TypeOK, LoopInv
  <1>0. e \in EndpointsOf(path[s])
    BY DEF IsNext, TodoOnPath, EndpointsOf
  <1>1. OneCall' BY DEF OneCall, InCall
  <1>2. ServingFirst' BY DEF ServingFirst
  <1>3. Exclusive' BY DEF Exclusive
  <1>4. HeldLocked' BY <1>0 DEF HeldLocked, EndpointsOf, UnlockingAlone, Holders
  <1>5. LoopSoFar' BY DEF LoopSoFar, OneCall, InCall
  <1>6. UnlockingAlone' BY DEF UnlockingAlone, Holders
  <1> QED BY <1>1, <1>2, <1>3, <1>4, <1>5, <1>6

LEMMA LoopStep == SingleLoop /\ RegistersFirst /\ Base /\ LoopInv /\ [Next]_vars => LoopInv'
  <1> SUFFICES ASSUME SingleLoop, RegistersFirst, Base, LoopInv, [Next]_vars
               PROVE  LoopInv'
    OBVIOUS
  <1>1. ASSUME NEW e \in Endpoints, RegisterEndpoint(e) PROVE LoopInv'
    BY <1>1 DEF RegisterEndpoint, LoopInv, OneCall, InCall, ServingFirst, Exclusive,
       HeldLocked, LoopSoFar, UnlockingAlone, Holders, Base, TypeOK
  <1>2. CASE BeginServing
    BY <1>2 DEF BeginServing, LoopInv, OneCall, InCall, ServingFirst, Exclusive,
       HeldLocked, LoopSoFar, UnlockingAlone, Holders, EndpointsOf, Base, TypeOK
  <1>3. ASSUME NEW s \in Sessions, EndUnlock(s) PROVE LoopInv'
    BY <1>3 DEF EndUnlock, LoopInv, OneCall, InCall, ServingFirst, Exclusive,
       HeldLocked, LoopSoFar, UnlockingAlone, Holders, EndpointsOf, Base, TypeOK
  <1>4. CASE UNCHANGED vars
    BY <1>4 DEF vars, LoopInv, OneCall, InCall, ServingFirst, Exclusive,
       HeldLocked, LoopSoFar, UnlockingAlone, Holders, EndpointsOf
  <1> QED
    BY <1>1, <1>2, <1>3, <1>4, LoopBeginTryLock, LoopTryLockEndpoint, LoopEndTryLock,
       LoopBeginUnlock, LoopUnlockEndpoint DEF Next

(* When all calls come from one thread and every endpoint was registered   *)
(* before Serve(), two sessions never hold the endpoints of one path       *)
(* together.                                                               *)
THEOREM ExclusiveOnOneThread ==
  ASSUME SingleLoop, RegistersFirst
  PROVE  Spec => []Exclusive
  <1>2. LoopInv => Exclusive
    BY DEF LoopInv
  <1>3. Base /\ LoopInv /\ [Next]_vars => LoopInv'
    BY LoopStep
  <1> QED
    BY <1>2, <1>3, InitLoop, BaseInvariant, PTL DEF Spec

-----------------------------------------------------------------------------
(* The steps of EndpointStorage that EndpointLock sees: a path gains its   *)
(* first endpoint, a call returns its verdict, an unlock begins.           *)

ServedPaths == {e.path : e \in registered}

HolderMap == [p \in Paths |-> Holders(p)]

LEMMA RegisterIsAddPath ==
  ASSUME TypeOK, NEW e \in Endpoints, RegisterEndpoint(e)
  PROVE  Lock!Next
  <1>1. ServedPaths' = ServedPaths \cup {e.path} /\ e.path \in Paths
    BY DEF RegisterEndpoint, TypeOK, ServedPaths, Endpoints
  <1>2. HolderMap' = HolderMap /\ verdict' = verdict
    BY DEF RegisterEndpoint, HolderMap, Holders
  <1> QED
    BY <1>1, <1>2 DEF Lock!Next, Lock!AddPath, ServedPaths, HolderMap

(* A refused session really found the path in somebody else's hands.       *)
LEMMA RefusedMeansHeld ==
  ASSUME Base, LoopInv, NEW s \in Sessions, pc[s] = "locking", todo[s] = {},
         ~wasLocked[s], EndpointsOf(path[s]) # {}
  PROVE  Holders(path[s]) # {}
  <1>1. PICK e \in EndpointsOf(path[s]) : locked[e]
    BY DEF LoopInv, LoopSoFar
  <1>2. e \in Endpoints /\ e.path = path[s]
    BY DEF EndpointsOf, Base, TypeOK
  <1>3. PICK t \in Sessions : Clears(t, e)
    BY <1>1, <1>2 DEF Base, NoOrphanLock
  <1>4. pc[t] = "holding"
    BY <1>3 DEF Clears, LoopInv, OneCall, InCall
  <1> QED
    BY <1>2, <1>3, <1>4 DEF Clears, Holders

LEMMA EndTryLockIsVerdict ==
  ASSUME Base, LoopInv, NEW s \in Sessions, EndTryLock(s)
  PROVE  Lock!Next
  <1> DEFINE p == path[s]
  <1>0. p \in Paths /\ ServedPaths' = ServedPaths /\ (p \in ServedPaths <=> EndpointsOf(p) # {})
    BY DEF EndTryLock, Base, TypeOK, ServedPaths, EndpointsOf
  <1>1. CASE wasLocked[s]
    <2>1. EndpointsOf(p) # {} /\ Holders(p) = {}
      BY <1>1 DEF EndTryLock, LoopInv, LoopSoFar
    <2>2. \A q \in Paths : Holders(q)' = IF q = p THEN {s} ELSE Holders(q)
      BY <1>1, <2>1 DEF EndTryLock, Base, TypeOK, Holders
    <2>3. HolderMap' = [HolderMap EXCEPT ![p] = {s}]
      BY <2>2 DEF HolderMap
    <2>4. verdict' = [verdict EXCEPT ![s] = "granted"]
      BY <1>1, <2>1 DEF EndTryLock
    <2>5. HolderMap[p] = {}
      BY <1>0, <2>1 DEF HolderMap
    <2> QED
      BY <1>0, <2>1, <2>3, <2>4, <2>5 DEF Lock!Next, Lock!Grant, ServedPaths, HolderMap
  <1>2. CASE ~wasLocked[s]
    <2>1. HolderMap' = HolderMap
      <3>1. \A q \in Paths : Holders(q)' = Holders(q)
        BY <1>2 DEF EndTryLock, Base, TypeOK, Holders
      <3> QED
        BY <3>1 DEF HolderMap
    <2>2. CASE EndpointsOf(p) = {}
      <3>1. verdict' = [verdict EXCEPT ![s] = "unknownPath"]
        BY <2>2 DEF EndTryLock
      <3> QED
        BY <1>0, <2>1, <2>2, <3>1 DEF Lock!Next, Lock!ReportUnknown, ServedPaths, HolderMap
    <2>3. CASE EndpointsOf(p) # {}
      <3>1. verdict' = [verdict EXCEPT ![s] = "refused"]
        BY <1>2, <2>3 DEF EndTryLock
      <3>2. HolderMap[p] # {}
        BY <1>0, <1>2, <2>3, RefusedMeansHeld DEF EndTryLock, HolderMap
      <3> QED
        BY <1>0, <2>1, <3>1, <3>2 DEF Lock!Next, Lock!Refuse, ServedPaths, HolderMap
    <2> QED
      BY <2>2, <2>3
  <1> QED
    BY <1>1, <1>2 DEF Base, TypeOK

LEMMA BeginUnlockIsRelease ==
  ASSUME Base, LoopInv, NEW s \in Sessions, BeginUnlock(s)
  PROVE  Lock!Next
  <1> DEFINE p == path[s]
  <1>1. p \in Paths /\ ServedPaths' = ServedPaths /\ verdict' = verdict
    BY DEF BeginUnlock, Base, TypeOK, ServedPaths
  <1>2. Holders(p) = {s}
    BY DEF BeginUnlock, Base, TypeOK, Holders, LoopInv, Exclusive
  <1>3. \A q \in Paths : Holders(q)' = IF q = p THEN {} ELSE Holders(q)
    BY <1>2 DEF BeginUnlock, Base, TypeOK, Holders
  <1>4. HolderMap' = [HolderMap EXCEPT ![p] = {}] /\ s \in HolderMap[p]
    BY <1>1, <1>2, <1>3 DEF HolderMap
  <1> QED
    BY <1>1, <1>4 DEF Lock!Next, Lock!Release, ServedPaths, HolderMap

(* Every other step is invisible.                                          *)
LEMMA OtherStepsStutter ==
  ASSUME Base,
         \/ BeginServing
         \/ \E s \in Sessions, p \in Paths : BeginTryLock(s, p)
         \/ \E s \in Sessions, e \in Endpoints : TryLockEndpoint(s, e)
         \/ \E s \in Sessions, e \in Endpoints : UnlockEndpoint(s, e)
         \/ \E s \in Sessions : EndUnlock(s)
         \/ UNCHANGED vars
  PROVE  UNCHANGED Lock!vars
  <1>1. registered' = registered /\ verdict' = verdict
    BY DEF BeginServing, BeginTryLock, TryLockEndpoint, UnlockEndpoint, EndUnlock, vars
  <1>2. \A q \in Paths : Holders(q)' = Holders(q)
    BY DEF BeginServing, BeginTryLock, TryLockEndpoint, UnlockEndpoint, EndUnlock, vars,
           Base, TypeOK, Holders
  <1> QED
    BY <1>1, <1>2 DEF Lock!vars

(* On one thread, registration first, the endpoint-by-endpoint loops       *)
(* behave as one atomic lock per path: TryLockEndpointsByPath grants a     *)
(* path only when nobody has it, refuses it only when somebody has it, and *)
(* reports an unknown path only when no endpoint is registered under it.   *)
THEOREM ImplementsLock ==
  ASSUME SingleLoop, RegistersFirst
  PROVE  Spec => LockSpec
  <1>1. Init => Lock!Init
    BY DEF Init, Lock!Init, Holders
  <1>2. Base /\ LoopInv /\ [Next]_vars => [Lock!Next]_(Lock!vars)
    BY RegisterIsAddPath, EndTryLockIsVerdict, BeginUnlockIsRelease, OtherStepsStutter
       DEF Next, Base
  <1>3. Base /\ LoopInv /\ [Next]_vars => LoopInv'
    BY LoopStep
  <1> QED
    BY <1>1, <1>2, <1>3, InitLoop, BaseInvariant, PTL DEF Spec, LockSpec, Lock!Spec
=============================================================================
