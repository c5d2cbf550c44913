-------------------------- MODULE RdmaServerProofs --------------------------
(***************************************************************************)
(* Proofs about RdmaServer, for any number of threads that call Serve().   *)
(* OneServes is inductive together with the types: a thread gets in only   *)
(* when the flag is down, and the flag goes down only as the one that      *)
(* raised it gets out.  What Shutdown() answers follows from it.           *)
(***************************************************************************)
EXTENDS RdmaServer, TLAPS

Inv == TypeOK /\ OneServes

LEMMA TypeStep == TypeOK /\ [Next]_vars => TypeOK'
  <1> SUFFICES ASSUME TypeOK, [Next]_vars
               PROVE  TypeOK'
    OBVIOUS
  <1> USE DEF TypeOK, GoTo, Leave, flags, locals, acceptVars
  <1>1. ASSUME NEW s \in Servers, Enter(s) PROVE TypeOK'
    BY <1>1 DEF Enter
  <1>2. ASSUME NEW s \in Servers, ServeStep(s) PROVE TypeOK'
    <2>1. CASE Prepare(s)
      BY <2>1 DEF Prepare
    <2>2. CASE Test(s)
      BY <2>2 DEF Test
    <2>3. CASE PollReturns(s)
      BY <2>3 DEF PollReturns
    <2>4. CASE CloseAndStop(s)
      BY <2>4 DEF CloseAndStop
    <2>5. CASE Drain(s)
      BY <2>5 DEF Drain
    <2>6. CASE ClearServing(s)
      BY <2>6 DEF ClearServing
    <2>7. CASE NotifyShutdown(s)
      BY <2>7 DEF NotifyShutdown
    <2> QED
      BY <1>2, <2>1, <2>2, <2>3, <2>4, <2>5, <2>6, <2>7 DEF ServeStep
  <1>3. ASSUME NEW s \in Servers, EndSession(s) \/ HangUp(s) PROVE TypeOK'
    BY <1>3 DEF EndSession, HangUp
  <1>4. ASSUME NEW s \in Servers, AcceptSession(s) \/ AcceptThrows(s) PROVE TypeOK'
    BY <1>4 DEF AcceptSession, AcceptThrows
  <1>5. CASE StopServing
    BY <1>5 DEF StopServing, serveVars
  <1>6. CASE ShutdownStep
    BY <1>6 DEF ShutdownStep, ResetForced, CheckServing, FallAsleep, TimeOut, serveVars
  <1>7. CASE WakeSpuriously
    BY <1>7 DEF WakeSpuriously, serveVars
  <1>8. CASE UNCHANGED vars
    BY <1>8 DEF vars, serveVars
  <1> QED
    BY <1>1, <1>2, <1>3, <1>4, <1>5, <1>6, <1>7, <1>8 DEF Next

(* Only Enter and ClearServing change who is inside and the flag, and      *)
(* every other step of Serve() leaves its thread inside, or outside.       *)
LEMMA OneServesStep ==
  ASSUME Inv, [Next]_vars
  PROVE  OneServes'
  <1> USE DEF Inv, TypeOK, OneServes, Inside, GoTo, Leave, flags, locals, acceptVars
  <1>1. ASSUME NEW s \in Servers, Enter(s) PROVE OneServes'
    BY <1>1 DEF Enter
  <1>2. ASSUME NEW s \in Servers, ServeStep(s) PROVE OneServes'
    <2>1. CASE Prepare(s)
      BY <2>1 DEF Prepare
    <2>2. CASE Test(s)
      BY <2>2 DEF Test
    <2>3. CASE PollReturns(s)
      BY <2>3 DEF PollReturns
    <2>4. CASE CloseAndStop(s)
      BY <2>4 DEF CloseAndStop
    <2>5. CASE Drain(s)
      BY <2>5 DEF Drain
    <2>6. CASE ClearServing(s)
      BY <2>6 DEF ClearServing
    <2>7. CASE NotifyShutdown(s)
      BY <2>7 DEF NotifyShutdown
    <2> QED
      BY <1>2, <2>1, <2>2, <2>3, <2>4, <2>5, <2>6, <2>7 DEF ServeStep
  <1>3. ASSUME NEW s \in Servers,
               EndSession(s) \/ HangUp(s) \/ AcceptSession(s) \/ AcceptThrows(s)
        PROVE  OneServes'
    BY <1>3 DEF EndSession, HangUp, AcceptSession, AcceptThrows
  <1>4. CASE StopServing \/ ShutdownStep \/ WakeSpuriously
    BY <1>4 DEF StopServing, ShutdownStep, ResetForced, CheckServing, FallAsleep, TimeOut,
                WakeSpuriously, serveVars
  <1>5. CASE UNCHANGED vars
    BY <1>5 DEF vars, serveVars
  <1> QED
    BY <1>1, <1>2, <1>3, <1>4, <1>5 DEF Next

LEMMA InvCorrect == Spec => []Inv
  <1>1. Init => Inv
    BY DEF Init, Inv, TypeOK, OneServes, Inside
  <1>2. Inv /\ [Next]_vars => Inv'
    BY TypeStep, OneServesStep DEF Inv
  <1> QED
    BY <1>1, <1>2, PTL DEF Spec

-----------------------------------------------------------------------------
(* The results.                                                            *)

(* Every variable of Serve() and Shutdown() keeps its type.                *)
THEOREM ServerTypeCorrect == Spec => []TypeOK
  <1>1. Inv => TypeOK
    BY DEF Inv
  <1> QED
    BY <1>1, InvCorrect, PTL

(* However many threads call Serve(), and whenever they come while another *)
(* is on its way out, one is inside, and isServing says whether one is.    *)
THEOREM OneServesAtATime == Spec => []OneServes
  <1>1. Inv => OneServes
    BY DEF Inv
  <1> QED
    BY <1>1, InvCorrect, PTL

(* Shutdown() says that the server has stopped only when it has, and that  *)
(* it has not only when it has not.                                        *)
THEOREM AnswersAreTrue == Spec => AnswerIsTrue
  <1>1. ASSUME Inv, [Next]_vars, answer' # answer
        PROVE  /\ answer' = "ok" => \A s \in Servers : ~Inside(s)
               /\ answer' = "timeout" => \E s \in Servers : Inside(s)
    <2>1. isServing <=> \E s \in Servers : Inside(s)
      BY <1>1 DEF Inv, OneServes
    <2>2. \/ answer' = "none"
          \/ answer' = "ok" /\ ~isServing
          \/ answer' = "timeout" /\ isServing
      <3>1. CASE StopServing
        BY <3>1 DEF StopServing
      <3>2. CASE ShutdownStep
        BY <1>1, <3>2 DEF ShutdownStep, ResetForced, CheckServing, FallAsleep, TimeOut,
                          Inv, TypeOK
      <3> QED
        BY <1>1, <3>1, <3>2
        DEF Next, Enter, ServeStep, Prepare, Test, PollReturns, CloseAndStop, Drain,
            ClearServing, NotifyShutdown, AcceptSession, AcceptThrows, EndSession, HangUp,
            WakeSpuriously, vars
    <2> QED
      BY <2>1, <2>2
  <1> QED
    BY <1>1, InvCorrect, PTL DEF Spec, AnswerIsTrue
=============================================================================
