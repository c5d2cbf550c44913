-------------------------- MODULE OperationService --------------------------
(***************************************************************************)
(* What RdmaExecutor promises to those who submit operations: while it is  *)
(* open it accepts operations, it answers the accepted ones one by one in  *)
(* the order it accepted them, each exactly once, and it forgets none,     *)
(* not even when it is closed.  A closed executor refuses, with an error.  *)
(***************************************************************************)
EXTENDS Sequences

CONSTANT Ops       (* the operations that may be submitted                 *)

VARIABLES open,    (* does it accept operations?                           *)
          pending, (* the accepted operations it has not answered yet      *)
          answer   (* the answer of each operation                         *)

vars == <<open, pending, answer>>

Answers == {"ok", "error"}

Fresh(op) == answer[op] = "none" /\ \A i \in DOMAIN pending : pending[i] # op

Init ==
    /\ open = FALSE
    /\ pending = << >>
    /\ answer = [op \in Ops |-> "none"]

Open == ~open /\ open' = TRUE /\ UNCHANGED <<pending, answer>>

Close == open /\ open' = FALSE /\ UNCHANGED <<pending, answer>>

Accept(op) ==
    /\ open
    /\ Fresh(op)
    /\ pending' = Append(pending, op)
    /\ UNCHANGED <<open, answer>>

Refuse(op) ==
    /\ ~open
    /\ Fresh(op)
    /\ answer' = [answer EXCEPT ![op] = "error"]
    /\ UNCHANGED <<open, pending>>

Reply(a) ==
    /\ pending # << >>
    /\ answer[Head(pending)] = "none"
    /\ answer' = [answer EXCEPT ![Head(pending)] = a]
    /\ pending' = Tail(pending)
    /\ UNCHANGED open

Next ==
    \/ Open
    \/ Close
    \/ \E op \in Ops : Accept(op) \/ Refuse(op)
    \/ \E a \in Answers : Reply(a)

Spec == Init /\ [][Next]_vars

=============================================================================
