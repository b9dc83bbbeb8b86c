---------------------------- MODULE ChildContract ----------------------------
(***************************************************************************)
(* What loader.h promises to the program that uses the launcher, and       *)
(* nothing about how it is done: a call of jpl_execute() either fails and  *)
(* leaves no process behind, or starts one process; once that process has  *)
(* exited, and only after the call has returned, on_child_exit is called   *)
(* for it, once, with its own exit status.                                 *)
(*                                                                         *)
(* A launch is one call of jpl_execute(); the client passes its identity   *)
(* as the ctx argument.  The exit status of a process is represented by    *)
(* the launch it belongs to, so that the status of one process can never   *)
(* be mistaken for the status of another.                                  *)
(***************************************************************************)
EXTENDS Sequences

CONSTANT Launch                 \* the calls of jpl_execute()

VARIABLES
  result,     \* what jpl_execute() has answered to each launch so far
  life,       \* the process of each launch
  reported    \* the exit statuses on_child_exit was given, for each ctx

vars == <<result, life, reported>>

TypeOK ==
  /\ result \in [Launch -> {"unused", "pending", "failed", "ok"}]
  /\ life \in [Launch -> {"none", "alive", "exited"}]
  /\ reported \in [Launch -> Seq(Launch)]

Init ==
  /\ result = [l \in Launch |-> "unused"]
  /\ life = [l \in Launch |-> "none"]
  /\ reported = [l \in Launch |-> <<>>]

(* The client calls jpl_execute(). *)
Call(l) ==
  /\ result[l] = "unused"
  /\ result' = [result EXCEPT ![l] = "pending"]
  /\ UNCHANGED <<life, reported>>

(* jpl_execute() returns false: no process was started. *)
Refuse(l) ==
  /\ result[l] \in {"unused", "pending"}
  /\ life[l] = "none"
  /\ result' = [result EXCEPT ![l] = "failed"]
  /\ UNCHANGED <<life, reported>>

(* The process of the launch comes to life while the call is in progress. *)
Spawn(l) ==
  /\ result[l] = "pending"
  /\ life[l] = "none"
  /\ life' = [life EXCEPT ![l] = "alive"]
  /\ UNCHANGED <<result, reported>>

(* jpl_execute() returns true; the process may be dead already. *)
Accept(l) ==
  /\ result[l] = "pending"
  /\ life[l] # "none"
  /\ result' = [result EXCEPT ![l] = "ok"]
  /\ UNCHANGED <<life, reported>>

Die(l) ==
  /\ life[l] = "alive"
  /\ life' = [life EXCEPT ![l] = "exited"]
  /\ UNCHANGED <<result, reported>>

(* on_child_exit(ctx, exit_status). *)
Report(l) ==
  /\ result[l] = "ok"
  /\ life[l] = "exited"
  /\ reported[l] = <<>>
  /\ reported' = [reported EXCEPT ![l] = <<l>>]
  /\ UNCHANGED <<result, life>>

Next ==
  \E l \in Launch :
    Call(l) \/ Refuse(l) \/ Spawn(l) \/ Accept(l) \/ Die(l) \/ Report(l)

Spec == Init /\ [][Next]_vars
=============================================================================
