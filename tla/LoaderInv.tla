------------------------------ MODULE LoaderInv ------------------------------
(***************************************************************************)
(* The inductive invariant of Loader, checked by TLC on small instances    *)
(* and proved in LoaderProofs.                                             *)
(***************************************************************************)
EXTENDS Loader
-----------------------------------------------------------------------------
(***************************************************************************)
(* The inductive invariant has three layers, each proved on top of the     *)
(* ones before it.  The first is about the list and the two walks of it,   *)
(* whatever the pids are.                                                  *)
(***************************************************************************)

(* Before jpl_init() has run, and after it crashed, there is nothing.       *)
SetupInv ==
  /\ installed \/ pc = "start"
  /\ sigchld \/ reaping => installed
  /\ pc \in {"start", "handler_set", "crashed"} =>
       children = <<>> /\ \A l \in Launch : result[l] = "unused"

(* The nodes the main thread holds. *)
HeldNodes ==
  /\ IsInjective(children)
  /\ heap = Listed \cup (IF pc = "callback" THEN {cur} ELSE {})
  /\ pc = "callback" => cur \in Child \ Listed
  /\ pc # "callback" => cur \in Listed \cup {ListHead}
  /\ nxt \in Listed \cup {ListHead}
  /\ pc = "burying" /\ cur # ListHead => nxt # cur
  /\ pc \notin {"burying", "callback"} => nxt = ListHead
  /\ pc \notin {"reading", "burying", "callback"} => cur = ListHead

(* jpl_execute() works on a struct that is on the list and on no walk. *)
ExecuteInv ==
  epc # "none" =>
    /\ pc \in {"idle", "callback"}
    /\ new \in Listed /\ new # nxt

ListInv ==
  /\ TypeOK
  /\ SetupInv
  /\ HeldNodes
  /\ ExecuteInv
  /\ \A c \in heap : ctx[c] \in Launch
-----------------------------------------------------------------------------
(* The second layer relates the structs to the launches and the processes,  *)
(* still whatever the pids are.                                             *)

(* jpl_execute() is at work on the struct. *)
InProgress(c) == epc # "none" /\ c = new

(* The processes are where the calls of jpl_execute() say. *)
CallInv ==
  /\ \A l \in Launch :
       /\ result[l] \in {"unused", "failed"} => proc[l] = "none"
       /\ result[l] # "ok" => reported[l] = <<>>
       /\ result[l] = "ok" => proc[l] # "none"
       /\ result[l] = "pending" => epc # "none" /\ ctx[new] = l
  /\ epc # "none" => result[ctx[new]] = "pending"
  /\ epc \in {"linked", "fork_failed"} => proc[ctx[new]] = "none"
  /\ epc = "forked" => proc[ctx[new]] # "none"

(* The structs on the list are those of the launches yet to be reported. *)
OwnerInv ==
  /\ \A c, d \in Listed : ctx[c] = ctx[d] => c = d
  /\ \A c \in Listed :
       /\ ~InProgress(c) => result[ctx[c]] = "ok"
       /\ reported[ctx[c]] = <<>>
  /\ \A l \in Launch :
       result[l] = "ok" /\ reported[l] = <<>> => \E c \in Listed : ctx[c] = l

LaunchInv ==
  /\ ListInv
  /\ CallInv
  /\ OwnerInv
  /\ SigchldNotLost
-----------------------------------------------------------------------------
(* The third layer is about pids.  It needs what the code takes for         *)
(* granted: pids are not used again, and memory fresh from malloc() does    *)
(* not hold the pid of a living child.                                      *)
PidsDistinct == PidReuse = FALSE /\ Garbage = {}

(* The kernel gives every process a pid of its own. *)
KernelPidInv ==
  /\ \A q \in Proc : proc[q] = "none" <=> pidOf[q] = None
  /\ \A p, q \in Proc : pidOf[p] = pidOf[q] /\ pidOf[p] # None => p = q

(* What a pid field says of a struct whose pid is not recorded yet or that  *)
(* is off the list is about a process that is gone.                         *)
StalePid(c) ==
  pid[c] # None => \E q \in Proc : pidOf[q] = pid[c] /\ proc[q] = "reaped"

PidInv ==
  /\ KernelPidInv
  /\ \A c \in Child : c \notin Listed \/ InProgress(c) => StalePid(c)
  /\ \A c \in Listed : ~InProgress(c) => pid[c] = pidOf[ctx[c]]
  /\ \A c \in Listed : dead[c] =>
       /\ ~InProgress(c)
       /\ proc[ctx[c]] = "reaped"
       /\ exit_status[c] = ctx[c]
  /\ ReportedOnceAfterExit

(* All of it. *)
IInv == LaunchInv /\ PidInv
=============================================================================
