-------------------------------- MODULE Loader --------------------------------
(***************************************************************************)
(* The child registry of loader.c: the list jpl_g_children, the main       *)
(* thread inside jpl_init(), jpl_execute(), jpl_run() and jpl_uninit(),    *)
(* the SIGCHLD handler that interrupts it between any two of its steps,    *)
(* and the operating system: processes that write, stop, continue and      *)
(* exit, and the pending SIGCHLD.                                          *)
(*                                                                         *)
(* The handler runs on the main thread, so the main thread stands still    *)
(* while it runs; the child processes do not.  SIGCHLD is not queued: any  *)
(* number of exits leave one pending signal.  signal() of the C library    *)
(* blocks SIGCHLD while its handler runs and keeps the handler installed.  *)
(*                                                                         *)
(* Abstractions: the exit status of a process is the process itself; the   *)
(* standard output and standard error of a child are one stream, of which  *)
(* only how much is waiting to be read is kept, counted in pieces, a piece *)
(* being what one read() returns (LineReader has the lines, Spawn the      *)
(* descriptors); a child may write for ever and waits while its stream is  *)
(* full.  list_add_tail() and list_del() are atomic, which KList shows     *)
(* them to be for the handler.  Log messages are left out.                 *)
(***************************************************************************)
EXTENDS Naturals, FiniteSets, SequencesExt

CONSTANTS
  Child,      \* the addresses malloc() returns for a struct jpl_child
  Launch,     \* the calls of jpl_execute(); each passes itself as ctx
  Terminal,   \* the launches with run_in_terminal set
  Foreign,    \* child processes of the host program not started by jpl_execute()
  Pids,       \* process identifiers
  Capacity,   \* the pieces of output that wait in a pipe at most
  PidReuse,   \* whether the kernel may reuse the pid of a reaped process
  Garbage,    \* pids that memory fresh from malloc() may hold by accident
  ListHead,   \* &jpl_g_children, where a walk of the list ends
  None        \* no pid, or an exit_status never written

ASSUME LoaderAssumption ==
  /\ ListHead \notin Child
  /\ None \notin Pids \cup Launch \cup Foreign
  /\ Launch \cap Foreign = {}
  /\ Terminal \subseteq Launch
  /\ Capacity \in Nat
  /\ PidReuse \in BOOLEAN
  /\ Garbage \subseteq Pids

Proc == Launch \cup Foreign     \* every child process there can be

VARIABLES
  \* the operating system
  proc,         \* none, running, stopped, zombie, reaped
  pidOf,        \* the pid the kernel gave to each process
  sigchld,      \* a SIGCHLD is pending
  unread,       \* pieces of output of each launch waiting to be read
  \* loader.c
  installed,    \* jpl_sigchld_handler is installed
  children,     \* jpl_g_children, first to last
  heap,         \* the allocated struct jpl_child
  ctx, dead, exit_status, pid,    \* fields of each struct jpl_child
  \* the main thread
  pc,           \* where it is in jpl_init(), jpl_run() or jpl_uninit()
  cur, nxt,     \* node_ptr and next_ptr of the walk in progress
  after,        \* where jpl_zombies_bury() returns to: idle or done
  epc,          \* where it is in jpl_execute()
  new,          \* child_ptr of jpl_execute()
  \* the signal handler
  reaping,      \* jpl_sigchld_handler is running
  \* the client
  result,       \* what each call of jpl_execute() returned
  reported,     \* the exit statuses passed to on_child_exit, for each ctx
  deadAtRun,    \* history: the children marked dead when jpl_run() was entered
  cutShort      \* history: the launches whose output this jpl_run() left in part

kernelVars  == <<proc, pidOf, sigchld>>
fieldVars   == <<ctx, dead, exit_status, pid>>
listVars    == <<children, heap>>
walkVars    == <<pc, cur, nxt, after, deadAtRun>>
executeVars == <<epc, new, result>>
outputVars  == <<unread, cutShort>>

vars == <<kernelVars, outputVars, installed, listVars, fieldVars, walkVars,
          executeVars, reaping, reported>>

TypeOK ==
  /\ proc \in [Proc -> {"none", "running", "stopped", "zombie", "reaped"}]
  /\ pidOf \in [Proc -> Pids \cup {None}]
  /\ sigchld \in BOOLEAN
  /\ unread \in [Launch -> 0..Capacity]
  /\ installed \in BOOLEAN
  /\ children \in Seq(Child)
  /\ heap \subseteq Child
  /\ ctx \in [Child -> Launch \cup {None}]
  /\ dead \in [Child -> BOOLEAN]
  /\ exit_status \in [Child -> Proc \cup {None}]
  /\ pid \in [Child -> Pids \cup {None}]
  /\ pc \in {"start", "handler_set", "idle", "reading", "burying", "callback",
             "done", "crashed"}
  /\ cur \in Child \cup {ListHead}
  /\ nxt \in Child \cup {ListHead}
  /\ after \in {"idle", "done"}
  /\ epc \in {"none", "linked", "forked", "fork_failed"}
  /\ new \in Child \cup {ListHead}
  /\ reaping \in BOOLEAN
  /\ result \in [Launch -> {"unused", "pending", "failed", "ok"}]
  /\ reported \in [Launch -> Seq(Proc \cup {None})]
  /\ deadAtRun \subseteq Launch
  /\ cutShort \subseteq Launch

Init ==
  /\ proc = [p \in Proc |-> "none"]
  /\ pidOf = [p \in Proc |-> None]
  /\ sigchld = FALSE
  /\ unread = [l \in Launch |-> 0]
  /\ installed = FALSE
  /\ children = <<>>
  /\ heap = {}
  /\ ctx = [c \in Child |-> None]
  /\ dead = [c \in Child |-> FALSE]
  /\ exit_status = [c \in Child |-> None]
  /\ pid = [c \in Child |-> None]
  /\ pc = "start"
  /\ cur = ListHead
  /\ nxt = ListHead
  /\ after = "idle"
  /\ epc = "none"
  /\ new = ListHead
  /\ reaping = FALSE
  /\ result = [l \in Launch |-> "unused"]
  /\ reported = [l \in Launch |-> <<>>]
  /\ deadAtRun = {}
  /\ cutShort = {}
-----------------------------------------------------------------------------
(* The list. *)

Listed == Range(children)

(* pos->next; list_del() leaves LIST_POISON1 in a node that is off the list. *)
Succ(node) ==
  LET ring == <<ListHead>> \o children \o <<ListHead>>
  IN  IF node \in Listed \cup {ListHead}
      THEN ring[1 + CHOOSE i \in 1..Len(children) + 1 : ring[i] = node]
      ELSE None

list_add_tail(c) == children' = Append(children, c)

list_del(c) ==
  \E i \in DOMAIN children :
    /\ children[i] = c
    /\ children' = RemoveAt(children, i)

(* Mutant: the look-up does not compare pids. *)
IsFirstOnList(i, p) == i = 1

(* The first struct on the list whose pid field is p, if any; NULL otherwise. *)
IsFirstWithPid(i, p) ==
  /\ pid[children[i]] = p
  /\ \A j \in 1..i-1 : pid[children[j]] # p

(* Mutant: children waiting to be buried are not counted. *)
AppCountLiving == Cardinality({c \in Listed : ~dead[c]})

(* jpl_get_app_count() *)
AppCount == Len(children)
-----------------------------------------------------------------------------
(* The operating system. *)

(* A state change of a child sends SIGCHLD, which is discarded as long as   *)
(* its disposition is the default one.                                      *)
RaiseSigchld == sigchld' = installed

FreePids ==
  {p \in Pids : \A q \in Proc :
      pidOf[q] = p => PidReuse /\ proc[q] = "reaped"}

(* fork(): process q comes to life under some free pid. *)
Fork(q) ==
  \E p \in FreePids :
    /\ proc' = [proc EXCEPT ![q] = "running"]
    /\ pidOf' = [pidOf EXCEPT ![q] = p]
    /\ UNCHANGED sigchld

(* A write to a pipe; what goes to a terminal nobody reads but the terminal. *)
ChildWrite(l) ==
  /\ l \notin Terminal
  /\ proc[l] = "running"
  /\ unread[l] < Capacity
  /\ unread' = [unread EXCEPT ![l] = @ + 1]
  /\ UNCHANGED <<kernelVars, cutShort, installed, listVars, fieldVars, walkVars,
                 executeVars, reaping, reported>>

ChildStop(q) ==
  /\ proc[q] = "running"
  /\ proc' = [proc EXCEPT ![q] = "stopped"]
  /\ RaiseSigchld
  /\ UNCHANGED <<pidOf, outputVars, installed, listVars, fieldVars, walkVars,
                 executeVars, reaping, reported>>

ChildContinue(q) ==
  /\ proc[q] = "stopped"
  /\ proc' = [proc EXCEPT ![q] = "running"]
  /\ RaiseSigchld
  /\ UNCHANGED <<pidOf, outputVars, installed, listVars, fieldVars, walkVars,
                 executeVars, reaping, reported>>

ChildExit(q) ==
  /\ proc[q] \in {"running", "stopped"}
  /\ proc' = [proc EXCEPT ![q] = "zombie"]
  /\ RaiseSigchld
  /\ UNCHANGED <<pidOf, outputVars, installed, listVars, fieldVars, walkVars,
                 executeVars, reaping, reported>>
-----------------------------------------------------------------------------
(* jpl_sigchld_handler() *)

HandlerEnter ==
  /\ sigchld /\ ~reaping
  /\ pc # "crashed"
  /\ sigchld' = FALSE
  /\ reaping' = TRUE
  /\ UNCHANGED <<proc, pidOf, outputVars, installed, listVars, fieldVars,
                 walkVars, executeVars, reported>>

(* Mutant: WUNTRACED given to waitpid(), so that a stopped child is taken   *)
(* for one that ended.                                                      *)
HandlerReapStopped(q) ==
  /\ reaping
  /\ pc # "crashed"
  /\ proc[q] \in {"zombie", "stopped"}
  /\ proc' = [proc EXCEPT ![q] = IF @ = "zombie" THEN "reaped" ELSE @]
  /\ \E i \in DOMAIN children :
       /\ IsFirstWithPid(i, pidOf[q])
       /\ dead' = [dead EXCEPT ![children[i]] = TRUE]
       /\ exit_status' = [exit_status EXCEPT ![children[i]] = q]
  /\ UNCHANGED <<pc, pidOf, sigchld, outputVars, installed, listVars, ctx, pid,
                 cur, nxt, after, deadAtRun, executeVars, reaping, reported>>

(* One turn of the while loop: waitpid() reaps q, jpl_child_find() looks it *)
(* up.  Before jpl_init() has initialised the list its head holds NULL, and *)
(* the look-up dereferences it.                                             *)
HandlerReap(q) ==
  /\ reaping
  /\ pc # "crashed"
  /\ proc[q] = "zombie"
  /\ proc' = [proc EXCEPT ![q] = "reaped"]
  /\ \/ /\ pc = "handler_set"
        /\ pc' = "crashed"
        /\ UNCHANGED <<dead, exit_status>>
     \/ /\ pc # "handler_set"
        /\ \E i \in DOMAIN children :
             /\ IsFirstWithPid(i, pidOf[q])
             /\ dead' = [dead EXCEPT ![children[i]] = TRUE]
             /\ exit_status' = [exit_status EXCEPT ![children[i]] = q]
        /\ UNCHANGED pc
     \/ /\ pc # "handler_set"         \* termination of unknown child process
        /\ \A i \in DOMAIN children : pid[children[i]] # pidOf[q]
        /\ UNCHANGED <<pc, dead, exit_status>>
  /\ UNCHANGED <<pidOf, sigchld, outputVars, installed, listVars, ctx, pid, cur,
                 nxt, after, deadAtRun, executeVars, reaping, reported>>

(* Mutant: "if" in place of "while". *)
HandlerReturnEarly ==
  /\ reaping
  /\ pc # "crashed"
  /\ reaping' = FALSE
  /\ UNCHANGED <<kernelVars, outputVars, installed, listVars, fieldVars,
                 walkVars, executeVars, reported>>

(* Mutant: waitpid() without WNOHANG waits for every child to end. *)
HandlerReturnChildless ==
  /\ reaping
  /\ pc # "crashed"
  /\ \A q \in Proc : proc[q] \in {"none", "reaped"}
  /\ reaping' = FALSE
  /\ UNCHANGED <<kernelVars, outputVars, installed, listVars, fieldVars,
                 walkVars, executeVars, reported>>

(* waitpid() finds no zombie; the main thread goes on where it was. *)
HandlerReturn ==
  /\ reaping
  /\ pc # "crashed"
  /\ \A q \in Proc : proc[q] # "zombie"
  /\ reaping' = FALSE
  /\ UNCHANGED <<kernelVars, outputVars, installed, listVars, fieldVars,
                 walkVars, executeVars, reported>>
-----------------------------------------------------------------------------
(* jpl_init() *)

InitHandler ==
  /\ ~reaping
  /\ pc = "start"
  /\ pc' = "handler_set"
  /\ installed' = TRUE
  /\ UNCHANGED <<kernelVars, outputVars, listVars, fieldVars, cur, nxt, after,
                 deadAtRun, executeVars, reaping, reported>>

InitList ==
  /\ ~reaping
  /\ pc = "handler_set"
  /\ pc' = "idle"
  /\ children' = <<>>
  /\ UNCHANGED <<kernelVars, outputVars, installed, heap, fieldVars, cur, nxt,
                 after, deadAtRun, executeVars, reaping, reported>>
-----------------------------------------------------------------------------
(* The client's code runs between calls of the launcher, and in            *)
(* on_child_exit, from where it may start programs too.                    *)
ClientRuns ==
  /\ ~reaping
  /\ epc = "none"
  /\ pc \in {"idle", "callback"}

(* The host program forks a child of its own, even before jpl_init(). *)
ForkForeign(f) ==
  /\ ClientRuns \/ pc = "start"
  /\ proc[f] = "none"
  /\ Fork(f)
  /\ UNCHANGED <<outputVars, installed, listVars, fieldVars, walkVars,
                 executeVars, reaping, reported>>

(* jpl_execute(): malloc() fails. *)
ExecuteNoMemory(l) ==
  /\ ClientRuns
  /\ result[l] = "unused"
  /\ result' = [result EXCEPT ![l] = "failed"]
  /\ UNCHANGED <<kernelVars, outputVars, installed, listVars, fieldVars,
                 walkVars, epc, new, reaping, reported>>

(* The struct is allocated, filled in but for pid and exit_status, and put  *)
(* on the list.  A pid not written holds what the memory held: the pid the  *)
(* struct had in its last life, no pid, or any value of Garbage.            *)
ExecuteLink(l, c) ==
  /\ ClientRuns
  /\ result[l] = "unused"
  /\ c \notin heap
  /\ heap' = heap \cup {c}
  /\ ctx' = [ctx EXCEPT ![c] = l]
  /\ dead' = [dead EXCEPT ![c] = FALSE]
  /\ \E p \in Garbage \cup {pid[c]} : pid' = [pid EXCEPT ![c] = p]
  /\ list_add_tail(c)
  /\ new' = c
  /\ epc' = "linked"
  /\ result' = [result EXCEPT ![l] = "pending"]
  /\ UNCHANGED <<kernelVars, outputVars, installed, exit_status, walkVars,
                 reaping, reported>>

ExecuteFork ==
  /\ ~reaping
  /\ epc = "linked"
  /\ Fork(ctx[new])
  /\ epc' = "forked"
  /\ UNCHANGED <<outputVars, installed, listVars, fieldVars, walkVars, new,
                 result, reaping, reported>>

ExecuteForkFails ==
  /\ ~reaping
  /\ epc = "linked"
  /\ epc' = "fork_failed"
  /\ UNCHANGED <<kernelVars, outputVars, installed, listVars, fieldVars,
                 walkVars, new, result, reaping, reported>>

(* Mutant: the struct is freed but stays on the list. *)
ExecuteUndoNoDel ==
  /\ ~reaping
  /\ epc = "fork_failed"
  /\ heap' = heap \ {new}
  /\ result' = [result EXCEPT ![ctx[new]] = "failed"]
  /\ new' = ListHead
  /\ epc' = "none"
  /\ UNCHANGED <<kernelVars, outputVars, installed, children, fieldVars,
                 walkVars, reaping, reported>>

(* list_del(), free(), return false. *)
ExecuteUndo ==
  /\ ~reaping
  /\ epc = "fork_failed"
  /\ list_del(new)
  /\ heap' = heap \ {new}
  /\ result' = [result EXCEPT ![ctx[new]] = "failed"]
  /\ new' = ListHead
  /\ epc' = "none"
  /\ UNCHANGED <<kernelVars, outputVars, installed, fieldVars, walkVars,
                 reaping, reported>>

(* Mutant: the pid is given to the caller but not kept in the struct. *)
ExecuteForgetPid ==
  /\ ~reaping
  /\ epc = "forked"
  /\ result' = [result EXCEPT ![ctx[new]] = "ok"]
  /\ new' = ListHead
  /\ epc' = "none"
  /\ UNCHANGED <<kernelVars, outputVars, installed, listVars, fieldVars,
                 walkVars, reaping, reported>>

(* The parent stores the pid fork() returned, and returns true. *)
ExecuteRecordPid ==
  /\ ~reaping
  /\ epc = "forked"
  /\ pid' = [pid EXCEPT ![new] = pidOf[ctx[new]]]
  /\ result' = [result EXCEPT ![ctx[new]] = "ok"]
  /\ new' = ListHead
  /\ epc' = "none"
  /\ UNCHANGED <<kernelVars, outputVars, installed, listVars, ctx, dead,
                 exit_status, walkVars, reaping, reported>>
-----------------------------------------------------------------------------
(* jpl_run(): jpl_read_zombies_output(), then jpl_zombies_bury(). *)

MainAt(place) ==
  /\ ~reaping
  /\ epc = "none"
  /\ pc = place

RunBegin ==
  /\ MainAt("idle")
  /\ pc' = "reading"
  /\ cur' = Succ(ListHead)
  /\ deadAtRun' = {ctx[c] : c \in {d \in Listed : dead[d]}}
  /\ cutShort' = {}
  /\ UNCHANGED <<kernelVars, unread, installed, listVars, fieldVars, nxt,
                 after, executeVars, reaping, reported>>

(* Mutant: no loop around read(). *)
ReadFullOnce(l) ==
  /\ unread[l] > 0
  /\ unread' = [unread EXCEPT ![l] = @ - 1]
  /\ cur' = Succ(cur)
  /\ UNCHANGED cutShort

(* jpl_read_child_output(), one turn of its loop: read() returned all it    *)
(* was asked for, so there may be more.                                     *)
ReadFull(l) ==
  /\ unread[l] > 0
  /\ unread' = [unread EXCEPT ![l] = @ - 1]
  /\ UNCHANGED <<cur, cutShort>>

(* Its last turn: read() returned less, or found nothing.  A read() that    *)
(* returns less may still leave output behind.                              *)
ReadShort(l) ==
  /\ unread' = [unread EXCEPT ![l] = IF @ = 0 THEN 0 ELSE @ - 1]
  /\ cutShort' = IF unread[l] > 1 THEN cutShort \cup {l} ELSE cutShort
  /\ cur' = Succ(cur)

(* Mutant: only the output of dead children is read. *)
ReadDeadChild ==
  /\ MainAt("reading")
  /\ cur # ListHead
  /\ \/ /\ dead[cur]
        /\ ReadFull(ctx[cur]) \/ ReadShort(ctx[cur])
     \/ /\ ~dead[cur]
        /\ cur' = Succ(cur)
        /\ UNCHANGED outputVars
  /\ UNCHANGED <<kernelVars, installed, listVars, fieldVars, pc, nxt, after,
                 deadAtRun, executeVars, reaping, reported>>

(* One read() of a child's output; a terminal keeps its own output. *)
ReadChild ==
  /\ MainAt("reading")
  /\ cur # ListHead
  /\ \/ /\ ctx[cur] \in Terminal
        /\ cur' = Succ(cur)
        /\ UNCHANGED outputVars
     \/ /\ ctx[cur] \notin Terminal
        /\ ReadFull(ctx[cur]) \/ ReadShort(ctx[cur])
  /\ UNCHANGED <<kernelVars, installed, listVars, fieldVars, pc, nxt, after,
                 deadAtRun, executeVars, reaping, reported>>

StartBury(return) ==
  /\ pc' = "burying"
  /\ cur' = Succ(ListHead)
  /\ nxt' = Succ(Succ(ListHead))
  /\ after' = return
  /\ UNCHANGED <<kernelVars, outputVars, installed, listVars, fieldVars,
                 deadAtRun, executeVars, reaping, reported>>

RunBury ==
  /\ MainAt("reading")
  /\ cur = ListHead
  /\ StartBury("idle")

(* jpl_uninit() buries without reading. *)
Uninit ==
  /\ MainAt("idle")
  /\ StartBury("done")

(* Mutant: list_for_each() in place of list_for_each_safe(). *)
AdvanceUnsafe ==
  /\ cur' = Succ(cur)
  /\ nxt' = Succ(Succ(cur))

(* Mutant: the loop body advances once more. *)
AdvanceTwice ==
  /\ cur' = Succ(nxt)
  /\ nxt' = Succ(Succ(nxt))

(* for (...; pos = n, n = pos->next) *)
Advance ==
  /\ cur' = nxt
  /\ nxt' = Succ(nxt)

BurySkip ==
  /\ MainAt("burying")
  /\ cur # ListHead
  /\ ~dead[cur]
  /\ Advance
  /\ UNCHANGED <<kernelVars, outputVars, installed, listVars, fieldVars, pc,
                 after, deadAtRun, executeVars, reaping, reported>>

(* Mutant: a dead struct is reported and freed but stays on the list. *)
BuryDeadNoDel ==
  /\ MainAt("burying")
  /\ cur # ListHead
  /\ dead[cur]
  /\ reported' = [reported EXCEPT ![ctx[cur]] = Append(@, exit_status[cur])]
  /\ pc' = "callback"
  /\ UNCHANGED <<kernelVars, outputVars, installed, listVars, fieldVars, cur,
                 nxt, after, deadAtRun, executeVars, reaping>>

(* list_del(), close(), and the call of on_child_exit. *)
BuryDead ==
  /\ MainAt("burying")
  /\ cur # ListHead
  /\ dead[cur]
  /\ list_del(cur)
  /\ reported' = [reported EXCEPT ![ctx[cur]] = Append(@, exit_status[cur])]
  /\ pc' = "callback"
  /\ UNCHANGED <<kernelVars, outputVars, installed, heap, fieldVars, cur, nxt,
                 after, deadAtRun, executeVars, reaping>>

(* on_child_exit returns; free(). *)
BuryFree ==
  /\ MainAt("callback")
  /\ heap' = heap \ {cur}
  /\ Advance
  /\ pc' = "burying"
  /\ UNCHANGED <<kernelVars, outputVars, installed, children, fieldVars, after,
                 deadAtRun, executeVars, reaping, reported>>

BuryEnd ==
  /\ MainAt("burying")
  /\ cur = ListHead
  /\ nxt' = ListHead
  /\ pc' = after
  /\ deadAtRun' = {}
  /\ cutShort' = {}
  /\ UNCHANGED <<kernelVars, unread, installed, listVars, fieldVars, cur,
                 after, executeVars, reaping, reported>>
-----------------------------------------------------------------------------
Execute ==
  \/ \E l \in Launch : ExecuteNoMemory(l)
  \/ \E l \in Launch, c \in Child : ExecuteLink(l, c)
  \/ ExecuteFork \/ ExecuteForkFails \/ ExecuteUndo \/ ExecuteRecordPid

Run ==
  RunBegin \/ ReadChild \/ RunBury \/ BurySkip \/ BuryDead \/ BuryFree \/ BuryEnd

Handler == HandlerEnter \/ (\E q \in Proc : HandlerReap(q)) \/ HandlerReturn

Environment ==
  \/ \E l \in Launch : ChildWrite(l)
  \/ \E q \in Proc : ChildStop(q) \/ ChildContinue(q) \/ ChildExit(q)
  \/ \E f \in Foreign : ForkForeign(f)

Next == InitHandler \/ InitList \/ Execute \/ Run \/ Uninit \/ Handler \/ Environment

Spec == Init /\ [][Next]_vars

(***************************************************************************)
(* Fairness.  A pending unblocked SIGCHLD is delivered and the handler     *)
(* runs.  The main thread finishes what it began and the client calls      *)
(* jpl_run() again and again, as the loop of jpld.c:209 is meant to; strong *)
(* fairness because the handler interrupts it, and only for a while.       *)
(* Nothing is assumed of the child processes, which may write for ever and *)
(* as fast as they are read, of jpl_uninit(), or of calls of jpl_execute(). *)
(***************************************************************************)
MainStep ==
  \/ InitHandler \/ InitList
  \/ ExecuteFork \/ ExecuteForkFails \/ ExecuteUndo \/ ExecuteRecordPid
  \/ Run

FairSpec == Spec /\ WF_vars(Handler) /\ SF_vars(MainStep)
-----------------------------------------------------------------------------
(* Safety. *)

(* on_child_exit is called for a ctx at most once, with the exit status of  *)
(* the process that jpl_execute() started for that ctx, when that process   *)
(* is gone and jpl_execute() has returned true.                             *)
ReportedOnceAfterExit ==
  \A l \in Launch :
    /\ reported[l] \in {<<>>, <<l>>}
    /\ reported[l] # <<>> => proc[l] = "reaped" /\ result[l] = "ok"

(* A process that jpl_execute() started and whose exit was not reported is  *)
(* on the list under its own pid, and is marked dead only once it is gone:  *)
(* the handler marks no other struct, and jpl_zombies_bury() takes no       *)
(* living child off the list.                                               *)
UnreportedListed ==
  \A l \in Launch :
    result[l] = "ok" /\ reported[l] = <<>> =>
      \E c \in Listed :
        /\ ctx[c] = l /\ pid[c] = pidOf[l]
        /\ dead[c] => proc[l] = "reaped" /\ exit_status[c] = l

(* jpl_get_app_count() counts the launched processes whose exit was not     *)
(* reported yet, wherever the client can call it.                           *)
AppCountExact ==
  epc = "none" =>
    AppCount = Cardinality({l \in Launch : result[l] = "ok" /\ reported[l] = <<>>})

(* SIGCHLD is not queued, yet no exited child is left behind: whenever a    *)
(* process of the launcher waits to be reaped, the handler is running or    *)
(* will run.                                                                *)
SigchldNotLost ==
  \A l \in Launch : proc[l] = "zombie" => sigchld \/ reaping

(* The walk of the list never holds a struct that is off the list, even     *)
(* when on_child_exit starts programs and some of them fail to; a struct is *)
(* allocated as long as it is on the list or being buried, and no longer.   *)
WalkNeverDangles ==
  /\ IsInjective(children)
  /\ heap = Listed \cup (IF pc = "callback" THEN {cur} ELSE {})
  /\ pc \in {"reading", "burying"} => cur \in Listed \cup {ListHead}
  /\ pc \in {"burying", "callback"} => nxt \in Listed \cup {ListHead}

(* jpl_run() reports every child that was marked dead when it was entered.  *)
RunBuriesKnownDead ==
  [][pc = "burying" /\ pc' = "idle" =>
       \A l \in deadAtRun : reported[l] # <<>>]_vars

(* When a child is reported that was marked dead when jpl_run() was         *)
(* entered, none of its output is unread but what a short read left.        *)
KnownDeadOutputLogged ==
  [][\A l \in deadAtRun \ Terminal :
       reported'[l] # reported[l] => unread[l] = 0 \/ l \in cutShort]_vars
-----------------------------------------------------------------------------
(* Liveness. *)

(* jpl_run() never comes back: for ever it reads one child, which writes    *)
(* again and again.                                                         *)
KeptReading ==
  \E l \in Launch :
    /\ <>[](pc = "reading" /\ cur # ListHead /\ ctx[cur] = l)
    /\ []<><<unread'[l] > unread[l]>>_vars

(* A process that exits after its pid was recorded is reported, unless      *)
(* jpl_uninit() is called; only a child that never stops writing can keep   *)
(* jpl_run() from it.                                                       *)
RecordedExitReported ==
  \/ \A l \in Launch :
       proc[l] = "zombie" /\ result[l] = "ok" ~>
         reported[l] # <<>> \/ after = "done"
  \/ KeptReading

(* The output of a child is read, again and again while there is any, short *)
(* reads and the other children notwithstanding, until the child is         *)
(* reported or jpl_uninit() is called; only a child that never stops        *)
(* writing can keep jpl_run() from it.                                      *)
LinesLogged ==
  \/ \A l \in Launch \ Terminal :
       \/ []<>(unread[l] = 0)
       \/ []<><<unread'[l] < unread[l]>>_vars
       \/ <>(reported[l] # <<>> \/ after = "done")
  \/ KeptReading

(* The handler gives the main thread back, however many children live on.   *)
HandlerReturns == reaping ~> ~reaping \/ pc = "crashed"
-----------------------------------------------------------------------------
(* What loader.h says of the callbacks, and the code does not do in every   *)
(* interleaving.                                                            *)

(* "function type for callback called on child exit", loader.h:21: every    *)
(* exit of a launched process is reported, unless jpl_uninit() is called.   *)
ExitReported ==
  \A l \in Launch :
    proc[l] = "zombie" ~> reported[l] # <<>> \/ after = "done"

(* "exit_status Exit status of the child process", loader.h:24: it is the   *)
(* status of the process started for that ctx, and of no other.             *)
StatusIsOwn ==
  \A l \in Launch : \A i \in DOMAIN reported[l] : reported[l][i] = l

(* "log_callback function to call back child produces a line", loader.h:52: *)
(* when jpl_run() reports the exit of a child, its output has been read.    *)
(* (jpl_uninit() reports without reading, and is left out.)                 *)
AllOutputLogged ==
  \A l \in Launch \ Terminal :
    reported[l] # <<>> => unread[l] = 0 \/ after = "done"
-----------------------------------------------------------------------------
(* The registry implements the contract of loader.h. *)
Contract == INSTANCE ChildContract WITH
  life <- [l \in Launch |->
             IF proc[l] = "none" THEN "none"
             ELSE IF proc[l] \in {"running", "stopped"} THEN "alive"
             ELSE "exited"]

(* Every behaviour of the registry is one the contract allows. *)
ImplementsContract == Contract!Spec
=============================================================================
