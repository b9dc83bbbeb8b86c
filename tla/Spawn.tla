-------------------------------- MODULE Spawn --------------------------------
(***************************************************************************)
(* The file descriptors of jpl_execute(): the standard error pipe and the  *)
(* terminal in the parent, what the child inherits of them and has left    *)
(* when it executes the program, and the closing of the parent's ends when *)
(* the child is buried.  Loader has the rest of jpl_execute().             *)
(*                                                                         *)
(* The kernel gives out the lowest free number, so that a number closed    *)
(* too early or too often is soon the number of something else.  "trouble" *)
(* records which system calls have failed so far.                          *)
(***************************************************************************)
EXTENDS Naturals, FiniteSetsExt

CONSTANTS
  Launch,       \* the calls of jpl_execute()
  Terminal,     \* those with run_in_terminal set
  FdLimit,      \* rlim_cur: descriptors are smaller
  GarbageFd,    \* bound: a descriptor that memory never written may hold
  MaxHost       \* bound: descriptors the host program opens

ASSUME SpawnAssumption ==
  /\ Terminal \subseteq Launch
  /\ FdLimit \in Nat /\ FdLimit > 3
  /\ GarbageFd \subseteq 0..FdLimit - 1
  /\ MaxHost \in Nat

Fd    == 0..FdLimit - 1
StdFd == 0..2

(* Open files. *)
Closed      == <<"closed">>
Std         == <<"std">>           \* the terminal or log of the host program
Host        == <<"host">>          \* anything else the host program has open
ErrRead(l)  == <<"err_read", l>>   \* the two ends of the pipe
ErrWrite(l) == <<"err_write", l>>
Master(l)   == <<"master", l>>     \* the two sides of the terminal
Slave(l)    == <<"slave", l>>

ParentFile == {Closed, Std, Host}
              \cup UNION {{ErrRead(l), ErrWrite(l), Master(l)} : l \in Launch}
ChildFile(l) == ParentFile \cup {Slave(l)}

VARIABLES
  fds,          \* the descriptors of the parent
  host_fds,     \* those the host program has opened and not closed
  stderr_pipe,  \* the local variable of each call
  stdout, stderr,       \* fields of the struct jpl_child of each call
  step,         \* where each call of jpl_execute() is, and what became of it
  child,        \* where the child process of each call is
  child_fds,    \* the descriptors of each child process
  trouble       \* history: the system calls that have failed

parentVars == <<fds, host_fds, stderr_pipe, stdout, stderr, step>>
childVars  == <<child, child_fds>>
vars       == <<parentVars, childVars, trouble>>

Calls == {"pipe", "fcntl_stderr", "fork", "fcntl_stdout"}

TypeOK ==
  /\ fds \in [Fd -> ParentFile]
  /\ host_fds \subseteq Fd
  /\ stderr_pipe \in [Launch -> Fd \X Fd]
  /\ stdout \in [Launch -> Fd]
  /\ stderr \in [Launch -> Fd]
  /\ step \in [Launch -> {"unused", "pipe", "ready", "forked", "stdout",
                          "listed", "failed", "buried"}]
  /\ child \in [Launch -> {"none", "forked", "closed", "dup", "env", "running",
                           "ended"}]
  /\ DOMAIN child_fds = Launch
  /\ \A l \in Launch : child_fds[l] \in [Fd -> ChildFile(l)]
  /\ trouble \subseteq Calls

AllClosed == [d \in Fd |-> Closed]

Init ==
  /\ fds = [d \in Fd |-> IF d \in StdFd THEN Std ELSE Closed]
  /\ host_fds = {}
  /\ \E g \in GarbageFd :
       /\ stderr_pipe = [l \in Launch |-> <<g, g>>]
       /\ stdout = [l \in Launch |-> g]
       /\ stderr = [l \in Launch |-> g]
  /\ step = [l \in Launch |-> "unused"]
  /\ child = [l \in Launch |-> "none"]
  /\ child_fds = [l \in Launch |-> AllClosed]
  /\ trouble = {}
-----------------------------------------------------------------------------
(* The kernel. *)
Free == {d \in Fd : fds[d] = Closed}

Lowest == Min(Free)
Second == Min(Free \ {Lowest})

(* close() of a number that is not open fails, and nobody looks. *)
CloseAll(table, numbers) == [d \in Fd |-> IF d \in numbers THEN Closed ELSE table[d]]

(* The main thread is in no call of jpl_execute(). *)
Idle == \A l \in Launch : step[l] \notin {"pipe", "ready", "forked", "stdout"}

(* The host program uses descriptors of its own between the calls. *)
HostOpen ==
  /\ Idle
  /\ Free # {}
  /\ Cardinality(host_fds) < MaxHost
  /\ fds' = [fds EXCEPT ![Lowest] = Host]
  /\ host_fds' = host_fds \cup {Lowest}
  /\ UNCHANGED <<stderr_pipe, stdout, stderr, step, childVars, trouble>>

HostClose(d) ==
  /\ Idle
  /\ d \in host_fds
  /\ fds' = CloseAll(fds, {d})
  /\ host_fds' = host_fds \ {d}
  /\ UNCHANGED <<stderr_pipe, stdout, stderr, step, childVars, trouble>>
-----------------------------------------------------------------------------
(* jpl_execute() in the parent. *)

(* pipe() *)
OpenPipe(l) ==
  /\ Idle
  /\ step[l] = "unused" /\ l \notin Terminal
  /\ Cardinality(Free) >= 2
  /\ fds' = [fds EXCEPT ![Lowest] = ErrRead(l), ![Second] = ErrWrite(l)]
  /\ stderr_pipe' = [stderr_pipe EXCEPT ![l] = <<Lowest, Second>>]
  /\ stderr' = [stderr EXCEPT ![l] = Lowest]
  /\ step' = [step EXCEPT ![l] = "pipe"]
  /\ UNCHANGED <<host_fds, stdout, childVars, trouble>>

(* pipe() fails and the call goes on: stderr_pipe and the stderr field stay *)
(* unwritten.                                                               *)
OpenPipeFails(l) ==
  /\ Idle
  /\ step[l] = "unused" /\ l \notin Terminal
  /\ step' = [step EXCEPT ![l] = "ready"]
  /\ trouble' = trouble \cup {"pipe"}
  /\ UNCHANGED <<fds, host_fds, stderr_pipe, stdout, stderr, childVars>>

(* A program in a terminal needs no descriptors of the parent. *)
OpenNothing(l) ==
  /\ Idle
  /\ step[l] = "unused" /\ l \in Terminal
  /\ step' = [step EXCEPT ![l] = "ready"]
  /\ UNCHANGED <<fds, host_fds, stderr_pipe, stdout, stderr, childVars, trouble>>

StderrNonblock(l) ==
  /\ step[l] = "pipe"
  /\ step' = [step EXCEPT ![l] = "ready"]
  /\ UNCHANGED <<fds, host_fds, stderr_pipe, stdout, stderr, childVars, trouble>>

(* fcntl() fails: both ends are closed, and the call goes on with them. *)
StderrNonblockFails(l) ==
  /\ step[l] = "pipe"
  /\ step' = [step EXCEPT ![l] = "ready"]
  /\ fds' = CloseAll(fds, {stderr_pipe[l][1], stderr_pipe[l][2]})
  /\ trouble' = trouble \cup {"fcntl_stderr"}
  /\ UNCHANGED <<host_fds, stderr_pipe, stdout, stderr, childVars>>

(* Mutant: the parent keeps the side of the terminal that is for the child. *)
ForkptyKeepingSlave(l) ==
  /\ step[l] = "ready" /\ l \notin Terminal
  /\ Cardinality(Free) >= 2
  /\ fds' = [fds EXCEPT ![Lowest] = Master(l), ![Second] = Slave(l)]
  /\ stdout' = [stdout EXCEPT ![l] = Lowest]
  /\ child_fds' = [child_fds EXCEPT
       ![l] = [d \in Fd |-> IF d \in StdFd THEN Slave(l) ELSE fds[d]]]
  /\ child' = [child EXCEPT ![l] = "forked"]
  /\ step' = [step EXCEPT ![l] = "forked"]
  /\ UNCHANGED <<host_fds, stderr_pipe, stderr, trouble>>

(* forkpty(): the parent keeps the master; login_tty() makes the slave the  *)
(* standard descriptors of the child, which inherits the others.            *)
Forkpty(l) ==
  /\ step[l] = "ready" /\ l \notin Terminal
  /\ Cardinality(Free) >= 2
  /\ fds' = [fds EXCEPT ![Lowest] = Master(l)]
  /\ stdout' = [stdout EXCEPT ![l] = Lowest]
  /\ child_fds' = [child_fds EXCEPT
       ![l] = [d \in Fd |-> IF d \in StdFd THEN Slave(l) ELSE fds[d]]]
  /\ child' = [child EXCEPT ![l] = "forked"]
  /\ step' = [step EXCEPT ![l] = "forked"]
  /\ UNCHANGED <<host_fds, stderr_pipe, stderr, trouble>>

ForkTerminal(l) ==
  /\ step[l] = "ready" /\ l \in Terminal
  /\ child_fds' = [child_fds EXCEPT ![l] = fds]
  /\ child' = [child EXCEPT ![l] = "forked"]
  /\ step' = [step EXCEPT ![l] = "listed"]
  /\ UNCHANGED <<fds, host_fds, stderr_pipe, stdout, stderr, trouble>>

(* fork() or forkpty() fails; nobody closes the pipe. *)
ForkFails(l) ==
  /\ step[l] = "ready"
  /\ step' = [step EXCEPT ![l] = "failed"]
  /\ trouble' = trouble \cup {"fork"}
  /\ UNCHANGED <<fds, host_fds, stderr_pipe, stdout, stderr, childVars>>

(* Mutant: the parent closes its reading end. *)
CloseReadingEnd(l) ==
  /\ step[l] = "forked"
  /\ fds' = CloseAll(fds, {stderr_pipe[l][1]})
  /\ step' = [step EXCEPT ![l] = "stdout"]
  /\ UNCHANGED <<host_fds, stderr_pipe, stdout, stderr, childVars, trouble>>

(* Mutant: the parent keeps the writing end. *)
CloseNothing(l) ==
  /\ step[l] = "forked"
  /\ step' = [step EXCEPT ![l] = "stdout"]
  /\ UNCHANGED <<fds, host_fds, stderr_pipe, stdout, stderr, childVars, trouble>>

(* "In parent, close unused writing ends of pipe" *)
CloseWritingEnd(l) ==
  /\ step[l] = "forked"
  /\ fds' = CloseAll(fds, {stderr_pipe[l][2]})
  /\ step' = [step EXCEPT ![l] = "stdout"]
  /\ UNCHANGED <<host_fds, stderr_pipe, stdout, stderr, childVars, trouble>>

StdoutNonblock(l) ==
  /\ step[l] = "stdout"
  /\ step' = [step EXCEPT ![l] = "listed"]
  /\ UNCHANGED <<fds, host_fds, stderr_pipe, stdout, stderr, childVars, trouble>>

(* fcntl() fails: both descriptors are closed, and the child stays listed   *)
(* with their numbers.                                                      *)
StdoutNonblockFails(l) ==
  /\ step[l] = "stdout"
  /\ step' = [step EXCEPT ![l] = "listed"]
  /\ fds' = CloseAll(fds, {stderr_pipe[l][1], stdout[l]})
  /\ trouble' = trouble \cup {"fcntl_stdout"}
  /\ UNCHANGED <<host_fds, stderr_pipe, stdout, stderr, childVars>>

(* Mutant: the descriptors of a terminal child are closed too. *)
BuryClosingAll(l) ==
  /\ Idle
  /\ step[l] = "listed" /\ child[l] = "ended"
  /\ fds' = CloseAll(fds, {stdout[l], stderr[l]})
  /\ step' = [step EXCEPT ![l] = "buried"]
  /\ UNCHANGED <<host_fds, stderr_pipe, stdout, stderr, childVars, trouble>>

(* jpl_zombies_bury() *)
Bury(l) ==
  /\ Idle
  /\ step[l] = "listed" /\ child[l] = "ended"
  /\ fds' = IF l \in Terminal THEN fds ELSE CloseAll(fds, {stdout[l], stderr[l]})
  /\ step' = [step EXCEPT ![l] = "buried"]
  /\ UNCHANGED <<host_fds, stderr_pipe, stdout, stderr, childVars, trouble>>
-----------------------------------------------------------------------------
(* jpl_execute() in the child. *)

(* Mutant: the loop begins one too late. *)
ChildCloseOthersLate(l) ==
  /\ child[l] = "forked"
  /\ child_fds' = [child_fds EXCEPT ![l] = CloseAll(@, 4..FdLimit - 1)]
  /\ child' = [child EXCEPT ![l] = IF l \in Terminal THEN "dup" ELSE "closed"]
  /\ UNCHANGED <<parentVars, trouble>>

(* "Need to close all open file descriptors except the std ones" *)
ChildCloseOthers(l) ==
  /\ child[l] = "forked"
  /\ child_fds' = [child_fds EXCEPT ![l] = CloseAll(@, Fd \ StdFd)]
  /\ child' = [child EXCEPT ![l] = IF l \in Terminal THEN "dup" ELSE "closed"]
  /\ UNCHANGED <<parentVars, trouble>>

(* dup2() of a number that is not open fails and changes nothing. *)
Dup2(table, old, target) ==
  IF table[old] = Closed THEN table ELSE [table EXCEPT ![target] = table[old]]

(* The reading end is closed, the writing end made the standard error. *)
ChildDupStderr(l) ==
  /\ child[l] = "closed"
  /\ child_fds' = [child_fds EXCEPT
       ![l] = Dup2(CloseAll(@, {stderr_pipe[l][1]}), stderr_pipe[l][2], 2)]
  /\ child' = [child EXCEPT ![l] = "dup"]
  /\ UNCHANGED <<parentVars, trouble>>

ChildEnd(l) ==
  /\ child' = [child EXCEPT ![l] = "ended"]
  /\ child_fds' = [child_fds EXCEPT ![l] = AllClosed]
  /\ UNCHANGED <<parentVars, trouble>>

(* set_ldpreload(), which exits when there is no memory. *)
ChildPreload(l) ==
  /\ child[l] = "dup"
  /\ \/ /\ child' = [child EXCEPT ![l] = "env"]
        /\ UNCHANGED <<child_fds, parentVars, trouble>>
     \/ ChildEnd(l)

(* jpl_exec_program(): the program replaces the child and keeps what the    *)
(* child has open, or execvp() fails and the child exits.                   *)
ChildExec(l) ==
  /\ child[l] = "env"
  /\ \/ /\ child' = [child EXCEPT ![l] = "running"]
        /\ UNCHANGED <<child_fds, parentVars, trouble>>
     \/ ChildEnd(l)

ProgramEnds(l) == child[l] = "running" /\ ChildEnd(l)
-----------------------------------------------------------------------------
Parent(l) ==
  \/ OpenPipe(l) \/ OpenPipeFails(l) \/ OpenNothing(l)
  \/ StderrNonblock(l) \/ StderrNonblockFails(l)
  \/ Forkpty(l) \/ ForkTerminal(l) \/ ForkFails(l)
  \/ CloseWritingEnd(l)
  \/ StdoutNonblock(l) \/ StdoutNonblockFails(l)
  \/ Bury(l)

ChildProcess(l) ==
  \/ ChildCloseOthers(l) \/ ChildDupStderr(l)
  \/ ChildPreload(l) \/ ChildExec(l) \/ ProgramEnds(l)

Next ==
  \/ HostOpen \/ \E d \in Fd : HostClose(d)
  \/ \E l \in Launch : Parent(l) \/ ChildProcess(l)

Spec == Init /\ [][Next]_vars
-----------------------------------------------------------------------------
(* No pipe() and no fcntl() on a terminal has failed.  After one of these   *)
(* the launcher uses, and closes, numbers it does not own, and what is      *)
(* stated below under this hypothesis does not hold.  A failed fork() or    *)
(* fcntl() on the pipe does no such harm: after the latter the terminal     *)
(* opened next gets a number that was just closed, and both fields name it. *)
Unharmed == trouble \subseteq {"fork", "fcntl_stderr"}

(* A program starts with no descriptor of the host program, of the launcher *)
(* or of another child: all it has is its own terminal and pipe, whatever   *)
(* calls have failed, or, in a terminal, the standard descriptors.          *)
ProgramHoldsOnlyOwn ==
  \A l \in Launch : child[l] = "running" =>
    \A d \in Fd :
      \/ child_fds[l][d] = Closed
      \/ l \in Terminal /\ d \in StdFd /\ (Unharmed => child_fds[l][d] = Std)
      \/ l \notin Terminal /\ child_fds[l][d] \in {Slave(l), ErrWrite(l)}

(* As long as no pipe() and no fcntl() on a terminal has failed, what       *)
(* jpl_run() reads for a listed child comes from that child's own terminal  *)
(* and pipe, however numbers were reused since; and no two children share a *)
(* descriptor.                                                              *)
ReadsOwn ==
  Unharmed =>
    \A l \in Launch \ Terminal : step[l] = "listed" =>
      /\ fds[stdout[l]] = Master(l)
      /\ \/ fds[stderr[l]] = ErrRead(l)
         \/ "fcntl_stderr" \in trouble /\ stderr[l] = stdout[l]

(* As long as no pipe() and no fcntl() on a terminal has failed, the        *)
(* launcher closes no descriptor of the host program.                       *)
HostKeepsItsOwn ==
  Unharmed =>
    /\ \A d \in StdFd : fds[d] = Std
    /\ \A d \in host_fds : fds[d] = Host

(* Unless a fork, a pipe() or an fcntl() on a terminal failed, no           *)
(* descriptor outlives its child in the parent: whatever is open between    *)
(* calls is in use.                                                         *)
NothingLeaks ==
  trouble \subseteq {"fcntl_stderr"} /\ Idle =>
    \A d \in Fd \ (StdFd \cup host_fds) : fds[d] # Closed =>
      \E l \in Launch \ Terminal : step[l] = "listed" /\ d \in {stdout[l], stderr[l]}
-----------------------------------------------------------------------------
(* "whether line from stderr (true) is being logged or from stdout (false)", *)
(* loader.h:36: the standard error of a program is the pipe from which       *)
(* jpl_run() reads lines it logs as standard error.                          *)
StderrIsPiped ==
  \A l \in Launch \ Terminal :
    child[l] = "running" /\ trouble = {} => child_fds[l][2] = ErrWrite(l)
=============================================================================
