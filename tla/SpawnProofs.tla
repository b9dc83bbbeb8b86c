----------------------------- MODULE SpawnProofs -----------------------------
(***************************************************************************)
(* Theorems about Spawn, for any number of children and descriptors.       *)
(***************************************************************************)
EXTENDS Spawn, DataLemmas

(* The kernel gives out what is free. *)
LEMMA LowestIsFree ==
  ASSUME Free # {}
  PROVE  /\ Lowest \in Fd /\ fds[Lowest] = Closed
         /\ \A d \in Fd : d < Lowest => fds[d] # Closed
<1>1. Free \subseteq Nat
  BY SpawnAssumption DEF Free, Fd
<1>2. Lowest \in Free /\ \A x \in Free : Lowest <= x
  BY <1>1, MinOfNaturals DEF Lowest
<1> QED
  BY <1>1, <1>2 DEF Free, Fd

LEMMA SecondIsFree ==
  ASSUME Cardinality(Free) >= 2
  PROVE  /\ Free # {}
         /\ Second \in Fd /\ fds[Second] = Closed /\ Second # Lowest
<1>1. Free \subseteq Fd /\ Fd \subseteq Nat
  BY SpawnAssumption DEF Free, Fd
<1>2. IsFiniteSet(Free)
  <2>1. 0 \in Int /\ FdLimit - 1 \in Int
    BY SpawnAssumption
  <2>2. IsFiniteSet(Fd)
    BY <2>1, FS_Interval DEF Fd
  <2> QED
    BY <1>1, <2>2, FS_Subset
<1>3. Free # {}
  BY FS_EmptySet
<1>4. Lowest \in Free
  BY <1>1, <1>3, MinOfNaturals DEF Lowest
<1>5. Cardinality(Free \ {Lowest}) = Cardinality(Free) - 1 /\ Cardinality(Free) \in Nat
  BY <1>2, <1>4, FS_RemoveElement, FS_CardinalityType
<1>6. Free \ {Lowest} # {}
  <2>1. Cardinality({}) = 0
    BY FS_EmptySet
  <2>2. Cardinality(Free \ {Lowest}) >= 1
    BY <1>5
  <2> QED
    BY <2>1, <2>2
<1>7. Second \in Free \ {Lowest}
  BY <1>1, <1>6, MinOfNaturals DEF Second
<1> QED
  BY <1>3, <1>7 DEF Free
-----------------------------------------------------------------------------
LEMMA TypeInit == Init => TypeOK
<1> SUFFICES ASSUME Init PROVE TypeOK
  OBVIOUS
<1>1. PICK g \in GarbageFd :
        /\ stderr_pipe = [l \in Launch |-> <<g, g>>]
        /\ stdout = [l \in Launch |-> g]
        /\ stderr = [l \in Launch |-> g]
  BY DEF Init
<1>2. g \in Fd
  BY SpawnAssumption DEF Fd
<1> QED
  BY <1>1, <1>2 DEF Init, TypeOK, ParentFile, ChildFile, AllClosed, StdFd, Fd

(* A table stays one when some of its numbers are closed. *)
LEMMA CloseAllType ==
  ASSUME NEW S, Closed \in S, NEW table \in [Fd -> S], NEW numbers
  PROVE  CloseAll(table, numbers) \in [Fd -> S]
BY DEF CloseAll

LEMMA TypeParent ==
  ASSUME TypeOK, NEW l \in Launch, Parent(l)
  PROVE  TypeOK'
<1> USE DEF TypeOK, Calls
<1>0. /\ Closed \in ParentFile /\ ErrRead(l) \in ParentFile /\ ErrWrite(l) \in ParentFile
      /\ Master(l) \in ParentFile
  BY DEF ParentFile
<1>1. CASE OpenPipe(l)
  <2>1. Lowest \in Fd /\ Second \in Fd
    BY <1>1, SecondIsFree, LowestIsFree DEF OpenPipe
  <2>2. fds' \in [Fd -> ParentFile]
    BY <1>0, <1>1, <2>1 DEF OpenPipe
  <2> QED
    BY <1>1, <2>1, <2>2 DEF OpenPipe, childVars
<1>2. CASE OpenPipeFails(l)
  BY <1>2 DEF OpenPipeFails, childVars
<1>3. CASE OpenNothing(l) \/ StderrNonblock(l) \/ StdoutNonblock(l)
  BY <1>3 DEF OpenNothing, StderrNonblock, StdoutNonblock, childVars
<1>4. CASE StderrNonblockFails(l) \/ StdoutNonblockFails(l)
  <2>1. PICK numbers : fds' = CloseAll(fds, numbers)
    BY <1>4 DEF StderrNonblockFails, StdoutNonblockFails
  <2>2. fds' \in [Fd -> ParentFile]
    BY <1>0, <2>1, CloseAllType
  <2> QED
    BY <1>4, <2>2 DEF StderrNonblockFails, StdoutNonblockFails, childVars
<1>5. CASE Forkpty(l)
  <2>1. Lowest \in Fd
    BY <1>5, SecondIsFree, LowestIsFree DEF Forkpty
  <2>2. [d \in Fd |-> IF d \in StdFd THEN Slave(l) ELSE fds[d]] \in [Fd -> ChildFile(l)]
    BY DEF ChildFile
  <2>3. /\ DOMAIN child_fds' = Launch
        /\ \A k \in Launch : child_fds'[k] \in [Fd -> ChildFile(k)]
    BY <1>5, <2>2 DEF Forkpty
  <2>4. fds' \in [Fd -> ParentFile]
    BY <1>0, <1>5, <2>1 DEF Forkpty
  <2> QED
    BY <1>5, <2>1, <2>3, <2>4 DEF Forkpty
<1>6. CASE ForkTerminal(l)
  <2>1. fds \in [Fd -> ChildFile(l)]
    BY DEF ChildFile
  <2>2. /\ DOMAIN child_fds' = Launch
        /\ \A k \in Launch : child_fds'[k] \in [Fd -> ChildFile(k)]
    BY <1>6, <2>1 DEF ForkTerminal
  <2> QED
    BY <1>6, <2>2 DEF ForkTerminal
<1>7. CASE ForkFails(l)
  BY <1>7 DEF ForkFails, childVars
<1>8. CASE CloseWritingEnd(l)
  BY <1>0, <1>8, CloseAllType DEF CloseWritingEnd, childVars
<1>9. CASE Bury(l)
  BY <1>0, <1>9, CloseAllType DEF Bury, childVars
<1> QED
  BY <1>1, <1>2, <1>3, <1>4, <1>5, <1>6, <1>7, <1>8, <1>9 DEF Parent

LEMMA TypeChild ==
  ASSUME TypeOK, NEW l \in Launch, ChildProcess(l)
  PROVE  TypeOK'
<1> DEFINE Changes(table, place) ==
             /\ child' = [child EXCEPT ![l] = place]
             /\ child_fds' = [child_fds EXCEPT ![l] = table]
             /\ UNCHANGED <<parentVars, trouble>>
<1>0. Closed \in ChildFile(l)
  BY DEF ChildFile, ParentFile
<1>1. ASSUME NEW table \in [Fd -> ChildFile(l)],
             NEW place \in {"closed", "dup", "env", "running", "ended"},
             Changes(table, place)
      PROVE  TypeOK'
  BY <1>1 DEF TypeOK, parentVars
<1>2. child_fds[l] \in [Fd -> ChildFile(l)] /\ AllClosed \in [Fd -> ChildFile(l)]
  BY <1>0 DEF TypeOK, AllClosed
<1>3. CASE ChildCloseOthers(l)
  <2>1. CloseAll(child_fds[l], Fd \ StdFd) \in [Fd -> ChildFile(l)]
    BY <1>0, <1>2, CloseAllType
  <2>2. Changes(CloseAll(child_fds[l], Fd \ StdFd), IF l \in Terminal THEN "dup" ELSE "closed")
    BY <1>3, <1>2 DEF ChildCloseOthers, TypeOK
  <2> QED
    BY <1>1, <2>1, <2>2
<1>4. CASE ChildDupStderr(l)
  <2> DEFINE closed == CloseAll(child_fds[l], {stderr_pipe[l][1]})
             table == Dup2(closed, stderr_pipe[l][2], 2)
  <2>1. closed \in [Fd -> ChildFile(l)]
    BY <1>0, <1>2, CloseAllType
  <2>2. stderr_pipe[l][2] \in Fd
    BY DEF TypeOK
  <2>3. table \in [Fd -> ChildFile(l)]
    BY <2>1, <2>2 DEF Dup2
  <2>4. Changes(table, "dup")
    BY <1>4 DEF ChildDupStderr, TypeOK
  <2> QED
    BY <1>1, <2>3, <2>4
<1>5. CASE child' = [child EXCEPT ![l] = "env"] /\ UNCHANGED <<child_fds, parentVars, trouble>>
  BY <1>5 DEF TypeOK, parentVars
<1>6. CASE child' = [child EXCEPT ![l] = "running"] /\ UNCHANGED <<child_fds, parentVars, trouble>>
  BY <1>6 DEF TypeOK, parentVars
<1>7. CASE ChildEnd(l)
  BY <1>1, <1>2, <1>7 DEF ChildEnd
<1> QED
  BY <1>3, <1>4, <1>5, <1>6, <1>7 DEF ChildProcess, ChildPreload, ChildExec, ProgramEnds

LEMMA TypeNext == TypeOK /\ [Next]_vars => TypeOK'
<1> SUFFICES ASSUME TypeOK, [Next]_vars PROVE TypeOK'
  OBVIOUS
<1>1. CASE HostOpen
  <2>1. Lowest \in Fd
    BY <1>1, LowestIsFree DEF HostOpen
  <2>2. Host \in ParentFile
    BY DEF ParentFile
  <2> QED
    BY <1>1, <2>1, <2>2 DEF HostOpen, TypeOK, childVars
<1>2. ASSUME NEW d \in Fd, HostClose(d) PROVE TypeOK'
  <2>1. Closed \in ParentFile
    BY DEF ParentFile
  <2> QED
    BY <1>2, <2>1, CloseAllType DEF HostClose, TypeOK, childVars
<1>3. CASE UNCHANGED vars
  BY <1>3 DEF vars, parentVars, childVars, TypeOK
<1> QED
  BY <1>1, <1>2, <1>3, TypeParent, TypeChild DEF Next

(* Every variable keeps its type; in particular no table of descriptors     *)
(* names a file its process cannot have.                                    *)
THEOREM SpawnTypeCorrect == Spec => []TypeOK
BY TypeInit, TypeNext, PTL DEF Spec
-----------------------------------------------------------------------------
(***************************************************************************)
(* Whose descriptors are whose in the parent.  One call of jpl_execute()   *)
(* is in progress at a time; Own(l) says what its numbers are at each of   *)
(* its steps.  In the detour after a failed fcntl() the numbers of the     *)
(* pipe are free, and the first of them is the lowest free one, which the  *)
(* terminal therefore gets.                                                *)
(***************************************************************************)
InCall == {"pipe", "ready", "forked", "stdout"}

StepInv ==
  /\ \A k, l \in Launch : step[k] \in InCall /\ step[l] \in InCall => k = l
  /\ \A l \in Terminal : step[l] \notin {"pipe", "forked", "stdout"}

PipeOpen(l) ==
  /\ fds[stderr_pipe[l][1]] = ErrRead(l)
  /\ fds[stderr_pipe[l][2]] = ErrWrite(l)
  /\ stderr_pipe[l][1] < stderr_pipe[l][2]
  /\ stderr[l] = stderr_pipe[l][1]

NothingFreeBelow(l) == \A d \in Fd : d < stderr_pipe[l][1] => fds[d] # Closed

Pipeless(l) ==
  /\ "fcntl_stderr" \in trouble
  /\ stderr_pipe[l][1] # stderr_pipe[l][2]
  /\ fds[stderr_pipe[l][2]] = Closed
  /\ stderr[l] = stderr_pipe[l][1]

Readable(l) ==
  /\ fds[stdout[l]] = Master(l)
  /\ \/ fds[stderr[l]] = ErrRead(l)
     \/ "fcntl_stderr" \in trouble /\ stderr[l] = stdout[l]

Own(l) ==
  /\ step[l] = "pipe" => PipeOpen(l) /\ NothingFreeBelow(l)
  /\ step[l] = "ready" =>
       \/ PipeOpen(l)
       \/ Pipeless(l) /\ fds[stderr_pipe[l][1]] = Closed /\ NothingFreeBelow(l)
  /\ step[l] = "forked" =>
       /\ fds[stdout[l]] = Master(l)
       /\ PipeOpen(l) \/ (Pipeless(l) /\ stderr[l] = stdout[l])
  /\ step[l] \in {"stdout", "listed"} => Readable(l)

HostInv ==
  /\ \A d \in StdFd : fds[d] = Std
  /\ \A d \in host_fds : fds[d] = Host

OwnInv == Unharmed => HostInv /\ \A l \in Launch \ Terminal : Own(l)

LEMMA FilesDiffer ==
  ASSUME NEW k, NEW l
  PROVE  /\ Closed # Std /\ Closed # Host /\ Std # Host
         /\ {Master(l), ErrRead(l), ErrWrite(l)} \cap {Closed, Std, Host} = {}
         /\ Master(l) # ErrRead(k) /\ Master(l) # ErrWrite(k) /\ ErrRead(l) # ErrWrite(k)
         /\ k # l => Master(k) # Master(l) /\ ErrRead(k) # ErrRead(l)
BY DEF Closed, Std, Host, Master, ErrRead, ErrWrite

LEMMA StepInvInit == Init => StepInv
BY SpawnAssumption DEF Init, StepInv, InCall

LEMMA StepInvNext == TypeOK /\ StepInv /\ [Next]_vars => StepInv'
<1> SUFFICES ASSUME TypeOK, StepInv, [Next]_vars PROVE StepInv'
  OBVIOUS
<1> USE SpawnAssumption DEF TypeOK, StepInv, InCall
<1>1. ASSUME NEW l \in Launch, NEW there, step' = [step EXCEPT ![l] = there],
             there \in InCall => Idle \/ step[l] \in InCall,
             l \in Terminal => there \notin {"pipe", "forked", "stdout"}
      PROVE  StepInv'
  BY <1>1 DEF Idle
<1>2. CASE UNCHANGED step
  BY <1>2
<1>3. ASSUME NEW l \in Launch, Parent(l) PROVE StepInv'
  <2>1. CASE OpenPipe(l) \/ OpenPipeFails(l) \/ OpenNothing(l)
    BY <1>1, <2>1 DEF OpenPipe, OpenPipeFails, OpenNothing
  <2>2. CASE StderrNonblock(l) \/ StderrNonblockFails(l)
    BY <1>1, <2>2 DEF StderrNonblock, StderrNonblockFails
  <2>3. CASE Forkpty(l) \/ ForkTerminal(l) \/ ForkFails(l)
    BY <1>1, <2>3 DEF Forkpty, ForkTerminal, ForkFails
  <2>4. CASE CloseWritingEnd(l) \/ StdoutNonblock(l) \/ StdoutNonblockFails(l) \/ Bury(l)
    BY <1>1, <2>4 DEF CloseWritingEnd, StdoutNonblock, StdoutNonblockFails, Bury
  <2> QED
    BY <1>3, <2>1, <2>2, <2>3, <2>4 DEF Parent
<1>4. ASSUME NEW l \in Launch, ChildProcess(l) PROVE UNCHANGED step
  BY <1>4 DEF ChildProcess, ChildCloseOthers, ChildDupStderr, ChildPreload, ChildExec,
              ProgramEnds, ChildEnd, parentVars
<1>5. CASE HostOpen \/ \E d \in Fd : HostClose(d)
  BY <1>2, <1>5 DEF HostOpen, HostClose
<1>6. CASE UNCHANGED vars
  BY <1>2, <1>6 DEF vars, parentVars
<1> QED
  BY <1>2, <1>3, <1>4, <1>5, <1>6 DEF Next

(* What a step of the call for l changes is free, or belongs to l. *)
TouchesOnly(l) ==
  /\ \A d \in Fd : fds'[d] = fds[d]
                    \/ fds[d] \in {Closed, Master(l), ErrRead(l), ErrWrite(l)}
  /\ \A k \in Launch \ {l} : UNCHANGED <<stdout[k], stderr[k], step[k]>>
  /\ UNCHANGED host_fds
  /\ trouble \subseteq trouble'

LEMMA OthersKeep ==
  ASSUME TypeOK, HostInv, NEW l \in Launch, TouchesOnly(l), host_fds \subseteq Fd,
         NEW k \in Launch \ (Terminal \cup {l}), Own(k), step[k] \notin InCall
  PROVE  HostInv' /\ Own(k)'
<1>1. HostInv'
  <2>1. StdFd \subseteq Fd
    BY SpawnAssumption DEF StdFd, Fd
  <2> QED
    BY <2>1, FilesDiffer DEF HostInv, TouchesOnly
<1>2. step'[k] = step[k] /\ step'[k] \notin InCall
  BY DEF TouchesOnly
<1>3. ASSUME step[k] = "listed" PROVE Readable(k)'
  <2>1. Readable(k) /\ stdout[k] \in Fd /\ stderr[k] \in Fd
    BY <1>3 DEF Own, TypeOK
  <2> DEFINE ofl == {Closed, Master(l), ErrRead(l), ErrWrite(l)}
  <2>2. Master(k) \notin ofl /\ ErrRead(k) \notin ofl
    BY FilesDiffer, k # l
  <2>3. \A d \in Fd : fds[d] \notin ofl => fds'[d] = fds[d]
    BY DEF TouchesOnly
  <2>4. stdout'[k] = stdout[k] /\ stderr'[k] = stderr[k]
    BY DEF TouchesOnly
  <2>5. "fcntl_stderr" \in trouble => "fcntl_stderr" \in trouble'
    BY DEF TouchesOnly
  <2> HIDE DEF ofl
  <2> QED
    BY <2>1, <2>2, <2>3, <2>4, <2>5 DEF Readable
<1> QED
  BY <1>1, <1>2, <1>3 DEF Own, InCall

(* The two facts a step of the call for l has to give. *)
LEMMA OwnStep ==
  ASSUME TypeOK, StepInv, OwnInv, Unharmed', NEW l \in Launch, TouchesOnly(l),
         Idle \/ step[l] \in InCall,
         l \notin Terminal => Own(l)'
  PROVE  OwnInv'
<1>1. Unharmed
  BY DEF Unharmed, TouchesOnly
<1>2. \A k \in Launch \ {l} : step[k] \notin InCall
  BY DEF Idle, InCall, StepInv
<1>3. HostInv /\ \A k \in Launch \ Terminal : Own(k)
  BY <1>1 DEF OwnInv
<1>4. ASSUME NEW k \in Launch \ (Terminal \cup {l}) PROVE Own(k)'
  BY <1>2, <1>3, <1>4, OthersKeep DEF TypeOK
<1>5. HostInv'
  <2>1. StdFd \subseteq Fd /\ host_fds \subseteq Fd
    BY SpawnAssumption DEF StdFd, Fd, TypeOK
  <2>2. \A d \in Fd : fds[d] \in {Std, Host} => fds'[d] = fds[d]
    BY FilesDiffer DEF TouchesOnly
  <2>3. host_fds' = host_fds
    BY DEF TouchesOnly
  <2> QED
    BY <1>3, <2>1, <2>2, <2>3 DEF HostInv
<1> QED
  BY <1>4, <1>5 DEF OwnInv

LEMMA OwnInit == Init => OwnInv
<1> SUFFICES ASSUME Init PROVE OwnInv
  OBVIOUS
<1>1. HostInv
  BY SpawnAssumption DEF Init, HostInv, StdFd, Fd
<1>2. \A l \in Launch : Own(l)
  BY DEF Init, Own
<1> QED
  BY <1>1, <1>2 DEF OwnInv

LEMMA OwnOpen ==
  ASSUME TypeOK, StepInv, OwnInv, Unharmed', NEW l \in Launch,
         OpenPipe(l) \/ OpenPipeFails(l) \/ OpenNothing(l)
  PROVE  OwnInv'
<1>1. CASE OpenPipe(l)
  <2>1. /\ Lowest \in Fd /\ fds[Lowest] = Closed /\ Second \in Fd /\ fds[Second] = Closed
        /\ Second # Lowest
        /\ \A d \in Fd : d < Lowest => fds[d] # Closed
    BY <1>1, SecondIsFree, LowestIsFree DEF OpenPipe
  <2>2. /\ \A d \in Fd : d \notin {Lowest, Second} => fds'[d] = fds[d]
        /\ fds'[Lowest] = ErrRead(l) /\ fds'[Second] = ErrWrite(l)
    BY <1>1, <2>1 DEF OpenPipe, TypeOK
  <2>3. /\ stderr_pipe'[l] = <<Lowest, Second>> /\ stderr'[l] = Lowest /\ step'[l] = "pipe"
        /\ \A k \in Launch \ {l} : UNCHANGED <<stdout[k], stderr[k], step[k]>>
        /\ UNCHANGED <<host_fds, trouble>>
    BY <1>1 DEF OpenPipe, TypeOK
  <2>4. TouchesOnly(l)
    BY <2>1, <2>2, <2>3 DEF TouchesOnly
  <2>5. \A d \in Fd : d < Lowest => fds'[d] # Closed
    BY <2>1, <2>2, FilesDiffer
  <2>6. Lowest < Second
    <3>1. Lowest \in Nat /\ Second \in Nat
      BY <2>1, SpawnAssumption DEF Fd
    <3> QED
      BY <2>1, <3>1
  <2>7. Own(l)'
    BY <2>2, <2>3, <2>5, <2>6 DEF Own, PipeOpen, NothingFreeBelow
  <2> QED
    BY <1>1, <2>4, <2>7, OwnStep DEF OpenPipe
<1>2. CASE OpenPipeFails(l)
  BY <1>2 DEF OpenPipeFails, Unharmed
<1>3. CASE OpenNothing(l)
  <2>1. TouchesOnly(l)
    BY <1>3 DEF OpenNothing, TouchesOnly, TypeOK
  <2> QED
    BY <1>3, <2>1, OwnStep DEF OpenNothing
<1> QED
  BY <1>1, <1>2, <1>3

LEMMA OwnNonblock ==
  ASSUME TypeOK, StepInv, OwnInv, Unharmed', NEW l \in Launch,
         StderrNonblock(l) \/ StderrNonblockFails(l)
  PROVE  OwnInv'
<1>1. Unharmed /\ step[l] = "pipe" /\ l \notin Terminal
  BY DEF StderrNonblock, StderrNonblockFails, Unharmed, StepInv
<1>2. PipeOpen(l) /\ NothingFreeBelow(l)
  BY <1>1 DEF OwnInv, Own
<1>3. CASE StderrNonblock(l)
  <2>1. TouchesOnly(l)
    BY <1>3 DEF StderrNonblock, TouchesOnly, TypeOK
  <2>2. Own(l)'
    BY <1>2, <1>3 DEF StderrNonblock, Own, PipeOpen, TypeOK
  <2> QED
    BY <1>1, <2>1, <2>2, OwnStep DEF InCall
<1>4. CASE StderrNonblockFails(l)
  <2> DEFINE p1 == stderr_pipe[l][1]
             p2 == stderr_pipe[l][2]
  <2>1. p1 \in Fd /\ p2 \in Fd /\ Fd \subseteq Nat
    BY SpawnAssumption DEF TypeOK, Fd
  <2>2. /\ \A d \in Fd : d \notin {p1, p2} => fds'[d] = fds[d]
        /\ fds'[p1] = Closed /\ fds'[p2] = Closed
    BY <1>4, <2>1 DEF StderrNonblockFails, CloseAll
  <2>3. /\ UNCHANGED <<stderr_pipe, stdout, stderr, host_fds>>
        /\ trouble' = trouble \cup {"fcntl_stderr"}
        /\ step'[l] = "ready" /\ \A k \in Launch \ {l} : step'[k] = step[k]
    BY <1>4 DEF StderrNonblockFails, TypeOK
  <2>4. TouchesOnly(l)
    BY <1>2, <2>2, <2>3 DEF TouchesOnly, PipeOpen
  <2>0. p1 \in Nat /\ p2 \in Nat /\ p1 < p2
    BY <1>2, <2>1 DEF PipeOpen
  <2>5. \A d \in Fd : d < p1 => fds'[d] # Closed
    <3> SUFFICES ASSUME NEW d \in Fd, d < p1 PROVE fds'[d] # Closed
      OBVIOUS
    <3>1. d # p1 /\ d # p2
      <4>1. d \in Nat
        BY <2>1
      <4> HIDE DEF p1, p2
      <4> QED
        BY <2>0, <4>1
    <3>2. fds[d] # Closed
      BY <1>2 DEF NothingFreeBelow
    <3> QED
      BY <2>2, <3>1, <3>2
  <2>6. p1 # p2
    <3> HIDE DEF p1, p2
    <3> QED
      BY <2>0
  <2>7. Own(l)'
    BY <1>2, <2>2, <2>3, <2>5, <2>6 DEF Own, PipeOpen, Pipeless, NothingFreeBelow
  <2> QED
    BY <1>1, <2>4, <2>7, OwnStep DEF InCall
<1> QED
  BY <1>3, <1>4

(* In the detour the terminal gets the first number of the closed pipe. *)
LEMMA OwnFork ==
  ASSUME TypeOK, StepInv, OwnInv, Unharmed', NEW l \in Launch,
         Forkpty(l) \/ ForkTerminal(l) \/ ForkFails(l)
  PROVE  OwnInv'
<1>1. Unharmed /\ step[l] = "ready"
  BY DEF Forkpty, ForkTerminal, ForkFails, Unharmed
<1>2. CASE Forkpty(l)
  <2> DEFINE p1 == stderr_pipe[l][1]
             p2 == stderr_pipe[l][2]
  <2>1. l \notin Terminal /\ Own(l)
    BY <1>1, <1>2 DEF Forkpty, OwnInv
  <2>2. /\ Lowest \in Fd /\ fds[Lowest] = Closed
        /\ \A d \in Fd : d < Lowest => fds[d] # Closed
    BY <1>2, SecondIsFree, LowestIsFree DEF Forkpty
  <2>3. p1 \in Fd /\ p2 \in Fd /\ Fd \subseteq Nat
    BY SpawnAssumption DEF TypeOK, Fd
  <2>4. /\ \A d \in Fd : d # Lowest => fds'[d] = fds[d]
        /\ fds'[Lowest] = Master(l)
    BY <1>2, <2>2 DEF Forkpty, TypeOK
  <2>5. /\ UNCHANGED <<stderr_pipe, stderr, host_fds, trouble>>
        /\ stdout'[l] = Lowest /\ step'[l] = "forked"
        /\ \A k \in Launch \ {l} : stdout'[k] = stdout[k] /\ step'[k] = step[k]
    BY <1>2 DEF Forkpty, TypeOK
  <2>6. TouchesOnly(l)
    BY <2>2, <2>4, <2>5 DEF TouchesOnly
  <2>7. ASSUME PipeOpen(l) PROVE Own(l)'
    <3>1. Lowest \notin {p1, p2}
      BY <2>2, <2>7, FilesDiffer DEF PipeOpen
    <3>2. PipeOpen(l)'
      BY <2>3, <2>4, <2>5, <2>7, <3>1 DEF PipeOpen
    <3> QED
      BY <2>4, <2>5, <3>2 DEF Own
  <2>8. ASSUME Pipeless(l), fds[p1] = Closed, NothingFreeBelow(l) PROVE Own(l)'
    <3>1. Lowest = p1
      <4>1. ~(Lowest < p1) /\ ~(p1 < Lowest)
        BY <2>2, <2>3, <2>8 DEF NothingFreeBelow
      <4>2. Lowest \in Nat /\ p1 \in Nat
        BY <2>2, <2>3
      <4> HIDE DEF p1
      <4> QED
        BY <4>1, <4>2
    <3>2. Pipeless(l)' /\ stderr'[l] = stdout'[l]
      BY <2>3, <2>4, <2>5, <2>8, <3>1 DEF Pipeless
    <3> QED
      BY <2>4, <2>5, <3>2 DEF Own
  <2>9. Own(l)'
    <3>1. PipeOpen(l) \/ (Pipeless(l) /\ fds[p1] = Closed /\ NothingFreeBelow(l))
      BY <1>1, <2>1 DEF Own
    <3> QED
      BY <2>7, <2>8, <3>1
  <2> QED
    BY <1>1, <2>6, <2>9, OwnStep DEF InCall
<1>3. CASE ForkTerminal(l)
  <2>1. TouchesOnly(l) /\ l \in Terminal
    BY <1>3 DEF ForkTerminal, TouchesOnly, TypeOK
  <2> QED
    BY <1>1, <2>1, OwnStep DEF InCall
<1>4. CASE ForkFails(l)
  <2>1. TouchesOnly(l) /\ step'[l] = "failed"
    BY <1>4 DEF ForkFails, TouchesOnly, TypeOK
  <2>2. Own(l)'
    BY <2>1 DEF Own
  <2> QED
    BY <1>1, <2>1, <2>2, OwnStep DEF InCall
<1> QED
  BY <1>2, <1>3, <1>4

LEMMA OwnRest ==
  ASSUME TypeOK, StepInv, OwnInv, Unharmed', NEW l \in Launch,
         \/ CloseWritingEnd(l) \/ StdoutNonblock(l) \/ StdoutNonblockFails(l)
         \/ Bury(l)
  PROVE  OwnInv'
<1>1. CASE CloseWritingEnd(l)
  <2> DEFINE p1 == stderr_pipe[l][1]
             p2 == stderr_pipe[l][2]
  <2>1. Unharmed /\ step[l] = "forked" /\ l \notin Terminal
    BY <1>1 DEF CloseWritingEnd, Unharmed, StepInv
  <2>2. /\ fds[stdout[l]] = Master(l)
        /\ PipeOpen(l) \/ (Pipeless(l) /\ stderr[l] = stdout[l])
    BY <2>1 DEF OwnInv, Own
  <2>3. p2 \in Fd /\ stdout[l] \in Fd /\ stderr[l] \in Fd
    BY DEF TypeOK
  <2>4. \A d \in Fd : d # p2 => fds'[d] = fds[d]
    BY <1>1 DEF CloseWritingEnd, CloseAll
  <2>5. fds[p2] \in {Closed, ErrWrite(l)}
    BY <2>2 DEF PipeOpen, Pipeless
  <2>6. /\ UNCHANGED <<stderr_pipe, stdout, stderr, host_fds, trouble>>
        /\ step'[l] = "stdout" /\ \A k \in Launch \ {l} : step'[k] = step[k]
    BY <1>1 DEF CloseWritingEnd, TypeOK
  <2>7. TouchesOnly(l)
    BY <2>4, <2>5, <2>6 DEF TouchesOnly
  <2>8. stdout[l] # p2
    BY <2>2, <2>5, FilesDiffer
  <2>9. fds'[stdout[l]] = Master(l)
    BY <2>2, <2>3, <2>4, <2>8
  <2>10. fds[stderr[l]] = ErrRead(l) => fds'[stderr[l]] = ErrRead(l)
    BY <2>3, <2>4, <2>5, FilesDiffer
  <2>11. fds[stderr[l]] = ErrRead(l) \/ ("fcntl_stderr" \in trouble /\ stderr[l] = stdout[l])
    BY <2>2 DEF PipeOpen, Pipeless
  <2>12. Own(l)'
    BY <2>6, <2>9, <2>10, <2>11 DEF Own, Readable
  <2> QED
    BY <2>1, <2>7, <2>12, OwnStep DEF InCall
<1>2. CASE StdoutNonblock(l)
  <2>1. Unharmed /\ step[l] = "stdout" /\ l \notin Terminal
    BY <1>2 DEF StdoutNonblock, Unharmed, StepInv
  <2>2. TouchesOnly(l)
    BY <1>2 DEF StdoutNonblock, TouchesOnly, TypeOK
  <2>3. Own(l)'
    BY <1>2, <2>1 DEF StdoutNonblock, OwnInv, Own, Readable, TypeOK
  <2> QED
    BY <2>1, <2>2, <2>3, OwnStep DEF InCall
<1>3. CASE StdoutNonblockFails(l)
  BY <1>3 DEF StdoutNonblockFails, Unharmed
<1>4. CASE Bury(l)
  <2>1. /\ step'[l] = "buried" /\ Idle /\ step[l] = "listed"
        /\ UNCHANGED <<stdout, stderr, host_fds, trouble>>
        /\ \A k \in Launch \ {l} : step'[k] = step[k]
    BY <1>4 DEF Bury, TypeOK
  <2>2. Own(l)'
    BY <2>1 DEF Own
  <2>3. l \notin Terminal => fds[stdout[l]] = Master(l) /\ fds[stderr[l]] \in {Master(l), ErrRead(l)}
    BY <2>1 DEF OwnInv, Own, Readable, Unharmed
  <2>4. \A d \in Fd : fds'[d] = fds[d] \/ (l \notin Terminal /\ d \in {stdout[l], stderr[l]})
    BY <1>4 DEF Bury, CloseAll
  <2>5. TouchesOnly(l)
    BY <2>1, <2>3, <2>4 DEF TouchesOnly
  <2> QED
    BY <2>1, <2>2, <2>5, OwnStep
<1> QED
  BY <1>1, <1>2, <1>3, <1>4

(* Between the calls the host program takes free numbers and closes its own. *)
LEMMA OwnHost ==
  ASSUME TypeOK, OwnInv, Unharmed', HostOpen \/ \E d \in Fd : HostClose(d)
  PROVE  OwnInv'
<1>1. /\ Unharmed /\ Idle
      /\ UNCHANGED <<stderr_pipe, stdout, stderr, step, trouble>>
  BY DEF HostOpen, HostClose, Unharmed
<1>2. HostInv /\ \A l \in Launch \ Terminal : Own(l)
  BY <1>1 DEF OwnInv
<1>3. StdFd \subseteq Fd /\ host_fds \subseteq Fd
  BY SpawnAssumption DEF StdFd, Fd, TypeOK
<1>4. /\ \A d \in Fd : fds'[d] = fds[d] \/ fds[d] \in {Closed, Host}
      /\ HostInv'
  <2>1. CASE HostOpen
    <3>1. Lowest \in Fd /\ fds[Lowest] = Closed
      BY <2>1, LowestIsFree DEF HostOpen
    <3>2. /\ fds'[Lowest] = Host /\ host_fds' = host_fds \cup {Lowest}
          /\ \A d \in Fd : d # Lowest => fds'[d] = fds[d]
      BY <2>1, <3>1 DEF HostOpen, TypeOK
    <3> QED
      BY <1>2, <1>3, <3>1, <3>2, FilesDiffer DEF HostInv
  <2>2. ASSUME NEW d \in Fd, HostClose(d)
        PROVE  (\A e \in Fd : fds'[e] = fds[e] \/ fds[e] \in {Closed, Host}) /\ HostInv'
    <3>1. /\ fds'[d] = Closed /\ fds[d] = Host /\ host_fds' = host_fds \ {d}
          /\ \A e \in Fd : e # d => fds'[e] = fds[e]
      BY <1>2, <2>2 DEF HostClose, CloseAll, HostInv
    <3> QED
      BY <1>2, <1>3, <3>1, FilesDiffer DEF HostInv
  <2> QED
    BY <2>1, <2>2
<1>5. ASSUME NEW l \in Launch \ Terminal PROVE Own(l)'
  <2>1. step[l] = "listed" => Readable(l)
    BY <1>2 DEF Own
  <2>2. Readable(l) => Readable(l)'
    <3>1. stdout[l] \in Fd /\ stderr[l] \in Fd
      BY DEF TypeOK
    <3>2. \A d \in Fd : fds[d] \in {Master(l), ErrRead(l)} => fds'[d] = fds[d]
      BY <1>4, FilesDiffer
    <3> QED
      BY <1>1, <3>1, <3>2 DEF Readable
  <2>3. step'[l] = step[l] /\ step[l] \notin {"pipe", "ready", "forked", "stdout"}
    BY <1>1 DEF Idle
  <2> QED
    BY <2>1, <2>2, <2>3 DEF Own
<1> QED
  BY <1>4, <1>5 DEF OwnInv

LEMMA OwnNext == TypeOK /\ StepInv /\ OwnInv /\ [Next]_vars => OwnInv'
<1> SUFFICES ASSUME TypeOK, StepInv, OwnInv, [Next]_vars, Unharmed' PROVE OwnInv'
  BY DEF OwnInv
<1>1. ASSUME NEW l \in Launch, Parent(l) PROVE OwnInv'
  BY <1>1, OwnOpen, OwnNonblock, OwnFork, OwnRest DEF Parent
<1>2. ASSUME NEW l \in Launch, ChildProcess(l) PROVE UNCHANGED <<parentVars, trouble>>
  BY <1>2 DEF ChildProcess, ChildCloseOthers, ChildDupStderr, ChildPreload, ChildExec,
              ProgramEnds, ChildEnd
<1>3. ASSUME UNCHANGED <<parentVars, trouble>> PROVE OwnInv'
  BY <1>3 DEF parentVars, OwnInv, Unharmed, HostInv, Own, PipeOpen, Pipeless,
              NothingFreeBelow, Readable
<1> QED
  BY <1>1, <1>2, <1>3, OwnHost DEF Next, vars

LEMMA OwnAlways == Spec => [](TypeOK /\ StepInv /\ OwnInv)
<1>1. Init => TypeOK /\ StepInv /\ OwnInv
  BY TypeInit, StepInvInit, OwnInit
<1>2. TypeOK /\ StepInv /\ OwnInv /\ [Next]_vars => (TypeOK /\ StepInv /\ OwnInv)'
  BY TypeNext, StepInvNext, OwnNext
<1> QED
  BY <1>1, <1>2, PTL DEF Spec

(* As long as no pipe() and no fcntl() on a terminal has failed, what is    *)
(* read for a child on the list comes from its own terminal and pipe,       *)
(* whatever numbers the other children, calls and the host program took or  *)
(* gave back since, also after a failed fork or fcntl() on a pipe.          *)
THEOREM ReadsOwnAlways == Spec => []ReadsOwn
<1>1. OwnInv => ReadsOwn
  BY DEF OwnInv, ReadsOwn, Own, Readable
<1> QED
  BY <1>1, OwnAlways, PTL

(* As long as no pipe() and no fcntl() on a terminal has failed, no close() *)
(* of the launcher hits a descriptor of the host program.                   *)
THEOREM HostKeepsItsOwnAlways == Spec => []HostKeepsItsOwn
<1>1. OwnInv => HostKeepsItsOwn
  BY DEF OwnInv, HostInv, HostKeepsItsOwn
<1> QED
  BY <1>1, OwnAlways, PTL
-----------------------------------------------------------------------------
(***************************************************************************)
(* What the child processes hold.  The invariant follows the child from    *)
(* the fork: its standard descriptors are right from the beginning, the    *)
(* others after the loop that closes them.                                 *)
(***************************************************************************)
Proper(l, d) ==
  \/ child_fds[l][d] = Closed
  \/ l \in Terminal /\ d \in StdFd /\ (Unharmed => child_fds[l][d] = Std)
  \/ l \notin Terminal /\ child_fds[l][d] \in {Slave(l), ErrWrite(l)}

Held(l) ==
  /\ child[l] = "closed" => l \notin Terminal
  /\ child[l] = "forked" => \A d \in StdFd : Proper(l, d)
  /\ child[l] \in {"closed", "dup", "env", "running"} => \A d \in Fd : Proper(l, d)

HeldInv == \A l \in Launch : Held(l)

(* A system call that fails in the parent makes no child's table wrong.     *)
LEMMA HeldKept ==
  ASSUME NEW k \in Launch, Held(k), child'[k] = child[k], child_fds'[k] = child_fds[k],
         Unharmed' => Unharmed
  PROVE  Held(k)'
BY DEF Held, Proper

LEMMA HeldParent ==
  ASSUME TypeOK, OwnInv, HeldInv, NEW l \in Launch, Parent(l)
  PROVE  HeldInv'
<1>1. Unharmed' => Unharmed
  BY DEF Unharmed, Parent, OpenPipe, OpenPipeFails, OpenNothing, StderrNonblock,
         StderrNonblockFails, Forkpty, ForkTerminal, ForkFails, CloseWritingEnd,
         StdoutNonblock, StdoutNonblockFails, Bury
<1>2. CASE Forkpty(l) \/ ForkTerminal(l)
  <2>1. \A k \in Launch \ {l} : child'[k] = child[k] /\ child_fds'[k] = child_fds[k]
    BY <1>2 DEF Forkpty, ForkTerminal, TypeOK
  <2>2. child'[l] = "forked"
    BY <1>2 DEF Forkpty, ForkTerminal, TypeOK
  <2>3. StdFd \subseteq Fd
    BY SpawnAssumption DEF StdFd, Fd
  <2>4. ASSUME NEW d \in StdFd PROVE Proper(l, d)'
    <3>1. CASE Forkpty(l)
      <4>1. child_fds'[l] = [e \in Fd |-> IF e \in StdFd THEN Slave(l) ELSE fds[e]]
        BY <3>1 DEF Forkpty, TypeOK
      <4>2. child_fds'[l][d] = Slave(l) /\ l \notin Terminal
        BY <2>3, <3>1, <4>1 DEF Forkpty
      <4> QED
        BY <4>2 DEF Proper
    <3>2. CASE ForkTerminal(l)
      <4>1. child_fds'[l] = fds /\ l \in Terminal
        BY <3>2 DEF ForkTerminal, TypeOK
      <4>2. Unharmed => fds[d] = Std
        BY DEF OwnInv, HostInv
      <4> QED
        BY <1>1, <4>1, <4>2 DEF Proper
    <3> QED
      BY <1>2, <3>1, <3>2
  <2>5. Held(l)'
    BY <2>2, <2>4 DEF Held
  <2> QED
    BY <1>1, <2>1, <2>5, HeldKept DEF HeldInv
<1>3. CASE ~(Forkpty(l) \/ ForkTerminal(l))
  <2>1. UNCHANGED childVars
    BY <1>3 DEF Parent, OpenPipe, OpenPipeFails, OpenNothing, StderrNonblock,
         StderrNonblockFails, ForkFails, CloseWritingEnd, StdoutNonblock,
         StdoutNonblockFails, Bury
  <2> QED
    BY <1>1, <2>1, HeldKept DEF HeldInv, childVars
<1> QED
  BY <1>2, <1>3

LEMMA HeldChild ==
  ASSUME TypeOK, HeldInv, NEW l \in Launch, ChildProcess(l)
  PROVE  HeldInv'
<1>1. trouble' = trouble
  BY DEF ChildProcess, ChildCloseOthers, ChildDupStderr, ChildPreload, ChildExec,
         ProgramEnds, ChildEnd
<1>2. \A k \in Launch \ {l} : child'[k] = child[k] /\ child_fds'[k] = child_fds[k]
  BY DEF ChildProcess, ChildCloseOthers, ChildDupStderr, ChildPreload, ChildExec,
         ProgramEnds, ChildEnd, TypeOK
<1>3. Held(l)
  BY DEF HeldInv
<1>4. Held(l)'
  <2>1. CASE ChildCloseOthers(l)
    <3>1. child_fds'[l] = CloseAll(child_fds[l], Fd \ StdFd)
      BY <2>1 DEF ChildCloseOthers, TypeOK
    <3>2. child'[l] = (IF l \in Terminal THEN "dup" ELSE "closed") /\ child[l] = "forked"
      BY <2>1 DEF ChildCloseOthers, TypeOK
    <3>3. ASSUME NEW d \in Fd PROVE Proper(l, d)'
      <4>1. CASE d \in StdFd
        <5>1. child_fds'[l][d] = child_fds[l][d] /\ Proper(l, d)
          BY <1>3, <3>1, <3>2, <4>1 DEF CloseAll, Held
        <5> QED
          BY <1>1, <5>1 DEF Proper, Unharmed
      <4>2. CASE d \notin StdFd
        BY <3>1, <4>2 DEF CloseAll, Proper
      <4> QED
        BY <4>1, <4>2
    <3> QED
      BY <3>2, <3>3 DEF Held
  <2>2. CASE ChildDupStderr(l)
    <3> DEFINE closed == CloseAll(child_fds[l], {stderr_pipe[l][1]})
    <3>1. child_fds'[l] = Dup2(closed, stderr_pipe[l][2], 2) /\ child'[l] = "dup"
      BY <2>2 DEF ChildDupStderr, TypeOK
    <3>2. l \notin Terminal /\ \A d \in Fd : Proper(l, d)
      BY <1>3, <2>2 DEF ChildDupStderr, Held
    <3>3. \A d \in Fd : closed[d] \in {Closed, Slave(l), ErrWrite(l)}
      BY <3>2 DEF CloseAll, Proper
    <3>4. closed \in [Fd -> {Closed, Slave(l), ErrWrite(l)}]
      BY <3>3 DEF CloseAll
    <3>5. stderr_pipe[l][2] \in Fd
      BY DEF TypeOK
    <3> HIDE DEF closed
    <3>6. \A d \in Fd : child_fds'[l][d] \in {Closed, Slave(l), ErrWrite(l)}
      BY <3>1, <3>4, <3>5 DEF Dup2
    <3> QED
      BY <3>1, <3>2, <3>6 DEF Held, Proper
  <2>3. CASE /\ child'[l] \in {"env", "running"} /\ child[l] \in {"dup", "env"}
             /\ child_fds'[l] = child_fds[l]
    BY <1>1, <1>3, <2>3 DEF Held, Proper, Unharmed
  <2>4. CASE ChildEnd(l)
    <3>1. child'[l] = "ended"
      BY <2>4 DEF ChildEnd, TypeOK
    <3> QED
      BY <3>1 DEF Held
  <2>5. ChildPreload(l) \/ ChildExec(l) =>
          \/ ChildEnd(l)
          \/ /\ child'[l] \in {"env", "running"} /\ child[l] \in {"dup", "env"}
             /\ child_fds'[l] = child_fds[l]
    BY DEF ChildPreload, ChildExec, TypeOK
  <2> QED
    BY <2>1, <2>2, <2>3, <2>4, <2>5 DEF ChildProcess, ProgramEnds
<1> QED
  BY <1>1, <1>2, <1>4, HeldKept DEF HeldInv, Unharmed

(* A program holds nothing but its own terminal and pipe when it starts, or *)
(* the standard descriptors, whatever calls of the launcher have failed.    *)
THEOREM ProgramHoldsOnlyOwnAlways == Spec => []ProgramHoldsOnlyOwn
<1>1. Init => HeldInv
  BY DEF Init, HeldInv, Held
<1>2. TypeOK /\ OwnInv /\ HeldInv /\ [Next]_vars => HeldInv'
  <2> SUFFICES ASSUME TypeOK, OwnInv, HeldInv, [Next]_vars PROVE HeldInv'
    OBVIOUS
  <2>1. CASE HostOpen \/ (\E d \in Fd : HostClose(d)) \/ UNCHANGED vars
    <3>1. UNCHANGED <<childVars, trouble>>
      BY <2>1 DEF HostOpen, HostClose, vars
    <3> QED
      BY <3>1, HeldKept DEF HeldInv, childVars, Unharmed
  <2> QED
    BY <2>1, HeldParent, HeldChild DEF Next
<1>3. HeldInv => ProgramHoldsOnlyOwn
  BY DEF HeldInv, Held, Proper, ProgramHoldsOnlyOwn
<1> QED
  BY <1>1, <1>2, <1>3, OwnAlways, PTL DEF Spec
-----------------------------------------------------------------------------
(***************************************************************************)
(* What is open in the parent is in use: by a call in progress, by a child *)
(* on the list, or by the host program.                                    *)
(***************************************************************************)
Used(l) ==
  IF step[l] \in {"pipe", "ready"} THEN {stderr_pipe[l][1], stderr_pipe[l][2]}
  ELSE IF step[l] = "forked" THEN {stderr_pipe[l][1], stderr_pipe[l][2], stdout[l]}
  ELSE IF step[l] \in {"stdout", "listed"} THEN {stdout[l], stderr[l]}
  ELSE {}

NoFork == trouble \subseteq {"fcntl_stderr"}

LeakInv ==
  NoFork => \A d \in Fd \ (StdFd \cup host_fds) : fds[d] # Closed =>
              \E l \in Launch \ Terminal : d \in Used(l)

LEMMA UsedStep ==
  ASSUME LeakInv, NoFork, NEW l \in Launch,
         host_fds' = host_fds, \A k \in Launch \ {l} : Used(k)' = Used(k),
         \A d \in Fd : fds'[d] # Closed =>
           \/ l \notin Terminal /\ d \in Used(l)'
           \/ fds[d] # Closed /\ (l \notin Terminal => d \notin Used(l))
  PROVE  LeakInv'
<1> SUFFICES ASSUME NEW d \in Fd \ (StdFd \cup host_fds), fds'[d] # Closed
             PROVE  \E k \in Launch \ Terminal : d \in Used(k)'
  BY DEF LeakInv
<1>1. CASE l \notin Terminal /\ d \in Used(l)'
  BY <1>1
<1>2. CASE fds[d] # Closed /\ (l \notin Terminal => d \notin Used(l))
  <2>1. PICK k \in Launch \ Terminal : d \in Used(k)
    BY <1>2 DEF LeakInv
  <2>2. k # l
    BY <1>2, <2>1
  <2> QED
    BY <2>1, <2>2
<1> QED
  BY <1>1, <1>2

LEMMA LeakParent ==
  ASSUME TypeOK, StepInv, OwnInv, LeakInv, NoFork', NEW l \in Launch, Parent(l)
  PROVE  LeakInv'
<1>1. ASSUME NEW k \in Launch \ {l} PROVE Used(k)' = Used(k)
  <2>1. /\ step'[k] = step[k] /\ stderr_pipe'[k] = stderr_pipe[k]
        /\ stdout'[k] = stdout[k] /\ stderr'[k] = stderr[k]
    BY DEF TypeOK, Parent, OpenPipe, OpenPipeFails, OpenNothing, StderrNonblock,
         StderrNonblockFails, Forkpty, ForkTerminal, ForkFails, CloseWritingEnd,
         StdoutNonblock, StdoutNonblockFails, Bury
  <2> QED
    BY <2>1 DEF Used
<1>2. host_fds' = host_fds
  BY DEF Parent, OpenPipe, OpenPipeFails, OpenNothing, StderrNonblock,
         StderrNonblockFails, Forkpty, ForkTerminal, ForkFails, CloseWritingEnd,
         StdoutNonblock, StdoutNonblockFails, Bury
<1>3. NoFork
  BY DEF NoFork, Parent, OpenPipe, OpenPipeFails, OpenNothing, StderrNonblock,
         StderrNonblockFails, Forkpty, ForkTerminal, ForkFails, CloseWritingEnd,
         StdoutNonblock, StdoutNonblockFails, Bury
<1> DEFINE Accounted == \A d \in Fd : fds'[d] # Closed =>
             \/ l \notin Terminal /\ d \in Used(l)'
             \/ fds[d] # Closed /\ (l \notin Terminal => d \notin Used(l))
<1>4. CASE OpenPipe(l)
  <2>1. Used(l)' = {Lowest, Second} /\ Used(l) = {} /\ l \notin Terminal
    BY <1>4 DEF OpenPipe, Used, TypeOK
  <2>2. \A d \in Fd : d \notin {Lowest, Second} => fds'[d] = fds[d]
    BY <1>4 DEF OpenPipe, TypeOK
  <2>3. Accounted
    BY <2>1, <2>2
  <2> QED
    BY <1>1, <1>2, <1>3, <2>3, UsedStep
<1>5. CASE OpenPipeFails(l) \/ ForkFails(l) \/ StdoutNonblockFails(l)
  BY <1>5 DEF OpenPipeFails, ForkFails, StdoutNonblockFails, NoFork
<1>6. CASE OpenNothing(l) \/ ForkTerminal(l)
  <2>1. Accounted
    BY <1>6 DEF OpenNothing, ForkTerminal
  <2> QED
    BY <1>1, <1>2, <1>3, <2>1, UsedStep
<1>7. CASE StderrNonblock(l) \/ StdoutNonblock(l)
  <2>1. Used(l)' = Used(l) /\ fds' = fds /\ l \notin Terminal
    BY <1>7 DEF StderrNonblock, StdoutNonblock, Used, TypeOK, StepInv
  <2>2. Accounted
    BY <2>1
  <2> QED
    BY <1>1, <1>2, <1>3, <2>2, UsedStep
<1>8. CASE StderrNonblockFails(l) \/ Bury(l)
  <2>1. l \notin Terminal => fds' = CloseAll(fds, Used(l))
    BY <1>8 DEF StderrNonblockFails, Bury, Used
  <2>2. l \in Terminal => fds' = fds
    BY <1>8 DEF StderrNonblockFails, Bury, StepInv
  <2>3. Accounted
    BY <2>1, <2>2 DEF CloseAll
  <2> QED
    BY <1>1, <1>2, <1>3, <2>3, UsedStep
<1>9. CASE Forkpty(l)
  <2>1. Used(l)' = {stderr_pipe[l][1], stderr_pipe[l][2], Lowest} /\ l \notin Terminal
    BY <1>9 DEF Forkpty, Used, TypeOK
  <2>2. Used(l) = {stderr_pipe[l][1], stderr_pipe[l][2]}
    BY <1>9 DEF Forkpty, Used
  <2>3. \A d \in Fd : d # Lowest => fds'[d] = fds[d]
    BY <1>9 DEF Forkpty, TypeOK
  <2>4. Accounted
    BY <2>1, <2>2, <2>3
  <2> QED
    BY <1>1, <1>2, <1>3, <2>4, UsedStep
<1>10. CASE CloseWritingEnd(l)
  <2>1. step[l] = "forked" /\ l \notin Terminal /\ Unharmed
    BY <1>3, <1>10 DEF CloseWritingEnd, StepInv, NoFork, Unharmed
  <2>2. stderr[l] = stderr_pipe[l][1]
    BY <2>1 DEF OwnInv, Own, PipeOpen, Pipeless
  <2>3. /\ Used(l) = {stderr_pipe[l][1], stderr_pipe[l][2], stdout[l]}
        /\ Used(l)' = {stdout[l], stderr[l]}
    BY <1>10, <2>1 DEF CloseWritingEnd, Used, TypeOK
  <2>4. fds' = CloseAll(fds, {stderr_pipe[l][2]})
    BY <1>10 DEF CloseWritingEnd
  <2>5. Accounted
    BY <2>1, <2>2, <2>3, <2>4 DEF CloseAll
  <2> QED
    BY <1>1, <1>2, <1>3, <2>5, UsedStep
<1> QED
  BY <1>4, <1>5, <1>6, <1>7, <1>8, <1>9, <1>10 DEF Parent

(* As long as no fork, no pipe() and no fcntl() on a terminal has failed,   *)
(* what is open between the calls is in use, so nothing is ever leaked.     *)
THEOREM NothingLeaksEver == Spec => []NothingLeaks
<1>1. Init => LeakInv
  BY DEF Init, LeakInv
<1>2. TypeOK /\ StepInv /\ OwnInv /\ LeakInv /\ [Next]_vars => LeakInv'
  <2> SUFFICES ASSUME TypeOK, StepInv, OwnInv, LeakInv, [Next]_vars, NoFork' PROVE LeakInv'
    BY DEF LeakInv
  <2>1. CASE HostOpen \/ \E d \in Fd : HostClose(d)
    <3>1. /\ UNCHANGED <<stderr_pipe, stdout, stderr, step, trouble>>
          /\ \A d \in Fd \ (StdFd \cup host_fds') : fds'[d] # Closed =>
               fds[d] # Closed /\ d \notin host_fds
      BY <2>1 DEF HostOpen, HostClose, CloseAll, TypeOK
    <3>2. \A l \in Launch : Used(l)' = Used(l)
      BY <3>1 DEF Used
    <3> QED
      BY <3>1, <3>2 DEF LeakInv, NoFork
  <2>2. ASSUME NEW l \in Launch, ChildProcess(l) PROVE UNCHANGED <<parentVars, trouble>>
    BY <2>2 DEF ChildProcess, ChildCloseOthers, ChildDupStderr, ChildPreload, ChildExec,
                ProgramEnds, ChildEnd
  <2>3. ASSUME UNCHANGED <<parentVars, trouble>> PROVE LeakInv'
    BY <2>3 DEF parentVars, LeakInv, NoFork, Used
  <2> QED
    BY <2>1, <2>2, <2>3, LeakParent DEF Next, vars
<1>3. LeakInv => NothingLeaks
  BY DEF LeakInv, NoFork, NothingLeaks, Used, Idle
<1> QED
  BY <1>1, <1>2, <1>3, OwnAlways, PTL DEF Spec
=============================================================================
