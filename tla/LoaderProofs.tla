---------------------------- MODULE LoaderProofs ----------------------------
(***************************************************************************)
(* Theorems of Loader, for every value of its constants.  First lemmas on  *)
(* list_add_tail() and list_del(); then the types; then the parts of       *)
(* LoaderInv that need nothing of the pids (the walk, the pending signal,  *)
(* the count); then the parts that need pids that tell processes apart and *)
(* the step by step refinement of ChildContract; then that the registry    *)
(* uses its list as AtomicList has it; last the promises of jpl_run(),     *)
(* which are action properties.                                            *)
(***************************************************************************)
EXTENDS LoaderInv, DataLemmas

(* The successor of a node on the ring is on the ring; without duplicates,  *)
(* the successor of a struct is another node.                               *)
LEMMA SuccOnRing ==
  ASSUME children \in Seq(Child), IsInjective(children),
         NEW node \in Listed \cup {ListHead}
  PROVE  /\ Succ(node) \in Listed \cup {ListHead}
         /\ node # ListHead => Succ(node) # node
<1> DEFINE ring == <<ListHead>> \o children \o <<ListHead>>
           n == Len(children)
           P(i) == i \in 1..n + 1 /\ ring[i] = node
           k == CHOOSE i \in 1..n + 1 : ring[i] = node
<1>1. n \in Nat /\ DOMAIN children = 1..n
  OBVIOUS
<1>2. /\ ring[1] = ListHead
      /\ \A i \in 2..n + 1 : ring[i] = children[i - 1]
      /\ ring[n + 2] = ListHead
  BY <1>1
<1> HIDE DEF ring
<1>3. \E i \in 1..n + 1 : ring[i] = node
  <2>1. CASE node = ListHead BY <2>1, <1>1, <1>2
  <2>2. CASE node \in Listed
    <3>1. PICK j \in 1..n : children[j] = node BY <2>2, <1>1 DEF Listed, Range
    <3>2. j + 1 \in 2..n + 1 /\ ring[j + 1] = node BY <3>1, <1>1, <1>2
    <3> QED BY <3>2, <1>1
  <2> QED BY <2>1, <2>2
<1>4. k \in 1..n + 1 /\ ring[k] = node
  BY <1>3
<1>5. Succ(node) = ring[1 + k]
  BY DEF Succ, ring
<1> HIDE DEF k
<1>6. ring[1 + k] \in Listed \cup {ListHead}
  <2>1. CASE k = n + 1 BY <2>1, <1>1, <1>2
  <2>2. CASE k \in 1..n
    <3>1. 1 + k \in 2..n + 1 /\ ring[1 + k] = children[k] BY <2>2, <1>1, <1>2
    <3> QED BY <3>1, <2>2, <1>1 DEF Listed, Range
  <2> QED BY <2>1, <2>2, <1>4, <1>1
<1>7. ASSUME node # ListHead PROVE ring[1 + k] # node
  <2>1. k \in 2..n + 1 /\ children[k - 1] = node /\ k - 1 \in 1..n
    BY <1>7, <1>4, <1>2, <1>1
  <2>2. CASE k = n + 1 BY <2>2, <1>7, <1>1, <1>2
  <2>3. CASE k \in 2..n
    <3>1. ring[1 + k] = children[k] /\ k \in 1..n BY <2>3, <1>1, <1>2
    <3> QED BY <3>1, <2>1, <1>1 DEF IsInjective
  <2> QED BY <2>1, <2>2, <2>3, <1>1
<1> QED BY <1>5, <1>6, <1>7
-----------------------------------------------------------------------------
(* The first layer: the list, and the walks of it. *)

LEMMA ListInvInit == Init => ListInv
<1> SUFFICES ASSUME Init PROVE ListInv
  OBVIOUS
<1> USE DEF Init
<1>1. Listed = {}
  BY DEF Listed, Range
<1>2. TypeOK
  <2>1. <<>> \in Seq(Child) /\ <<>> \in Seq(Proc \cup {None})
    OBVIOUS
  <2>2. 0 \in 0..Capacity
    BY LoaderAssumption
  <2> QED BY <2>1, <2>2 DEF TypeOK
<1>3. IsInjective(children)
  BY DEF IsInjective
<1> QED BY <1>1, <1>2, <1>3 DEF ListInv, SetupInv, HeldNodes, ExecuteInv

(* A step that leaves the list, the heap, the walk and jpl_execute() alone  *)
(* preserves the invariant if it preserves the types and the setup.         *)
LEMMA ListInvFrame ==
  ASSUME ListInv, TypeOK', SetupInv',
         UNCHANGED <<listVars, ctx, cur, nxt, epc, new>>,
         pc' = pc
  PROVE  ListInv'
<1>1. Listed' = Listed
  BY DEF listVars, Listed
<1> QED BY <1>1 DEF ListInv, HeldNodes, ExecuteInv, listVars, IsInjective

LEMMA ListInvStep == ListInv /\ [Next]_vars => ListInv'
<1> SUFFICES ASSUME ListInv, [Next]_vars PROVE ListInv'
  OBVIOUS
<1> USE DEF kernelVars, fieldVars, listVars, walkVars, executeVars, outputVars
<1>1. TypeOK /\ SetupInv /\ HeldNodes /\ ExecuteInv
  BY DEF ListInv
<1>2. children \in Seq(Child) /\ IsInjective(children) /\ Listed \subseteq Child
  BY <1>1 DEF TypeOK, HeldNodes, Listed, Range
<1>3. ASSUME NEW l \in Launch, ChildWrite(l) PROVE ListInv'
  <2>1. TypeOK' /\ SetupInv'
    BY <1>1, <1>3, LoaderAssumption DEF ChildWrite, TypeOK, SetupInv
  <2> QED BY <1>3, <2>1, ListInvFrame DEF ChildWrite
<1>4. ASSUME NEW q \in Proc, ChildStop(q) \/ ChildContinue(q) \/ ChildExit(q)
      PROVE  ListInv'
  <2>1. PICK s \in {"running", "stopped", "zombie"} :
          /\ proc' = [proc EXCEPT ![q] = s]
          /\ sigchld' = installed
          /\ UNCHANGED <<pidOf, outputVars, installed, listVars, fieldVars,
                         walkVars, executeVars, reaping, reported>>
    BY <1>4 DEF ChildStop, ChildContinue, ChildExit, RaiseSigchld
  <2>2. TypeOK' /\ SetupInv'
    BY <1>1, <2>1 DEF TypeOK, SetupInv
  <2> QED
    BY <2>1, <2>2, ListInvFrame
<1>5. ASSUME NEW f \in Foreign, ForkForeign(f) PROVE ListInv'
  <2>1. PICK p \in Pids :
          /\ proc' = [proc EXCEPT ![f] = "running"]
          /\ pidOf' = [pidOf EXCEPT ![f] = p]
    BY <1>5 DEF ForkForeign, Fork, FreePids
  <2>2. TypeOK' /\ SetupInv'
    BY <1>1, <1>5, <2>1 DEF ForkForeign, Fork, Proc, TypeOK, SetupInv
  <2> QED BY <1>5, <2>2, ListInvFrame DEF ForkForeign
<1>6. ASSUME HandlerEnter \/ HandlerReturn PROVE ListInv'
  <2>1. TypeOK' /\ SetupInv'
    BY <1>1, <1>6 DEF HandlerEnter, HandlerReturn, TypeOK, SetupInv
  <2> QED BY <1>6, <2>1, ListInvFrame DEF HandlerEnter, HandlerReturn
<1>7. ASSUME NEW q \in Proc, HandlerReap(q) PROVE ListInv'
  <2>1. TypeOK' /\ SetupInv'
    <3>1. /\ dead' \in [Child -> BOOLEAN]
          /\ exit_status' \in [Child -> Proc \cup {None}]
      <4>1. CASE UNCHANGED <<dead, exit_status>>
        BY <1>1, <4>1 DEF TypeOK
      <4>2. ASSUME NEW c \in Child,
                   dead' = [dead EXCEPT ![c] = TRUE],
                   exit_status' = [exit_status EXCEPT ![c] = q]
            PROVE  /\ dead' \in [Child -> BOOLEAN]
                   /\ exit_status' \in [Child -> Proc \cup {None}]
        BY <1>1, <4>2 DEF TypeOK
      <4>3. \A i \in DOMAIN children : children[i] \in Child
        BY <1>2
      <4> QED BY <1>7, <4>1, <4>2, <4>3 DEF HandlerReap
    <3>2. /\ proc' \in [Proc -> {"none", "running", "stopped", "zombie", "reaped"}]
          /\ pc' = pc \/ (pc = "handler_set" /\ pc' = "crashed")
      BY <1>1, <1>7 DEF HandlerReap, TypeOK
    <3> QED BY <1>1, <1>7, <3>1, <3>2 DEF HandlerReap, TypeOK, SetupInv
  <2>2. CASE pc = "handler_set"
    <3>1. Listed' = Listed
      BY <1>7 DEF HandlerReap, Listed
    <3> QED
      BY <1>1, <1>7, <2>1, <2>2, <3>1
      DEF HandlerReap, ListInv, HeldNodes, ExecuteInv, IsInjective
  <2>3. CASE pc # "handler_set"
    BY <1>7, <2>1, <2>3, ListInvFrame DEF HandlerReap
  <2> QED BY <2>2, <2>3
<1>8. ASSUME InitHandler \/ InitList PROVE ListInv'
  <2>1. TypeOK' /\ SetupInv'
    BY <1>1, <1>8 DEF InitHandler, InitList, TypeOK, SetupInv
  <2>2. children' = children /\ Listed' = Listed
    BY <1>1, <1>8 DEF InitHandler, InitList, SetupInv, Listed
  <2> QED
    BY <1>1, <1>8, <2>1, <2>2
    DEF InitHandler, InitList, ListInv, HeldNodes, ExecuteInv, IsInjective
<1>9. ASSUME NEW l \in Launch, ExecuteNoMemory(l) PROVE ListInv'
  <2>1. TypeOK' /\ SetupInv'
    BY <1>1, <1>9 DEF ExecuteNoMemory, ClientRuns, TypeOK, SetupInv
  <2> QED BY <1>9, <2>1, ListInvFrame DEF ExecuteNoMemory
<1>10. ASSUME NEW l \in Launch, NEW c \in Child, ExecuteLink(l, c)
       PROVE  ListInv'
  <2>1. c \notin Listed /\ children' = Append(children, c)
    BY <1>1, <1>10 DEF ExecuteLink, list_add_tail, HeldNodes
  <2>2. /\ children' \in Seq(Child)
        /\ IsInjective(children')
        /\ Listed' = Listed \cup {c}
    BY <1>2, <2>1, AppendUnlisted DEF Listed
  <2>3. TypeOK'
    BY <1>1, <1>10, <2>2, LoaderAssumption DEF ExecuteLink, TypeOK
  <2>4. SetupInv'
    BY <1>1, <1>10 DEF ExecuteLink, ClientRuns, SetupInv
  <2>5. HeldNodes'
    BY <1>1, <1>10, <2>2 DEF ExecuteLink, ClientRuns, HeldNodes
  <2>6. ExecuteInv'
    BY <1>1, <1>10, <2>1, <2>2, LoaderAssumption
    DEF ExecuteLink, ClientRuns, HeldNodes, ExecuteInv
  <2>7. \A d \in heap' : ctx'[d] \in Launch
    BY <1>1, <1>10 DEF ExecuteLink, ListInv, TypeOK
  <2> QED BY <2>3, <2>4, <2>5, <2>6, <2>7 DEF ListInv
<1>11. ASSUME ExecuteFork \/ ExecuteForkFails PROVE ListInv'
  <2>1. TypeOK' /\ SetupInv'
    <3>1. CASE ExecuteFork
      <4>1. PICK p \in Pids :
              /\ proc' = [proc EXCEPT ![ctx[new]] = "running"]
              /\ pidOf' = [pidOf EXCEPT ![ctx[new]] = p]
        BY <3>1 DEF ExecuteFork, Fork, FreePids
      <4>2. ctx[new] \in Proc
        BY <1>1, <3>1 DEF ExecuteFork, ExecuteInv, HeldNodes, ListInv, Proc
      <4>3. TypeOK'
        BY <1>1, <3>1, <4>1, <4>2 DEF ExecuteFork, Fork, TypeOK
      <4> QED BY <1>1, <3>1, <4>3 DEF ExecuteFork, Fork, SetupInv
    <3>2. CASE ExecuteForkFails
      BY <1>1, <3>2 DEF ExecuteForkFails, TypeOK, SetupInv
    <3> QED BY <1>11, <3>1, <3>2
  <2>2. Listed' = Listed
    BY <1>11 DEF ExecuteFork, ExecuteForkFails, Listed
  <2> QED
    BY <1>1, <1>11, <2>1, <2>2
    DEF ExecuteFork, ExecuteForkFails, ListInv, HeldNodes, ExecuteInv,
        IsInjective
<1>12. ASSUME ExecuteUndo PROVE ListInv'
  <2>1. PICK i \in DOMAIN children :
          children[i] = new /\ children' = RemoveAt(children, i)
    BY <1>12 DEF ExecuteUndo, list_del
  <2>2. /\ children' \in Seq(Child)
        /\ IsInjective(children')
        /\ Listed' = Listed \ {new}
    BY <1>2, <2>1, RemoveAtUnlists DEF Listed
  <2>3. TypeOK'
    BY <1>1, <1>12, <2>2 DEF ExecuteUndo, TypeOK
  <2>4. SetupInv'
    BY <1>1, <1>12 DEF ExecuteUndo, SetupInv, ExecuteInv
  <2>5. HeldNodes'
    BY <1>1, <1>12, <2>2 DEF ExecuteUndo, HeldNodes, ExecuteInv
  <2>6. ExecuteInv' /\ \A c \in heap' : ctx'[c] \in Launch
    BY <1>12 DEF ExecuteUndo, ExecuteInv, ListInv
  <2> QED BY <2>3, <2>4, <2>5, <2>6 DEF ListInv
<1>13. ASSUME ExecuteRecordPid PROVE ListInv'
  <2>1. ctx[new] \in Proc
    BY <1>1, <1>13 DEF ExecuteRecordPid, ListInv, HeldNodes, ExecuteInv, Proc
  <2>2. TypeOK' /\ SetupInv'
    BY <1>1, <1>13, <2>1 DEF ExecuteRecordPid, TypeOK, SetupInv, ExecuteInv
  <2>3. Listed' = Listed
    BY <1>13 DEF ExecuteRecordPid, Listed
  <2> QED
    BY <1>1, <1>13, <2>2, <2>3
    DEF ExecuteRecordPid, ListInv, HeldNodes, ExecuteInv, IsInjective
<1>14. ASSUME RunBegin \/ ReadChild \/ RunBury \/ Uninit \/ BurySkip \/ BuryEnd
       PROVE  ListInv'
  <2>1. Listed' = Listed /\ children' = children
    BY <1>14 DEF RunBegin, ReadChild, RunBury, Uninit, StartBury, BurySkip,
                 BuryEnd, Listed
  <2>2. epc = "none" /\ epc' = "none" /\ heap' = heap /\ ctx' = ctx
    BY <1>14 DEF RunBegin, ReadChild, RunBury, Uninit, StartBury, BurySkip,
                 BuryEnd, MainAt
  <2>3. HeldNodes'
    <3>1. ASSUME NEW node \in Listed \cup {ListHead}
          PROVE  /\ Succ(node) \in Listed \cup {ListHead}
                 /\ node # ListHead => Succ(node) # node
      BY <1>2, SuccOnRing
    <3>2. CASE RunBegin \/ ReadChild \/ BuryEnd
      BY <1>1, <2>1, <2>2, <3>1, <3>2 DEF RunBegin, ReadChild, ReadFull, ReadShort,
         BuryEnd, MainAt, HeldNodes, TypeOK
    <3>3. CASE RunBury \/ Uninit
      BY <1>1, <2>1, <2>2, <3>1, <3>3 DEF RunBury, Uninit, StartBury, MainAt,
         HeldNodes
    <3>4. CASE BurySkip
      BY <1>1, <2>1, <2>2, <3>1, <3>4 DEF BurySkip, Advance, MainAt, HeldNodes
    <3> QED BY <1>14, <3>2, <3>3, <3>4
  <2>4. TypeOK'
    <3>1. cur' \in Child \cup {ListHead} /\ nxt' \in Child \cup {ListHead}
      BY <1>2, <1>14, <2>1, <2>3 DEF RunBegin, ReadChild, RunBury, Uninit,
         StartBury, BurySkip, BuryEnd, HeldNodes, MainAt
    <3>2. deadAtRun' \subseteq Launch
      BY <1>1, <1>2, <1>14 DEF RunBegin, ReadChild, RunBury, Uninit, StartBury,
         BurySkip, BuryEnd, TypeOK, ListInv, HeldNodes
    <3>3. unread' \in [Launch -> 0..Capacity] /\ cutShort' \subseteq Launch
      <4>1. CASE ReadChild /\ outputVars' # outputVars
        <5>1. PICK l : l = ctx[cur] /\ (ReadFull(l) \/ ReadShort(l))
          BY <4>1 DEF ReadChild
        <5>2. l \in Launch /\ unread[l] \in 0..Capacity
          BY <1>1, <4>1, <5>1 DEF ReadChild, TypeOK, MainAt, HeldNodes, ListInv
        <5>3. /\ unread[l] = 0 \/ unread[l] - 1 \in 0..Capacity
              /\ 0 \in 0..Capacity
          BY <5>2, LoaderAssumption
        <5>4. PICK v \in 0..Capacity : unread' = [unread EXCEPT ![l] = v]
          BY <5>1, <5>3 DEF ReadFull, ReadShort
        <5> QED
          BY <1>1, <5>1, <5>2, <5>4 DEF ReadFull, ReadShort, TypeOK
      <4>2. CASE ~(ReadChild /\ outputVars' # outputVars)
        BY <1>1, <1>14, <4>2 DEF RunBegin, RunBury, Uninit, StartBury, BurySkip, BuryEnd, TypeOK
      <4> QED
        BY <4>1, <4>2
    <3> QED
      BY <1>1, <1>14, <3>1, <3>2, <3>3 DEF RunBegin, ReadChild, RunBury, Uninit,
         StartBury, BurySkip, BuryEnd, TypeOK
  <2>5. SetupInv'
    BY <1>1, <1>14 DEF RunBegin, ReadChild, RunBury, Uninit, StartBury,
       BurySkip, BuryEnd, MainAt, SetupInv, TypeOK
  <2> QED BY <2>2, <2>3, <2>4, <2>5 DEF ListInv, ExecuteInv
<1>15. ASSUME BuryDead PROVE ListInv'
  <2>1. PICK i \in DOMAIN children :
          children[i] = cur /\ children' = RemoveAt(children, i)
    BY <1>15 DEF BuryDead, list_del
  <2>2. /\ children' \in Seq(Child)
        /\ IsInjective(children')
        /\ Listed' = Listed \ {cur}
    BY <1>2, <2>1, RemoveAtUnlists DEF Listed
  <2>3. cur \in Listed /\ cur \in Child /\ nxt # cur
    BY <1>1, <1>2, <1>15 DEF BuryDead, MainAt, HeldNodes
  <2>4. TypeOK'
    <3>1. reported' \in [Launch -> Seq(Proc \cup {None})]
      <4> DEFINE T == Seq(Proc \cup {None})
                 r == Append(reported[ctx[cur]], exit_status[cur])
      <4>1. /\ ctx[cur] \in Launch
            /\ reported \in [Launch -> T]
            /\ exit_status[cur] \in Proc \cup {None}
        BY <1>1, <2>3 DEF TypeOK, ListInv, HeldNodes
      <4>2. r \in T
        BY <4>1
      <4>3. reported' = [reported EXCEPT ![ctx[cur]] = r]
        BY <1>15 DEF BuryDead
      <4> HIDE DEF T, r
      <4> QED BY <4>1, <4>2, <4>3 DEF T
    <3> QED BY <1>1, <1>15, <2>2, <3>1 DEF BuryDead, TypeOK
  <2>5. SetupInv'
    BY <1>1, <1>15 DEF BuryDead, MainAt, SetupInv
  <2>6. HeldNodes'
    BY <1>1, <1>15, <2>2, <2>3 DEF BuryDead, MainAt, HeldNodes
  <2> QED
    BY <1>15, <2>4, <2>5, <2>6 DEF BuryDead, MainAt, ListInv, ExecuteInv
<1>16. ASSUME BuryFree PROVE ListInv'
  <2>1. Listed' = Listed /\ children' = children
    BY <1>16 DEF BuryFree, Listed
  <2>2. /\ Succ(nxt) \in Listed \cup {ListHead}
        /\ nxt # ListHead => Succ(nxt) # nxt
    BY <1>1, <1>2, SuccOnRing DEF HeldNodes
  <2>3. TypeOK'
    BY <1>1, <1>2, <1>16, <2>2 DEF BuryFree, Advance, TypeOK
  <2>4. SetupInv'
    BY <1>1, <1>16 DEF BuryFree, MainAt, SetupInv
  <2>5. HeldNodes'
    BY <1>1, <1>16, <2>1, <2>2 DEF BuryFree, Advance, MainAt, HeldNodes
  <2> QED
    BY <1>16, <2>3, <2>4, <2>5 DEF BuryFree, MainAt, ListInv, ExecuteInv
<1>17. ASSUME UNCHANGED vars PROVE ListInv'
  <2>1. TypeOK' /\ SetupInv'
    BY <1>1, <1>17 DEF vars, TypeOK, SetupInv
  <2> QED BY <1>17, <2>1, ListInvFrame DEF vars
<1> QED
  BY <1>3, <1>4, <1>5, <1>6, <1>7, <1>8, <1>9, <1>10, <1>11, <1>12, <1>13,
     <1>14, <1>15, <1>16, <1>17
  DEF Next, Execute, Run, Handler, Environment

(* The types of loader.c's data hold in every reachable state: no field     *)
(* receives a poisoned pointer and no callback a foreign context, whatever  *)
(* the kernel does with pids.                                               *)
THEOREM TypeCorrect == Spec => []TypeOK
<1>1. Spec => []ListInv
  BY ListInvInit, ListInvStep, PTL DEF Spec
<1>2. ListInv => TypeOK
  BY DEF ListInv
<1> QED BY <1>1, <1>2, PTL

(* No walk of the list holds a struct that is off the list, and memory is   *)
(* allocated exactly as long as it is listed or being buried.               *)
THEOREM NoDanglingWalk == Spec => []WalkNeverDangles
<1>1. Spec => []ListInv
  BY ListInvInit, ListInvStep, PTL DEF Spec
<1>2. ListInv => WalkNeverDangles
  BY DEF ListInv, HeldNodes, WalkNeverDangles
<1> QED BY <1>1, <1>2, PTL
-----------------------------------------------------------------------------
(* The second layer: structs, launches and processes. *)

LEMMA LaunchInvInit == Init => LaunchInv
<1> SUFFICES ASSUME Init PROVE LaunchInv
  OBVIOUS
<1>1. Listed = {}
  BY DEF Init, Listed, Range
<1> QED
  BY <1>1, ListInvInit
  DEF Init, LaunchInv, CallInv, OwnerInv, SigchldNotLost, Proc

(* Every struct the launcher holds belongs to a launch. *)
LEMMA OwnersAreLaunches ==
  ASSUME ListInv
  PROVE  /\ \A c \in Listed : c \in Child /\ ctx[c] \in Launch
         /\ epc # "none" => new \in Listed /\ ctx[new] \in Launch
         /\ pc = "burying" /\ cur # ListHead => cur \in Listed
  BY DEF ListInv, HeldNodes, ExecuteInv, TypeOK

(* A step that neither launches, lists nor reports. *)
LEMMA LaunchFrame ==
  ASSUME ListInv, CallInv, OwnerInv,
         UNCHANGED <<children, ctx, epc, new, result, reported>>,
         \A l \in Launch : proc'[l] = "none" <=> proc[l] = "none"
  PROVE  CallInv' /\ OwnerInv'
<1>1. Listed' = Listed
  BY DEF Listed
<1>2. epc # "none" => ctx[new] \in Launch
  BY OwnersAreLaunches
<1>3. CallInv'
  BY <1>2 DEF CallInv, ListInv, TypeOK
<1>4. OwnerInv'
  BY <1>1 DEF OwnerInv, InProgress
<1> QED BY <1>3, <1>4

LEMMA LaunchInvStep == LaunchInv /\ [Next]_vars => LaunchInv'
<1> SUFFICES ASSUME LaunchInv, [Next]_vars PROVE LaunchInv'
  OBVIOUS
<1> USE DEF kernelVars, fieldVars, listVars, walkVars, executeVars, outputVars
<1>1. ListInv /\ CallInv /\ OwnerInv /\ SigchldNotLost
  BY DEF LaunchInv
<1>2. ListInv'
  BY <1>1, ListInvStep
<1>3. TypeOK /\ TypeOK' /\ SetupInv
  BY <1>1, <1>2 DEF ListInv
<1>4. /\ \A c \in Listed : c \in Child /\ ctx[c] \in Launch
      /\ epc # "none" => new \in Listed /\ ctx[new] \in Launch
      /\ pc = "burying" /\ cur # ListHead => cur \in Listed
  BY <1>1, OwnersAreLaunches
<1>5. ASSUME \/ \E l \in Launch : ChildWrite(l)
             \/ RunBegin \/ ReadChild \/ RunBury \/ Uninit \/ BurySkip \/ BuryEnd
             \/ BuryFree \/ InitHandler \/ InitList
             \/ UNCHANGED vars
      PROVE  LaunchInv'
  <2>1. UNCHANGED <<ctx, epc, new, result, reported, proc, sigchld, reaping>>
    BY <1>5 DEF ChildWrite, RunBegin, ReadChild, RunBury, Uninit, StartBury,
       BurySkip, BuryEnd, BuryFree, InitHandler, InitList, vars
  <2>2. children' = children
    BY <1>3, <1>5 DEF ChildWrite, RunBegin, ReadChild, RunBury, Uninit,
       StartBury, BurySkip, BuryEnd, BuryFree, InitHandler, InitList, SetupInv,
       vars
  <2>3. CallInv' /\ OwnerInv'
    BY <1>1, <2>1, <2>2, LaunchFrame
  <2> QED BY <1>1, <1>2, <2>1, <2>3 DEF LaunchInv, SigchldNotLost
<1>6. ASSUME NEW q \in Proc, ChildStop(q) \/ ChildContinue(q) \/ ChildExit(q)
      PROVE  LaunchInv'
  <2>1. PICK s \in {"running", "stopped", "zombie"} :
          /\ proc[q] # "none"
          /\ proc' = [proc EXCEPT ![q] = s]
          /\ sigchld' = installed
          /\ UNCHANGED <<children, ctx, epc, new, result, reported, reaping>>
    BY <1>6 DEF ChildStop, ChildContinue, ChildExit, RaiseSigchld
  <2>2. \A l \in Launch : proc'[l] = "none" <=> proc[l] = "none"
    BY <1>3, <2>1 DEF TypeOK, Proc
  <2>3. SigchldNotLost'
    <3> SUFFICES ASSUME NEW l \in Launch, proc'[l] = "zombie"
                 PROVE  sigchld' \/ reaping'
      BY DEF SigchldNotLost
    <3>1. installed
      BY <1>1, <1>3, <2>2 DEF SetupInv, CallInv
    <3> QED BY <2>1, <3>1
  <2> QED BY <1>1, <1>2, <2>1, <2>2, <2>3, LaunchFrame DEF LaunchInv
<1>7. ASSUME NEW f \in Foreign, ForkForeign(f) PROVE LaunchInv'
  <2>1. \A l \in Launch : proc'[l] = proc[l]
    BY <1>3, <1>7, LoaderAssumption DEF ForkForeign, Fork, TypeOK, Proc
  <2>2. CallInv' /\ OwnerInv'
    BY <1>1, <1>7, <2>1, LaunchFrame DEF ForkForeign
  <2> QED
    BY <1>1, <1>2, <1>7, <2>1, <2>2
    DEF ForkForeign, Fork, LaunchInv, SigchldNotLost
<1>8. ASSUME HandlerEnter \/ HandlerReturn PROVE LaunchInv'
  <2>1. CallInv' /\ OwnerInv'
    BY <1>1, <1>8, LaunchFrame DEF HandlerEnter, HandlerReturn
  <2>2. SigchldNotLost'
    BY <1>1, <1>8 DEF HandlerEnter, HandlerReturn, SigchldNotLost, Proc
  <2> QED BY <1>2, <2>1, <2>2 DEF LaunchInv
<1>9. ASSUME NEW q \in Proc, HandlerReap(q) PROVE LaunchInv'
  <2>1. \A l \in Launch : proc'[l] = "none" <=> proc[l] = "none"
    BY <1>3, <1>9 DEF HandlerReap, TypeOK, Proc
  <2>2. CallInv' /\ OwnerInv'
    BY <1>1, <1>9, <2>1, LaunchFrame DEF HandlerReap
  <2>3. reaping'
    BY <1>9 DEF HandlerReap
  <2> QED BY <1>2, <2>2, <2>3 DEF LaunchInv, SigchldNotLost
<1>10. ASSUME NEW l \in Launch, ExecuteNoMemory(l) PROVE LaunchInv'
  <2>1. Listed' = Listed
    BY <1>10 DEF ExecuteNoMemory, Listed
  <2>2. CallInv'
    BY <1>1, <1>3, <1>4, <1>10 DEF ExecuteNoMemory, ClientRuns, CallInv, TypeOK
  <2>3. OwnerInv'
    BY <1>1, <1>3, <1>4, <1>10, <2>1
    DEF ExecuteNoMemory, ClientRuns, OwnerInv, InProgress, TypeOK
  <2> QED
    BY <1>1, <1>2, <1>10, <2>2, <2>3
    DEF ExecuteNoMemory, LaunchInv, SigchldNotLost
<1>11. ASSUME NEW l \in Launch, NEW c \in Child, ExecuteLink(l, c)
       PROVE  LaunchInv'
  <2>1. c \notin Listed
    BY <1>1, <1>11 DEF ExecuteLink, ListInv, HeldNodes
  <2>2. Listed' = Listed \cup {c}
    BY <1>1, <1>3, <1>11, <2>1, AppendUnlisted
    DEF ExecuteLink, list_add_tail, Listed, TypeOK, ListInv, HeldNodes
  <2>3. /\ \A d \in Listed : ctx'[d] = ctx[d] /\ ctx[d] # l
        /\ ctx'[c] = l
    BY <1>1, <1>3, <1>4, <1>11, <2>1
    DEF ExecuteLink, ClientRuns, OwnerInv, InProgress, TypeOK
  <2>4. CallInv'
    BY <1>1, <1>3, <1>11, <2>3 DEF ExecuteLink, ClientRuns, CallInv, TypeOK
  <2>5. OwnerInv'
    <3>1. \A d, e \in Listed' : ctx'[d] = ctx'[e] => d = e
      BY <1>1, <2>2, <2>3 DEF OwnerInv
    <3>2. \A d \in Listed' :
            /\ ~InProgress(d)' => result'[ctx'[d]] = "ok"
            /\ reported'[ctx'[d]] = <<>>
      BY <1>1, <1>3, <1>4, <1>11, <2>1, <2>2, <2>3
      DEF ExecuteLink, ClientRuns, OwnerInv, CallInv, InProgress, TypeOK
    <3>3. ASSUME NEW k \in Launch, result'[k] = "ok", reported'[k] = <<>>
          PROVE  \E d \in Listed' : ctx'[d] = k
      <4>1. result[k] = "ok" /\ reported[k] = <<>>
        BY <1>3, <1>11, <3>3 DEF ExecuteLink, TypeOK
      <4>2. PICK d \in Listed : ctx[d] = k
        BY <1>1, <4>1 DEF OwnerInv
      <4> QED BY <2>2, <2>3, <4>2
    <3> QED BY <3>1, <3>2, <3>3 DEF OwnerInv
  <2> QED
    BY <1>1, <1>2, <1>11, <2>4, <2>5 DEF ExecuteLink, LaunchInv, SigchldNotLost
<1>12. ASSUME ExecuteFork \/ ExecuteForkFails PROVE LaunchInv'
  <2>1. Listed' = Listed
    BY <1>12 DEF ExecuteFork, ExecuteForkFails, Listed
  <2>2. \A l \in Launch : l # ctx[new] => proc'[l] = proc[l]
    BY <1>3, <1>12 DEF ExecuteFork, ExecuteForkFails, Fork, TypeOK, Proc
  <2>3. /\ ExecuteFork => proc'[ctx[new]] = "running"
        /\ ExecuteForkFails => proc'[ctx[new]] = proc[ctx[new]]
    BY <1>3, <1>4, <1>12
    DEF ExecuteFork, ExecuteForkFails, Fork, TypeOK, Proc
  <2>4. CallInv'
    BY <1>1, <1>4, <1>12, <2>2, <2>3 DEF ExecuteFork, ExecuteForkFails, CallInv
  <2>5. OwnerInv'
    BY <1>1, <1>12, <2>1
    DEF ExecuteFork, ExecuteForkFails, OwnerInv, InProgress
  <2>6. SigchldNotLost'
    BY <1>1, <1>12, <2>2, <2>3
    DEF ExecuteFork, ExecuteForkFails, Fork, SigchldNotLost
  <2> QED BY <1>2, <2>4, <2>5, <2>6 DEF LaunchInv
<1>13. ASSUME ExecuteUndo PROVE LaunchInv'
  <2>1. PICK i \in DOMAIN children :
          children[i] = new /\ children' = RemoveAt(children, i)
    BY <1>13 DEF ExecuteUndo, list_del
  <2>2. Listed' = Listed \ {new}
    BY <1>1, <1>3, <2>1, RemoveAtUnlists DEF Listed, ListInv, HeldNodes, TypeOK
  <2>3. ctx[new] \in Launch /\ new \in Listed
    BY <1>4, <1>13 DEF ExecuteUndo
  <2>4. CallInv'
    BY <1>1, <1>3, <1>13, <2>3 DEF ExecuteUndo, CallInv, TypeOK
  <2>5. OwnerInv'
    BY <1>1, <1>3, <1>4, <1>13, <2>2, <2>3
    DEF ExecuteUndo, OwnerInv, InProgress, TypeOK
  <2> QED
    BY <1>1, <1>2, <1>13, <2>4, <2>5 DEF ExecuteUndo, LaunchInv, SigchldNotLost
<1>14. ASSUME ExecuteRecordPid PROVE LaunchInv'
  <2>1. Listed' = Listed
    BY <1>14 DEF ExecuteRecordPid, Listed
  <2>2. ctx[new] \in Launch /\ new \in Listed
    BY <1>4, <1>14 DEF ExecuteRecordPid
  <2>3. CallInv'
    BY <1>1, <1>3, <1>14, <2>2 DEF ExecuteRecordPid, CallInv, TypeOK
  <2>4. OwnerInv'
    BY <1>1, <1>3, <1>4, <1>14, <2>1, <2>2
    DEF ExecuteRecordPid, OwnerInv, InProgress, TypeOK
  <2> QED
    BY <1>1, <1>2, <1>14, <2>3, <2>4
    DEF ExecuteRecordPid, LaunchInv, SigchldNotLost
<1>15. ASSUME BuryDead PROVE LaunchInv'
  <2>1. PICK i \in DOMAIN children :
          children[i] = cur /\ children' = RemoveAt(children, i)
    BY <1>15 DEF BuryDead, list_del
  <2>2. Listed' = Listed \ {cur}
    BY <1>1, <1>3, <2>1, RemoveAtUnlists DEF Listed, ListInv, HeldNodes, TypeOK
  <2>3. cur \in Listed /\ ctx[cur] \in Launch /\ epc = "none"
    BY <1>4, <1>15 DEF BuryDead, MainAt
  <2>4. /\ \A l \in Launch : l # ctx[cur] => reported'[l] = reported[l]
        /\ reported'[ctx[cur]] # <<>>
    <3> DEFINE r == Append(reported[ctx[cur]], exit_status[cur])
    <3>1. r # <<>>
      <4>1. /\ reported[ctx[cur]] \in Seq(Proc \cup {None})
            /\ exit_status[cur] \in Proc \cup {None}
        BY <1>3, <1>4, <2>3 DEF TypeOK
      <4> QED BY <4>1
    <3>2. reported' = [reported EXCEPT ![ctx[cur]] = r]
      BY <1>15 DEF BuryDead
    <3> HIDE DEF r
    <3> QED BY <1>3, <2>3, <3>1, <3>2 DEF TypeOK
  <2>5. result[ctx[cur]] = "ok"
    BY <1>1, <2>3 DEF OwnerInv, InProgress
  <2>6. CallInv'
    BY <1>1, <1>15, <2>3, <2>4, <2>5 DEF BuryDead, CallInv
  <2>7. OwnerInv'
    BY <1>1, <1>4, <1>15, <2>2, <2>3, <2>4 DEF BuryDead, OwnerInv, InProgress
  <2> QED
    BY <1>1, <1>2, <1>15, <2>6, <2>7 DEF BuryDead, LaunchInv, SigchldNotLost
<1> QED
  BY <1>5, <1>6, <1>7, <1>8, <1>9, <1>10, <1>11, <1>12, <1>13, <1>14, <1>15
  DEF Next, Execute, Run, Handler, Environment

(* SIGCHLD is not queued, yet no exited child of the launcher waits for a   *)
(* signal that will not come: the loop of the handler leaves no zombie.     *)
THEOREM NoSigchldLost == Spec => []SigchldNotLost
<1>1. Spec => []LaunchInv
  BY LaunchInvInit, LaunchInvStep, PTL DEF Spec
<1>2. LaunchInv => SigchldNotLost
  BY DEF LaunchInv
<1> QED BY <1>1, <1>2, PTL
-----------------------------------------------------------------------------
(* The third layer: pids. *)

LEMMA PidInvInit == Init => PidInv
<1> SUFFICES ASSUME Init PROVE PidInv
  OBVIOUS
<1>1. Listed = {}
  BY DEF Init, Listed, Range
<1> QED
  BY <1>1 DEF Init, PidInv, KernelPidInv, StalePid, ReportedOnceAfterExit, Proc

(* Without pid reuse a new process gets a pid no process ever had. *)
LEMMA ForkFresh ==
  ASSUME PidsDistinct, TypeOK, KernelPidInv, NEW q \in Proc, Fork(q),
         proc[q] = "none"
  PROVE  /\ KernelPidInv'
         /\ \A p \in Proc : p # q => proc'[p] = proc[p] /\ pidOf'[p] = pidOf[p]
         /\ proc'[q] = "running"
<1>1. PICK n \in Pids :
        /\ \A p \in Proc : pidOf[p] # n
        /\ proc' = [proc EXCEPT ![q] = "running"]
        /\ pidOf' = [pidOf EXCEPT ![q] = n]
  BY DEF PidsDistinct, Fork, FreePids
<1>2. n # None
  BY LoaderAssumption
<1>3. /\ \A p \in Proc : p # q => proc'[p] = proc[p] /\ pidOf'[p] = pidOf[p]
      /\ proc'[q] = "running" /\ pidOf'[q] = n
  BY <1>1 DEF TypeOK
<1>4. KernelPidInv'
  BY <1>1, <1>2, <1>3 DEF KernelPidInv
<1> QED BY <1>3, <1>4

(* A step that leaves the structs on the list, their fields and the calls   *)
(* alone, and moves no process back from the grave.                         *)
LEMMA PidFrame ==
  ASSUME PidInv, TypeOK, KernelPidInv',
         \A c \in Listed : ctx[c] \in Launch,
         UNCHANGED <<children, fieldVars, epc, new, result, reported>>,
         \A p \in Proc : proc[p] # "none" => pidOf'[p] = pidOf[p],
         \A p \in Proc : proc[p] = "reaped" => proc'[p] = "reaped",
         \A c \in Listed : ~InProgress(c) => proc[ctx[c]] # "none"
  PROVE  PidInv'
<1> USE DEF fieldVars
<1>1. Listed' = Listed
  BY DEF Listed
<1>2. \A c \in Child : StalePid(c) => StalePid(c)'
  <2> SUFFICES ASSUME NEW c \in Child, StalePid(c), pid[c] # None
               PROVE  StalePid(c)'
    BY DEF StalePid
  <2>1. PICK q \in Proc : pidOf[q] = pid[c] /\ proc[q] = "reaped"
    BY DEF StalePid
  <2>2. pidOf'[q] = pid'[c] /\ proc'[q] = "reaped"
    BY <2>1
  <2> QED BY <2>2 DEF StalePid
<1>3. \A c \in Child : c \notin Listed' \/ InProgress(c)' => StalePid(c)'
  BY <1>1, <1>2 DEF PidInv, InProgress
<1>4. \A c \in Listed' : ~InProgress(c)' => pid'[c] = pidOf'[ctx'[c]]
  BY <1>1 DEF PidInv, InProgress, Proc
<1>5. \A c \in Listed' : dead'[c] =>
        /\ ~InProgress(c)'
        /\ proc'[ctx'[c]] = "reaped"
        /\ exit_status'[c] = ctx'[c]
  BY <1>1 DEF PidInv, InProgress, Proc
<1>6. ReportedOnceAfterExit'
  BY DEF PidInv, ReportedOnceAfterExit, Proc
<1> QED BY <1>3, <1>4, <1>5, <1>6 DEF PidInv

LEMMA PidInvStep == PidsDistinct /\ IInv /\ [Next]_vars => PidInv'
<1> SUFFICES ASSUME PidsDistinct, IInv, [Next]_vars PROVE PidInv'
  OBVIOUS
<1> USE DEF kernelVars, listVars, walkVars, executeVars, outputVars
<1>1. ListInv /\ CallInv /\ OwnerInv /\ PidInv /\ TypeOK
  BY DEF IInv, LaunchInv, ListInv
<1>2. ListInv' /\ TypeOK'
  <2>1. ListInv'
    BY <1>1, ListInvStep
  <2> QED BY <2>1 DEF ListInv
<1>3. /\ \A c \in Listed : c \in Child /\ ctx[c] \in Launch
      /\ epc # "none" => new \in Listed /\ ctx[new] \in Launch
  BY <1>1, OwnersAreLaunches
<1>4. \A c \in Listed : ~InProgress(c) => proc[ctx[c]] # "none"
  BY <1>1, <1>3 DEF OwnerInv, CallInv
<1>5. KernelPidInv
  BY <1>1 DEF PidInv
<1>6. ASSUME \/ \E l \in Launch : ChildWrite(l)
             \/ RunBegin \/ ReadChild \/ RunBury \/ Uninit \/ BurySkip \/ BuryEnd
             \/ BuryFree \/ InitHandler \/ InitList
             \/ HandlerEnter \/ HandlerReturn
             \/ UNCHANGED vars
      PROVE  PidInv'
  <2>1. UNCHANGED <<fieldVars, epc, new, result, reported, proc, pidOf>>
    BY <1>6 DEF ChildWrite, RunBegin, ReadChild, RunBury, Uninit, StartBury,
       BurySkip, BuryEnd, BuryFree, InitHandler, InitList, HandlerEnter,
       HandlerReturn, vars
  <2>2. children' = children
    BY <1>1, <1>6 DEF ChildWrite, RunBegin, ReadChild, RunBury, Uninit,
       StartBury, BurySkip, BuryEnd, BuryFree, InitHandler, InitList,
       HandlerEnter, HandlerReturn, ListInv, SetupInv, vars
  <2>3. KernelPidInv'
    BY <1>5, <2>1 DEF KernelPidInv
  <2> QED BY <1>1, <1>3, <1>4, <2>1, <2>2, <2>3, PidFrame
<1>7. ASSUME NEW q \in Proc, ChildStop(q) \/ ChildContinue(q) \/ ChildExit(q)
      PROVE  PidInv'
  <2>1. PICK s \in {"running", "stopped", "zombie"} :
          /\ proc[q] \in {"running", "stopped"}
          /\ proc' = [proc EXCEPT ![q] = s]
          /\ UNCHANGED <<pidOf, children, fieldVars, epc, new, result, reported>>
    BY <1>7 DEF ChildStop, ChildContinue, ChildExit
  <2>2. \A p \in Proc : /\ proc'[p] = "none" <=> proc[p] = "none"
                        /\ proc[p] = "reaped" => proc'[p] = "reaped"
    BY <1>1, <2>1 DEF TypeOK
  <2>3. KernelPidInv'
    BY <1>5, <2>1, <2>2 DEF KernelPidInv
  <2> QED BY <1>1, <1>3, <1>4, <2>1, <2>2, <2>3, PidFrame
<1>8. ASSUME NEW f \in Foreign, ForkForeign(f) PROVE PidInv'
  <2>1. f \in Proc /\ Fork(f) /\ proc[f] = "none"
    BY <1>8 DEF ForkForeign, Proc
  <2>2. /\ KernelPidInv'
        /\ \A p \in Proc : p # f => proc'[p] = proc[p] /\ pidOf'[p] = pidOf[p]
    BY <1>1, <1>5, <2>1, ForkFresh
  <2>3. UNCHANGED <<children, fieldVars, epc, new, result, reported>>
    BY <1>8 DEF ForkForeign
  <2> QED BY <1>1, <1>3, <1>4, <2>1, <2>2, <2>3, PidFrame
<1>9. ASSUME NEW l \in Launch, ExecuteNoMemory(l) PROVE PidInv'
  <2>1. Listed' = Listed
    BY <1>9 DEF ExecuteNoMemory, Listed
  <2> QED
    BY <1>1, <1>9, <2>1
    DEF ExecuteNoMemory, fieldVars, PidInv, KernelPidInv, StalePid, InProgress,
        ReportedOnceAfterExit, TypeOK
<1>10. ASSUME NEW l \in Launch, NEW c \in Child, ExecuteLink(l, c)
       PROVE  PidInv'
  <2>1. c \notin Listed
    BY <1>1, <1>10 DEF ExecuteLink, ListInv, HeldNodes
  <2>2. Listed' = Listed \cup {c}
    BY <1>1, <1>10, <2>1, AppendUnlisted
    DEF ExecuteLink, list_add_tail, Listed, TypeOK, ListInv, HeldNodes
  <2>3. pid' = pid
    BY <1>1, <1>10 DEF ExecuteLink, PidsDistinct, TypeOK
  <2>4. /\ \A d \in Listed : ctx'[d] = ctx[d] /\ dead'[d] = dead[d]
        /\ ~dead'[c]
    BY <1>1, <1>3, <1>10, <2>1 DEF ExecuteLink, TypeOK
  <2>5. \A d \in Child : InProgress(d)' <=> d = c
    BY <1>10 DEF ExecuteLink, InProgress
  <2>6. /\ \A d \in Listed : ~InProgress(d)
        /\ UNCHANGED <<proc, pidOf, exit_status, reported>>
    BY <1>10 DEF ExecuteLink, ClientRuns, InProgress
  <2>7. KernelPidInv' /\ \A d \in Child : StalePid(d)' <=> StalePid(d)
    BY <1>5, <2>3, <2>6 DEF KernelPidInv, StalePid
  <2>8. ReportedOnceAfterExit'
    BY <1>1, <1>10, <2>6 DEF ExecuteLink, PidInv, ReportedOnceAfterExit, TypeOK
  <2> QED
    BY <1>1, <1>3, <2>1, <2>2, <2>3, <2>4, <2>5, <2>6, <2>7, <2>8 DEF PidInv
<1>11. ASSUME ExecuteForkFails PROVE PidInv'
  <2>1. Listed' = Listed
    BY <1>11 DEF ExecuteForkFails, Listed
  <2> QED
    BY <1>1, <1>11, <2>1
    DEF ExecuteForkFails, fieldVars, PidInv, KernelPidInv, StalePid, InProgress,
        ReportedOnceAfterExit
<1>12. ASSUME ExecuteFork PROVE PidInv'
  <2>1. /\ Fork(ctx[new]) /\ ctx[new] \in Proc /\ proc[ctx[new]] = "none"
        /\ new \in Listed /\ epc = "linked" /\ epc' = "forked"
    BY <1>1, <1>3, <1>12 DEF ExecuteFork, CallInv, Proc
  <2>2. /\ KernelPidInv'
        /\ \A p \in Proc :
             p # ctx[new] => proc'[p] = proc[p] /\ pidOf'[p] = pidOf[p]
    BY <1>1, <1>5, <2>1, ForkFresh
  <2>3. UNCHANGED <<children, fieldVars, new, result, reported>>
    BY <1>12 DEF ExecuteFork
  <2>4. Listed' = Listed /\ \A c \in Child : InProgress(c)' <=> InProgress(c)
    BY <2>1, <2>3 DEF Listed, InProgress
  <2>5. ASSUME NEW c \in Child, StalePid(c) PROVE StalePid(c)'
    <3> SUFFICES ASSUME pid[c] # None PROVE StalePid(c)'
      BY <2>3 DEF StalePid, fieldVars
    <3>1. PICK q \in Proc : pidOf[q] = pid[c] /\ proc[q] = "reaped"
      BY <2>5 DEF StalePid
    <3>2. pidOf'[q] = pid'[c] /\ proc'[q] = "reaped"
      BY <2>1, <2>2, <2>3, <3>1 DEF fieldVars
    <3> QED BY <3>2 DEF StalePid
  <2>6. \A c \in Listed : ~InProgress(c) => ctx[c] # ctx[new]
    BY <1>1, <2>1 DEF OwnerInv, InProgress
  <2>7. \A c \in Listed' : ~InProgress(c)' => pid'[c] = pidOf'[ctx'[c]]
    BY <1>1, <1>3, <2>2, <2>3, <2>4, <2>6 DEF PidInv, Proc, fieldVars
  <2>8. \A c \in Listed' : dead'[c] =>
          /\ ~InProgress(c)'
          /\ proc'[ctx'[c]] = "reaped"
          /\ exit_status'[c] = ctx'[c]
    BY <1>1, <1>3, <2>2, <2>3, <2>4, <2>6 DEF PidInv, Proc, fieldVars
  <2>9. ReportedOnceAfterExit'
    BY <1>1, <2>1, <2>2, <2>3 DEF PidInv, ReportedOnceAfterExit, Proc
  <2> QED BY <1>1, <2>2, <2>4, <2>5, <2>7, <2>8, <2>9 DEF PidInv
<1>13. ASSUME ExecuteUndo PROVE PidInv'
  <2>1. PICK i \in DOMAIN children :
          children[i] = new /\ children' = RemoveAt(children, i)
    BY <1>13 DEF ExecuteUndo, list_del
  <2>2. Listed' = Listed \ {new}
    BY <1>1, <2>1, RemoveAtUnlists DEF Listed, ListInv, HeldNodes, TypeOK
  <2>3. /\ \A c \in Child : InProgress(c) <=> c = new
        /\ \A c \in Child : ~InProgress(c)'
        /\ UNCHANGED <<proc, pidOf, fieldVars, reported>>
        /\ new \in Listed /\ ctx[new] \in Launch
    BY <1>3, <1>13 DEF ExecuteUndo, InProgress
  <2>4. KernelPidInv' /\ \A c \in Child : StalePid(c)' <=> StalePid(c)
    BY <1>5, <2>3 DEF KernelPidInv, StalePid, fieldVars
  <2>5. ReportedOnceAfterExit'
    <3>1. \A l \in Launch : result[l] = "ok" => result'[l] = "ok"
      BY <1>1, <1>13, <2>3 DEF ExecuteUndo, CallInv, TypeOK
    <3> QED BY <1>1, <2>3, <3>1 DEF PidInv, ReportedOnceAfterExit
  <2> QED BY <1>1, <1>3, <2>2, <2>3, <2>4, <2>5 DEF PidInv, fieldVars
<1>14. ASSUME ExecuteRecordPid PROVE PidInv'
  <2>1. Listed' = Listed
    BY <1>14 DEF ExecuteRecordPid, Listed
  <2>2. /\ \A c \in Child : InProgress(c) <=> c = new
        /\ \A c \in Child : ~InProgress(c)'
        /\ UNCHANGED <<proc, pidOf, ctx, dead, exit_status, reported>>
        /\ new \in Listed /\ new \in Child /\ ctx[new] \in Launch
    BY <1>3, <1>14 DEF ExecuteRecordPid, InProgress
  <2>3. /\ pid'[new] = pidOf[ctx[new]]
        /\ \A c \in Child : c # new => pid'[c] = pid[c]
    BY <1>1, <1>14, <2>2 DEF ExecuteRecordPid, TypeOK
  <2>4. KernelPidInv'
    BY <1>5, <2>2 DEF KernelPidInv
  <2>5. \A c \in Child : c # new => (StalePid(c)' <=> StalePid(c))
    BY <2>2, <2>3 DEF StalePid
  <2>6. ReportedOnceAfterExit'
    <3>1. \A l \in Launch : result[l] = "ok" => result'[l] = "ok"
      BY <1>1, <1>14, <2>2 DEF ExecuteRecordPid, TypeOK
    <3> QED BY <1>1, <2>2, <3>1 DEF PidInv, ReportedOnceAfterExit
  <2> QED BY <1>1, <1>3, <2>1, <2>2, <2>3, <2>4, <2>5, <2>6 DEF PidInv
<1>15. ASSUME NEW q \in Proc, HandlerReap(q) PROVE PidInv'
  <2>1. /\ proc[q] = "zombie" /\ proc'[q] = "reaped"
        /\ \A p \in Proc : p # q => proc'[p] = proc[p]
        /\ UNCHANGED <<pidOf, children, ctx, pid, epc, new, result, reported>>
    BY <1>1, <1>15 DEF HandlerReap, TypeOK
  <2>2. Listed' = Listed /\ \A c \in Child : InProgress(c)' <=> InProgress(c)
    BY <2>1 DEF Listed, InProgress
  <2>3. KernelPidInv'
    BY <1>5, <2>1 DEF KernelPidInv
  <2>4. ASSUME NEW c \in Child, StalePid(c) PROVE StalePid(c)'
    <3> SUFFICES ASSUME pid[c] # None PROVE StalePid(c)'
      BY <2>1 DEF StalePid
    <3>1. PICK p \in Proc : pidOf[p] = pid[c] /\ proc[p] = "reaped"
      BY <2>4 DEF StalePid
    <3>2. pidOf'[p] = pid'[c] /\ proc'[p] = "reaped"
      BY <2>1, <3>1
    <3> QED BY <3>2 DEF StalePid
  <2>5. ReportedOnceAfterExit'
    BY <1>1, <2>1 DEF PidInv, ReportedOnceAfterExit, Proc
  (* The struct the handler finds is the one of the process it reaped.      *)
  <2>6. ASSUME NEW c \in Listed, pid[c] = pidOf[q]
        PROVE  ~InProgress(c) /\ ctx[c] = q
    <3>1. c \in Child /\ pidOf[q] # None
      BY <1>3, <1>5, <2>1 DEF KernelPidInv
    <3>2. ~StalePid(c)
      BY <1>5, <2>1, <2>6, <3>1 DEF StalePid, KernelPidInv
    <3>3. ~InProgress(c)
      BY <1>1, <3>1, <3>2 DEF PidInv
    <3>4. pidOf[ctx[c]] = pidOf[q] /\ ctx[c] \in Proc
      BY <1>1, <1>3, <2>6, <3>3 DEF PidInv, Proc
    <3> QED BY <1>5, <3>1, <3>3, <3>4 DEF KernelPidInv
  <2>7. ASSUME NEW c \in Listed, dead'[c]
        PROVE  /\ ~InProgress(c)
               /\ proc'[ctx[c]] = "reaped"
               /\ exit_status'[c] = ctx[c]
    <3>1. CASE dead'[c] = dead[c] /\ exit_status'[c] = exit_status[c]
      BY <1>1, <1>3, <2>1, <2>7, <3>1 DEF PidInv, Proc
    <3>2. CASE ~(dead'[c] = dead[c] /\ exit_status'[c] = exit_status[c])
      <4>1. PICK i \in DOMAIN children :
              /\ pid[children[i]] = pidOf[q]
              /\ dead' = [dead EXCEPT ![children[i]] = TRUE]
              /\ exit_status' = [exit_status EXCEPT ![children[i]] = q]
        BY <1>15, <3>2 DEF HandlerReap, IsFirstWithPid
      <4>2. c = children[i] /\ exit_status'[c] = q
        BY <1>1, <1>3, <3>2, <4>1 DEF TypeOK
      <4> QED BY <2>1, <2>6, <4>1, <4>2
    <3> QED BY <3>1, <3>2
  <2> QED
    BY <1>1, <1>3, <2>1, <2>2, <2>3, <2>4, <2>5, <2>7 DEF PidInv
<1>16. ASSUME BuryDead PROVE PidInv'
  <2>1. PICK i \in DOMAIN children :
          children[i] = cur /\ children' = RemoveAt(children, i)
    BY <1>16 DEF BuryDead, list_del
  <2>2. Listed' = Listed \ {cur}
    BY <1>1, <2>1, RemoveAtUnlists DEF Listed, ListInv, HeldNodes, TypeOK
  <2>3. /\ cur \in Listed /\ cur \in Child /\ ctx[cur] \in Launch /\ dead[cur]
        /\ \A c \in Child : ~InProgress(c) /\ ~InProgress(c)'
        /\ UNCHANGED <<proc, pidOf, fieldVars, result>>
    BY <1>1, <1>3, <1>16, OwnersAreLaunches DEF BuryDead, MainAt, InProgress
  <2>4. KernelPidInv' /\ \A c \in Child : StalePid(c)' <=> StalePid(c)
    BY <1>5, <2>3 DEF KernelPidInv, StalePid, fieldVars
  <2>5. /\ pid[cur] = pidOf[ctx[cur]]
        /\ proc[ctx[cur]] = "reaped"
        /\ exit_status[cur] = ctx[cur]
        /\ result[ctx[cur]] = "ok"
        /\ reported[ctx[cur]] = <<>>
    BY <1>1, <2>3 DEF PidInv, OwnerInv
  <2>6. StalePid(cur)
    BY <2>3, <2>5 DEF StalePid, Proc
  <2>7. ReportedOnceAfterExit'
    <3>1. /\ reported'[ctx[cur]] = <<ctx[cur]>>
          /\ \A l \in Launch : l # ctx[cur] => reported'[l] = reported[l]
      BY <1>1, <1>16, <2>3, <2>5 DEF BuryDead, TypeOK
    <3> QED BY <1>1, <2>3, <2>5, <3>1, ZenonT(30) DEF PidInv, ReportedOnceAfterExit
  <2> QED
    BY <1>1, <1>3, <2>2, <2>3, <2>4, <2>6, <2>7 DEF PidInv, fieldVars
<1> QED
  BY <1>6, <1>7, <1>8, <1>9, <1>10, <1>11, <1>12, <1>13, <1>14, <1>15, <1>16
  DEF Next, Execute, Run, Handler, Environment

(* Under the assumption on pids the whole invariant holds. *)
THEOREM Inductive == PidsDistinct => (Spec => []IInv)
<1> SUFFICES ASSUME PidsDistinct PROVE Spec => []IInv
  OBVIOUS
<1>1. Init => IInv
  BY LaunchInvInit, PidInvInit DEF IInv
<1>2. IInv /\ [Next]_vars => IInv'
  BY LaunchInvStep, PidInvStep DEF IInv
<1> QED BY <1>1, <1>2, PTL DEF Spec

(* As long as pids are not reused, on_child_exit is called at most once for *)
(* a launch, with the exit status of its own process, after that process is *)
(* gone and jpl_execute() has returned.                                     *)
THEOREM ReportedOnce == PidsDistinct => (Spec => []ReportedOnceAfterExit)
<1> SUFFICES ASSUME PidsDistinct PROVE Spec => []ReportedOnceAfterExit
  OBVIOUS
<1>1. Spec => []IInv
  BY Inductive
<1>2. IInv => ReportedOnceAfterExit
  BY DEF IInv, PidInv
<1> QED BY <1>1, <1>2, PTL

(* And a process that was launched and not reported is on the list, marked  *)
(* dead only if it is: no living child is buried, no unreported one lost.   *)
THEOREM UnreportedIsListed == PidsDistinct => (Spec => []UnreportedListed)
<1> SUFFICES ASSUME PidsDistinct PROVE Spec => []UnreportedListed
  OBVIOUS
<1>1. Spec => []IInv
  BY Inductive
<1>2. IInv => UnreportedListed
  <2> SUFFICES ASSUME IInv, NEW l \in Launch,
                      result[l] = "ok", reported[l] = <<>>
               PROVE  \E c \in Listed :
                        /\ ctx[c] = l /\ pid[c] = pidOf[l]
                        /\ dead[c] => proc[l] = "reaped" /\ exit_status[c] = l
    BY DEF UnreportedListed
  <2>1. PICK c \in Listed : ctx[c] = l
    BY DEF IInv, LaunchInv, OwnerInv
  <2>2. ~InProgress(c)
    BY <2>1 DEF InProgress, IInv, LaunchInv, CallInv
  <2> QED BY <2>1, <2>2 DEF IInv, PidInv
<1> QED BY <1>1, <1>2, PTL

(* jpl_get_app_count() is exact wherever the client can call it, whatever   *)
(* the kernel does with pids.                                               *)
THEOREM AppCountIsExact == Spec => []AppCountExact
<1>1. Spec => []LaunchInv
  BY LaunchInvInit, LaunchInvStep, PTL DEF Spec
<1>2. LaunchInv => AppCountExact
  <2> DEFINE S == {l \in Launch : result[l] = "ok" /\ reported[l] = <<>>}
             n == Len(children)
             f == [i \in 1..n |-> ctx[children[i]]]
  <2> SUFFICES ASSUME LaunchInv, epc = "none" PROVE Len(children) = Cardinality(S)
    BY DEF AppCountExact, AppCount
  <2>1. ListInv /\ OwnerInv /\ children \in Seq(Child) /\ IsInjective(children)
    BY DEF LaunchInv, ListInv, TypeOK, HeldNodes
  <2>2. /\ n \in Nat /\ DOMAIN children = 1..n
        /\ \A i \in 1..n : children[i] \in Listed
        /\ \A c \in Listed : \E i \in 1..n : children[i] = c
    BY <2>1 DEF Listed, Range
  <2>3. \A c \in Listed : ctx[c] \in S
    BY <2>1, OwnersAreLaunches DEF OwnerInv, InProgress
  <2>4. \A l \in S : \E c \in Listed : ctx[c] = l
    BY <2>1 DEF OwnerInv
  <2>5. f \in [1..n -> S]
    BY <2>2, <2>3
  <2>6. IsInjective(f)
    <3> SUFFICES ASSUME NEW i \in 1..n, NEW j \in 1..n, f[i] = f[j] PROVE i = j
      BY DEF IsInjective
    <3>1. children[i] = children[j]
      BY <2>1, <2>2 DEF OwnerInv
    <3> QED BY <2>1, <2>2, <3>1 DEF IsInjective
  <2>7. \A l \in S : \E i \in 1..n : f[i] = l
    BY <2>2, <2>4
  <2> HIDE DEF f, S, n
  <2>8. f \in Bijection(1..n, S)
    BY <2>5, <2>6, <2>7 DEF Bijection, Injection, Surjection
  <2>9. n = Cardinality(S)
    BY <2>2, <2>8, FS_CountingElements DEF ExistsBijection
  <2> QED BY <2>9 DEF n
<1> QED BY <1>1, <1>2, PTL
-----------------------------------------------------------------------------
(* The registry implements the contract. *)

LEMMA ContractInit == Init => Contract!Init
BY DEF Init, Contract!Init, Proc

LEMMA ContractStep ==
  PidsDistinct /\ IInv /\ [Next]_vars => [Contract!Next]_(Contract!vars)
<1> SUFFICES ASSUME PidsDistinct, IInv, [Next]_vars
             PROVE  [Contract!Next]_(Contract!vars)
  OBVIOUS
<1> USE DEF kernelVars, fieldVars, listVars, walkVars, executeVars, outputVars
<1>1. ListInv /\ CallInv /\ OwnerInv /\ PidInv /\ TypeOK
  BY DEF IInv, LaunchInv, ListInv
<1>2. /\ epc # "none" => ctx[new] \in Launch
      /\ pc = "burying" /\ cur # ListHead => cur \in Listed /\ ctx[cur] \in Launch
  BY <1>1, OwnersAreLaunches
<1>3. ASSUME \/ \E l \in Launch : ChildWrite(l)
             \/ RunBegin \/ ReadChild \/ RunBury \/ Uninit \/ BurySkip \/ BuryEnd
             \/ BuryFree \/ InitHandler \/ InitList
             \/ HandlerEnter \/ HandlerReturn \/ ExecuteForkFails
             \/ UNCHANGED vars
      PROVE  UNCHANGED Contract!vars
  BY <1>3 DEF ChildWrite, RunBegin, ReadChild, RunBury, Uninit, StartBury,
     BurySkip, BuryEnd, BuryFree, InitHandler, InitList, HandlerEnter,
     HandlerReturn, ExecuteForkFails, vars, Contract!vars
<1>4. ASSUME NEW q \in Proc, ChildStop(q) \/ ChildContinue(q) \/ HandlerReap(q)
      PROVE  UNCHANGED Contract!vars
  <2>1. /\ proc' = [proc EXCEPT ![q] = proc'[q]]
        /\ \/ /\ proc[q] \in {"running", "stopped"}
              /\ proc'[q] \in {"running", "stopped"}
           \/ proc[q] = "zombie" /\ proc'[q] = "reaped"
        /\ UNCHANGED <<result, reported>>
    BY <1>1, <1>4 DEF ChildStop, ChildContinue, HandlerReap, TypeOK
  <2> QED BY <1>1, <2>1 DEF Contract!vars, TypeOK, Proc
<1>5. ASSUME NEW f \in Foreign, ForkForeign(f) PROVE UNCHANGED Contract!vars
  <2>1. \A l \in Launch : proc'[l] = proc[l]
    BY <1>1, <1>5, LoaderAssumption DEF ForkForeign, Fork, TypeOK, Proc
  <2> QED BY <1>5, <2>1 DEF ForkForeign, Contract!vars
<1>6. ASSUME NEW q \in Proc, ChildExit(q) PROVE [Contract!Next]_(Contract!vars)
  <2>1. /\ proc[q] \in {"running", "stopped"} /\ proc'[q] = "zombie"
        /\ \A p \in Proc : p # q => proc'[p] = proc[p]
        /\ UNCHANGED <<result, reported>>
    BY <1>1, <1>6 DEF ChildExit, TypeOK
  <2>2. CASE q \in Launch
    <3>1. Contract!Die(q)
      BY <2>1, <2>2 DEF Contract!Die, Proc
    <3> QED BY <2>2, <3>1 DEF Contract!Next
  <2>3. CASE q \notin Launch
    <3>1. \A l \in Launch : proc'[l] = proc[l]
      BY <2>1, <2>3 DEF Proc
    <3> QED BY <2>1, <3>1 DEF Contract!vars
  <2> QED BY <2>2, <2>3
<1>7. ASSUME NEW l \in Launch, ExecuteNoMemory(l)
      PROVE  [Contract!Next]_(Contract!vars)
  <2>1. Contract!Refuse(l)
    BY <1>1, <1>7 DEF ExecuteNoMemory, CallInv, Contract!Refuse
  <2> QED BY <2>1 DEF Contract!Next
<1>8. ASSUME NEW l \in Launch, NEW c \in Child, ExecuteLink(l, c)
      PROVE  [Contract!Next]_(Contract!vars)
  <2>1. Contract!Call(l)
    BY <1>8 DEF ExecuteLink, Contract!Call
  <2> QED BY <2>1 DEF Contract!Next
<1>9. ASSUME ExecuteFork PROVE [Contract!Next]_(Contract!vars)
  <2>1. PICK l \in Launch : l = ctx[new]
    BY <1>2, <1>9 DEF ExecuteFork
  <2>2. /\ proc[l] = "none" /\ proc'[l] = "running"
        /\ \A p \in Proc : p # l => proc'[p] = proc[p]
        /\ result[l] = "pending"
        /\ UNCHANGED <<result, reported>>
    BY <1>1, <1>9, <2>1 DEF ExecuteFork, Fork, CallInv, TypeOK, Proc
  <2>3. Contract!Spawn(l)
    BY <2>2 DEF Contract!Spawn, Proc
  <2> QED BY <2>3 DEF Contract!Next
<1>10. ASSUME ExecuteUndo PROVE [Contract!Next]_(Contract!vars)
  <2>1. /\ ctx[new] \in Launch
        /\ result[ctx[new]] = "pending"
        /\ proc[ctx[new]] = "none"
        /\ result' = [result EXCEPT ![ctx[new]] = "failed"]
        /\ UNCHANGED <<proc, reported>>
    BY <1>1, <1>2, <1>10 DEF ExecuteUndo, CallInv
  <2>2. Contract!Refuse(ctx[new])
    BY <2>1 DEF Contract!Refuse
  <2>3. ctx[new] \in Launch
    BY <2>1
  <2>4. Contract!Next
    BY <2>2, <2>3 DEF Contract!Next
  <2> QED BY <2>4
<1>11. ASSUME ExecuteRecordPid PROVE [Contract!Next]_(Contract!vars)
  <2>1. Contract!Accept(ctx[new]) /\ ctx[new] \in Launch
    BY <1>1, <1>2, <1>11 DEF ExecuteRecordPid, CallInv, Contract!Accept
  <2> QED BY <2>1 DEF Contract!Next
<1>12. ASSUME BuryDead PROVE [Contract!Next]_(Contract!vars)
  <2>1. /\ cur \in Listed /\ ctx[cur] \in Launch /\ dead[cur] /\ epc = "none"
        /\ UNCHANGED <<result, proc>>
    BY <1>2, <1>12 DEF BuryDead, MainAt
  <2>2. /\ proc[ctx[cur]] = "reaped"
        /\ exit_status[cur] = ctx[cur]
        /\ result[ctx[cur]] = "ok"
        /\ reported[ctx[cur]] = <<>>
    BY <1>1, <2>1 DEF PidInv, OwnerInv, InProgress
  <2>3. reported' = [reported EXCEPT ![ctx[cur]] = <<ctx[cur]>>]
    BY <1>12, <2>2 DEF BuryDead
  <2>4. Contract!Report(ctx[cur])
    BY <2>1, <2>2, <2>3 DEF Contract!Report
  <2> QED BY <2>1, <2>4 DEF Contract!Next
<1> QED
  BY <1>3, <1>4, <1>5, <1>6, <1>7, <1>8, <1>9, <1>10, <1>11, <1>12
  DEF Next, Execute, Run, Handler, Environment

(* Every behaviour of the registry, seen from outside, is one the contract  *)
(* of loader.h allows: no report without an exit, none before jpl_execute() *)
(* has returned, none twice, none with another status, and no process left  *)
(* behind by a call that failed.                                            *)
THEOREM Refinement == PidsDistinct => (Spec => ImplementsContract)
<1> SUFFICES ASSUME PidsDistinct PROVE Spec => ImplementsContract
  OBVIOUS
<1>1. Spec => []IInv
  BY Inductive
<1>2. IInv /\ [Next]_vars => [Contract!Next]_(Contract!vars)
  BY ContractStep
<1> QED
  BY <1>1, <1>2, ContractInit, PTL DEF Spec, ImplementsContract, Contract!Spec
-----------------------------------------------------------------------------
(* The list as KList shows it to be: changed in one step at a time. *)
List == INSTANCE AtomicList WITH Node <- Child, list <- children

(* A step of the registry lists a struct that is not listed, or takes off   *)
(* one that is, or leaves the list alone.                                   *)
LEMMA ListStep == ListInv /\ [Next]_vars => [List!Next]_children
<1> SUFFICES ASSUME ListInv, [Next]_vars PROVE [List!Next]_children
  OBVIOUS
<1> USE DEF kernelVars, fieldVars, listVars, walkVars, executeVars, outputVars
<1>1. HeldNodes /\ ExecuteInv /\ SetupInv /\ TypeOK
  BY DEF ListInv
<1>0. Listed \subseteq Child
  BY <1>1 DEF TypeOK, Listed, Range
<1>2. ASSUME NEW c \in Child, list_del(c) PROVE List!Next
  <2>1. List!Del(c)
    BY <1>2 DEF list_del, List!Del, List!RemoveAt, RemoveAt
  <2> QED
    BY <2>1 DEF List!Next
<1>3. ASSUME NEW l \in Launch, NEW c \in Child, ExecuteLink(l, c) PROVE List!Next
  <2>1. c \notin heap /\ children' = Append(children, c)
    BY <1>3 DEF ExecuteLink, list_add_tail
  <2>2. c \notin Range(children)
    BY <1>1, <2>1 DEF HeldNodes, Listed
  <2>3. List!AddTail(c)
    BY <2>1, <2>2 DEF List!AddTail, List!New, List!Range, Range
  <2> QED
    BY <2>3 DEF List!Next
<1>4. ASSUME ExecuteUndo PROVE List!Next
  <2>1. new \in Child /\ list_del(new)
    BY <1>0, <1>1, <1>4 DEF ExecuteUndo, ExecuteInv
  <2> QED
    BY <1>2, <2>1
<1>5. ASSUME BuryDead PROVE List!Next
  <2>1. cur \in Child /\ list_del(cur)
    BY <1>0, <1>1, <1>5 DEF BuryDead, MainAt, HeldNodes
  <2> QED
    BY <1>2, <2>1
<1>6. ASSUME InitList PROVE children' = children
  BY <1>1, <1>6 DEF InitList, SetupInv
<1>7. ASSUME \/ Environment \/ Handler \/ UNCHANGED vars \/ InitHandler
             \/ \E l \in Launch : ExecuteNoMemory(l)
             \/ ExecuteFork \/ ExecuteForkFails \/ ExecuteRecordPid
             \/ RunBegin \/ ReadChild \/ RunBury \/ Uninit \/ BurySkip \/ BuryFree \/ BuryEnd
      PROVE  children' = children
  BY <1>7 DEF Environment, Handler, vars, InitHandler, ExecuteNoMemory, ExecuteFork,
     ExecuteForkFails, ExecuteRecordPid, RunBegin, ReadChild, RunBury, Uninit, StartBury,
     BurySkip, BuryFree, BuryEnd, HandlerEnter, HandlerReap, HandlerReturn, ChildStop,
     ChildContinue, ChildExit, ChildWrite, ForkForeign
<1> QED
  BY <1>3, <1>4, <1>5, <1>6, <1>7 DEF Next, Execute, Run

(* Whatever the client launches and the handler does, the registry keeps    *)
(* to what klist.h asks of its caller: list_add_tail() gets a struct that   *)
(* is on no list, also when its memory was a child's before, list_del() one *)
(* that is.                                                                 *)
THEOREM ListUsedAsMeant == Spec => List!Spec
<1>1. Init => List!Init
  BY DEF Init, List!Init
<1>2. Spec => []ListInv
  BY ListInvInit, ListInvStep, PTL DEF Spec
<1> QED
  BY <1>1, <1>2, ListStep, PTL DEF Spec, List!Spec
-----------------------------------------------------------------------------
(***************************************************************************)
(* The promises of jpl_run(): what was marked dead when it was entered is  *)
(* buried, and only after its output was read.  The invariants say, at     *)
(* each place of the two walks, that what is not done yet is still ahead   *)
(* of the walk.                                                            *)
(***************************************************************************)
(* A dead struct of launch l is at node or behind it on the list. *)
Ahead(l, node) ==
  /\ node # ListHead
  /\ \E i \in DOMAIN children :
       /\ ctx[children[i]] = l /\ dead[children[i]]
       /\ \A j \in DOMAIN children : children[j] = node => j <= i

(* The burying walk keeps what is to be buried ahead of it. *)
BuryInv ==
  /\ pc = "burying" /\ cur # ListHead => nxt = Succ(cur)
  /\ \A l \in deadAtRun :
       /\ result[l] = "ok"
       /\ pc \in {"reading", "burying", "callback"}
       /\ pc = "reading" => \E c \in Listed : ctx[c] = l /\ dead[c]
       /\ pc = "burying" => reported[l] # <<>> \/ Ahead(l, cur)
       /\ pc = "callback" => reported[l] # <<>> \/ Ahead(l, nxt)

(* Nothing is unread, or a short read ended the loop. *)
ReadUp(l) == unread[l] = 0 \/ l \in cutShort

(* The reading walk keeps what is to be read at the node it stands at or    *)
(* ahead of it; a process that is gone writes no more.                      *)
LogInv ==
  \A l \in deadAtRun :
    /\ proc[l] = "reaped"
    /\ pc = "reading" /\ l \notin Terminal => ReadUp(l) \/ Ahead(l, cur)
    /\ pc \in {"burying", "callback"} /\ l \notin Terminal => ReadUp(l)
-----------------------------------------------------------------------------
(* The list without duplicates in terms of positions. *)

LEMMA SuccAt ==
  ASSUME children \in Seq(Child), IsInjective(children)
  PROVE  /\ Succ(ListHead) = IF Len(children) = 0 THEN ListHead ELSE children[1]
         /\ \A i \in DOMAIN children :
              Succ(children[i]) = IF i = Len(children) THEN ListHead ELSE children[i + 1]
<1> DEFINE ring == <<ListHead>> \o children \o <<ListHead>>
           n == Len(children)
           Place(node) == CHOOSE i \in 1..n + 1 : ring[i] = node
<1>1. n \in Nat /\ DOMAIN children = 1..n /\ \A i \in 1..n : children[i] \in Child
  OBVIOUS
<1>2. /\ ring[1] = ListHead
      /\ \A i \in 2..n + 1 : ring[i] = children[i - 1]
      /\ ring[n + 2] = ListHead
  BY <1>1
<1>3. \A node \in Listed \cup {ListHead} : Succ(node) = ring[1 + Place(node)]
  BY DEF Succ
<1> HIDE DEF ring
<1>4. ListHead \notin Child
  BY LoaderAssumption
<1>5. Place(ListHead) = 1
  <2>1. \A i \in 2..n + 1 : ring[i] # ListHead
    BY <1>1, <1>2, <1>4
  <2>2. 1 \in 1..n + 1 /\ \A i \in 1..n + 1 : i = 1 \/ i \in 2..n + 1
    BY <1>1
  <2> QED
    BY <1>2, <2>1, <2>2
<1>6. ASSUME NEW i \in 1..n PROVE Place(children[i]) = i + 1
  <2>1. i + 1 \in 1..n + 1 /\ ring[i + 1] = children[i]
    BY <1>1, <1>2
  <2>2. ASSUME NEW j \in 1..n + 1, ring[j] = children[i] PROVE j = i + 1
    <3>1. j # 1
      BY <1>1, <1>2, <1>4, <2>2
    <3>2. j - 1 \in 1..n /\ children[j - 1] = children[i]
      BY <1>1, <1>2, <2>2, <3>1
    <3>3. j - 1 = i
      BY <1>1, <3>2 DEF IsInjective
    <3> QED
      BY <1>1, <3>3
  <2> QED
    BY <2>1, <2>2
<1> HIDE DEF Place
<1>7. Succ(ListHead) = IF n = 0 THEN ListHead ELSE children[1]
  BY <1>1, <1>2, <1>3, <1>5
<1>8. ASSUME NEW i \in 1..n
      PROVE  Succ(children[i]) = IF i = n THEN ListHead ELSE children[i + 1]
  <2>1. children[i] \in Listed
    BY <1>1 DEF Listed, Range
  <2>2. Succ(children[i]) = ring[1 + (i + 1)]
    BY <1>3, <1>6, <2>1
  <2>3. CASE i = n
    BY <1>1, <1>2, <2>2, <2>3
  <2>4. CASE i # n
    <3>1. 1 + (i + 1) \in 2..n + 1 /\ (1 + (i + 1)) - 1 = i + 1
      <4>1. n \in Nat
        BY <1>1
      <4> HIDE DEF n
      <4> QED
        BY <2>4, <4>1
    <3>2. ring[1 + (i + 1)] = children[i + 1]
      BY <1>2, <3>1
    <3> QED
      BY <2>2, <2>4, <3>2
  <2> QED
    BY <2>3, <2>4
<1> QED
  BY <1>1, <1>7, <1>8

(* Taking another element out keeps what is behind what. *)
LEMMA RemoveKeepsOrder ==
  ASSUME NEW S, NEW s \in Seq(S), IsInjective(s), NEW k \in DOMAIN s,
         NEW i \in DOMAIN s, i # k, NEW x, x # s[k],
         \A j \in DOMAIN s : s[j] = x => j <= i
  PROVE  \E m \in DOMAIN RemoveAt(s, k) :
           /\ RemoveAt(s, k)[m] = s[i]
           /\ \A j \in DOMAIN RemoveAt(s, k) : RemoveAt(s, k)[j] = x => j <= m
<1> DEFINE t == RemoveAt(s, k)
           m == IF i < k THEN i ELSE i - 1
<1>1. Len(s) \in Nat /\ DOMAIN s = 1..Len(s)
  OBVIOUS
<1>2. /\ DOMAIN t = 1..Len(s) - 1
      /\ \A j \in 1..Len(s) - 1 : t[j] = IF j < k THEN s[j] ELSE s[j + 1]
  <2>1. /\ t \in Seq(S) /\ Len(t) = Len(s) - 1
        /\ \A j \in 1..Len(s) - 1 : t[j] = IF j < k THEN s[j] ELSE s[j + 1]
    BY RemoveAtElements
  <2> HIDE DEF t
  <2> QED
    BY <2>1
<1> HIDE DEF t
<1>3. m \in DOMAIN t /\ t[m] = s[i]
  BY <1>1, <1>2
<1>4. ASSUME NEW j \in DOMAIN t, t[j] = x PROVE j <= m
  <2>1. CASE j < k
    <3>1. j \in DOMAIN s /\ s[j] = x
      BY <1>1, <1>2, <1>4, <2>1
    <3> QED
      BY <1>1, <2>1, <3>1
  <2>2. CASE ~(j < k)
    <3>1. j + 1 \in DOMAIN s /\ s[j + 1] = x
      BY <1>1, <1>2, <1>4, <2>2
    <3>2. j + 1 <= i
      BY <3>1
    <3> QED
      BY <1>1, <1>2, <2>2, <3>2
  <2> QED
    BY <2>1, <2>2
<1> QED
  BY <1>3, <1>4 DEF t

(* A walk that stands at a struct and goes on leaves only that one behind.  *)
LEMMA AheadStep ==
  ASSUME children \in Seq(Child), IsInjective(children), NEW k \in DOMAIN children,
         NEW l, Ahead(l, children[k])
  PROVE  \/ ctx[children[k]] = l /\ dead[children[k]]
         \/ Ahead(l, Succ(children[k]))
<1>1. PICK i \in DOMAIN children :
        /\ ctx[children[i]] = l /\ dead[children[i]]
        /\ \A j \in DOMAIN children : children[j] = children[k] => j <= i
  BY DEF Ahead
<1>2. Len(children) \in Nat /\ DOMAIN children = 1..Len(children)
      /\ \A j \in 1..Len(children) : children[j] \in Child
  OBVIOUS
<1>3. CASE i = k
  BY <1>1, <1>3
<1>4. CASE i # k
  <2>1. k < i /\ k + 1 \in DOMAIN children
    BY <1>1, <1>2, <1>4
  <2>2. Succ(children[k]) = children[k + 1] /\ children[k + 1] # ListHead
    BY <1>2, <2>1, SuccAt, LoaderAssumption
  <2>3. ASSUME NEW j \in DOMAIN children, children[j] = children[k + 1] PROVE j <= i
    <3>1. j = k + 1
      BY <2>1, <2>3 DEF IsInjective
    <3> QED
      BY <1>2, <2>1, <3>1
  <2> QED
    BY <1>1, <2>2, <2>3 DEF Ahead
<1> QED
  BY <1>3, <1>4

(* A walk that begins has everything ahead. *)
LEMMA AheadFirst ==
  ASSUME children \in Seq(Child), IsInjective(children),
         NEW l, NEW c \in Listed, ctx[c] = l, dead[c]
  PROVE  Ahead(l, Succ(ListHead))
<1>1. PICK i \in DOMAIN children : children[i] = c
  BY DEF Listed, Range
<1>2. Len(children) \in Nat /\ DOMAIN children = 1..Len(children)
      /\ \A j \in 1..Len(children) : children[j] \in Child
  OBVIOUS
<1>3. Succ(ListHead) = children[1] /\ children[1] # ListHead /\ 1 \in DOMAIN children
  BY <1>1, <1>2, SuccAt, LoaderAssumption
<1>4. ASSUME NEW j \in DOMAIN children, children[j] = children[1] PROVE j <= i
  BY <1>1, <1>2, <1>3, <1>4 DEF IsInjective
<1> QED
  BY <1>1, <1>3, <1>4 DEF Ahead

(* The walk moves on a list that stays. *)
LEMMA AheadMoves ==
  ASSUME NEW l, NEW node, Ahead(l, node), UNCHANGED <<children, ctx>>,
         \A c \in Listed : dead[c] => dead'[c]
  PROVE  /\ cur' = node => Ahead(l, cur)'
         /\ nxt' = node => Ahead(l, nxt)'
<1>1. \A i \in DOMAIN children : children[i] \in Listed
  BY DEF Listed, Range
<1> QED
  BY <1>1 DEF Ahead
-----------------------------------------------------------------------------
(* What jpl_run() knew to be dead is buried. *)

(* A step that leaves the list and the walk alone. *)
LEMMA BuryFrame ==
  ASSUME BuryInv, TypeOK, UNCHANGED <<children, ctx, reported, cur, nxt, deadAtRun>>,
         \A c \in Listed : dead[c] => dead'[c],
         \A l \in Launch : result[l] = "ok" => result'[l] = "ok",
         deadAtRun = {} \/ pc' = pc, pc' = "burying" => pc = "burying"
  PROVE  BuryInv'
<1>1. Succ(cur)' = Succ(cur) /\ Listed' = Listed
  BY DEF Succ, Listed
<1>2. ASSUME NEW l \in deadAtRun
      PROVE  /\ Ahead(l, cur) => Ahead(l, cur)'
             /\ Ahead(l, nxt) => Ahead(l, nxt)'
  BY AheadMoves
<1>3. deadAtRun \subseteq Launch
  BY DEF TypeOK
<1> QED
  BY <1>1, <1>2, <1>3 DEF BuryInv

(* Between calls jpl_execute() changes the list from on_child_exit. *)
LEMMA BuryExecute ==
  ASSUME LaunchInv, BuryInv,
         (\E l \in Launch, c \in Child : ExecuteLink(l, c)) \/ ExecuteUndo
  PROVE  BuryInv'
<1> USE DEF listVars, walkVars, fieldVars, executeVars
<1>1. /\ TypeOK /\ HeldNodes /\ ExecuteInv /\ CallInv
      /\ children \in Seq(Child) /\ IsInjective(children)
      /\ Len(children) \in Nat /\ DOMAIN children = 1..Len(children)
  BY DEF LaunchInv, ListInv, TypeOK, HeldNodes
<1>2. /\ pc' = pc /\ pc \in {"idle", "callback"} /\ deadAtRun' = deadAtRun
      /\ reported' = reported /\ nxt' = nxt
  BY <1>1 DEF ExecuteLink, ExecuteUndo, ClientRuns, ExecuteInv
<1>3. ASSUME NEW l \in deadAtRun PROVE result'[l] = "ok"
  <2>1. l \in Launch /\ result[l] = "ok"
    BY <1>1, <1>3 DEF BuryInv, TypeOK
  <2>2. ExecuteUndo => result[ctx[new]] = "pending"
    BY <1>1 DEF ExecuteUndo, CallInv
  <2> QED
    BY <1>1, <2>1, <2>2 DEF ExecuteLink, ExecuteUndo, TypeOK
<1>4. ASSUME NEW l \in deadAtRun, pc = "callback", reported[l] = <<>>
      PROVE  Ahead(l, nxt)'
  <2>1. PICK i \in DOMAIN children :
          /\ ctx[children[i]] = l /\ dead[children[i]]
          /\ \A j \in DOMAIN children : children[j] = nxt => j <= i
    BY <1>4 DEF BuryInv, Ahead
  <2>2. nxt \in Listed /\ nxt # ListHead
    BY <1>1, <1>4 DEF BuryInv, Ahead, HeldNodes
  <2>3. children[i] \in Listed
    BY DEF Listed, Range
  <2>4. ASSUME NEW k \in Launch, NEW c \in Child, ExecuteLink(k, c) PROVE Ahead(l, nxt)'
    <3>1. c \notin Listed /\ children' = Append(children, c)
      BY <1>1, <2>4 DEF ExecuteLink, list_add_tail, HeldNodes
    <3>2. /\ DOMAIN children' = 1..Len(children) + 1
          /\ \A j \in 1..Len(children) : children'[j] = children[j]
          /\ children'[Len(children) + 1] = c
      BY <1>1, <3>1
    <3>3. i \in DOMAIN children' /\ children'[i] = children[i]
      BY <1>1, <3>2
    <3>4. ctx'[children[i]] = l /\ dead'[children[i]]
      BY <1>1, <2>1, <2>3, <2>4, <3>1 DEF ExecuteLink, TypeOK
    <3>5. ASSUME NEW j \in DOMAIN children', children'[j] = nxt PROVE j <= i
      BY <1>1, <2>1, <2>2, <3>1, <3>2, <3>5
    <3> QED
      BY <1>2, <2>2, <3>3, <3>4, <3>5 DEF Ahead
  <2>5. ASSUME ExecuteUndo PROVE Ahead(l, nxt)'
    <3>1. PICK k \in DOMAIN children :
            children[k] = new /\ children' = RemoveAt(children, k)
      BY <2>5 DEF ExecuteUndo, list_del
    <3>2. nxt # children[k]
      BY <1>1, <2>5, <3>1 DEF ExecuteUndo, ExecuteInv
    <3>3. i # k
      <4>1. result[l] = "ok" /\ result[ctx[new]] = "pending"
        BY <1>1, <1>4, <2>5 DEF BuryInv, ExecuteUndo, CallInv
      <4> QED
        BY <2>1, <3>1, <4>1
    <3>4. PICK m \in DOMAIN children' :
            /\ children'[m] = children[i]
            /\ \A j \in DOMAIN children' : children'[j] = nxt => j <= m
      <4>1. \E m \in DOMAIN RemoveAt(children, k) :
              /\ RemoveAt(children, k)[m] = children[i]
              /\ \A j \in DOMAIN RemoveAt(children, k) :
                   RemoveAt(children, k)[j] = nxt => j <= m
        <5>1. children \in Seq(Child) /\ IsInjective(children)
          BY <1>1
        <5>2. \A j \in DOMAIN children : children[j] = nxt => j <= i
          BY <2>1
        <5> QED
          BY <3>2, <3>3, <5>1, <5>2, RemoveKeepsOrder, ZenonT(30)
      <4> QED
        BY <3>1, <4>1
    <3>5. ctx' = ctx /\ dead' = dead
      BY <2>5 DEF ExecuteUndo
    <3> QED
      BY <1>2, <2>1, <2>2, <3>4, <3>5 DEF Ahead
  <2> QED
    BY <2>4, <2>5
<1> QED
  BY <1>2, <1>3, <1>4 DEF BuryInv

LEMMA BuryWalk ==
  ASSUME LaunchInv, BuryInv, Run \/ Uninit
  PROVE  BuryInv'
<1> USE DEF kernelVars, outputVars, listVars, walkVars, fieldVars, executeVars
<1>1. /\ TypeOK /\ HeldNodes /\ OwnerInv
      /\ children \in Seq(Child) /\ IsInjective(children) /\ Listed \subseteq Child
  BY DEF LaunchInv, ListInv, TypeOK, HeldNodes, Listed, Range
<1>2. epc = "none" /\ UNCHANGED <<ctx, dead, result>>
  BY DEF Run, Uninit, StartBury, RunBegin, ReadChild, RunBury, BurySkip, BuryDead, BuryFree,
         BuryEnd, MainAt
<1>3. children' = children => Listed' = Listed
  BY DEF Listed
<1>4. CASE RunBegin
  <2>1. /\ pc' = "reading" /\ children' = children
        /\ deadAtRun' = {ctx[c] : c \in {d \in Listed : dead[d]}}
    BY <1>4 DEF RunBegin
  <2>2. ASSUME NEW l \in deadAtRun'
        PROVE  result[l] = "ok" /\ \E c \in Listed : ctx[c] = l /\ dead[c]
    BY <1>1, <1>2, <2>1 DEF OwnerInv, InProgress
  <2> QED
    BY <1>2, <1>3, <2>1, <2>2 DEF BuryInv
<1>5. CASE ReadChild
  <2>1. /\ pc = "reading" /\ pc' = "reading"
        /\ UNCHANGED <<children, deadAtRun, reported>>
    BY <1>5 DEF ReadChild, MainAt
  <2> QED
    BY <1>2, <1>3, <2>1 DEF BuryInv
<1>6. CASE RunBury \/ Uninit
  <2>1. /\ pc \in {"reading", "idle"} /\ pc' = "burying"
        /\ cur' = Succ(ListHead) /\ nxt' = Succ(Succ(ListHead))
        /\ UNCHANGED <<children, deadAtRun, reported>>
    BY <1>6 DEF RunBury, Uninit, StartBury, MainAt
  <2>2. nxt' = Succ(cur)'
    <3> DEFINE first == Succ(ListHead)
    <3>1. cur' = first /\ nxt' = Succ(first) /\ children' = children
      BY <2>1
    <3> HIDE DEF first
    <3> QED
      BY <3>1 DEF Succ, Listed
  <2>3. ASSUME NEW l \in deadAtRun PROVE result[l] = "ok" /\ Ahead(l, cur)'
    <3>1. pc = "reading" /\ result[l] = "ok"
      BY <2>1, <2>3 DEF BuryInv
    <3>2. PICK c \in Listed : ctx[c] = l /\ dead[c]
      BY <2>3, <3>1 DEF BuryInv
    <3>3. Ahead(l, Succ(ListHead))
      BY <1>1, <3>2, AheadFirst
    <3> QED
      BY <1>2, <2>1, <3>1, <3>3, AheadMoves
  <2> QED
    BY <1>2, <2>1, <2>2, <2>3 DEF BuryInv
<1>7. CASE BurySkip
  <2>1. /\ pc = "burying" /\ pc' = "burying" /\ cur # ListHead /\ ~dead[cur]
        /\ cur' = nxt /\ nxt' = Succ(nxt)
        /\ UNCHANGED <<children, deadAtRun, reported>>
    BY <1>7 DEF BurySkip, Advance, MainAt
  <2>2. PICK k \in DOMAIN children : children[k] = cur
    BY <1>1, <2>1 DEF HeldNodes, Listed, Range
  <2>3. nxt' = Succ(cur)'
    BY <2>1 DEF Succ, Listed
  <2>4. ASSUME NEW l \in deadAtRun, reported[l] = <<>> PROVE Ahead(l, cur)'
    <3>1. Ahead(l, children[k])
      BY <2>1, <2>2, <2>4 DEF BuryInv
    <3>2. Ahead(l, Succ(children[k]))
      BY <1>1, <2>1, <2>2, <3>1, AheadStep
    <3>3. Succ(children[k]) = cur'
      BY <2>1, <2>2 DEF BuryInv
    <3> QED
      BY <1>2, <2>1, <3>2, <3>3, AheadMoves
  <2> QED
    BY <1>2, <2>1, <2>3, <2>4 DEF BuryInv
<1>8. CASE BuryDead
  <2>1. /\ pc = "burying" /\ pc' = "callback" /\ cur # ListHead /\ dead[cur]
        /\ UNCHANGED <<deadAtRun, nxt, cur>>
        /\ reported' = [reported EXCEPT ![ctx[cur]] = Append(@, exit_status[cur])]
    BY <1>8 DEF BuryDead, MainAt
  <2>2. PICK k \in DOMAIN children :
          children[k] = cur /\ children' = RemoveAt(children, k)
    BY <1>8 DEF BuryDead, list_del
  <2>3. ASSUME NEW l \in deadAtRun, reported'[l] = <<>> PROVE Ahead(l, nxt)'
    <3>1. l \in Launch
      BY <1>1, <2>3 DEF TypeOK
    <3>2. ctx[cur] # l /\ reported[l] = <<>>
      <4>1. ASSUME ctx[cur] = l PROVE FALSE
        <5>1. reported'[l] = Append(reported[l], exit_status[cur])
          BY <1>1, <2>1, <3>1, <4>1 DEF TypeOK
        <5>2. /\ reported[l] \in Seq(Proc \cup {None})
              /\ exit_status[cur] \in Proc \cup {None}
          BY <1>1, <2>1, <3>1 DEF TypeOK, HeldNodes
        <5>3. Append(reported[l], exit_status[cur]) # <<>>
          BY <5>2
        <5> QED
          BY <2>3, <5>1, <5>3
      <4>2. ctx[cur] # l
        BY <4>1
      <4>3. reported'[l] = reported[l]
        BY <1>1, <2>1, <3>1, <4>2 DEF TypeOK
      <4> QED
        BY <2>3, <4>2, <4>3
    <3>3. Ahead(l, children[k])
      BY <2>1, <2>2, <2>3, <3>2 DEF BuryInv
    <3>4. Ahead(l, Succ(children[k]))
      BY <1>1, <2>2, <3>2, <3>3, AheadStep
    <3>5. Succ(children[k]) = nxt
      BY <2>1, <2>2 DEF BuryInv
    <3>6. PICK i \in DOMAIN children :
            /\ ctx[children[i]] = l /\ dead[children[i]] /\ nxt # ListHead
            /\ \A j \in DOMAIN children : children[j] = nxt => j <= i
      BY <3>4, <3>5 DEF Ahead
    <3>7. i # k /\ nxt # children[k]
      BY <1>1, <2>1, <2>2, <3>2, <3>6 DEF HeldNodes
    <3>8. \E m \in DOMAIN RemoveAt(children, k) :
            /\ RemoveAt(children, k)[m] = children[i]
            /\ \A j \in DOMAIN RemoveAt(children, k) :
                 RemoveAt(children, k)[j] = nxt => j <= m
      <4>1. children \in Seq(Child) /\ IsInjective(children)
        BY <1>1
      <4>2. \A j \in DOMAIN children : children[j] = nxt => j <= i
        BY <3>6
      <4> QED
        BY <3>7, <4>1, <4>2, RemoveKeepsOrder, ZenonT(30)
    <3> QED
      BY <1>2, <2>1, <2>2, <3>6, <3>8 DEF Ahead
  <2> QED
    BY <1>2, <2>1, <2>3 DEF BuryInv
<1>9. CASE BuryFree
  <2>1. /\ pc = "callback" /\ pc' = "burying" /\ cur' = nxt /\ nxt' = Succ(nxt)
        /\ UNCHANGED <<children, deadAtRun, reported>>
    BY <1>9 DEF BuryFree, Advance, MainAt
  <2>2. nxt' = Succ(cur)'
    BY <2>1 DEF Succ, Listed
  <2>3. ASSUME NEW l \in deadAtRun, reported[l] = <<>> PROVE Ahead(l, cur)'
    <3>1. Ahead(l, nxt)
      BY <2>1, <2>3 DEF BuryInv
    <3> QED
      BY <1>2, <2>1, <3>1, AheadMoves
  <2> QED
    BY <1>2, <2>1, <2>2, <2>3 DEF BuryInv
<1>10. CASE BuryEnd
  <2>1. pc' = after /\ after \in {"idle", "done"} /\ deadAtRun' = {}
    BY <1>1, <1>10 DEF BuryEnd, TypeOK
  <2> QED
    BY <2>1 DEF BuryInv
<1> QED
  BY <1>4, <1>5, <1>6, <1>7, <1>8, <1>9, <1>10 DEF Run

LEMMA BuryInvStep == LaunchInv /\ BuryInv /\ [Next]_vars => BuryInv'
<1> SUFFICES ASSUME LaunchInv, BuryInv, [Next]_vars PROVE BuryInv'
  OBVIOUS
<1> USE DEF kernelVars, outputVars, listVars, walkVars, fieldVars, executeVars
<1>1. TypeOK /\ CallInv /\ ExecuteInv
  BY DEF LaunchInv, ListInv
<1>2. ASSUME Environment \/ HandlerEnter \/ HandlerReturn \/ UNCHANGED vars
             \/ ExecuteFork \/ ExecuteForkFails
      PROVE  BuryInv'
  <2>1. UNCHANGED <<children, ctx, reported, cur, nxt, deadAtRun, dead, pc, result>>
    BY <1>2 DEF Environment, ChildWrite, ChildStop, ChildContinue, ChildExit, ForkForeign,
       HandlerEnter, HandlerReturn, vars, ExecuteFork, ExecuteForkFails
  <2> QED
    BY <1>1, <2>1, BuryFrame
<1>3. ASSUME NEW q \in Proc, HandlerReap(q) PROVE BuryInv'
  <2>1. /\ UNCHANGED <<children, ctx, reported, cur, nxt, deadAtRun, result>>
        /\ pc' = pc \/ (pc = "handler_set" /\ pc' = "crashed")
    BY <1>3 DEF HandlerReap
  <2>2. ASSUME NEW c \in Listed, dead[c] PROVE dead'[c]
    <3>1. c \in Child
      BY <1>1 DEF TypeOK, Listed, Range
    <3> QED
      BY <1>1, <1>3, <2>2, <3>1 DEF HandlerReap, TypeOK
  <2>3. deadAtRun = {} \/ pc' = pc
    BY <2>1 DEF BuryInv
  <2> QED
    BY <1>1, <2>1, <2>2, <2>3, BuryFrame
<1>4. ASSUME InitHandler \/ InitList PROVE BuryInv'
  BY <1>4 DEF InitHandler, InitList, BuryInv
<1>5. ASSUME NEW l \in Launch, ExecuteNoMemory(l) PROVE BuryInv'
  <2>1. UNCHANGED <<children, ctx, reported, cur, nxt, deadAtRun, dead, pc>>
    BY <1>5 DEF ExecuteNoMemory
  <2>2. \A k \in Launch : result[k] = "ok" => result'[k] = "ok"
    BY <1>1, <1>5 DEF ExecuteNoMemory, TypeOK
  <2> QED
    BY <1>1, <2>1, <2>2, BuryFrame
<1>6. ASSUME ExecuteRecordPid PROVE BuryInv'
  <2>1. UNCHANGED <<children, ctx, reported, cur, nxt, deadAtRun, dead, pc>>
    BY <1>6 DEF ExecuteRecordPid
  <2>2. \A k \in Launch : result[k] = "ok" => result'[k] = "ok"
    BY <1>1, <1>6 DEF ExecuteRecordPid, TypeOK
  <2> QED
    BY <1>1, <2>1, <2>2, BuryFrame
<1> QED
  BY <1>2, <1>3, <1>4, <1>5, <1>6, BuryExecute, BuryWalk DEF Next, Execute, Handler

(* Every child that was marked dead when jpl_run() was entered is reported  *)
(* when it returns, whatever on_child_exit launches and the handler marks   *)
(* in the meantime, and however pids are reused.                            *)
THEOREM KnownDeadBuried == Spec => RunBuriesKnownDead
<1>1. Init => BuryInv
  BY DEF Init, BuryInv
<1>2. LaunchInv /\ BuryInv /\ [Next]_vars =>
        [pc = "burying" /\ pc' = "idle" => \A l \in deadAtRun : reported[l] # <<>>]_vars
  <2> SUFFICES ASSUME LaunchInv, BuryInv, Next, pc = "burying", pc' = "idle",
                      NEW l \in deadAtRun
               PROVE  reported[l] # <<>>
    OBVIOUS
  <2>1. BuryEnd
    BY DEF Next, Execute, Run, Handler, Environment, InitHandler, InitList, Uninit, StartBury,
       ExecuteNoMemory, ExecuteLink, ExecuteFork, ExecuteForkFails, ExecuteUndo,
       ExecuteRecordPid, RunBegin, ReadChild, RunBury, BurySkip, BuryDead, BuryFree,
       HandlerEnter, HandlerReap, HandlerReturn, ChildWrite, ChildStop, ChildContinue,
       ChildExit, ForkForeign, MainAt, walkVars, executeVars
  <2>2. cur = ListHead
    BY <2>1 DEF BuryEnd
  <2> QED
    BY <2>2 DEF BuryInv, Ahead
<1> QED
  BY <1>1, <1>2, LaunchInvInit, LaunchInvStep, BuryInvStep, PTL DEF Spec, RunBuriesKnownDead
-----------------------------------------------------------------------------
(* What jpl_run() knew to be dead is read first. *)

(* A step that leaves what a dead child wrote where it is. *)
LEMMA LogFrame ==
  ASSUME LogInv, UNCHANGED <<deadAtRun, pc, cutShort>>,
         \A l \in deadAtRun : proc'[l] = "reaped" /\ unread'[l] = unread[l],
         pc = "reading" => /\ UNCHANGED <<children, ctx, cur>>
                           /\ \A c \in Listed : dead[c] => dead'[c]
  PROVE  LogInv'
<1>1. ASSUME NEW l \in deadAtRun, pc = "reading", Ahead(l, cur) PROVE Ahead(l, cur)'
  BY <1>1, AheadMoves
<1> QED
  BY <1>1 DEF LogInv, ReadUp

LEMMA LogWalk ==
  ASSUME IInv, BuryInv, LogInv, Run \/ Uninit
  PROVE  LogInv'
<1> USE DEF kernelVars, outputVars, listVars, walkVars, fieldVars, executeVars
<1>1. /\ TypeOK /\ HeldNodes /\ PidInv /\ Listed \subseteq Child
      /\ children \in Seq(Child) /\ IsInjective(children) /\ deadAtRun \subseteq Launch
      /\ \A c \in Listed : ctx[c] \in Launch
  BY DEF IInv, LaunchInv, ListInv, TypeOK, HeldNodes, Listed, Range
<1>2. UNCHANGED <<ctx, dead, proc>>
  BY DEF Run, Uninit, StartBury, RunBegin, ReadChild, RunBury, BurySkip, BuryDead, BuryFree,
         BuryEnd
<1>3. CASE RunBegin
  <2>1. /\ pc' = "reading" /\ children' = children /\ cur' = Succ(ListHead)
        /\ deadAtRun' = {ctx[c] : c \in {d \in Listed : dead[d]}}
    BY <1>3 DEF RunBegin
  <2>2. ASSUME NEW l \in deadAtRun' PROVE proc'[l] = "reaped" /\ Ahead(l, cur)'
    <3>1. PICK c \in Listed : dead[c] /\ ctx[c] = l
      BY <2>1, <2>2
    <3>2. proc[l] = "reaped"
      BY <1>1, <3>1 DEF PidInv
    <3>3. Ahead(l, Succ(ListHead))
      BY <1>1, <3>1, AheadFirst
    <3> QED
      BY <1>2, <2>1, <3>2, <3>3, AheadMoves
  <2> QED
    BY <2>1, <2>2 DEF LogInv
<1>4. CASE ReadChild
  <2>1. /\ pc = "reading" /\ pc' = "reading" /\ cur # ListHead
        /\ UNCHANGED <<children, deadAtRun>>
        /\ \/ cur' = Succ(cur) /\ ctx[cur] \in Terminal /\ UNCHANGED outputVars
           \/ ReadFull(ctx[cur]) \/ ReadShort(ctx[cur])
    BY <1>4 DEF ReadChild, MainAt
  <2>2. PICK k \in DOMAIN children : children[k] = cur
    BY <1>1, <2>1 DEF HeldNodes, Listed, Range
  <2>3. ctx[cur] \in Launch /\ unread \in [Launch -> 0..Capacity]
    BY <1>1, <2>1 DEF HeldNodes, TypeOK
  <2>4. ASSUME NEW l \in deadAtRun, l \notin Terminal
        PROVE  ReadUp(l)' \/ Ahead(l, cur)'
    <3>1. l \in Launch /\ unread[l] \in Nat
      BY <1>1, <2>3, <2>4
    <3>2. CASE ReadUp(l)
      BY <2>1, <2>3, <3>1, <3>2 DEF ReadUp, ReadFull, ReadShort
    <3>3. CASE Ahead(l, cur) /\ cur' = cur
      BY <1>2, <2>1, <3>3, AheadMoves
    <3>4. CASE ctx[cur] = l /\ ReadShort(ctx[cur])
      BY <2>3, <3>1, <3>4 DEF ReadUp, ReadShort
    <3>5. CASE Ahead(l, cur) /\ cur' = Succ(cur) /\ ctx[cur] # l
      <4>1. Ahead(l, Succ(children[k]))
        BY <1>1, <2>2, <3>5, AheadStep
      <4> QED
        BY <1>2, <2>1, <2>2, <3>5, <4>1, AheadMoves
    <3> QED
      BY <2>1, <2>4, <3>2, <3>3, <3>4, <3>5 DEF LogInv, ReadFull, ReadShort
  <2> QED
    BY <1>2, <2>1, <2>4 DEF LogInv
<1>5. CASE RunBury \/ Uninit
  <2>1. /\ pc \in {"reading", "idle"} /\ pc' = "burying"
        /\ pc = "reading" => cur = ListHead
        /\ UNCHANGED <<deadAtRun, unread, cutShort>>
    BY <1>5 DEF RunBury, Uninit, StartBury, MainAt
  <2> QED
    BY <1>2, <2>1 DEF LogInv, ReadUp, BuryInv, Ahead
<1>6. CASE BurySkip \/ BuryDead \/ BuryFree
  <2>1. /\ pc \in {"burying", "callback"} /\ pc' \in {"burying", "callback"}
        /\ UNCHANGED <<deadAtRun, unread, cutShort>>
    BY <1>6 DEF BurySkip, BuryDead, BuryFree, MainAt
  <2> QED
    BY <1>2, <2>1 DEF LogInv, ReadUp
<1>7. CASE BuryEnd
  BY <1>7 DEF BuryEnd, LogInv
<1> QED
  BY <1>3, <1>4, <1>5, <1>6, <1>7 DEF Run

LEMMA LogInvStep == IInv /\ BuryInv /\ LogInv /\ [Next]_vars => LogInv'
<1> SUFFICES ASSUME IInv, BuryInv, LogInv, [Next]_vars PROVE LogInv'
  OBVIOUS
<1> USE DEF kernelVars, outputVars, listVars, walkVars, fieldVars, executeVars
<1>1. /\ TypeOK /\ CallInv /\ ExecuteInv /\ deadAtRun \subseteq Launch
      /\ \A l \in deadAtRun : proc[l] = "reaped"
  BY DEF IInv, LaunchInv, ListInv, TypeOK, LogInv
<1>2. ASSUME HandlerEnter \/ HandlerReturn \/ UNCHANGED vars
      PROVE  LogInv'
  BY <1>1, <1>2, LogFrame DEF HandlerEnter, HandlerReturn, vars
<1>3. ASSUME Environment PROVE LogInv'
  <2>1. UNCHANGED <<deadAtRun, pc, cutShort, children, ctx, cur, dead>>
    BY <1>3 DEF Environment, ChildWrite, ChildStop, ChildContinue, ChildExit, ForkForeign
  <2>2. ASSUME NEW l \in deadAtRun PROVE proc'[l] = "reaped" /\ unread'[l] = unread[l]
    BY <1>1, <1>3, <2>2 DEF Environment, ChildWrite, ChildStop, ChildContinue, ChildExit,
       ForkForeign, Fork, Proc, TypeOK
  <2> QED
    BY <2>1, <2>2, LogFrame
<1>4. ASSUME NEW q \in Proc, HandlerReap(q) PROVE LogInv'
  <2>1. CASE pc = "handler_set"
    BY <1>4, <2>1 DEF HandlerReap, BuryInv, LogInv
  <2>2. CASE pc # "handler_set"
    <3>1. UNCHANGED <<deadAtRun, pc, cutShort, children, ctx, cur, unread>>
      BY <1>4, <2>2 DEF HandlerReap
    <3>2. \A l \in deadAtRun : proc'[l] = "reaped"
      BY <1>1, <1>4 DEF HandlerReap, TypeOK
    <3>3. ASSUME NEW c \in Listed, dead[c] PROVE dead'[c]
      <4>1. c \in Child
        BY <1>1 DEF TypeOK, Listed, Range
      <4> QED
        BY <1>1, <1>4, <3>3, <4>1 DEF HandlerReap, TypeOK
    <3> QED
      BY <3>1, <3>2, <3>3, LogFrame
  <2> QED
    BY <2>1, <2>2
<1>5. ASSUME InitHandler \/ InitList PROVE LogInv'
  BY <1>5 DEF InitHandler, InitList, BuryInv, LogInv
<1>6. ASSUME Execute PROVE LogInv'
  <2>1. /\ UNCHANGED <<deadAtRun, pc, unread, cutShort>>
        /\ pc # "reading"
    BY <1>1, <1>6 DEF Execute, ExecuteNoMemory, ExecuteLink, ExecuteFork, ExecuteForkFails,
       ExecuteUndo, ExecuteRecordPid, ClientRuns, ExecuteInv, Fork
  <2>2. ASSUME NEW l \in deadAtRun PROVE proc'[l] = "reaped"
    <3>1. CASE ExecuteFork
      <4>1. proc[ctx[new]] = "none"
        BY <1>1, <3>1 DEF ExecuteFork, CallInv
      <4>2. proc' = [proc EXCEPT ![ctx[new]] = "running"]
        BY <3>1 DEF ExecuteFork, Fork
      <4> QED
        BY <1>1, <2>2, <4>1, <4>2 DEF TypeOK
    <3>2. CASE ~ExecuteFork
      <4>1. proc' = proc
        BY <1>6, <3>2 DEF Execute, ExecuteNoMemory, ExecuteLink, ExecuteForkFails,
           ExecuteUndo, ExecuteRecordPid
      <4> QED
        BY <1>1, <2>2, <4>1
    <3> QED
      BY <3>1, <3>2
  <2> QED
    BY <2>1, <2>2, LogFrame
<1> QED
  BY <1>2, <1>3, <1>4, <1>5, <1>6, LogWalk DEF Next, Handler

(* As long as pids are not reused, when a child is reported that was marked *)
(* dead when jpl_run() was entered, its output has been read to the end or  *)
(* to the first short read: nothing it wrote is skipped otherwise, however  *)
(* much was waiting.                                                        *)
THEOREM KnownDeadRead == PidsDistinct => (Spec => KnownDeadOutputLogged)
<1> SUFFICES ASSUME PidsDistinct PROVE Spec => KnownDeadOutputLogged
  OBVIOUS
<1>1. Init => BuryInv /\ LogInv
  BY DEF Init, BuryInv, LogInv
<1>2. IInv /\ BuryInv /\ LogInv /\ [Next]_vars => BuryInv' /\ LogInv'
  BY BuryInvStep, LogInvStep DEF IInv
<1>3. IInv /\ BuryInv /\ LogInv /\ [Next]_vars =>
        [\A l \in deadAtRun \ Terminal :
           reported'[l] # reported[l] => unread[l] = 0 \/ l \in cutShort]_vars
  <2> SUFFICES ASSUME LogInv, Next, NEW l \in deadAtRun \ Terminal,
                      reported'[l] # reported[l]
               PROVE  unread[l] = 0 \/ l \in cutShort
    OBVIOUS
  <2>1. BuryDead
    BY DEF Next, Execute, Run, Handler, Environment, InitHandler, InitList, Uninit, StartBury,
       ExecuteNoMemory, ExecuteLink, ExecuteFork, ExecuteForkFails, ExecuteUndo,
       ExecuteRecordPid, RunBegin, ReadChild, RunBury, BurySkip, BuryFree, BuryEnd,
       HandlerEnter, HandlerReap, HandlerReturn, ChildWrite, ChildStop, ChildContinue,
       ChildExit, ForkForeign
  <2>2. pc = "burying"
    BY <2>1 DEF BuryDead, MainAt
  <2> QED
    BY <2>2 DEF LogInv, ReadUp
<1> QED
  BY <1>1, <1>2, <1>3, Inductive, PTL DEF Spec, KnownDeadOutputLogged
=============================================================================
