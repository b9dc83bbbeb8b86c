---------------------------- MODULE DaemonProofs ----------------------------
(***************************************************************************)
(* Theorems about Daemon, for every order of signals and failures.  The    *)
(* invariant says what connect_dbus() and disconnect_dbus() have made and  *)
(* not yet undone at each of their calls.                                  *)
(***************************************************************************)
EXTENDS Daemon, TLAPS

BusInv ==
  /\ pc \in Installing \cup {"bus_get"} => connection = "none" /\ object = "none"
  /\ pc \in {"unique_name", "request_name", "object_new"} =>
       connection = "open" /\ object = "none"
  /\ pc \in {"register", "destroy_object"} => connection = "open" /\ object = "made"
  /\ pc = "unref_connection" => connection = "open" /\ object \in {"none", "destroyed"}
  /\ pc = "disconnect" => connection = "open" /\ object = "registered"
  /\ pc = "release" => connection = "open" /\ object = "destroyed"

DaemonInv == TypeOK /\ BusInv

LEMMA DaemonInvInit == Init => DaemonInv
BY DEF Init, DaemonInv, TypeOK, BusInv, Installing, Connecting, Ended

(* The steps of main(), those of the kernel and libdbus, and stuttering. *)
LEMMA DaemonInvNext == DaemonInv /\ [Next]_vars => DaemonInv'
<1> SUFFICES ASSUME DaemonInv, [Next]_vars PROVE DaemonInv'
  OBVIOUS
<1> USE DEF DaemonInv, TypeOK, BusInv, Installing, Connecting, Ended, busVars, signalVars
<1>1. CASE InstallHandlers
  <2>1. ASSUME NEW s \in Signal, NEW here \in Installing, NEW there \in Installing \cup {"bus_get"},
               Install(s, here, there)
        PROVE  DaemonInv'
    BY <2>1 DEF Install
  <2>2. ASSUME NEW s \in Signal, NEW here \in Installing, NEW there \in Installing \cup {"bus_get"},
               UnlessIgnored(s, here, there)
        PROVE  DaemonInv'
    <3>1. disposition' \in [Signal -> {"default", "ignored", "handler"}]
      BY <2>2 DEF UnlessIgnored, Signal
    <3> QED
      BY <2>2, <3>1 DEF UnlessIgnored
  <2> QED
    BY <1>1, <2>1, <2>2 DEF InstallHandlers, Signal
<1>2. CASE ConnectDbus
  <2>1. CASE BusGet
    BY <2>1 DEF BusGet, Exit
  <2>2. CASE UniqueName \/ RequestName
    BY <2>2 DEF UniqueName, RequestName, Goto
  <2>3. CASE ObjectNew
    BY <2>3 DEF ObjectNew, SetObject, Goto
  <2>4. CASE Register
    BY <2>4 DEF Register, SetObject, Goto
  <2>5. CASE DestroyObject
    BY <2>5 DEF DestroyObject, SetObject
  <2>6. CASE UnrefConnection
    BY <2>6 DEF UnrefConnection, Exit
  <2> QED
    BY <1>2, <2>1, <2>2, <2>3, <2>4, <2>5, <2>6 DEF ConnectDbus
<1>3. CASE TestQuit
  BY <1>3 DEF TestQuit, Goto
<1>4. CASE Dispatch
  BY <1>4 DEF Dispatch, Goto
<1>5. CASE Disconnect
  BY <1>5 DEF Disconnect, SetObject
<1>6. CASE Release
  BY <1>6 DEF Release, Exit
<1>7. CASE BusLost
  BY <1>7 DEF BusLost, Exit
<1>8. ASSUME NEW s \in Signal, Deliver(s) PROVE DaemonInv'
  BY <1>8 DEF Deliver
<1>9. CASE UNCHANGED vars
  BY <1>9 DEF vars
<1> QED
  BY <1>1, <1>2, <1>3, <1>4, <1>5, <1>6, <1>7, <1>8, <1>9 DEF Next, Main

LEMMA DaemonInvAlways == Spec => []DaemonInv
BY DaemonInvInit, DaemonInvNext, PTL DEF Spec

(* The types, and that the daemon serves with its object registered only.   *)
THEOREM DaemonTypeCorrect == Spec => []TypeOK
<1>1. DaemonInv => TypeOK
  BY DEF DaemonInv
<1> QED
  BY <1>1, DaemonInvAlways, PTL

(* Whichever call fails, what was made before it is undone at the end of    *)
(* main().                                                                 *)
THEOREM UndoneAlways == Spec => EverythingUndone
<1>1. DaemonInv /\ [Next]_vars =>
        [pc # "dispatch" /\ pc' = "exited" =>
           connection' # "open" /\ object' \notin {"made", "registered"}]_vars
  <2> SUFFICES ASSUME DaemonInv, Next, pc # "dispatch", pc' = "exited"
               PROVE  connection' # "open" /\ object' \notin {"made", "registered"}
    BY DEF vars
  <2> USE DEF DaemonInv, TypeOK, BusInv, Installing, Connecting, Ended
  <2>1. CASE InstallHandlers
    BY <2>1 DEF InstallHandlers, Install, UnlessIgnored
  <2>2. CASE ConnectDbus
    BY <2>2 DEF ConnectDbus, BusGet, UniqueName, RequestName, ObjectNew, Register,
                DestroyObject, UnrefConnection, Exit, Goto, SetObject, signalVars
  <2>3. CASE TestQuit \/ Dispatch \/ Disconnect \/ Release \/ BusLost
    BY <2>3 DEF TestQuit, Dispatch, Disconnect, Release, BusLost, Exit, Goto, SetObject,
                signalVars
  <2>4. ASSUME NEW s \in Signal, Deliver(s) PROVE FALSE
    BY <2>4 DEF Deliver
  <2> QED
    BY <2>1, <2>2, <2>3, <2>4 DEF Next, Main
<1> QED
  BY <1>1, DaemonInvAlways, PTL DEF EverythingUndone, Spec
=============================================================================
