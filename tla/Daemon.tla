-------------------------------- MODULE Daemon --------------------------------
(***************************************************************************)
(* The daemon jpld.c: the installation of its signal handlers, the         *)
(* connection to the session bus with the undoing of what a failure leaves *)
(* half done, the loop, and the end.  Signals arrive at any time.          *)
(*                                                                         *)
(* The daemon does not use the launcher yet: jpl_run() in the loop is      *)
(* commented out, and the D-Bus methods of appman.c are empty.  libdbus and *)
(* cdbus are external: every call of theirs may fail, and a lost bus ends  *)
(* the process, as libdbus does for a connection of dbus_bus_get().        *)
(* signal() does not fail for the signals below, and SIGPIPE, which main()  *)
(* has ignored, is left out.                                               *)
(***************************************************************************)
EXTENDS Naturals

Signal == {"TERM", "INT", "HUP"}

VARIABLES
  initial,      \* the dispositions the daemon was started with
  disposition,  \* default, ignored or handler, for each signal
  g_quit,
  pc,           \* where main() is
  connection,   \* cdbus_g_dbus_connection: none, open, released
  object,       \* g_dbus_object: none, made, registered, destroyed
  status        \* how the process ended

vars == <<initial, disposition, g_quit, pc, connection, object, status>>

busVars == <<connection, object>>
signalVars == <<initial, disposition, g_quit>>

Installing == {"install_TERM", "install_INT", "unless_INT", "install_HUP", "unless_HUP"}
Connecting == {"bus_get", "unique_name", "request_name", "object_new", "register",
               "destroy_object", "unref_connection"}
Ended      == {"exited", "killed"}

(* Types, and while the daemon serves its object is registered. *)
TypeOK ==
  /\ initial \in [Signal -> {"default", "ignored"}]
  /\ disposition \in [Signal -> {"default", "ignored", "handler"}]
  /\ g_quit \in BOOLEAN
  /\ pc \in Installing \cup Connecting \cup
            {"loop", "dispatch", "disconnect", "release"} \cup Ended
  /\ connection \in {"none", "open", "released"}
  /\ object \in {"none", "made", "registered", "destroyed"}
  /\ status \in {"running", "success", "failure", "signalled"}
  /\ pc \in {"loop", "dispatch"} => connection = "open" /\ object = "registered"

Init ==
  /\ initial \in [Signal -> {"default", "ignored"}]
  /\ disposition = initial
  /\ g_quit = FALSE
  /\ pc = "install_TERM"
  /\ connection = "none"
  /\ object = "none"
  /\ status = "running"
-----------------------------------------------------------------------------
(* A signal arrives: term_signal_handler() runs, or the kernel ends the     *)
(* process, or nothing happens.                                             *)
Deliver(s) ==
  /\ pc \notin Ended
  /\ \/ /\ disposition[s] = "handler"
        /\ g_quit' = TRUE
        /\ UNCHANGED <<pc, status>>
     \/ /\ disposition[s] = "default"
        /\ pc' = "killed"
        /\ status' = "signalled"
        /\ UNCHANGED g_quit
  /\ UNCHANGED <<initial, disposition, busVars>>

(* install_term_signal_handler(): signal() installs the handler and says    *)
(* what was there before, which is what the process was started with.       *)
Install(s, here, there) ==
  /\ pc = here
  /\ disposition' = [disposition EXCEPT ![s] = "handler"]
  /\ pc' = there
  /\ UNCHANGED <<initial, g_quit, busVars, status>>

(* What it does then for ignore_if_already_ignored: jpld.c:173 names        *)
(* SIGTERM, whatever the signal.                                            *)
UnlessIgnored(s, here, there) ==
  /\ pc = here
  /\ disposition' = IF initial[s] = "ignored"
                    THEN [disposition EXCEPT !["TERM"] = "ignored"]
                    ELSE disposition
  /\ pc' = there
  /\ UNCHANGED <<initial, g_quit, busVars, status>>

InstallHandlers ==
  \/ Install("TERM", "install_TERM", "install_INT")
  \/ Install("INT", "install_INT", "unless_INT")
  \/ UnlessIgnored("INT", "unless_INT", "install_HUP")
  \/ Install("HUP", "install_HUP", "unless_HUP")
  \/ UnlessIgnored("HUP", "unless_HUP", "bus_get")
-----------------------------------------------------------------------------
(* main() goes on, to one of some places, and changes nothing else. *)
Goto(here, places) ==
  /\ pc = here
  /\ pc' \in places
  /\ UNCHANGED <<signalVars, busVars, status>>

SetObject(here, value, there) ==
  /\ pc = here
  /\ object' = value
  /\ pc' = there
  /\ UNCHANGED <<signalVars, connection, status>>

Exit(here, connectionThen, how) ==
  /\ pc = here
  /\ connection' = connectionThen
  /\ pc' = "exited"
  /\ status' = how
  /\ UNCHANGED <<signalVars, object>>

(* connect_dbus(): a call that fails leads to the undoing of what was done. *)
BusGet ==
  \/ /\ pc = "bus_get"
     /\ connection' = "open"
     /\ pc' = "unique_name"
     /\ UNCHANGED <<signalVars, object, status>>
  \/ Exit("bus_get", "none", "failure")

UniqueName  == Goto("unique_name", {"request_name", "unref_connection"})
RequestName == Goto("request_name", {"object_new", "unref_connection"})

ObjectNew ==
  \/ SetObject("object_new", "made", "register")
  \/ Goto("object_new", {"unref_connection"})

(* Mutant: a failure to register leaves the object behind. *)
RegisterLeak ==
  \/ SetObject("register", "registered", "loop")
  \/ Goto("register", {"unref_connection"})

(* Mutant: the result of the registration is not looked at. *)
RegisterUnchecked ==
  \/ SetObject("register", "registered", "loop")
  \/ Goto("register", {"loop"})

Register ==
  \/ SetObject("register", "registered", "loop")
  \/ Goto("register", {"destroy_object"})

DestroyObject   == SetObject("destroy_object", "destroyed", "unref_connection")
UnrefConnection == Exit("unref_connection", "released", "failure")

ConnectDbus ==
  \/ BusGet \/ UniqueName \/ RequestName \/ ObjectNew \/ Register
  \/ DestroyObject \/ UnrefConnection

(* while (!g_quit) *)
TestQuit == Goto("loop", {IF g_quit THEN "disconnect" ELSE "dispatch"})

(* Mutant: the dispatch is called without a timeout and waits for a         *)
(* message that need not come.                                              *)
DispatchForever == Goto("dispatch", {"dispatch"})

(* dbus_connection_read_write_dispatch() returns after a message or 50 ms.  *)
Dispatch == Goto("dispatch", {"loop"})

(* The bus goes away while messages are awaited. *)
BusLost == Exit("dispatch", connection, "failure")

(* disconnect_dbus() *)
Disconnect == SetObject("disconnect", "destroyed", "release")
Release    == Exit("release", "released", "success")

Main == InstallHandlers \/ ConnectDbus \/ TestQuit \/ Dispatch \/ Disconnect \/ Release

Next == Main \/ BusLost \/ \E s \in Signal : Deliver(s)

Spec == Init /\ [][Next]_vars

(* main() is scheduled and libdbus answers: its calls have timeouts. *)
FairSpec == Spec /\ WF_vars(Main)
-----------------------------------------------------------------------------
(* When main() returns, whichever call of connect_dbus() failed, the object *)
(* it made is destroyed and the connection it opened is released, unless    *)
(* libdbus has ended the process because the bus was lost.                  *)
EverythingUndone ==
  [][pc # "dispatch" /\ pc' = "exited" =>
       connection' # "open" /\ object' \notin {"made", "registered"}]_vars

(* A termination signal that reaches the handler, even before the daemon is *)
(* connected, ends it.                                                      *)
EndsWhenAsked == g_quit ~> pc \in Ended
-----------------------------------------------------------------------------
(* "install the signal handlers", jpld.c:194, with true for                 *)
(* ignore_if_already_ignored: once that is done a signal the daemon was     *)
(* started with ignored stays ignored, SIGTERM excepted, and every other    *)
(* has the handler.                                                         *)
SignalsAsAsked ==
  pc \notin Installing \cup Ended =>
    \A s \in Signal :
      disposition[s] = IF initial[s] = "ignored" /\ s # "TERM" THEN "ignored"
                       ELSE "handler"
=============================================================================
