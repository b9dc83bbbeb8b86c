------------------------------ MODULE Program ------------------------------
(***************************************************************************)
(* What the child process of jpl_execute() does between fork() and the     *)
(* program: set_ldpreload() and jpl_exec_program() of loader.c, with every *)
(* call that can fail.  The result of some calls is looked at, that of     *)
(* others is not, and a failure of the first kind ends the process.        *)
(* Descriptors are in Spawn.  The two helpers of catdup.c that the child   *)
(* calls are among its steps; the others are called here by a host program *)
(* with any arguments.                                                     *)
(***************************************************************************)
EXTENDS Catdup, FiniteSets

CONSTANTS
  Letter,         \* the characters of names, apart from the space
  Space,          \* what separates the libraries in LD_PRELOAD
  Variable,       \* the other variables of the environment
  LD_PRELOAD,     \* the name of that variable
  CommandLine,    \* the argument of jpl_execute()
  MaxLength,      \* longest string
  MaxStrings      \* longest array, in strings or in pairs of strings

ASSUME ProgramAssumption ==
  /\ Nul \notin Letter \cup {Space} /\ Space \notin Letter
  /\ NULL \notin Seq(Letter \cup {Space})
  /\ LD_PRELOAD \notin Variable
  /\ MaxLength \in Nat /\ MaxStrings \in Nat

VARIABLES
  request,        \* the arguments ldpreload, env_vars and run_in_terminal
  inherited,      \* the environment at the fork
  environ,        \* the environment now
  refused,        \* the variables of which the last setenv() failed
  heap,           \* the blocks of malloc(): content, what is meant, times freed
  add, old, new,  \* of set_ldpreload(); a block is its place in heap
  pair,           \* how many pairs env_vars was moved on by
  session,        \* "own" or "host"
  cwd,            \* "asked" or "host"
  argv,           \* what execvp() was called with
  pc,             \* the next call; "program", "exited" or "host" at the end
  trouble         \* the other calls that failed

given == <<request, inherited>>
preload == <<heap, add, old, new>>
process == <<session, cwd, argv>>
environment == <<environ, refused>>
vars == <<given, preload, process, environment, pair, pc, trouble>>

Name == Variable \cup {LD_PRELOAD}
Word == BoundedSeq(Letter, MaxLength)
Text == BoundedSeq(Letter \cup {Space}, MaxLength)
Delimiter == <<Space>>

(* The arrays without the NULL at their end: of libraries, and of pairs of  *)
(* a name and a value.                                                     *)
Request == [ldpreload : {NULL} \cup BoundedSeq(Word, MaxStrings),
            env_vars : {NULL} \cup BoundedSeq(Name \X Word, MaxStrings),
            run_in_terminal : BOOLEAN]

Start(first) ==
  /\ pc = first
  /\ environ = inherited /\ refused = {}
  /\ heap = << >> /\ add = NULL /\ old = NULL /\ new = NULL
  /\ pair = 0
  /\ cwd = "host" /\ argv = << >>
  /\ trouble = {}

(* forkpty() calls login_tty(), which calls setsid(); fork() does not.      *)
InitChild ==
  /\ request \in Request
  /\ inherited \in [Name -> {NULL} \cup Text]
  /\ \A v \in Variable : inherited[v] \in {NULL, << >>}
  /\ session = IF request.run_in_terminal THEN "host" ELSE "own"
  /\ Start("set_ldpreload")

InitHost ==
  /\ request = [ldpreload |-> NULL, env_vars |-> NULL, run_in_terminal |-> FALSE]
  /\ inherited = [v \in Name |-> NULL]
  /\ session = "host"
  /\ Start("host")

Init == InitChild \/ InitHost
-----------------------------------------------------------------------------
(* Running out of memory and the like. *)
Fails(c) == trouble' = trouble \cup {c}

(* "text" is what the block is meant to hold. *)
New(block, text) == heap' = Append(heap, [block |-> block, text |-> text, frees |-> 0])

Free(blocks) == heap' = [i \in DOMAIN heap |->
                           IF i \in blocks THEN [heap[i] EXCEPT !.frees = @ + 1] ELSE heap[i]]

Goto(c) == pc' = c

Exit == Goto("exited")

(* What catdup_array() makes of an array: each string is followed by the    *)
(* delimiter, the last one too.  catdup.h:64 announces it "in between" only. *)
Followed(array, delimiter) ==
  FoldLeft(LAMBDA text, s : text \o s \o delimiter, << >>, array)

SkipPreload ==
  /\ pc = "set_ldpreload" /\ request.ldpreload = NULL
  /\ Goto("setsid")
  /\ UNCHANGED <<given, preload, process, environment, pair, trouble>>

CatdupArray ==
  /\ pc = "set_ldpreload" /\ request.ldpreload # NULL
  /\ New(catdup_array(request.ldpreload, Delimiter), Followed(request.ldpreload, Delimiter))
  /\ add' = Len(heap) + 1
  /\ Goto("getenv")
  /\ UNCHANGED <<given, process, environment, old, new, pair, trouble>>

CatdupArrayFails ==
  /\ pc = "set_ldpreload" /\ request.ldpreload # NULL
  /\ Fails("catdup_array") /\ Exit
  /\ UNCHANGED <<given, preload, process, environment, pair>>

(* getenv() and what is made of its result.  Without a variable to keep,    *)
(* new is the same block as add.                                            *)
GetenvNothing ==
  /\ pc = "getenv" /\ environ[LD_PRELOAD] = NULL
  /\ new' = add
  /\ Goto("setenv")
  /\ UNCHANGED <<given, process, environment, heap, add, old, pair, trouble>>

(* Mutant: the old value comes first and nothing separates it. *)
GetenvCatdup3Swapped ==
  /\ pc = "getenv" /\ environ[LD_PRELOAD] # NULL
  /\ old' = environ[LD_PRELOAD]
  /\ LET text == Str(heap[add].block)
     IN  New(catdup3(old', text, << >>), old' \o text)
  /\ new' = Len(heap) + 1
  /\ Goto("setenv")
  /\ UNCHANGED <<given, process, environment, add, pair, trouble>>

GetenvCatdup3 ==
  /\ pc = "getenv" /\ environ[LD_PRELOAD] # NULL
  /\ old' = environ[LD_PRELOAD]
  /\ LET text == Str(heap[add].block)
     IN  New(catdup3(text, Delimiter, old'), text \o Delimiter \o old')
  /\ new' = Len(heap) + 1
  /\ Goto("setenv")
  /\ UNCHANGED <<given, process, environment, add, pair, trouble>>

GetenvCatdup3Fails ==
  /\ pc = "getenv" /\ environ[LD_PRELOAD] # NULL
  /\ old' = environ[LD_PRELOAD]
  /\ Fails("catdup3") /\ Exit
  /\ UNCHANGED <<given, process, environment, heap, add, new, pair>>

(* setenv(), whose result is not looked at. *)
SetTo(v, value) ==
  \/ environ' = [environ EXCEPT ![v] = value] /\ refused' = refused \ {v}
  \/ refused' = refused \cup {v} /\ UNCHANGED environ

SetenvPreload ==
  /\ pc = "setenv"
  /\ SetTo(LD_PRELOAD, Str(heap[new].block))
  /\ Goto("free")
  /\ UNCHANGED <<given, preload, process, pair, trouble>>

FreePreload ==
  /\ pc = "free"
  /\ Free({add} \cup IF old # NULL THEN {new} ELSE {})
  /\ Goto("setsid")
  /\ UNCHANGED <<given, process, environment, add, old, new, pair, trouble>>

(* Only a process that fork() made must leave the session of its parent.    *)
Setsid ==
  /\ pc = "setsid"
  /\ session' = IF request.run_in_terminal THEN "own" ELSE session
  /\ Goto("chdir")
  /\ UNCHANGED <<given, preload, environment, pair, cwd, argv, trouble>>

SetsidFails ==
  /\ pc = "setsid" /\ request.run_in_terminal
  /\ Fails("setsid") /\ Goto("chdir")
  /\ UNCHANGED <<given, preload, process, environment, pair>>

(* The program is started where the host program is if chdir() fails.       *)
Chdir ==
  /\ pc = "chdir"
  /\ \/ cwd' = "asked" /\ UNCHANGED trouble
     \/ cwd' = cwd /\ Fails("chdir")
  /\ Goto("env_vars")
  /\ UNCHANGED <<given, preload, environment, pair, session, argv>>

MorePairs == request.env_vars # NULL /\ pair < Len(request.env_vars)

(* Mutants: a variable that is set already is left as it is; env_vars is    *)
(* moved on too far, or not at all.                                        *)
SetenvPairUnlessSet ==
  /\ pc = "env_vars" /\ MorePairs
  /\ LET asked == request.env_vars[pair + 1]
     IN  SetTo(asked[1], IF environ[asked[1]] = NULL THEN asked[2] ELSE environ[asked[1]])
  /\ pair' = pair + 1
  /\ UNCHANGED <<given, preload, process, pc, trouble>>

SetenvPairTooFar ==
  /\ pc = "env_vars" /\ MorePairs
  /\ LET asked == request.env_vars[pair + 1] IN SetTo(asked[1], asked[2])
  /\ pair' = pair + 2
  /\ UNCHANGED <<given, preload, process, pc, trouble>>

SetenvPairForever ==
  /\ pc = "env_vars" /\ MorePairs
  /\ LET asked == request.env_vars[pair + 1] IN SetTo(asked[1], asked[2])
  /\ UNCHANGED <<given, preload, process, pair, pc, trouble>>

(* setenv() of one pair, after LD_PRELOAD was set and whatever it names.    *)
SetenvPair ==
  /\ pc = "env_vars" /\ MorePairs
  /\ LET asked == request.env_vars[pair + 1] IN SetTo(asked[1], asked[2])
  /\ pair' = pair + 1
  /\ UNCHANGED <<given, preload, process, pc, trouble>>

Argv ==
  /\ pc = "env_vars" /\ ~MorePairs
  /\ argv' = (IF request.run_in_terminal THEN <<"xterm", "-e">> ELSE << >>)
               \o <<"sh", "-c", CommandLine>>
  /\ Goto("execvp")
  /\ UNCHANGED <<given, preload, environment, pair, session, cwd, trouble>>

Execvp ==
  /\ pc = "execvp"
  /\ Goto("program")
  /\ UNCHANGED <<given, preload, process, environment, pair, trouble>>

ExecvpFails ==
  /\ pc = "execvp"
  /\ Fails("execvp") /\ Exit
  /\ UNCHANGED <<given, preload, process, environment, pair>>

SetLdpreload ==
  \/ SkipPreload \/ CatdupArray \/ CatdupArrayFails
  \/ GetenvNothing \/ GetenvCatdup3 \/ GetenvCatdup3Fails
  \/ SetenvPreload \/ FreePreload

ExecProgram ==
  \/ Setsid \/ SetsidFails \/ Chdir
  \/ SetenvPair
  \/ Argv \/ Execvp \/ ExecvpFails

(* The helpers the launcher does not use, and catdup_array() without a      *)
(* delimiter.                                                              *)
HostCatdup ==
  /\ pc = "host"
  /\ \E s, t \in Text :
       \/ New(catdup(s, t), s \o t)
       \/ \E u, v \in Text : New(catdup4(s, t, u, v), s \o t \o u \o v)
       \/ \E rest \in BoundedSeq(Word, MaxStrings) :
            New(catdupv(s, t, rest), s \o t \o FlattenSeq(rest))
       \/ \E d \in {NULL, << >>} : New(catdup_array(<<s, t>>, d), s \o t)
  /\ Goto("returned")
  /\ UNCHANGED <<given, process, add, old, new, environment, pair, trouble>>

Child == SetLdpreload \/ ExecProgram

Next == Child \/ HostCatdup

Spec == Init /\ [][Next]_vars

(* The child process is scheduled. *)
FairSpec == Spec /\ WF_vars(Child)
-----------------------------------------------------------------------------
TypeOK ==
  /\ request \in Request
  /\ \A v \in Name : environ[v] = NULL \/ \A i \in DOMAIN environ[v] :
                                             environ[v][i] \in Letter \cup {Space}
  /\ add \in {NULL} \cup DOMAIN heap /\ new \in {NULL} \cup DOMAIN heap
  /\ pair \in Nat /\ pair > 0 => pair <= Len(request.env_vars)
  /\ session \in {"host", "own"} /\ cwd \in {"host", "asked"}
  /\ refused \subseteq Name
  /\ trouble \subseteq {"catdup_array", "catdup3", "setsid", "chdir", "execvp"}

BlocksExact ==
  \A i \in DOMAIN heap :
    Exact(heap[i].block) /\ (i # add => Str(heap[i].block) = heap[i].text)

FreedOnce ==
  \A i \in DOMAIN heap :
    /\ pc \in {"getenv", "setenv", "free"} => heap[i].frees = 0
    /\ pc \in {"setsid", "chdir", "env_vars", "execvp", "program"} => heap[i].frees = 1

(* Every helper of catdup.c writes every byte of its block and none outside *)
(* of it, and leaves there the concatenation of its strings; set_ldpreload() *)
(* frees each block once, whether there was a value to keep or not, and not *)
(* before setenv() has copied it.  What catdup_array() makes of a delimiter *)
(* is left open here, since it is not what catdup.h:64 says; what comes of  *)
(* it in LD_PRELOAD is for HooksFirst.                                      *)
MemorySound == BlocksExact /\ FreedOnce

(* What ld.so makes of LD_PRELOAD: the words between spaces.  It goes over  *)
(* the text once; a space, like the end, ends a word that has begun.        *)
ReadCharacter(parse, c) ==
  IF c # Space THEN [parse EXCEPT !.word = Append(@, c)]
  ELSE [words |-> IF parse.word = << >> THEN parse.words ELSE Append(parse.words, parse.word),
        word  |-> << >>]

Words(text) ==
  FoldLeft(ReadCharacter, [words |-> << >>, word |-> << >>], Append(text, Space)).words

WordsOf(value) == IF value = NULL THEN << >> ELSE Words(value)

Asked(v) == request.env_vars # NULL /\ \E i \in DOMAIN request.env_vars :
                                        request.env_vars[i][1] = v

(* loader.h:69 and :71 say that an empty string ends an array, where the    *)
(* code goes on to the NULL.  The two agree on arrays without one.          *)
LibrariesPlain == request.ldpreload # NULL => << >> \notin Range(request.ldpreload)

ValuesPlain ==
  request.env_vars # NULL =>
    \A i \in DOMAIN request.env_vars : request.env_vars[i][2] # << >>

(* The program runs with the libraries of ldpreload before those its host   *)
(* program was run with, in that order, none glued to another and none      *)
(* lost, whatever other call failed, unless the caller of jpl_execute()     *)
(* names LD_PRELOAD in env_vars or the environment had no room for it.      *)
HooksFirst ==
  pc = "program" /\ LibrariesPlain /\ ~Asked(LD_PRELOAD) /\ LD_PRELOAD \notin refused =>
    WordsOf(environ[LD_PRELOAD]) =
      (IF request.ldpreload = NULL THEN << >> ELSE request.ldpreload)
      \o WordsOf(inherited[LD_PRELOAD])

(* loader.h:64 and :67: the program runs where and with the variables that  *)
(* were asked for, the last value of each, those nobody asked to change as  *)
(* they were, in a session that is not the host program's.  A call that     *)
(* fails costs what it was for and no more: the variable of a failed        *)
(* setenv(), not those before and after it.                                *)
EnvironmentAsAsked ==
  pc = "program" =>
    /\ "chdir" \notin trouble => cwd = "asked"
    /\ "setsid" \notin trouble => session = "own"
    /\ ValuesPlain =>
         \A i \in DOMAIN IF request.env_vars = NULL THEN << >> ELSE request.env_vars :
           LET v == request.env_vars[i][1]
           IN  v \notin refused
               /\ (\A j \in DOMAIN request.env_vars : j > i => request.env_vars[j][1] # v)
                 => environ[v] = request.env_vars[i][2]
    /\ \A v \in Variable : ~Asked(v) => environ[v] = inherited[v]

(* "We should never get here", loader.c:640: the child ends as a program or *)
(* exits; it never comes back to run the host program a second time.        *)
NeverComesBack == pc = "set_ldpreload" ~> pc \in {"program", "exited"}
=============================================================================
