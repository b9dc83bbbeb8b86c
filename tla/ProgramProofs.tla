---------------------------- MODULE ProgramProofs ----------------------------
(***************************************************************************)
(* Theorems about Program, for arrays and strings of any length and every  *)
(* call failing or not.  The helpers of catdup.c fold over their strings:  *)
(* what a fold leaves in a block is proved string by string, with an       *)
(* instance of FoldLemmas for each of the four folds.                      *)
(***************************************************************************)
EXTENDS Program, DataLemmas, TLAPS

Early == {"set_ldpreload", "getenv", "setenv", "free", "setsid"}
Late  == {"env_vars", "execvp", "program"}

(* Where the child runs. *)
PlaceInv ==
  /\ pc \in Early => request.run_in_terminal \/ session = "own"
  /\ pc \in {"chdir"} \cup Late => "setsid" \in trouble \/ session = "own"
  /\ pc \in Late => "chdir" \in trouble \/ cwd = "asked"

(* The environment after the first pairs of env_vars: the last value of     *)
(* each variable that one of them names and setenv() had room for, what was *)
(* inherited for those that none names.                                    *)
PairsInv ==
  /\ \A i \in 1 .. pair :
       (\A j \in 1 .. pair : j > i => request.env_vars[j][1] # request.env_vars[i][1])
         => \/ request.env_vars[i][1] \in refused
            \/ environ[request.env_vars[i][1]] = request.env_vars[i][2]
  /\ \A v \in Variable :
       (\A i \in 1 .. pair : request.env_vars[i][1] # v) => environ[v] = inherited[v]

EnvironInv ==
  /\ pair \in Nat
  /\ DOMAIN environ = Name
  /\ pc \notin Late => pc = "exited" \/ pair = 0
  /\ request.env_vars = NULL => pair = 0
  /\ request.env_vars # NULL =>
       /\ request.env_vars \in Seq(Name \X Word)
       /\ pair <= Len(request.env_vars)
       /\ pc \in {"execvp", "program"} => pair = Len(request.env_vars)
  /\ PairsInv

(* The blocks of set_ldpreload() and who points to them. *)
Fresh(b) == b = [block |-> b.block, text |-> b.text, frees |-> 0]

HeapInv ==
  /\ pc = "set_ldpreload" => heap = << >> /\ old = NULL
  /\ pc = "getenv" => add = 1 /\ old = NULL /\ heap = <<heap[1]>> /\ Fresh(heap[1])
  /\ pc \in {"setenv", "free"} =>
       /\ add = 1 /\ Fresh(heap[1])
       /\ old = NULL => new = 1 /\ heap = <<heap[1]>>
       /\ old # NULL => new = 2 /\ heap = <<heap[1], heap[2]>> /\ Fresh(heap[2])
  /\ FreedOnce
-----------------------------------------------------------------------------
(* fork() and forkpty(). *)
LEMMA PlaceInvInit == Init => PlaceInv
BY DEF Init, InitChild, InitHost, Start, PlaceInv, Early, Late

(* setsid() and chdir() fail or do what they are for. *)
LEMMA PlaceInvNext == PlaceInv /\ [Next]_vars => PlaceInv'
<1> SUFFICES ASSUME PlaceInv, [Next]_vars PROVE PlaceInv'
  OBVIOUS
<1> USE DEF PlaceInv, Early, Late, given, process, preload, environment, Goto, Exit, Fails
<1>1. CASE SetLdpreload
  BY <1>1 DEF SetLdpreload, SkipPreload, CatdupArray, CatdupArrayFails, GetenvNothing,
              GetenvCatdup3, GetenvCatdup3Fails, SetenvPreload, FreePreload, SetTo
<1>2. CASE Setsid \/ SetsidFails
  BY <1>2 DEF Setsid, SetsidFails
<1>3. CASE Chdir
  BY <1>3 DEF Chdir
<1>4. CASE SetenvPair
  BY <1>4 DEF SetenvPair, SetTo
<1>5. CASE Argv \/ Execvp \/ ExecvpFails
  BY <1>5 DEF Argv, Execvp, ExecvpFails
<1>6. CASE HostCatdup
  BY <1>6 DEF HostCatdup
<1>7. CASE UNCHANGED vars
  BY <1>7 DEF vars
<1> QED
  BY <1>1, <1>2, <1>3, <1>4, <1>5, <1>6, <1>7 DEF Next, Child, ExecProgram
-----------------------------------------------------------------------------
(* The bounds of env_vars do not matter. *)
LEMMA EnvVarsIsSeq ==
  ASSUME NEW r \in Request, r.env_vars # NULL
  PROVE  r.env_vars \in Seq(Name \X Word)
<1>1. r.env_vars \in BoundedSeq(Name \X Word, MaxStrings)
  BY DEF Request
<1>2. PICK m \in 0 .. MaxStrings : r.env_vars \in [1 .. m -> Name \X Word]
  BY <1>1 DEF BoundedSeq, SeqOf
<1> QED
  BY <1>2, ProgramAssumption

(* No pair of env_vars was set yet. *)
LEMMA EnvironInvInit == Init => EnvironInv
<1>1. InitChild => EnvironInv
  <2> SUFFICES ASSUME InitChild PROVE EnvironInv
    OBVIOUS
  <2>1. request.env_vars # NULL =>
          request.env_vars \in Seq(Name \X Word) /\ 0 <= Len(request.env_vars)
    BY EnvVarsIsSeq DEF InitChild
  <2>2. DOMAIN environ = Name /\ environ = inherited /\ pair = 0 /\ pc = "set_ldpreload"
    BY DEF InitChild, Start
  <2> QED
    BY <2>1, <2>2 DEF EnvironInv, PairsInv, Late
<1>2. InitHost => EnvironInv
  BY DEF InitHost, Start, EnvironInv, PairsInv, Late
<1> QED
  BY <1>1, <1>2 DEF Init

(* A pair sets its variable and no other, or setenv() fails for that one.   *)
LEMMA EnvironInvNext == EnvironInv /\ [Next]_vars => EnvironInv'
<1> SUFFICES ASSUME EnvironInv, [Next]_vars PROVE EnvironInv'
  OBVIOUS
<1> USE DEF EnvironInv, Late, given, process, preload, environment, Goto, Exit, Fails
<1>0. UNCHANGED <<request, inherited, environ, refused, pair>> => PairsInv'
  BY DEF PairsInv
<1>1. CASE SetLdpreload
  <2>1. CASE SetenvPreload
    <3>1. pair = 0 /\ pair' = 0
      BY <2>1 DEF SetenvPreload
    <3>2. \A v \in Variable : environ'[v] = environ[v]
      BY <2>1, ProgramAssumption DEF SetenvPreload, SetTo, Name
    <3>3. DOMAIN environ' = Name
      BY <2>1 DEF SetenvPreload, SetTo
    <3>4. PairsInv'
      BY <2>1, <3>1, <3>2 DEF PairsInv, SetenvPreload
    <3> QED
      BY <2>1, <3>1, <3>3, <3>4 DEF SetenvPreload
  <2>2. CASE ~SetenvPreload
    BY <1>0, <1>1, <2>2 DEF SetLdpreload, SkipPreload, CatdupArray, CatdupArrayFails, GetenvNothing,
                      GetenvCatdup3, GetenvCatdup3Fails, FreePreload
  <2> QED
    BY <2>1, <2>2
<1>2. CASE Setsid \/ SetsidFails \/ Chdir
  BY <1>0, <1>2 DEF Setsid, SetsidFails, Chdir
<1>3. CASE SetenvPair
  <2> DEFINE e == request.env_vars
             n == pair + 1
  <2>1. /\ e # NULL /\ e \in Seq(Name \X Word) /\ n \in 1 .. Len(e)
        /\ pair' = n /\ request' = request /\ inherited' = inherited /\ pc' = pc
        /\ pc = "env_vars"
    BY <1>3 DEF SetenvPair, MorePairs
  <2>2. e[n][1] \in Name
    BY <2>1
  <2>3. \/ /\ environ' = [environ EXCEPT ![e[n][1]] = e[n][2]]
           /\ refused' = refused \ {e[n][1]}
        \/ environ' = environ /\ refused' = refused \cup {e[n][1]}
    BY <1>3 DEF SetenvPair, SetTo
  <2>4. DOMAIN environ' = Name
    BY <2>3
  <2>5. ASSUME NEW i \in 1 .. n, \A j \in 1 .. n : j > i => e[j][1] # e[i][1]
        PROVE  e[i][1] \in refused' \/ environ'[e[i][1]] = e[i][2]
    <3>2. CASE i = n
      BY <2>3, <3>2, <2>2
    <3>3. CASE i # n
      <4>1. i \in 1 .. pair /\ n > i /\ n \in 1 .. n
        BY <3>3
      <4>2. e[n][1] # e[i][1]
        BY <4>1, <2>5
      <4>3. \A j \in 1 .. pair : j > i => e[j][1] # e[i][1]
        BY <2>5
      <4>4. e[i][1] \in refused \/ environ[e[i][1]] = e[i][2]
        BY <4>1, <4>3 DEF PairsInv
      <4>5. e[i][1] \in Name
        BY <2>1, <4>1
      <4> QED
        BY <2>3, <4>2, <4>4, <4>5
    <3> QED
      BY <3>2, <3>3
  <2>6. ASSUME NEW v \in Variable, \A i \in 1 .. n : e[i][1] # v
        PROVE  environ'[v] = inherited[v]
    <3>1. environ[v] = inherited[v]
      BY <2>6 DEF PairsInv
    <3>2. e[n][1] # v
      BY <2>1, <2>6
    <3> QED
      BY <2>3, <3>1, <3>2, v \in Name DEF Name
  <2> QED
    BY <2>1, <2>4, <2>5, <2>6 DEF PairsInv
<1>4. CASE Argv \/ Execvp \/ ExecvpFails
  <2>1. UNCHANGED <<request, inherited, environ, refused, pair>>
    BY <1>4 DEF Argv, Execvp, ExecvpFails
  <2>2. pc = "env_vars" => request.env_vars = NULL \/ ~(pair < Len(request.env_vars))
    BY <1>4 DEF Argv, Execvp, ExecvpFails, MorePairs
  <2>3. pc \in {"env_vars", "execvp"} /\ pc' \in {"execvp", "program", "exited"}
        /\ (pc' = "execvp" => pc = "env_vars")
    BY <1>4 DEF Argv, Execvp, ExecvpFails
  <2>4. request.env_vars # NULL /\ pc' \in {"execvp", "program"} =>
          pair = Len(request.env_vars)
    BY <2>2, <2>3
  <2> QED
    BY <1>0, <2>1, <2>3, <2>4
<1>5. CASE HostCatdup
  BY <1>0, <1>5 DEF HostCatdup
<1>6. CASE UNCHANGED vars
  BY <1>0, <1>6 DEF vars
<1> QED
  BY <1>1, <1>2, <1>3, <1>4, <1>5, <1>6 DEF Next, Child, ExecProgram

(* The program runs where and with the variables that were asked for, in a  *)
(* session of its own, and with what was inherited otherwise; a failed      *)
(* setenv() costs its own variable only.  Values that are the empty string  *)
(* are left out, since loader.h:69 takes one for the end of env_vars.       *)
THEOREM EnvironmentIsAsAsked == Spec => []EnvironmentAsAsked
<1>1. PlaceInv /\ EnvironInv => EnvironmentAsAsked
  <2> SUFFICES ASSUME PlaceInv, EnvironInv, pc = "program" PROVE EnvironmentAsAsked
    BY DEF EnvironmentAsAsked
  <2> DEFINE e == request.env_vars
  <2>1. ("chdir" \notin trouble => cwd = "asked") /\ ("setsid" \notin trouble => session = "own")
    BY DEF PlaceInv, Late
  <2>2. CASE e = NULL
    <3>1. pair = 0
      BY <2>2 DEF EnvironInv
    <3>2. \A v \in Variable : environ[v] = inherited[v]
      BY <3>1 DEF EnvironInv, PairsInv
    <3>3. DOMAIN (IF e = NULL THEN << >> ELSE e) = {}
      BY <2>2
    <3> QED
      BY <2>1, <3>2, <3>3 DEF EnvironmentAsAsked
  <2>3. CASE e # NULL
    <3>1. DOMAIN e = 1 .. pair
      BY <2>3 DEF EnvironInv
    <3>2. \A i \in DOMAIN e :
            e[i][1] \notin refused /\ (\A j \in DOMAIN e : j > i => e[j][1] # e[i][1])
              => environ[e[i][1]] = e[i][2]
      BY <3>1 DEF EnvironInv, PairsInv
    <3>3. \A v \in Variable : ~Asked(v) => environ[v] = inherited[v]
      BY <2>3, <3>1 DEF EnvironInv, PairsInv, Asked
    <3> QED
      BY <2>1, <2>3, <3>2, <3>3 DEF EnvironmentAsAsked
  <2> QED
    BY <2>2, <2>3
<1> QED
  BY <1>1, PlaceInvInit, PlaceInvNext, EnvironInvInit, EnvironInvNext, PTL DEF Spec
-----------------------------------------------------------------------------
(* Nothing was allocated yet. *)
LEMMA HeapInvInit == Init => HeapInv
BY DEF Init, InitChild, InitHost, Start, HeapInv, FreedOnce

(* The first two blocks. *)
LEMMA AppendIsTuple ==
  /\ \A x : Append(<< >>, x) = <<x>>
  /\ \A a, x : Append(<<a>>, x) = <<a, x>>
  /\ Len(<< >>) = 0 /\ \A a : Len(<<a>>) = 1
<1>1. ASSUME NEW a, NEW x PROVE Append(<<a>>, x) = <<a, x>>
  <2>1. <<a>> \in Seq({a, x}) /\ <<a, x>> \in Seq({a, x}) /\ x \in {a, x}
    OBVIOUS
  <2>2. /\ Append(<<a>>, x) \in Seq({a, x})
        /\ Len(Append(<<a>>, x)) = 2
        /\ Append(<<a>>, x)[1] = a /\ Append(<<a>>, x)[2] = x
    BY <2>1
  <2>3. \A s \in Seq({a, x}) : Len(s) = 2 => s = [i \in 1 .. 2 |-> s[i]]
    OBVIOUS
  <2>4. \A i \in 1 .. 2 : Append(<<a>>, x)[i] = <<a, x>>[i]
    <3>1. Append(<<a>>, x)[1] = <<a, x>>[1] /\ Append(<<a>>, x)[2] = <<a, x>>[2]
      BY <2>2
    <3>2. \A i \in 1 .. 2 : i = 1 \/ i = 2
      OBVIOUS
    <3> QED
      BY <3>1, <3>2
  <2>5. Len(<<a, x>>) = 2
    OBVIOUS
  <2> QED
    BY <2>1, <2>2, <2>3, <2>4, <2>5
<1>2. ASSUME NEW x PROVE Append(<< >>, x) = <<x>>
  BY << >> \in Seq({x}), <<x>> \in Seq({x})
<1> QED
  BY <1>1, <1>2

(* Each block is freed by the step that ends set_ldpreload(). *)
LEMMA HeapInvNext == HeapInv /\ [Next]_vars => HeapInv'
<1> SUFFICES ASSUME HeapInv, [Next]_vars PROVE HeapInv'
  OBVIOUS
<1> USE DEF HeapInv, FreedOnce, given, process, preload, environment, Goto, Exit, Fails
<1>1. CASE SkipPreload \/ CatdupArrayFails \/ GetenvCatdup3Fails \/ GetenvNothing \/ SetenvPreload
  BY <1>1 DEF SkipPreload, CatdupArrayFails, GetenvCatdup3Fails, GetenvNothing, SetenvPreload, Fresh
<1>2. CASE CatdupArray
  <2>1. PICK b, t : heap' = Append(heap, [block |-> b, text |-> t, frees |-> 0])
    BY <1>2 DEF CatdupArray, New
  <2>2. heap = << >>
    BY <1>2 DEF CatdupArray
  <2>3. heap' = <<[block |-> b, text |-> t, frees |-> 0]>>
    BY <2>1, <2>2, AppendIsTuple
  <2>4. add' = 1 /\ old' = NULL /\ pc' = "getenv"
    BY <1>2, <2>2, AppendIsTuple DEF CatdupArray
  <2> QED
    BY <2>3, <2>4 DEF Fresh
<1>3. CASE GetenvCatdup3
  <2>1. PICK b, t : heap' = Append(heap, [block |-> b, text |-> t, frees |-> 0])
    BY <1>3 DEF GetenvCatdup3, New
  <2>2. heap = <<heap[1]>> /\ Fresh(heap[1]) /\ add = 1
    BY <1>3 DEF GetenvCatdup3
  <2>3. heap' = <<heap[1], [block |-> b, text |-> t, frees |-> 0]>> /\ Len(heap) = 1
    BY <2>1, <2>2, AppendIsTuple
  <2>4. add' = 1 /\ old' # NULL /\ new' = 2 /\ pc' = "setenv"
    BY <1>3, <2>2, <2>3 DEF GetenvCatdup3
  <2> QED
    BY <2>2, <2>3, <2>4 DEF Fresh
<1>4. CASE FreePreload
  <2>1. heap'= [i \in DOMAIN heap |-> [heap[i] EXCEPT !.frees = @ + 1]] /\ pc' = "setsid"
    <3>1. DOMAIN heap = {add} \cup IF old # NULL THEN {new} ELSE {}
      BY <1>4 DEF FreePreload
    <3> QED
      BY <1>4, <3>1 DEF FreePreload, Free
  <2>2. \A i \in DOMAIN heap : Fresh(heap[i])
    BY <1>4 DEF FreePreload
  <2>3. \A i \in DOMAIN heap : [heap[i] EXCEPT !.frees = @ + 1].frees = 1
    BY <2>2 DEF Fresh
  <2> QED
    BY <2>1, <2>3
<1>5. CASE ExecProgram
  BY <1>5 DEF ExecProgram, Setsid, SetsidFails, Chdir, SetenvPair, Argv, Execvp, ExecvpFails
<1>6. CASE HostCatdup
  BY <1>6 DEF HostCatdup
<1>7. CASE UNCHANGED vars
  BY <1>7 DEF vars
<1> QED
  BY <1>1, <1>2, <1>3, <1>4, <1>5, <1>6, <1>7 DEF Next, Child, SetLdpreload

(* Whether LD_PRELOAD was inherited or not, no block is freed twice, before *)
(* its last use, or never.                                                 *)
THEOREM BlocksFreedOnce == Spec => []FreedOnce
<1>1. HeapInv => FreedOnce
  BY DEF HeapInv
<1> QED
  BY <1>1, HeapInvInit, HeapInvNext, PTL DEF Spec
-----------------------------------------------------------------------------
(* Strings of any length, without the NUL. *)
Character == Letter \cup {Space}
String == Seq(Character)

(* What a block holds that t was copied into, from its begin. *)
Data(t) == [a \in 0..(Len(t) - 1) |-> t[a + 1]]

Block(size, data, p) == [size |-> size, to |-> [data |-> data, p |-> p]]

Loaded(size, t) == Block(size, Data(t), Len(t))

(* A character of t \o s. *)
LEMMA CharOfConcat ==
  ASSUME NEW C, NEW t \in Seq(C), NEW s \in Seq(C), NEW a \in 0..(Len(t \o s) - 1)
  PROVE  (t \o s)[a + 1] = IF a < Len(t) THEN t[a + 1] ELSE s[a - Len(t) + 1]
<1>1. Len(t) \in Nat /\ Len(s) \in Nat /\ Len(t \o s) = Len(t) + Len(s)
  OBVIOUS
<1>2. a + 1 \in 1..Len(t) + Len(s)
  BY <1>1
<1>3. \A i \in 1..Len(t) + Len(s) : (t \o s)[i] = IF i <= Len(t) THEN t[i] ELSE s[i - Len(t)]
  OBVIOUS
<1>4. (t \o s)[a + 1] = IF a + 1 <= Len(t) THEN t[a + 1] ELSE s[(a + 1) - Len(t)]
  BY <1>2, <1>3
<1>5. (a + 1 <= Len(t) <=> a < Len(t)) /\ (a + 1) - Len(t) = a - Len(t) + 1
  BY <1>1
<1> QED
  BY <1>4, <1>5

(* memcpy() behind what is there already. *)
LEMMA MemcpyBehind ==
  ASSUME NEW C, NEW t \in Seq(C), NEW s \in Seq(C)
  PROVE  memcpy(Data(t), Len(t), s) = Data(t \o s)
<1>1. Len(t) \in Nat /\ Len(s) \in Nat /\ Len(t \o s) = Len(t) + Len(s)
  OBVIOUS
<1> DEFINE n == Len(t) + Len(s)
           to == Len(t)..(Len(t) + Len(s) - 1)
<1>2. memcpy(Data(t), Len(t), s)
        = [a \in DOMAIN Data(t) \cup to |-> IF a \in to THEN s[a - Len(t) + 1] ELSE Data(t)[a]]
  BY DEF memcpy
<1>3. DOMAIN Data(t) = 0..(Len(t) - 1)
  BY DEF Data
<1>4. (0..(Len(t) - 1)) \cup to = 0..(n - 1)
  BY <1>1
<1>5. memcpy(Data(t), Len(t), s)
        = [a \in 0..(n - 1) |-> IF a \in to THEN s[a - Len(t) + 1] ELSE Data(t)[a]]
  <2> HIDE DEF n, to
  <2> QED
    BY <1>2, <1>3, <1>4
<1>6. ASSUME NEW a \in 0..(n - 1)
      PROVE  (IF a \in to THEN s[a - Len(t) + 1] ELSE Data(t)[a]) = (t \o s)[a + 1]
  <2>1. (t \o s)[a + 1] = IF a < Len(t) THEN t[a + 1] ELSE s[a - Len(t) + 1]
    BY <1>1, CharOfConcat
  <2>2. CASE a < Len(t)
    <3>1. a \notin to /\ a \in 0..(Len(t) - 1)
      BY <1>1, <2>2
    <3> QED
      BY <2>1, <2>2, <3>1 DEF Data
  <2>3. CASE ~(a < Len(t))
    <3>1. a \in to
      BY <1>1, <2>3
    <3> QED
      BY <2>1, <2>3, <3>1
  <2> QED
    BY <2>2, <2>3
<1>7. Data(t \o s) = [a \in 0..(n - 1) |-> (t \o s)[a + 1]]
  <2> DEFINE u == t \o s
  <2>1. Len(u) = n
    BY <1>1
  <2> HIDE DEF u, n
  <2>2. Data(u) = [a \in 0..(n - 1) |-> u[a + 1]]
    BY <2>1 DEF Data
  <2> QED
    BY <2>2 DEF u
<1> HIDE DEF to, n
<1> QED
  BY <1>5, <1>6, <1>7

(* Before the first copy. *)
LEMMA NothingCopied == Data(<< >>) = << >>
<1>1. Len(<< >>) = 0 /\ 0..(0 - 1) = {}
  OBVIOUS
<1>2. Data(<< >>) = [a \in {} |-> << >>[a + 1]]
  BY <1>1 DEF Data
<1> QED
  BY <1>2

(* A block that is as long as its string and the NUL. *)
LEMMA ExactBlock ==
  ASSUME NEW t \in String, NEW p
  PROVE  LET b == Block(Len(t) + 1, Data(t \o <<Nul>>), p)
         IN  Exact(b) /\ Str(b) = t
<1> DEFINE C == Character \cup {Nul}
           u == t \o <<Nul>>
           n == Len(t)
           b == Block(n + 1, Data(u), p)
<1>1. n \in Nat /\ t \in Seq(C) /\ u \in Seq(C) /\ Len(u) = n + 1
  BY DEF String
<1>2. \A i \in 1..n : u[i] = t[i] /\ t[i] # Nul
  <2>1. \A i \in 1..n : t[i] \in Character
    BY DEF String
  <2> QED
    BY <1>1, <2>1, ProgramAssumption DEF Character
<1>3. u[n + 1] = Nul
  BY <1>1
<1> HIDE DEF u
<1>4. Data(u) = [a \in 0..n |-> u[a + 1]]
  <2>1. Len(u) - 1 = n
    BY <1>1
  <2> QED
    BY <2>1 DEF Data
<1>5. b.size = n + 1 /\ b.to.data = Data(u)
  BY DEF Block
<1>6. (n + 1) - 1 = n
  BY <1>1
<1>7. Exact(b)
  <2>1. DOMAIN Data(u) = 0..n
    BY <1>4
  <2>2. \A a \in 0..n : Data(u)[a] = Nul <=> a = n
    <3>1. \A a \in 0..n : a = n \/ a + 1 \in 1..n
      BY <1>1
    <3> QED
      BY <1>1, <1>2, <1>3, <1>4, <3>1
  <2> HIDE DEF b, n
  <2> QED
    BY <1>5, <1>6, <2>1, <2>2 DEF Exact
<1>8. Str(b) = t
  <2>1. Str(b) = [i \in 1..n |-> Data(u)[i - 1]]
    <3> HIDE DEF b, n
    <3> QED
      BY <1>5, <1>6 DEF Str
  <2>2. \A i \in 1..n : Data(u)[i - 1] = t[i]
    <3>1. \A i \in 1..n : i - 1 \in 0..n /\ (i - 1) + 1 = i
      BY <1>1
    <3> QED
      BY <1>2, <1>4, <3>1
  <2>3. t = [i \in 1..n |-> t[i]]
    BY DEF String
  <2> HIDE DEF n, b
  <2> QED
    BY <2>1, <2>2, <2>3
<1> QED
  BY <1>7, <1>8 DEF u

(* Nothing behind a string leaves it as it is. *)
LEMMA ConcatNothing ==
  ASSUME NEW t \in String
  PROVE  t \o << >> = t
BY DEF String

(* Two strings, one behind the other, are a string. *)
LEMMA ConcatAgain ==
  ASSUME NEW t \in String, NEW u \in String
  PROVE  t \o u \in String
BY DEF String

(* It does not matter which of three are put together first. *)
LEMMA ConcatThree ==
  ASSUME NEW t \in String, NEW u \in String, NEW v \in String
  PROVE  (t \o u) \o v = t \o (u \o v)
BY DEF String

(* Nor of four. *)
LEMMA ConcatFour ==
  ASSUME NEW t \in String, NEW u \in String, NEW v \in String, NEW w \in String
  PROVE  (t \o u) \o v \o w = t \o (u \o v \o w)
<1>1. (t \o u) \o v = t \o (u \o v)
  BY ConcatThree
<1>2. ASSUME NEW x \in String PROVE (t \o x) \o w = t \o (x \o w)
  BY ConcatThree
<1>3. u \o v \in String
  BY ConcatAgain
<1>4. (t \o (u \o v)) \o w = t \o ((u \o v) \o w)
  BY <1>2, <1>3
<1> QED
  BY <1>1, <1>4

(* The folds of catdup.c, and of what the strings together are. *)
PutStep(d, block, s) ==
  IF DelimiterLength(d) > 0 THEN Put(Put(block, s), d) ELSE Put(block, s)
PlainStep(d, block, s) == Put(block, s)
FollowStep(d, text, s) == text \o s \o d
SumStep(d, sum, s) == sum + strlen(s)

Puts    == INSTANCE FoldLemmas WITH Step <- PutStep
Plain   == INSTANCE FoldLemmas WITH Step <- PlainStep
Follows == INSTANCE FoldLemmas WITH Step <- FollowStep
Sums    == INSTANCE FoldLemmas WITH Step <- SumStep

PutAll(d, b, array) ==
  LET PutBoth(block, s) ==
        IF DelimiterLength(d) > 0 THEN Put(Put(block, s), d) ELSE Put(block, s)
  IN  FoldLeft(PutBoth, b, array)

PutPlain(b, array) == FoldLeft(Put, b, array)

(* They are the folds of Catdup and of Program. *)
LEMMA SameFolds ==
  /\ \A d, b, array : PutAll(d, b, array) = Puts!Fold(d, b, array)
  /\ \A b, array : PutPlain(b, array) = Plain!Fold(0, b, array)
  /\ \A d, array : Followed(array, d) = Follows!Fold(d, << >>, array)
  /\ \A array : Total(array) = Sums!Fold(0, 0, array)
<1>1. \A d, b, array : PutAll(d, b, array) = Puts!Fold(d, b, array)
  BY DEF PutAll, PutStep, Puts!Fold, FoldLeft, Puts!FoldLeft, MapThenFoldSet,
         Puts!MapThenFoldSet, Max, Puts!Max
<1>2. \A b, array : PutPlain(b, array) = Plain!Fold(0, b, array)
  BY DEF PutPlain, PlainStep, Plain!Fold, FoldLeft, Plain!FoldLeft, MapThenFoldSet,
         Plain!MapThenFoldSet, Max, Plain!Max
<1>3. \A d, array : Followed(array, d) = Follows!Fold(d, << >>, array)
  BY DEF Followed, FollowStep, Follows!Fold, FoldLeft, Follows!FoldLeft, MapThenFoldSet,
         Follows!MapThenFoldSet, Max, Follows!Max
<1>4. \A array : Total(array) = Sums!Fold(0, 0, array)
  BY DEF Total, SumStep, Sums!Fold, FoldLeft, Sums!FoldLeft, MapThenFoldSet,
         Sums!MapThenFoldSet, Max, Sums!Max
<1> QED
  BY <1>1, <1>2, <1>3, <1>4

(* An array one string longer is meant to give one string more. *)
LEMMA FollowedSteps ==
  ASSUME NEW d \in String
  PROVE  /\ Followed(<< >>, d) = << >>
         /\ \A array \in Seq(String) : Followed(array, d) \in String
         /\ \A array \in Seq(String), s \in String :
              Followed(Append(array, s), d) = Followed(array, d) \o s \o d
<1>1. Follows!StaysIn(d, String, String)
  BY DEF Follows!StaysIn, FollowStep, String
<1>2. << >> \in String
  BY DEF String
<1>3. Follows!GoesStepwise(d, String, String, << >>)
  BY <1>1, <1>2, Follows!FoldSteps
<1> QED
  BY <1>3, SameFolds DEF Follows!GoesStepwise, FollowStep

(* And its strings are longer by that string together. *)
LEMMA TotalSteps ==
  /\ Total(<< >>) = 0
  /\ \A array \in Seq(String) : Total(array) \in Nat
  /\ \A array \in Seq(String), s \in String : Total(Append(array, s)) = Total(array) + Len(s)
<1>1. Sums!StaysIn(0, Nat, String)
  BY DEF Sums!StaysIn, SumStep, strlen, String
<1>2. Sums!GoesStepwise(0, Nat, String, 0)
  BY <1>1, Sums!FoldSteps
<1> QED
  BY <1>2, SameFolds DEF Sums!GoesStepwise, SumStep, strlen

(* Put() adds a string to what the block holds. *)
LEMMA PutLoaded ==
  ASSUME NEW C, NEW t \in Seq(C), NEW s \in Seq(C), NEW size
  PROVE  Put(Loaded(size, t), s) = Loaded(size, t \o s)
<1>1. memcpy(Data(t), Len(t), s) = Data(t \o s)
  BY MemcpyBehind
<1>2. Len(t \o s) = Len(t) + Len(s)
  OBVIOUS
<1>3. ASSUME NEW b, NEW data, NEW p, b = Block(size, data, p)
      PROVE  Put(b, s) = Block(size, memcpy(data, p, s), p + Len(s))
  <2>1. b.to = [data |-> data, p |-> p] /\ b.to.data = data /\ b.to.p = p
    BY <1>3 DEF Block
  <2>2. \A l : [b EXCEPT !.to = l] = [size |-> size, to |-> l]
    BY <1>3 DEF Block
  <2>3. Put(b, s) = [b EXCEPT !.to = [data |-> memcpy(b.to.data, b.to.p, s), p |-> b.to.p + Len(s)]]
    BY DEF Put
  <2> QED
    BY <2>1, <2>2, <2>3 DEF Block
<1> QED
  BY <1>1, <1>2, <1>3 DEF Loaded

(* What a NULL delimiter stands for. *)
Between(d) == IF d = NULL THEN << >> ELSE d

(* catdup_array() copies the strings of its array, each with the delimiter. *)
LEMMA PutAllIs ==
  ASSUME NEW size, NEW t \in String, NEW d, Between(d) \in String
  PROVE  \A array \in Seq(String) :
           PutAll(d, Loaded(size, t), array) = Loaded(size, t \o Followed(array, Between(d)))
<1> DEFINE X == {Loaded(size, u) : u \in String}
           D == Between(d)
           b == Loaded(size, t)
           Good(array) == PutAll(d, b, array) = Loaded(size, t \o Followed(array, D))
           P == {array \in Seq(String) : Good(array)}
<1>1. D \in String /\ b \in X /\ DelimiterLength(d) = Len(D)
  BY DEF Between, DelimiterLength, strlen
<1> HIDE DEF D
<1>2. ASSUME NEW u \in String, NEW s \in String
      PROVE  PutStep(d, Loaded(size, u), s) = Loaded(size, u \o s \o D) /\ u \o s \o D \in String
  <2>1. Put(Loaded(size, u), s) = Loaded(size, u \o s) /\ u \o s \in String
    BY PutLoaded DEF String
  <2>2. u \o s \o D \in String
    BY <1>1, <2>1 DEF String
  <2>3. CASE Len(D) > 0
    <3>1. D = d
      <4>1. d # NULL
        BY <2>3 DEF D, Between
      <4> QED
        BY <4>1 DEF D, Between
    <3>2. Put(Loaded(size, u \o s), D) = Loaded(size, (u \o s) \o D)
      BY <1>1, <2>1, PutLoaded DEF String
    <3> QED
      BY <1>1, <2>1, <2>2, <2>3, <3>1, <3>2 DEF PutStep
  <2>4. CASE ~(Len(D) > 0)
    <3>1. D = << >>
      BY <1>1, <2>4 DEF String
    <3>2. u \o s \o D = u \o s
      BY <2>1, <3>1 DEF String
    <3> QED
      BY <1>1, <2>1, <2>2, <2>4, <3>2 DEF PutStep
  <2> QED
    BY <2>3, <2>4
<1>3. Puts!StaysIn(d, X, String)
  BY <1>2 DEF Puts!StaysIn
<1>4. Puts!GoesStepwise(d, X, String, b)
  BY <1>1, <1>3, Puts!FoldSteps
<1>5. << >> \in P
  <2>1. PutAll(d, b, << >>) = b
    BY <1>4, SameFolds DEF Puts!GoesStepwise
  <2>2. Followed(<< >>, D) = << >>
    BY <1>1, FollowedSteps
  <2>3. t \o << >> = t
    BY ConcatNothing
  <2>4. t \o Followed(<< >>, D) = t
    BY <2>2, <2>3
  <2>5. << >> \in Seq(String)
    OBVIOUS
  <2>6. Good(<< >>)
    <3>1. PutAll(d, b, << >>) = Loaded(size, t)
      BY <2>1
    <3> HIDE DEF b
    <3> QED
      BY <2>4, <3>1
  <2> HIDE DEF Good
  <2> QED
    BY <2>5, <2>6
<1>6. ASSUME NEW array \in Seq(String), NEW s \in String, array \in P
      PROVE  Append(array, s) \in P
  <2> DEFINE u == Followed(array, D)
  <2>1. u \in String /\ Followed(Append(array, s), D) = u \o s \o D
    BY <1>1, FollowedSteps
  <2>2. PutAll(d, b, Append(array, s)) = PutStep(d, PutAll(d, b, array), s)
    BY <1>4, SameFolds DEF Puts!GoesStepwise
  <2>3. PutAll(d, b, array) = Loaded(size, t \o u)
    BY <1>6
  <2> HIDE DEF u, b
  <2>4. t \o u \in String /\ (t \o u) \o s \o D = t \o (u \o s \o D)
    <3>1. u \in String /\ D \in String
      BY <1>1, <2>1
    <3> HIDE DEF D
    <3>2. t \o u \in String
      BY <3>1, ConcatAgain
    <3>3. (t \o u) \o s \o D = t \o (u \o s \o D)
      <4>1. \A v, w \in String : (t \o v) \o s \o w = t \o (v \o s \o w)
        BY ConcatFour
      <4> QED
        BY <3>1, <4>1
    <3> QED
      BY <3>2, <3>3
  <2>5. PutStep(d, Loaded(size, t \o u), s) = Loaded(size, (t \o u) \o s \o D)
    BY <1>2, <2>4
  <2>6. Append(array, s) \in Seq(String)
    OBVIOUS
  <2> QED
    BY <2>1, <2>2, <2>3, <2>4, <2>5, <2>6
<1>7. Seq(String) \subseteq P
  <2> HIDE DEF P
  <2> QED
    BY <1>5, <1>6, SequenceInduction
<1> QED
  BY <1>7 DEF D

(* catdupv() copies the strings of its arguments one after the other. *)
LEMMA PutPlainIs ==
  ASSUME NEW size, NEW t \in String
  PROVE  \A array \in Seq(String) :
           PutPlain(Loaded(size, t), array) = Loaded(size, t \o Followed(array, << >>))
<1> DEFINE X == {Loaded(size, u) : u \in String}
           b == Loaded(size, t)
           Good(array) == PutPlain(b, array) = Loaded(size, t \o Followed(array, << >>))
           P == {array \in Seq(String) : Good(array)}
<1>1. << >> \in String /\ b \in X
  BY DEF String
<1>2. ASSUME NEW u \in String, NEW s \in String
      PROVE  Put(Loaded(size, u), s) = Loaded(size, u \o s) /\ u \o s \in String
  BY PutLoaded DEF String
<1>3. Plain!StaysIn(0, X, String)
  BY <1>2 DEF Plain!StaysIn, PlainStep
<1>4. Plain!GoesStepwise(0, X, String, b)
  BY <1>1, <1>3, Plain!FoldSteps
<1>5. << >> \in P
  <2>1. PutPlain(b, << >>) = b
    BY <1>4, SameFolds DEF Plain!GoesStepwise
  <2>2. Followed(<< >>, << >>) = << >>
    BY <1>1, FollowedSteps
  <2>3. t \o << >> = t
    BY ConcatNothing
  <2>4. t \o Followed(<< >>, << >>) = t
    BY <2>2, <2>3
  <2>5. << >> \in Seq(String)
    OBVIOUS
  <2>6. Good(<< >>)
    <3>1. PutPlain(b, << >>) = Loaded(size, t)
      BY <2>1
    <3> HIDE DEF b
    <3> QED
      BY <2>4, <3>1
  <2> HIDE DEF Good
  <2> QED
    BY <2>5, <2>6
<1>6. ASSUME NEW array \in Seq(String), NEW s \in String, array \in P
      PROVE  Append(array, s) \in P
  <2> DEFINE u == Followed(array, << >>)
  <2>1. u \in String /\ Followed(Append(array, s), << >>) = u \o s \o << >>
    BY <1>1, FollowedSteps
  <2>2. PutPlain(b, Append(array, s)) = Put(PutPlain(b, array), s)
    BY <1>4, SameFolds DEF Plain!GoesStepwise, PlainStep
  <2>3. PutPlain(b, array) = Loaded(size, t \o u)
    BY <1>6
  <2> HIDE DEF u, b
  <2>4. t \o u \in String /\ (t \o u) \o s = t \o (u \o s \o << >>)
    <3>1. t \o u \in String /\ (t \o u) \o s = t \o (u \o s) /\ u \o s \in String
      BY <2>1, ConcatAgain, ConcatThree
    <3>2. u \o s \o << >> = u \o s
      BY <3>1, ConcatNothing
    <3> QED
      BY <3>1, <3>2
  <2>5. Put(Loaded(size, t \o u), s) = Loaded(size, (t \o u) \o s)
    BY <1>2, <2>4
  <2>6. Append(array, s) \in Seq(String)
    OBVIOUS
  <2> QED
    BY <2>1, <2>2, <2>3, <2>4, <2>5, <2>6
<1>7. Seq(String) \subseteq P
  <2> HIDE DEF P
  <2> QED
    BY <1>5, <1>6, SequenceInduction
<1> QED
  BY <1>7
-----------------------------------------------------------------------------
(* What a helper promises of its block. *)
Holds(block, t) == Exact(block) /\ Str(block) = t

(* A block of the right size that everything was copied into. *)
LEMMA LoadedHolds ==
  ASSUME NEW t \in String, NEW size, size = Len(t) + 1
  PROVE  Holds(Terminate(Loaded(size, t)), t)
<1>1. t \in Seq(Character \cup {Nul}) /\ <<Nul>> \in Seq(Character \cup {Nul})
  BY DEF String
<1>2. Terminate(Loaded(size, t)) = Loaded(size, t \o <<Nul>>)
  BY <1>1, PutLoaded DEF Terminate
<1>3. Loaded(size, t \o <<Nul>>) = Block(Len(t) + 1, Data(t \o <<Nul>>), Len(t \o <<Nul>>))
  BY DEF Loaded
<1> QED
  BY <1>2, <1>3, ExactBlock DEF Holds

(* Nothing was copied into a new block. *)
LEMMA MallocLoaded ==
  ASSUME NEW size
  PROVE  Malloc(size) = Loaded(size, << >>)
<1>1. Len(<< >>) = 0
  OBVIOUS
<1> QED
  BY <1>1, NothingCopied DEF Malloc, Loaded, Block

(* catdup_array() counts on its first way what it copies on its second, the *)
(* delimiter once for each string.                                         *)
LEMMA CountedIsCopied ==
  ASSUME NEW d, Between(d) \in String
  PROVE  \A array \in Seq(String) :
           CountedLength(array, d) = Len(Followed(array, Between(d))) + 1
<1> DEFINE D == Between(d)
           k == Len(D)
           Agrees(array) == Total(array) + Len(array) * k = Len(Followed(array, D))
           P == {array \in Seq(String) : Agrees(array)}
<1>1. D \in String /\ k \in Nat /\ DelimiterLength(d) = k
  BY DEF Between, DelimiterLength, strlen, String
<1> HIDE DEF D, k
<1>2. << >> \in P
  <2>1. Len(<< >>) = 0 /\ << >> \in Seq(String)
    OBVIOUS
  <2>2. Followed(<< >>, D) = << >> /\ Total(<< >>) = 0
    BY <1>1, FollowedSteps, TotalSteps
  <2>3. 0 + 0 * k = 0
    BY <1>1
  <2>4. Agrees(<< >>)
    BY <2>1, <2>2, <2>3
  <2> HIDE DEF Agrees
  <2> QED
    BY <2>1, <2>4
<1>3. ASSUME NEW array \in Seq(String), NEW s \in String, array \in P
      PROVE  Append(array, s) \in P
  <2> DEFINE n == Len(array)
             f == Followed(array, D)
             m == Total(array)
  <2>1. /\ Append(array, s) \in Seq(String) /\ Len(Append(array, s)) = n + 1
        /\ n \in Nat /\ Len(s) \in Nat
    BY DEF String
  <2>2. f \in String /\ Followed(Append(array, s), D) = f \o s \o D
    BY <1>1, FollowedSteps
  <2>3. m \in Nat /\ Total(Append(array, s)) = m + Len(s)
    BY TotalSteps
  <2>4. m + n * k = Len(f)
    BY <1>3
  <2> HIDE DEF n, f, m
  <2>5. Len(f \o s \o D) = Len(f) + Len(s) + k
    BY <1>1, <2>2 DEF String, k
  <2>6. (m + Len(s)) + (n + 1) * k = Len(f) + Len(s) + k
    <3>1. (n + 1) * k = n * k + k /\ n * k \in Nat
      BY <1>1, <2>1
    <3> DEFINE x == n * k
    <3> HIDE DEF x
    <3>2. ASSUME NEW l \in Nat, NEW len, x \in Nat, m + x = len
          PROVE  (m + l) + (x + k) = len + l + k
      BY <1>1, <2>3, <3>2
    <3>3. x \in Nat /\ m + x = Len(f)
      BY <2>4, <3>1 DEF x
    <3>4. (m + Len(s)) + (x + k) = Len(f) + Len(s) + k
      BY <2>1, <3>2, <3>3
    <3> QED
      BY <3>1, <3>4 DEF x
  <2>7. Agrees(Append(array, s))
    BY <2>1, <2>2, <2>3, <2>5, <2>6
  <2> HIDE DEF Agrees
  <2> QED
    BY <2>1, <2>7
<1>4. Seq(String) \subseteq P
  <2> HIDE DEF P
  <2> QED
    BY <1>2, <1>3, SequenceInduction
<1>5. ASSUME NEW array \in Seq(String)
      PROVE  CountedLength(array, d) = Len(Followed(array, D)) + 1
  <2>1. Agrees(array)
    BY <1>4
  <2> QED
    BY <1>1, <2>1 DEF CountedLength
<1> QED
  BY <1>5 DEF D

(* catdup_array(), with a delimiter or without one. *)
LEMMA CatdupArrayHolds ==
  ASSUME NEW array \in Seq(String), NEW d, Between(d) \in String
  PROVE  Holds(catdup_array(array, d), Followed(array, Between(d)))
<1> DEFINE D == Between(d)
           t == Followed(array, D)
           size == CountedLength(array, d)
<1>1. catdup_array(array, d) = Terminate(PutAll(d, Malloc(size), array))
  BY DEF catdup_array, PutAll
<1>2. << >> \in String
  BY DEF String
<1>3. PutAll(d, Loaded(size, << >>), array) = Loaded(size, << >> \o t)
  BY <1>2, PutAllIs
<1>4. t \in String
  BY FollowedSteps
<1>5. << >> \o t = t
  <2> HIDE DEF t
  <2> QED
    BY <1>4 DEF String
<1>6. size = Len(t) + 1
  BY CountedIsCopied
<1>7. Malloc(size) = Loaded(size, << >>)
  BY MallocLoaded
<1> HIDE DEF size, t, D
<1>8. catdup_array(array, d) = Terminate(Loaded(size, t))
  BY <1>1, <1>3, <1>5, <1>7
<1>9. Holds(Terminate(Loaded(size, t)), t)
  BY <1>4, <1>6, LoadedHolds
<1> QED
  BY <1>8, <1>9 DEF t, D

(* The first two strings of catdupv(). *)
LEMMA TwoPut ==
  ASSUME NEW size, NEW s \in String, NEW u \in String
  PROVE  Put(Put(Malloc(size), s), u) = Loaded(size, s \o u)
<1>1. s \in Seq(Character) /\ u \in Seq(Character) /\ << >> \in Seq(Character)
  BY DEF String
<1>2. Put(Loaded(size, << >>), s) = Loaded(size, << >> \o s)
  BY <1>1, PutLoaded
<1>3. << >> \o s = s
  BY <1>1
<1>4. Put(Loaded(size, s), u) = Loaded(size, s \o u)
  BY <1>1, PutLoaded
<1> QED
  BY <1>2, <1>3, <1>4, MallocLoaded

(* catdupv(), with any number of arguments. *)
LEMMA CatdupvHolds ==
  ASSUME NEW s \in String, NEW u \in String, NEW rest \in Seq(String)
  PROVE  Holds(catdupv(s, u, rest), s \o u \o Followed(rest, << >>))
<1> DEFINE f == Followed(rest, << >>)
           t == (s \o u) \o f
           size == strlen(s) + strlen(u) + Total(rest) + 1
<1>0. << >> \in String /\ s \o u \in String
  BY DEF String
<1>1. catdupv(s, u, rest) = Terminate(PutPlain(Put(Put(Malloc(size), s), u), rest))
  BY DEF catdupv, PutPlain
<1>2. Put(Put(Malloc(size), s), u) = Loaded(size, s \o u)
  BY TwoPut
<1>3. PutPlain(Loaded(size, s \o u), rest) = Loaded(size, t)
  BY <1>0, PutPlainIs
<1>4. f \in String
  BY <1>0, FollowedSteps
<1>5. t \in String
  <2> HIDE DEF f
  <2> QED
    BY <1>0, <1>4 DEF String
<1>6. size = Len(t) + 1
  <2>1. Between(<< >>) = << >>
    BY DEF Between
  <2>2. CountedLength(rest, << >>) = Len(f) + 1
    BY <1>0, <2>1, CountedIsCopied
  <2>3. DelimiterLength(<< >>) = 0
    BY DEF DelimiterLength, strlen
  <2>4. Total(rest) \in Nat /\ Len(rest) \in Nat /\ Len(f) \in Nat
    <3> HIDE DEF f
    <3> QED
      BY <1>4, TotalSteps DEF String
  <2>5. Total(rest) = Len(f)
    <3>1. Total(rest) + Len(rest) * 0 + 1 = Len(f) + 1
      BY <2>2, <2>3 DEF CountedLength
    <3> HIDE DEF f
    <3>2. Len(rest) * 0 = 0
      BY <2>4
    <3> QED
      BY <2>4, <3>1, <3>2
  <2> HIDE DEF f
  <2>6. Len(t) = Len(s) + Len(u) + Len(f)
    BY <1>4 DEF String
  <2>7. Len(s) \in Nat /\ Len(u) \in Nat
    BY DEF String
  <2>8. size = Len(s) + Len(u) + Total(rest) + 1
    BY DEF strlen
  <2> HIDE DEF size, t
  <2> QED
    BY <2>4, <2>5, <2>6, <2>7, <2>8
<1> HIDE DEF size, t
<1>7. Holds(Terminate(Loaded(size, t)), t)
  BY <1>5, <1>6, LoadedHolds
<1> QED
  BY <1>1, <1>2, <1>3, <1>7 DEF t

(* The first string of a block. *)
LEMMA FirstCopied ==
  ASSUME NEW s \in String
  PROVE  memcpy(<< >>, 0, s) = Data(s)
<1>1. << >> \in Seq(Character) /\ Len(<< >>) = 0
  OBVIOUS
<1>2. memcpy(Data(<< >>), Len(<< >>), s) = Data(<< >> \o s)
  BY <1>1, MemcpyBehind DEF String
<1>3. << >> \o s = s
  BY DEF String
<1> QED
  BY <1>1, <1>2, <1>3, NothingCopied

(* The last byte of a block. *)
LEMMA NulCopied ==
  ASSUME NEW t \in String, NEW end, end = Len(t)
  PROVE  Holds([size |-> end + 1, to |-> [data |-> memcpy(Data(t), end, <<Nul>>), p |-> 0]], t)
<1>1. t \in Seq(Character \cup {Nul}) /\ <<Nul>> \in Seq(Character \cup {Nul})
  BY DEF String
<1>2. memcpy(Data(t), end, <<Nul>>) = Data(t \o <<Nul>>)
  BY <1>1, MemcpyBehind
<1> QED
  BY <1>2, ExactBlock DEF Holds, Block

(* Any other string of a block. *)
LEMMA NextCopied ==
  ASSUME NEW t \in String, NEW s \in String, NEW at, at = Len(t)
  PROVE  /\ memcpy(Data(t), at, s) = Data(t \o s)
         /\ t \o s \in String /\ Len(t \o s) = at + Len(s)
<1>1. memcpy(Data(t), Len(t), s) = Data(t \o s)
  BY MemcpyBehind DEF String
<1>2. t \o s \in String /\ Len(t \o s) = Len(t) + Len(s)
  BY DEF String
<1> QED
  BY <1>1, <1>2

(* catdup(). *)
LEMMA CatdupHolds ==
  ASSUME NEW s \in String, NEW t \in String
  PROVE  Holds(catdup(s, t), s \o t) /\ s \o t \in String
<1> DEFINE u == s \o t
<1>1. /\ memcpy(memcpy(<< >>, 0, s), Len(s), t) = Data(u)
      /\ u \in String /\ Len(u) = Len(s) + Len(t)
  BY FirstCopied, NextCopied
<1> HIDE DEF u
<1>2. Holds([size |-> Len(s) + Len(t) + 1,
             to |-> [data |-> memcpy(Data(u), Len(s) + Len(t), <<Nul>>), p |-> 0]], u)
  BY <1>1, NulCopied
<1> QED
  BY <1>1, <1>2 DEF catdup, strlen, u

(* catdup3(). *)
LEMMA Catdup3Holds ==
  ASSUME NEW s \in String, NEW t \in String, NEW v \in String
  PROVE  Holds(catdup3(s, t, v), s \o t \o v) /\ s \o t \o v \in String
<1> DEFINE u == s \o t
           w == u \o v
<1>1. /\ memcpy(memcpy(<< >>, 0, s), Len(s), t) = Data(u)
      /\ u \in String /\ Len(u) = Len(s) + Len(t)
  BY FirstCopied, NextCopied
<1> HIDE DEF u
<1>2. /\ memcpy(Data(u), Len(s) + Len(t), v) = Data(w)
      /\ w \in String /\ Len(w) = Len(s) + Len(t) + Len(v)
  BY <1>1, NextCopied
<1> HIDE DEF w
<1>3. Holds([size |-> Len(s) + Len(t) + Len(v) + 1,
             to |-> [data |-> memcpy(Data(w), Len(s) + Len(t) + Len(v), <<Nul>>), p |-> 0]], w)
  BY <1>2, NulCopied
<1> QED
  BY <1>1, <1>2, <1>3 DEF catdup3, strlen, u, w

(* catdup4(). *)
LEMMA Catdup4Holds ==
  ASSUME NEW s \in String, NEW t \in String, NEW v \in String, NEW r \in String
  PROVE  Holds(catdup4(s, t, v, r), s \o t \o v \o r) /\ s \o t \o v \o r \in String
<1> DEFINE u == s \o t
           w == u \o v
           x == w \o r
<1>1. /\ memcpy(memcpy(<< >>, 0, s), Len(s), t) = Data(u)
      /\ u \in String /\ Len(u) = Len(s) + Len(t)
  BY FirstCopied, NextCopied
<1> HIDE DEF u
<1>2. /\ memcpy(Data(u), Len(s) + Len(t), v) = Data(w)
      /\ w \in String /\ Len(w) = Len(s) + Len(t) + Len(v)
  BY <1>1, NextCopied
<1> HIDE DEF w
<1>3. /\ memcpy(Data(w), Len(s) + Len(t) + Len(v), r) = Data(x)
      /\ x \in String /\ Len(x) = Len(s) + Len(t) + Len(v) + Len(r)
  BY <1>2, NextCopied
<1> HIDE DEF x
<1>4. Holds([size |-> Len(s) + Len(t) + Len(v) + Len(r) + 1,
             to |-> [data |-> memcpy(Data(x), Len(s) + Len(t) + Len(v) + Len(r), <<Nul>>),
                     p |-> 0]], x)
  BY <1>3, NulCopied
<1> QED
  BY <1>1, <1>2, <1>3, <1>4 DEF catdup4, strlen, u, w, x

(* Strings that nothing is to separate. *)
LEMMA FlattenIsFollowed ==
  ASSUME NEW array \in Seq(String)
  PROVE  FlattenSeq(array) = Followed(array, << >>)
<1> DEFINE P == {a \in Seq(String) : FlattenSeq(a) = Followed(a, << >>)}
<1>0. << >> \in String /\ String = Seq(Character)
  BY DEF String
<1>1. << >> \in P
  <2>1. << >> \in Seq(String)
    OBVIOUS
  <2> QED
    BY <1>0, <2>1, FlattenSteps, FollowedSteps
<1>2. ASSUME NEW a \in Seq(String), NEW s \in String, a \in P PROVE Append(a, s) \in P
  <2>1. FlattenSeq(Append(a, s)) = FlattenSeq(a) \o s
    BY <1>0, FlattenSteps
  <2>2. /\ Followed(Append(a, s), << >>) = Followed(a, << >>) \o s \o << >>
        /\ Followed(a, << >>) \in String
    BY <1>0, FollowedSteps
  <2>3. \A t, u \in String : t \o u \o << >> = t \o u
    BY DEF String
  <2>4. Append(a, s) \in Seq(String)
    OBVIOUS
  <2> QED
    BY <1>2, <2>1, <2>2, <2>3, <2>4
<1> HIDE DEF P
<1>3. Seq(String) \subseteq P
  BY <1>1, <1>2, SequenceInduction
<1> QED
  BY <1>3 DEF P
-----------------------------------------------------------------------------
(* The blocks hold what they are meant to, the environment only strings.    *)
Sound(r) == Holds(r.block, r.text) /\ r.text \in String

Calls == {"catdup_array", "catdup3", "setsid", "chdir", "execvp"}

TextInv ==
  /\ request \in Request
  /\ environ \in [Name -> {NULL} \cup String]
  /\ pc = "host" => heap = << >>
  /\ \A i \in DOMAIN heap : Sound(heap[i])
  /\ add \in {NULL} \cup DOMAIN heap /\ new \in {NULL} \cup DOMAIN heap
  /\ session \in {"host", "own"} /\ cwd \in {"host", "asked"}
  /\ refused \subseteq Name /\ trouble \subseteq Calls

(* The bounds of the arguments do not matter. *)
LEMMA BoundedIsSeq ==
  ASSUME NEW S, NEW n \in Nat, NEW s \in BoundedSeq(S, n)
  PROVE  s \in Seq(S)
<1>1. PICK m \in 0 .. n : s \in [1 .. m -> S]
  BY DEF BoundedSeq, SeqOf
<1> QED
  BY <1>1

(* The names of libraries and the values of variables. *)
LEMMA WordsAndTextsAreStrings ==
  /\ Word \subseteq String /\ Text \subseteq String
  /\ BoundedSeq(Word, MaxStrings) \subseteq Seq(String)
<1>1. Word \subseteq Seq(Letter) /\ Text \subseteq Seq(Character)
  BY BoundedIsSeq, ProgramAssumption DEF Word, Text, Character
<1>2. Seq(Letter) \subseteq String
  BY DEF String, Character
<1>3. BoundedSeq(Word, MaxStrings) \subseteq Seq(Word)
  BY BoundedIsSeq, ProgramAssumption
<1>4. Word \subseteq String
  BY <1>1, <1>2
<1>5. Seq(Word) \subseteq Seq(String)
  <2> HIDE DEF Word, String
  <2> QED
    BY <1>4
<1> QED
  BY <1>1, <1>3, <1>4, <1>5 DEF String

(* set_ldpreload() never calls catdup_array() without a delimiter. *)
LEMMA DelimiterIsString == Between(Delimiter) = Delimiter /\ Delimiter \in String
<1>1. Delimiter \in String
  BY DEF Delimiter, String, Character
<1>2. NULL \notin String
  BY ProgramAssumption DEF String, Character
<1> QED
  BY <1>1, <1>2 DEF Between

(* What HostCatdup may be asked for. *)
LEMMA HostHolds ==
  ASSUME NEW s \in Text, NEW t \in Text
  PROVE  /\ Sound([block |-> catdup(s, t), text |-> s \o t, frees |-> 0])
         /\ \A u, v \in Text :
              Sound([block |-> catdup4(s, t, u, v), text |-> s \o t \o u \o v, frees |-> 0])
         /\ \A rest \in BoundedSeq(Word, MaxStrings) :
              Sound([block |-> catdupv(s, t, rest), text |-> s \o t \o FlattenSeq(rest),
                     frees |-> 0])
         /\ \A d \in {NULL, << >>} :
              Sound([block |-> catdup_array(<<s, t>>, d), text |-> s \o t, frees |-> 0])
<1>1. s \in String /\ t \in String /\ << >> \in String
  BY WordsAndTextsAreStrings DEF String
<1>2. Sound([block |-> catdup(s, t), text |-> s \o t, frees |-> 0])
  BY <1>1, CatdupHolds DEF Sound
<1>3. ASSUME NEW u \in Text, NEW v \in Text
      PROVE  Sound([block |-> catdup4(s, t, u, v), text |-> s \o t \o u \o v, frees |-> 0])
  <2>1. u \in String /\ v \in String
    BY WordsAndTextsAreStrings
  <2> QED
    BY <1>1, <2>1, Catdup4Holds DEF Sound
<1>4. ASSUME NEW rest \in BoundedSeq(Word, MaxStrings)
      PROVE  Sound([block |-> catdupv(s, t, rest), text |-> s \o t \o FlattenSeq(rest),
                    frees |-> 0])
  <2>1. rest \in Seq(String)
    BY WordsAndTextsAreStrings
  <2> DEFINE f == Followed(rest, << >>)
  <2>2. FlattenSeq(rest) = f /\ f \in String
    BY <1>1, <2>1, FlattenIsFollowed, FollowedSteps
  <2>3. Holds(catdupv(s, t, rest), s \o t \o f)
    BY <1>1, <2>1, CatdupvHolds
  <2> HIDE DEF f
  <2>4. s \o t \o f \in String
    BY <1>1, <2>2 DEF String
  <2> QED
    BY <2>2, <2>3, <2>4 DEF Sound
<1>5. ASSUME NEW d \in {NULL, << >>}
      PROVE  Sound([block |-> catdup_array(<<s, t>>, d), text |-> s \o t, frees |-> 0])
  <2>1. Between(d) = << >>
    BY DEF Between
  <2>2. <<s, t>> \in Seq(String) /\ <<s>> \in Seq(String) /\ << >> \in Seq(String)
    BY <1>1
  <2>3. <<s>> = Append(<< >>, s) /\ <<s, t>> = Append(<<s>>, t)
    BY AppendIsTuple
  <2>4. /\ Followed(<< >>, << >>) = << >>
        /\ Followed(<<s>>, << >>) = << >> \o s \o << >>
        /\ Followed(<<s, t>>, << >>) = Followed(<<s>>, << >>) \o t \o << >>
    <3>1. /\ Followed(<< >>, << >>) = << >>
          /\ \A array \in Seq(String), c \in String :
               Followed(Append(array, c), << >>) = Followed(array, << >>) \o c \o << >>
      BY <1>1, FollowedSteps
    <3>2. ASSUME NEW array \in Seq(String), NEW c \in String, NEW longer,
                 longer = Append(array, c)
          PROVE  Followed(longer, << >>) = Followed(array, << >>) \o c \o << >>
      BY <3>1, <3>2
    <3>3. Followed(<<s>>, << >>) = Followed(<< >>, << >>) \o s \o << >>
      BY <1>1, <2>2, <2>3, <3>2
    <3>4. Followed(<<s, t>>, << >>) = Followed(<<s>>, << >>) \o t \o << >>
      BY <1>1, <2>2, <2>3, <3>2
    <3> QED
      BY <3>1, <3>3, <3>4
  <2>5. Followed(<<s, t>>, << >>) = s \o t
    <3>1. << >> \o s \o << >> = s
      BY <1>1 DEF String
    <3>2. s \o t \o << >> = s \o t
      BY <1>1 DEF String
    <3> QED
      BY <2>4, <3>1, <3>2
  <2>6. Holds(catdup_array(<<s, t>>, d), s \o t)
    BY <1>1, <2>1, <2>2, <2>5, CatdupArrayHolds
  <2>7. s \o t \in String
    BY <1>1 DEF String
  <2> QED
    BY <2>6, <2>7 DEF Sound
<1> QED
  BY <1>2, <1>3, <1>4, <1>5

(* When jpl_execute() has forked, or a host program calls a helper. *)
LEMMA TextInvInit == Init => TextInv
<1>1. Text \subseteq String
  BY WordsAndTextsAreStrings
<1>2. NULL \in {NULL} \cup String /\ [ldpreload |-> NULL, env_vars |-> NULL, run_in_terminal |-> FALSE] \in Request
  BY DEF Request
<1>3. InitChild => TextInv
  <2> SUFFICES ASSUME InitChild PROVE TextInv
    OBVIOUS
  <2>1. environ \in [Name -> {NULL} \cup String]
    BY <1>1 DEF InitChild, Start
  <2> QED
    BY <2>1 DEF InitChild, Start, TextInv
<1>4. InitHost => TextInv
  <2> SUFFICES ASSUME InitHost PROVE TextInv
    OBVIOUS
  <2>1. environ \in [Name -> {NULL} \cup String]
    BY DEF InitHost, Start
  <2> QED
    BY <1>2, <2>1 DEF InitHost, Start, TextInv
<1> QED
  BY <1>3, <1>4 DEF Init

(* A block more. *)
LEMMA NewSound ==
  ASSUME TextInv, NEW block, NEW text, Holds(block, text), text \in String,
         New(block, text), heap = << >> \/ heap = <<heap[1]>>
  PROVE  /\ \A i \in DOMAIN heap' : Sound(heap'[i])
         /\ DOMAIN heap' = DOMAIN heap \cup {Len(heap) + 1}
<1> DEFINE r == [block |-> block, text |-> text, frees |-> 0]
<1>1. Sound(r) /\ heap' = Append(heap, r)
  BY DEF Sound, New
<1> HIDE DEF r
<1>2. CASE heap = << >>
  <2>1. heap' = <<r>> /\ Len(heap) = 0
    BY <1>1, <1>2, AppendIsTuple
  <2> QED
    BY <1>1, <1>2, <2>1
<1>3. CASE heap = <<heap[1]>>
  <2> DEFINE a == heap[1]
  <2>1. Sound(a) /\ heap = <<a>>
    <3>1. 1 \in DOMAIN heap
      BY <1>3
    <3> QED
      BY <1>3, <3>1 DEF TextInv
  <2> HIDE DEF a
  <2>2. heap' = <<a, r>> /\ Len(heap) = 1
    BY <1>1, <2>1, AppendIsTuple
  <2> QED
    BY <1>1, <2>1, <2>2
<1> QED
  BY <1>2, <1>3

(* Every step leaves sound blocks and strings in the environment. *)
LEMMA TextInvNext == TextInv /\ HeapInv /\ EnvironInv /\ [Next]_vars => TextInv'
<1> SUFFICES ASSUME TextInv, HeapInv, EnvironInv, [Next]_vars PROVE TextInv'
  OBVIOUS
<1> USE DEF given, process, preload, environment, Goto, Exit, Fails
<1>1. CASE SkipPreload \/ CatdupArrayFails \/ GetenvNothing \/ GetenvCatdup3Fails
  BY <1>1 DEF TextInv, Calls, SkipPreload, CatdupArrayFails, GetenvNothing, GetenvCatdup3Fails
<1>2. CASE CatdupArray
  <2> DEFINE array == request.ldpreload
             text == Followed(array, Delimiter)
             block == catdup_array(array, Delimiter)
  <2>1. /\ New(block, text) /\ heap = << >> /\ array # NULL
        /\ add' = Len(heap) + 1 /\ pc' = "getenv"
        /\ UNCHANGED <<request, environ, refused, new, session, cwd, trouble>>
    BY <1>2 DEF CatdupArray, HeapInv
  <2>2. array \in Seq(String)
    BY <2>1, WordsAndTextsAreStrings DEF TextInv, Request
  <2>3. text \in String /\ Holds(block, text)
    BY <2>2, DelimiterIsString, FollowedSteps, CatdupArrayHolds
  <2> HIDE DEF text, block
  <2>4. /\ \A i \in DOMAIN heap' : Sound(heap'[i])
        /\ DOMAIN heap' = DOMAIN heap \cup {Len(heap) + 1}
    BY <2>1, <2>3, NewSound
  <2> QED
    BY <2>1, <2>4 DEF TextInv
<1>3. CASE GetenvCatdup3
  <2> DEFINE first == Str(heap[add].block)
             last == environ[LD_PRELOAD]
             text == first \o Delimiter \o last
             block == catdup3(first, Delimiter, last)
  <2>1. /\ New(block, text) /\ heap = <<heap[1]>> /\ add = 1 /\ last # NULL
        /\ new' = Len(heap) + 1 /\ pc' = "setenv"
        /\ UNCHANGED <<request, environ, refused, add, session, cwd, trouble>>
    BY <1>3 DEF GetenvCatdup3, HeapInv
  <2>2. first \in String
    <3>1. 1 \in DOMAIN heap
      BY <2>1
    <3> QED
      BY <2>1, <3>1 DEF TextInv, Sound, Holds
  <2>3. last \in String
    BY <2>1 DEF TextInv, Name
  <2>4. text \in String /\ Holds(block, text)
    BY <2>2, <2>3, DelimiterIsString, Catdup3Holds
  <2> HIDE DEF text, block
  <2>5. /\ \A i \in DOMAIN heap' : Sound(heap'[i])
        /\ DOMAIN heap' = DOMAIN heap \cup {Len(heap) + 1}
    BY <2>1, <2>4, NewSound
  <2> QED
    BY <2>1, <2>5 DEF TextInv
<1>4. CASE SetenvPreload
  <2>1. UNCHANGED <<request, heap, add, new, session, cwd>> /\ pc' = "free" /\ pc = "setenv"
    BY <1>4 DEF SetenvPreload
  <2>2. trouble' = trouble /\ refused' \subseteq Name
    BY <1>4 DEF TextInv, SetenvPreload, SetTo, Name
  <2>3. Str(heap[new].block) \in String
    <3>1. new \in DOMAIN heap
      <4>1. CASE old = NULL
        <5>1. new = 1 /\ heap = <<heap[1]>>
          BY <2>1, <4>1 DEF HeapInv
        <5> QED
          BY <5>1
      <4>2. CASE old # NULL
        <5>1. new = 2 /\ heap = <<heap[1], heap[2]>>
          BY <2>1, <4>2 DEF HeapInv
        <5> QED
          BY <5>1
      <4> QED
        BY <4>1, <4>2
    <3> QED
      BY <3>1 DEF TextInv, Sound, Holds
  <2>4. environ' \in [Name -> {NULL} \cup String]
    BY <1>4, <2>3 DEF TextInv, SetenvPreload, SetTo
  <2> QED
    BY <2>1, <2>2, <2>4 DEF TextInv
<1>5. CASE FreePreload
  <2>1. /\ DOMAIN heap' = DOMAIN heap
        /\ \A i \in DOMAIN heap : heap'[i].block = heap[i].block /\ heap'[i].text = heap[i].text
    <3>1. heap' = [i \in DOMAIN heap |->
                     IF i \in {add} \cup IF old # NULL THEN {new} ELSE {}
                     THEN [heap[i] EXCEPT !.frees = @ + 1] ELSE heap[i]]
      BY <1>5 DEF FreePreload, Free
    <3>2. \A i \in DOMAIN heap : Fresh(heap[i])
      <4>1. pc = "free"
        BY <1>5 DEF FreePreload
      <4>2. CASE old = NULL
        <5>1. heap = <<heap[1]>> /\ Fresh(heap[1])
          BY <4>1, <4>2 DEF HeapInv
        <5>2. DOMAIN heap = {1}
          BY <5>1
        <5> QED
          BY <5>1, <5>2
      <4>3. CASE old # NULL
        <5>1. heap = <<heap[1], heap[2]>> /\ Fresh(heap[1]) /\ Fresh(heap[2])
          BY <4>1, <4>3 DEF HeapInv
        <5>2. DOMAIN heap = {1, 2}
          BY <5>1
        <5> QED
          BY <5>1, <5>2
      <4> QED
        BY <4>2, <4>3
    <3>3. \A r : Fresh(r) => /\ [r EXCEPT !.frees = @ + 1].block = r.block
                             /\ [r EXCEPT !.frees = @ + 1].text = r.text
      BY DEF Fresh
    <3> QED
      BY <3>1, <3>2, <3>3
  <2>2. \A i \in DOMAIN heap' : Sound(heap'[i])
    BY <2>1 DEF TextInv, Sound
  <2>3. UNCHANGED <<request, environ, refused, add, new, session, cwd, trouble>> /\ pc' = "setsid"
    BY <1>5 DEF FreePreload
  <2> QED
    BY <2>1, <2>2, <2>3 DEF TextInv
<1>6. CASE Setsid \/ SetsidFails \/ Chdir
  BY <1>6 DEF TextInv, Calls, Setsid, SetsidFails, Chdir
<1>7. CASE SetenvPair
  <2> DEFINE e == request.env_vars
             n == pair + 1
  <2>1. UNCHANGED <<request, heap, add, new, session, cwd, pc>>
    BY <1>7 DEF SetenvPair
  <2>2. trouble' = trouble
    BY <1>7 DEF SetenvPair
  <2>3. e \in Seq(Name \X Word) /\ n \in 1 .. Len(e)
    BY <1>7 DEF SetenvPair, MorePairs, EnvironInv
  <2>4. e[n] \in Name \X Word
    <3> HIDE DEF e, n
    <3> QED
      BY <2>3
  <2>5. e[n][1] \in Name /\ e[n][2] \in String
    BY <2>4, WordsAndTextsAreStrings
  <2>6. /\ environ' = [environ EXCEPT ![e[n][1]] = e[n][2]] \/ environ' = environ
        /\ refused' = refused \ {e[n][1]} \/ refused' = refused \cup {e[n][1]}
    BY <1>7 DEF SetenvPair, SetTo
  <2> HIDE DEF e, n
  <2>7. environ' \in [Name -> {NULL} \cup String] /\ refused' \subseteq Name
    BY <2>5, <2>6 DEF TextInv
  <2> QED
    BY <2>1, <2>2, <2>7 DEF TextInv
<1>8. CASE Argv \/ Execvp \/ ExecvpFails
  BY <1>8 DEF TextInv, Calls, Argv, Execvp, ExecvpFails
<1>9. CASE HostCatdup
  <2>1. PICK block, text : Sound([block |-> block, text |-> text, frees |-> 0]) /\ New(block, text)
    BY <1>9, HostHolds DEF HostCatdup
  <2>2. Holds(block, text) /\ text \in String
    BY <2>1 DEF Sound
  <2>3. /\ heap = << >> /\ pc' = "returned"
        /\ UNCHANGED <<request, environ, refused, add, new, session, cwd, trouble>>
    BY <1>9 DEF HostCatdup, TextInv
  <2>4. /\ \A i \in DOMAIN heap' : Sound(heap'[i])
        /\ DOMAIN heap' = DOMAIN heap \cup {Len(heap) + 1}
    BY <2>1, <2>2, <2>3, NewSound
  <2> QED
    BY <2>3, <2>4 DEF TextInv
<1>10. CASE UNCHANGED vars
  BY <1>10 DEF TextInv, vars
<1> QED
  BY <1>1, <1>2, <1>3, <1>4, <1>5, <1>6, <1>7, <1>8, <1>9, <1>10
     DEF Next, Child, SetLdpreload, ExecProgram

(* The environment holds strings, the pointers of set_ldpreload() point to  *)
(* blocks, and env_vars is never moved on past its end.                     *)
THEOREM ProgramTypeCorrect == Spec => []TypeOK
<1>1. TextInv /\ EnvironInv => TypeOK
  <2> SUFFICES ASSUME TextInv, EnvironInv PROVE TypeOK
    OBVIOUS
  <2>1. \A v \in Name : environ[v] = NULL \/ \A i \in DOMAIN environ[v] :
                                                environ[v][i] \in Letter \cup {Space}
    <3>1. \A s \in String : \A i \in DOMAIN s : s[i] \in Letter \cup {Space}
      BY DEF String, Character
    <3> QED
      BY <3>1 DEF TextInv
  <2>2. pair \in Nat /\ (pair > 0 => pair <= Len(request.env_vars))
    BY DEF EnvironInv
  <2> QED
    BY <2>1, <2>2 DEF TextInv, TypeOK, Calls
<1> QED
  BY <1>1, TextInvInit, TextInvNext, HeapInvInit, HeapInvNext, EnvironInvInit, EnvironInvNext,
     PTL DEF Spec

(* For arrays and strings of any length, what a helper counts for malloc()  *)
(* is what it copies, it copies its strings one after the other, and each   *)
(* block of set_ldpreload() is freed once.                                  *)
THEOREM MemoryIsSound == Spec => []MemorySound
<1>1. TextInv /\ HeapInv => MemorySound
  BY DEF TextInv, HeapInv, MemorySound, BlocksExact, Sound, Holds
<1> QED
  BY <1>1, TextInvInit, TextInvNext, HeapInvInit, HeapInvNext, EnvironInvInit, EnvironInvNext,
     PTL DEF Spec
-----------------------------------------------------------------------------
(* What ld.so has read. *)
Nothing == [words |-> << >>, word |-> << >>]
Read(b, t) == FoldLeft(ReadCharacter, b, t)
Parse == [words : Seq(Seq(Letter)), word : Seq(Letter)]
At(w, s) == [words |-> w, word |-> s]

(* The libraries of an array; an empty string names none. *)
Libraries(array) ==
  FoldLeft(LAMBDA names, s : IF s = << >> THEN names ELSE Append(names, s), << >>, array)

ReadStep(d, parse, c) == ReadCharacter(parse, c)
NameStep(d, names, s) == IF s = << >> THEN names ELSE Append(names, s)

Reads == INSTANCE FoldLemmas WITH Step <- ReadStep
Named == INSTANCE FoldLemmas WITH Step <- NameStep

(* These are the folds above. *)
LEMMA SameReads ==
  /\ \A b, t : Read(b, t) = Reads!Fold(0, b, t)
  /\ \A array : Libraries(array) = Named!Fold(0, << >>, array)
<1>1. \A b, t : Read(b, t) = Reads!Fold(0, b, t)
  BY DEF Read, ReadStep, Reads!Fold, FoldLeft, Reads!FoldLeft, MapThenFoldSet,
         Reads!MapThenFoldSet, Max, Reads!Max
<1>2. \A array : Libraries(array) = Named!Fold(0, << >>, array)
  BY DEF Libraries, NameStep, Named!Fold, FoldLeft, Named!FoldLeft, MapThenFoldSet,
         Named!MapThenFoldSet, Max, Named!Max
<1> QED
  BY <1>1, <1>2

(* Inside of a word, and at its end. *)
LEMMA ReadCharacterIs ==
  ASSUME NEW w, NEW s
  PROVE  /\ \A c : c # Space => ReadCharacter(At(w, s), c) = At(w, Append(s, c))
         /\ ReadCharacter(At(w, s), Space) = At(NameStep(0, w, s), << >>)
<1> DEFINE b == At(w, s)
<1>1. b.words = w /\ b.word = s /\ \A l : [b EXCEPT !.word = l] = At(w, l)
  BY DEF At
<1>2. \A c : c # Space => ReadCharacter(b, c) = [b EXCEPT !.word = Append(b.word, c)]
  BY DEF ReadCharacter
<1>3. ReadCharacter(b, Space)
        = [words |-> IF b.word = << >> THEN b.words ELSE Append(b.words, b.word), word |-> << >>]
  BY DEF ReadCharacter
<1> HIDE DEF b
<1>4. ReadCharacter(b, Space) = At(NameStep(0, w, s), << >>)
  BY <1>1, <1>3 DEF At, NameStep
<1>5. ASSUME NEW c, c # Space PROVE ReadCharacter(b, c) = At(w, Append(s, c))
  <2>1. ReadCharacter(b, c) = [b EXCEPT !.word = Append(b.word, c)]
    BY <1>2, <1>5
  <2> DEFINE l == Append(s, c)
  <2>2. [b EXCEPT !.word = l] = At(w, l)
    <3> HIDE DEF l
    <3> QED
      BY <1>1
  <2> QED
    BY <1>1, <2>1, <2>2
<1> QED
  BY <1>4, <1>5 DEF b

(* What was read are names without a space. *)
LEMMA ParseIs ==
  /\ \A b \in Parse : b = At(b.words, b.word) /\ b.words \in Seq(Seq(Letter)) /\ b.word \in Seq(Letter)
  /\ \A w \in Seq(Seq(Letter)), s \in Seq(Letter) : At(w, s) \in Parse
BY DEF Parse, At

(* A word more, or none. *)
LEMMA NameStepIn ==
  ASSUME NEW C, NEW w \in Seq(C), NEW s \in C
  PROVE  NameStep(0, w, s) \in Seq(C)
BY DEF NameStep

(* The text is read a character at a time, and in pieces as in one go. *)
LEMMA ReadSteps ==
  ASSUME NEW b \in Parse
  PROVE  /\ Read(b, << >>) = b
         /\ \A t \in String : Read(b, t) \in Parse
         /\ \A t \in String, c \in Character : Read(b, Append(t, c)) = ReadCharacter(Read(b, t), c)
         /\ \A t, u \in String : Read(b, t \o u) = Read(Read(b, t), u)
<1>1. ASSUME NEW x \in Parse, NEW c \in Character PROVE ReadCharacter(x, c) \in Parse
  <2> DEFINE w == x.words
             s == x.word
  <2>1. x = At(w, s) /\ w \in Seq(Seq(Letter)) /\ s \in Seq(Letter)
    BY ParseIs
  <2> HIDE DEF w, s
  <2>2. CASE c = Space
    <3>1. NameStep(0, w, s) \in Seq(Seq(Letter))
      BY <2>1, NameStepIn
    <3>2. << >> \in Seq(Letter)
      OBVIOUS
    <3>3. ReadCharacter(x, c) = At(NameStep(0, w, s), << >>)
      BY <2>1, <2>2, ReadCharacterIs
    <3> QED
      BY <3>1, <3>2, <3>3, ParseIs
  <2>3. CASE c # Space
    <3>1. c \in Letter
      BY <2>3 DEF Character
    <3>2. Append(s, c) \in Seq(Letter)
      BY <2>1, <3>1
    <3>3. ReadCharacter(x, c) = At(w, Append(s, c))
      BY <2>1, <2>3, ReadCharacterIs
    <3> QED
      BY <2>1, <3>2, <3>3, ParseIs
  <2> QED
    BY <2>2, <2>3
<1>2. Reads!StaysIn(0, Parse, Character)
  BY <1>1 DEF Reads!StaysIn, ReadStep
<1>3. Reads!GoesStepwise(0, Parse, Character, b)
  BY <1>2, Reads!FoldSteps
<1>4. \A t, u \in String : Reads!Fold(0, b, t \o u) = Reads!Fold(0, Reads!Fold(0, b, t), u)
  BY <1>2, Reads!FoldConcat DEF String
<1> QED
  BY <1>3, <1>4, SameReads DEF Reads!GoesStepwise, ReadStep, String

(* The name of a library. *)
LibraryName == Seq(Letter)

(* An array one library longer names that library too. *)
LEMMA LibrariesSteps ==
  /\ Libraries(<< >>) = << >>
  /\ \A array \in Seq(LibraryName) : Libraries(array) \in Seq(LibraryName)
  /\ \A array \in Seq(LibraryName), s \in LibraryName :
       Libraries(Append(array, s)) = NameStep(0, Libraries(array), s)
<1>1. ASSUME NEW x \in Seq(LibraryName), NEW c \in LibraryName PROVE NameStep(0, x, c) \in Seq(LibraryName)
  BY DEF NameStep
<1>2. Named!StaysIn(0, Seq(LibraryName), LibraryName)
  BY <1>1 DEF Named!StaysIn
<1>3. << >> \in Seq(LibraryName)
  OBVIOUS
<1>4. Named!GoesStepwise(0, Seq(LibraryName), LibraryName, << >>)
  BY <1>2, <1>3, Named!FoldSteps
<1> QED
  BY <1>4, SameReads DEF Named!GoesStepwise

(* Without an empty string they are the array itself. *)
LEMMA PlainLibraries ==
  ASSUME NEW array \in Seq(LibraryName), \A i \in DOMAIN array : array[i] # << >>
  PROVE  Libraries(array) = array
<1> DEFINE AllNamed(a) == \A i \in DOMAIN a : a[i] # << >>
           P == {a \in Seq(LibraryName) : AllNamed(a) => Libraries(a) = a}
<1>1. << >> \in P
  BY LibrariesSteps
<1>2. ASSUME NEW a \in Seq(LibraryName), NEW s \in LibraryName, a \in P
      PROVE  Append(a, s) \in P
  <2>1. Append(a, s) \in Seq(LibraryName)
    OBVIOUS
  <2>2. ASSUME AllNamed(Append(a, s)) PROVE Libraries(Append(a, s)) = Append(a, s)
    <3>1. \A i \in DOMAIN a : i \in DOMAIN Append(a, s) /\ Append(a, s)[i] = a[i]
      OBVIOUS
    <3>2. Len(a) + 1 \in DOMAIN Append(a, s) /\ Append(a, s)[Len(a) + 1] = s
      OBVIOUS
    <3>3. Libraries(a) = a
      BY <1>2, <2>2, <3>1
    <3>4. Libraries(Append(a, s)) = NameStep(0, Libraries(a), s)
      BY LibrariesSteps
    <3> QED
      BY <2>2, <3>2, <3>3, <3>4 DEF NameStep
  <2> HIDE DEF AllNamed
  <2> QED
    BY <2>1, <2>2
<1>3. Seq(LibraryName) \subseteq P
  <2> HIDE DEF P
  <2> QED
    BY <1>1, <1>2, SequenceInduction
<1>4. AllNamed(array)
  OBVIOUS
<1> QED
  BY <1>3, <1>4

(* A name without a space is read as a whole. *)
LEMMA NameRead ==
  ASSUME NEW w \in Seq(LibraryName)
  PROVE  \A s \in LibraryName : Read(At(w, << >>), s) = At(w, s)
<1> DEFINE b == At(w, << >>)
           Good(s) == Read(b, s) = At(w, s)
           P == {s \in LibraryName : Good(s)}
<1>0. b \in Parse
  <2>1. << >> \in Seq(Letter)
    OBVIOUS
  <2> QED
    BY <2>1, ParseIs DEF LibraryName
<1>1. << >> \in P
  <2>1. << >> \in LibraryName
    BY DEF LibraryName
  <2>2. Good(<< >>)
    BY <1>0, ReadSteps
  <2> HIDE DEF Good
  <2> QED
    BY <2>1, <2>2
<1>2. ASSUME NEW s \in LibraryName, NEW c \in Letter, s \in P PROVE Append(s, c) \in P
  <2>1. s \in String /\ c \in Character /\ Append(s, c) \in LibraryName /\ c # Space
    BY ProgramAssumption DEF LibraryName, String, Character
  <2> HIDE DEF b
  <2>2. Read(b, Append(s, c)) = ReadCharacter(Read(b, s), c)
    BY <1>0, <2>1, ReadSteps
  <2>3. Read(b, s) = At(w, s)
    BY <1>2
  <2>4. Good(Append(s, c))
    BY <2>1, <2>2, <2>3, ReadCharacterIs
  <2> HIDE DEF Good
  <2> QED
    BY <2>1, <2>4
<1>3. Seq(Letter) \subseteq P
  <2> HIDE DEF P
  <2> QED
    BY <1>1, <1>2, SequenceInduction DEF LibraryName
<1> QED
  BY <1>3 DEF LibraryName

(* A delimiter ends it. *)
LEMMA DelimiterRead ==
  ASSUME NEW b \in Parse
  PROVE  Read(b, Delimiter) = At(NameStep(0, b.words, b.word), << >>)
<1>1. << >> \in String /\ Space \in Character
  BY DEF String, Character
<1>2. Delimiter = Append(<< >>, Space)
  BY AppendIsTuple DEF Delimiter
<1>3. Read(b, Delimiter) = ReadCharacter(Read(b, << >>), Space)
  BY <1>1, <1>2, ReadSteps
<1>4. Read(b, << >>) = b
  BY ReadSteps
<1> QED
  BY <1>3, <1>4, ReadCharacterIs, ParseIs

(* What catdup_array() makes of the array is read as its libraries. *)
LEMMA FollowedRead ==
  \A array \in Seq(LibraryName) :
    Read(Nothing, Followed(array, Delimiter)) = At(Libraries(array), << >>)
<1> DEFINE Good(array) == Read(Nothing, Followed(array, Delimiter)) = At(Libraries(array), << >>)
           P == {array \in Seq(LibraryName) : Good(array)}
<1>0. Nothing \in Parse /\ Nothing = At(<< >>, << >>)
  BY DEF Nothing, Parse, At
<1>1. << >> \in P
  <2>1. << >> \in Seq(LibraryName)
    OBVIOUS
  <2>2. Followed(<< >>, Delimiter) = << >>
    BY DelimiterIsString, FollowedSteps
  <2>3. Good(<< >>)
    BY <1>0, <2>2, ReadSteps, LibrariesSteps
  <2> HIDE DEF Good
  <2> QED
    BY <2>1, <2>3
<1>2. ASSUME NEW array \in Seq(LibraryName), NEW s \in LibraryName, array \in P
      PROVE  Append(array, s) \in P
  <2> DEFINE f == Followed(array, Delimiter)
             w == Libraries(array)
  <2>1. s \in String /\ array \in Seq(String) /\ Append(array, s) \in Seq(LibraryName)
    <3>1. LibraryName \subseteq String
      BY DEF LibraryName, String, Character
    <3> QED
      BY <3>1
  <2>2. f \in String /\ Followed(Append(array, s), Delimiter) = f \o s \o Delimiter
    BY <2>1, DelimiterIsString, FollowedSteps
  <2>3. Read(Nothing, f) = At(w, << >>) /\ w \in Seq(LibraryName)
    BY <1>2, LibrariesSteps
  <2>4. Libraries(Append(array, s)) = NameStep(0, w, s)
    BY LibrariesSteps
  <2> HIDE DEF f, w
  <2>5. f \o s \in String
    BY <2>1, <2>2, ConcatAgain
  <2>6. Read(Nothing, (f \o s) \o Delimiter) = Read(Read(Nothing, f \o s), Delimiter)
    BY <1>0, <2>5, DelimiterIsString, ReadSteps
  <2>7. Read(Nothing, f \o s) = At(w, s)
    <3>1. Read(Nothing, f \o s) = Read(Read(Nothing, f), s)
      BY <1>0, <2>1, <2>2, ReadSteps
    <3> QED
      BY <2>3, <3>1, NameRead
  <2>8. At(w, s) \in Parse /\ At(w, s).words = w /\ At(w, s).word = s
    BY <2>3, ParseIs DEF At, LibraryName
  <2>9. Read(At(w, s), Delimiter) = At(NameStep(0, w, s), << >>)
    BY <2>8, DelimiterRead
  <2>10. Good(Append(array, s))
    BY <2>2, <2>4, <2>6, <2>7, <2>9
  <2> HIDE DEF Good
  <2> QED
    BY <2>1, <2>10
<1>3. Seq(LibraryName) \subseteq P
  <2> HIDE DEF P
  <2> QED
    BY <1>1, <1>2, SequenceInduction
<1> QED
  BY <1>3

(* What was read before makes no difference to the words that follow. *)
Behind(w, b) == At(w \o b.words, b.word)

(* Neither at the end of a word nor inside of it. *)
LEMMA BehindStep ==
  ASSUME NEW w \in Seq(LibraryName), NEW b \in Parse, NEW c
  PROVE  ReadCharacter(Behind(w, b), c) = Behind(w, ReadCharacter(b, c))
<1> DEFINE v == b.words
           s == b.word
<1>1. b = At(v, s) /\ v \in Seq(LibraryName) /\ s \in LibraryName
  BY ParseIs DEF LibraryName
<1>2. \A x, y : At(x, y).words = x /\ At(x, y).word = y
  BY DEF At
<1> HIDE DEF v, s
<1>3. Behind(w, b) = At(w \o v, s)
  BY <1>1, <1>2 DEF Behind
<1>4. CASE c = Space
  <2>1. NameStep(0, w \o v, s) = w \o NameStep(0, v, s)
    <3>1. w \o Append(v, s) = Append(w \o v, s)
      BY <1>1
    <3> QED
      BY <3>1 DEF NameStep
  <2>2. ReadCharacter(b, c) = At(NameStep(0, v, s), << >>)
    BY <1>1, <1>4, ReadCharacterIs
  <2>3. ReadCharacter(Behind(w, b), c) = At(NameStep(0, w \o v, s), << >>)
    BY <1>3, <1>4, ReadCharacterIs
  <2> QED
    BY <1>2, <2>1, <2>2, <2>3 DEF Behind
<1>5. CASE c # Space
  <2>1. ReadCharacter(b, c) = At(v, Append(s, c))
    BY <1>1, <1>5, ReadCharacterIs
  <2>2. ReadCharacter(Behind(w, b), c) = At(w \o v, Append(s, c))
    BY <1>3, <1>5, ReadCharacterIs
  <2> QED
    BY <1>2, <2>1, <2>2 DEF Behind
<1> QED
  BY <1>4, <1>5

(* Nor for a whole text. *)
LEMMA ReadBehind ==
  ASSUME NEW w \in Seq(LibraryName)
  PROVE  \A t \in String : Read(At(w, << >>), t) = Behind(w, Read(Nothing, t))
<1> DEFINE b == At(w, << >>)
           Good(t) == Read(b, t) = Behind(w, Read(Nothing, t))
           P == {t \in String : Good(t)}
<1>0. Nothing \in Parse /\ b \in Parse /\ Behind(w, Nothing) = b
  <2>1. w \o << >> = w /\ << >> \in Seq(Letter)
    OBVIOUS
  <2> QED
    BY <2>1, ParseIs DEF Nothing, Parse, At, Behind, LibraryName
<1>1. << >> \in P
  <2>1. << >> \in String
    BY DEF String
  <2>2. Good(<< >>)
    BY <1>0, ReadSteps
  <2> HIDE DEF Good
  <2> QED
    BY <2>1, <2>2
<1>2. ASSUME NEW t \in String, NEW c \in Character, t \in P PROVE Append(t, c) \in P
  <2> HIDE DEF b
  <2>1. /\ Read(b, Append(t, c)) = ReadCharacter(Read(b, t), c)
        /\ Read(Nothing, Append(t, c)) = ReadCharacter(Read(Nothing, t), c)
        /\ Read(Nothing, t) \in Parse
    BY <1>0, ReadSteps
  <2>2. Read(b, t) = Behind(w, Read(Nothing, t))
    BY <1>2
  <2>3. Append(t, c) \in String
    BY DEF String
  <2>4. Good(Append(t, c))
    BY <2>1, <2>2, BehindStep
  <2> HIDE DEF Good
  <2> QED
    BY <2>3, <2>4
<1>3. Seq(Character) \subseteq P
  <2> HIDE DEF P
  <2> QED
    BY <1>1, <1>2, SequenceInduction DEF String
<1> QED
  BY <1>3 DEF String

(* The end of the text ends a word. *)
LEMMA WordsIs ==
  ASSUME NEW t \in String
  PROVE  Words(t) = ReadCharacter(Read(Nothing, t), Space).words
<1>1. Nothing \in Parse /\ Space \in Character
  BY DEF Nothing, Parse, Character
<1>2. Read(Nothing, Append(t, Space)) = ReadCharacter(Read(Nothing, t), Space)
  BY <1>1, ReadSteps
<1> QED
  BY <1>2 DEF Words, Read, Nothing

(* ld.so finds names without a space. *)
LEMMA WordsAreNames == \A t \in String : Words(t) \in Seq(LibraryName)
<1> SUFFICES ASSUME NEW t \in String PROVE Words(t) \in Seq(LibraryName)
  OBVIOUS
<1> DEFINE r == Read(Nothing, t)
           w == r.words
           s == r.word
<1>1. Nothing \in Parse
  BY DEF Nothing, Parse
<1>2. r = At(w, s) /\ w \in Seq(LibraryName) /\ s \in LibraryName
  BY <1>1, ReadSteps, ParseIs DEF LibraryName
<1>3. Words(t) = ReadCharacter(r, Space).words
  BY WordsIs
<1> HIDE DEF r, w, s
<1>4. Words(t) = NameStep(0, w, s)
  <2>1. ReadCharacter(r, Space) = At(NameStep(0, w, s), << >>)
    BY <1>2, ReadCharacterIs
  <2>2. \A x, y : At(x, y).words = x
    BY DEF At
  <2> QED
    BY <1>3, <2>1, <2>2
<1> QED
  BY <1>2, <1>4, NameStepIn

(* The bounds of the array and of its strings do not matter. *)
LEMMA NamesAreNames == Word \subseteq LibraryName /\ BoundedSeq(Word, MaxStrings) \subseteq Seq(LibraryName)
<1>1. Word \subseteq LibraryName
  BY BoundedIsSeq, ProgramAssumption DEF Word, LibraryName
<1>2. BoundedSeq(Word, MaxStrings) \subseteq Seq(Word)
  BY BoundedIsSeq, ProgramAssumption
<1>3. Seq(Word) \subseteq Seq(LibraryName)
  <2> HIDE DEF Word, LibraryName
  <2> QED
    BY <1>1
<1> QED
  BY <1>1, <1>2, <1>3

(* ld.so finds the libraries of the array, and behind them what it would    *)
(* have found in the old value.                                            *)
LEMMA LibrariesFound ==
  ASSUME NEW array \in Seq(LibraryName)
  PROVE  LET f == Followed(array, Delimiter)
         IN  /\ f \in String /\ Words(f) = Libraries(array)
             /\ Libraries(array) \in Seq(LibraryName)
             /\ \A o \in String : /\ f \o Delimiter \o o \in String
                                  /\ Words(f \o Delimiter \o o) = Libraries(array) \o Words(o)
<1> DEFINE f == Followed(array, Delimiter)
           w == Libraries(array)
<1>0. Nothing \in Parse
  BY DEF Nothing, Parse
<1>1. f \in String
  <2>1. LibraryName \subseteq String
    BY DEF LibraryName, String, Character
  <2>2. array \in Seq(String)
    BY <2>1
  <2> QED
    BY <2>2, DelimiterIsString, FollowedSteps
<1>2. Read(Nothing, f) = At(w, << >>) /\ w \in Seq(LibraryName)
  BY FollowedRead, LibrariesSteps
<1> HIDE DEF f, w
<1>3. ReadCharacter(At(w, << >>), Space) = At(w, << >>)
  BY ReadCharacterIs DEF NameStep
<1>4. Words(f) = w
  BY <1>1, <1>2, <1>3, WordsIs DEF At
<1>5. ASSUME NEW o \in String
      PROVE  /\ f \o Delimiter \o o \in String
             /\ Words(f \o Delimiter \o o) = w \o Words(o)
  <2> DEFINE g == f \o Delimiter
             r == Read(Nothing, o)
  <2>1. g \in String
    BY <1>1, DelimiterIsString, ConcatAgain
  <2>2. Read(Nothing, g) = At(w, << >>)
    <3>1. Read(Nothing, g) = Read(At(w, << >>), Delimiter)
      BY <1>0, <1>1, <1>2, DelimiterIsString, ReadSteps
    <3>2. At(w, << >>) \in Parse /\ At(w, << >>).words = w /\ At(w, << >>).word = << >>
      <4>1. << >> \in Seq(Letter)
        OBVIOUS
      <4> QED
        BY <1>2, <4>1, ParseIs DEF At, LibraryName
    <3>3. Read(At(w, << >>), Delimiter) = At(NameStep(0, w, << >>), << >>)
      BY <3>2, DelimiterRead
    <3> QED
      BY <3>1, <3>3 DEF NameStep
  <2>3. r \in Parse
    BY <1>0, ReadSteps
  <2> HIDE DEF g, r
  <2>4. g \o o \in String
    BY <2>1, ConcatAgain
  <2>5. Read(Nothing, g \o o) = Read(Read(Nothing, g), o)
    BY <1>0, <2>1, ReadSteps
  <2>6. Read(Nothing, g \o o) = Behind(w, r)
    BY <1>2, <2>2, <2>5, ReadBehind DEF r
  <2>7. Words(g \o o) = ReadCharacter(Behind(w, r), Space).words
    BY <2>4, <2>6, WordsIs
  <2>8. Words(o) = ReadCharacter(r, Space).words
    BY WordsIs DEF r
  <2>9. ReadCharacter(Behind(w, r), Space) = Behind(w, ReadCharacter(r, Space))
    BY <1>2, <2>3, BehindStep
  <2>10. \A x : Behind(w, x).words = w \o x.words
    BY DEF Behind, At
  <2> QED
    BY <2>4, <2>7, <2>8, <2>9, <2>10 DEF g
<1> QED
  BY <1>1, <1>2, <1>4, <1>5 DEF f, w
-----------------------------------------------------------------------------
(* LD_PRELOAD as set_ldpreload() is to leave it. *)
Wanted ==
  LET kept == inherited[LD_PRELOAD]
      hooks == Followed(request.ldpreload, Delimiter)
  IN  IF request.ldpreload = NULL THEN kept
      ELSE IF kept = NULL THEN hooks
      ELSE hooks \o Delimiter \o kept

(* On its way there, and until a pair of env_vars names the variable.       *)
HookInv ==
  /\ inherited \in [Name -> {NULL} \cup String]
  /\ pc \in {"set_ldpreload", "getenv"} => environ = inherited
  /\ pc = "getenv" =>
       request.ldpreload # NULL /\ heap[1].text = Followed(request.ldpreload, Delimiter)
  /\ pc = "setenv" => heap[new].text = Wanted
  /\ pc \in {"free", "setsid", "chdir"} \cup Late =>
       \/ LD_PRELOAD \in refused
       \/ \E i \in 1 .. pair : request.env_vars[i][1] = LD_PRELOAD
       \/ environ[LD_PRELOAD] = Wanted

(* Nothing was set yet. *)
LEMMA HookInvInit == Init => HookInv
<1>1. InitChild => inherited \in [Name -> {NULL} \cup String]
  BY WordsAndTextsAreStrings DEF InitChild
<1>2. InitHost => inherited \in [Name -> {NULL} \cup String]
  BY DEF InitHost
<1> QED
  BY <1>1, <1>2 DEF Init, InitChild, InitHost, Start, HookInv, Late

(* set_ldpreload() builds the value and sets it, or it fails; what follows *)
(* sets the variable again only for a pair that names it.                  *)
LEMMA HookInvNext ==
  HookInv /\ TextInv /\ HeapInv /\ EnvironInv /\ [Next]_vars => HookInv'
<1> SUFFICES ASSUME HookInv, TextInv, HeapInv, EnvironInv, [Next]_vars PROVE HookInv'
  OBVIOUS
<1> USE DEF given, process, preload, environment, Goto, Exit, Fails
<1>0. UNCHANGED given => Wanted' = Wanted
  BY DEF Wanted
<1>1. CASE SkipPreload
  <2>1. environ[LD_PRELOAD] = Wanted
    BY <1>1 DEF SkipPreload, HookInv, Wanted
  <2> QED
    BY <1>0, <1>1, <2>1 DEF SkipPreload, HookInv, Late
<1>2. CASE CatdupArrayFails \/ GetenvCatdup3Fails
  BY <1>2 DEF CatdupArrayFails, GetenvCatdup3Fails, HookInv, Late
<1>3. CASE CatdupArray
  <2> DEFINE text == Followed(request.ldpreload, Delimiter)
             block == catdup_array(request.ldpreload, Delimiter)
  <2>1. New(block, text) /\ heap = << >> /\ request.ldpreload # NULL
    BY <1>3 DEF CatdupArray, HeapInv
  <2> HIDE DEF text, block
  <2>2. heap'[1].text = text
    <3>1. heap' = <<[block |-> block, text |-> text, frees |-> 0]>>
      BY <2>1, AppendIsTuple DEF New
    <3> QED
      BY <3>1
  <2> QED
    BY <1>3, <2>1, <2>2 DEF CatdupArray, HookInv, Late, text
<1>4. CASE GetenvNothing
  <2>1. new' = 1 /\ heap' = heap
    BY <1>4 DEF GetenvNothing, HeapInv
  <2>2. heap[1].text = Wanted
    BY <1>4 DEF GetenvNothing, HookInv, Wanted
  <2> QED
    BY <1>0, <1>4, <2>1, <2>2 DEF GetenvNothing, HookInv, Late
<1>5. CASE GetenvCatdup3
  <2> DEFINE text == Str(heap[add].block) \o Delimiter \o environ[LD_PRELOAD]
             block == catdup3(Str(heap[add].block), Delimiter, environ[LD_PRELOAD])
  <2>1. New(block, text) /\ heap = <<heap[1]>> /\ add = 1
    BY <1>5 DEF GetenvCatdup3, HeapInv
  <2>2. text = Wanted
    <3>1. 1 \in DOMAIN heap
      BY <2>1
    <3>2. Str(heap[1].block) = heap[1].text
      BY <3>1 DEF TextInv, Sound, Holds
    <3> QED
      BY <1>5, <2>1, <3>2 DEF GetenvCatdup3, HookInv, Wanted
  <2> HIDE DEF text, block
  <2>3. new' = 2 /\ heap'[2].text = text
    <3> DEFINE r == [block |-> block, text |-> text, frees |-> 0]
               a == heap[1]
    <3>1. heap' = Append(heap, r) /\ heap = <<a>>
      BY <2>1 DEF New
    <3>2. r.text = text
      OBVIOUS
    <3> HIDE DEF r, a
    <3>3. heap' = <<a, r>> /\ Len(heap) = 1
      BY <3>1, AppendIsTuple
    <3>4. new' = Len(heap) + 1
      BY <1>5 DEF GetenvCatdup3
    <3> QED
      BY <3>2, <3>3, <3>4
  <2> QED
    BY <1>0, <1>5, <2>2, <2>3 DEF GetenvCatdup3, HookInv, Late
<1>6. CASE SetenvPreload
  <2>1. pc = "setenv" /\ pc' = "free" /\ UNCHANGED given
    BY <1>6 DEF SetenvPreload
  <2>2. Str(heap[new].block) = Wanted
    <3>1. new \in DOMAIN heap
      BY <2>1 DEF HeapInv
    <3> QED
      BY <2>1, <3>1 DEF TextInv, Sound, Holds, HookInv
  <2>3. LD_PRELOAD \in refused' \/ environ'[LD_PRELOAD] = Wanted
    BY <1>6, <2>2 DEF SetenvPreload, SetTo, TextInv, Name
  <2> QED
    BY <1>0, <2>1, <2>3 DEF HookInv, Late
<1>7. CASE FreePreload \/ Setsid \/ SetsidFails \/ Chdir \/ Argv \/ Execvp \/ ExecvpFails
  <2>1. /\ pc \in {"free", "setsid", "chdir"} \cup Late
        /\ pc' \notin {"set_ldpreload", "getenv", "setenv"}
        /\ UNCHANGED <<given, environ, refused, pair>>
    BY <1>7 DEF FreePreload, Setsid, SetsidFails, Chdir, Argv, Execvp, ExecvpFails, Late
  <2> QED
    BY <1>0, <2>1 DEF HookInv
<1>8. CASE SetenvPair
  <2> DEFINE e == request.env_vars
             n == pair + 1
  <2>1. /\ pc = "env_vars" /\ pc' = pc /\ UNCHANGED given /\ pair' = n
        /\ pair \in Nat
    BY <1>8 DEF SetenvPair, EnvironInv
  <2>2. \/ /\ environ' = [environ EXCEPT ![e[n][1]] = e[n][2]]
           /\ refused' = refused \ {e[n][1]}
        \/ environ' = environ /\ refused' = refused \cup {e[n][1]}
    BY <1>8 DEF SetenvPair, SetTo
  <2>3. \/ LD_PRELOAD \in refused'
        \/ \E i \in 1 .. n : e[i][1] = LD_PRELOAD
        \/ environ'[LD_PRELOAD] = Wanted
    <3> SUFFICES ASSUME LD_PRELOAD \notin refused', \A i \in 1 .. n : e[i][1] # LD_PRELOAD
                 PROVE  environ'[LD_PRELOAD] = Wanted
      OBVIOUS
    <3>1. n \in 1 .. n /\ \A i \in 1 .. pair : i \in 1 .. n
      BY <2>1
    <3>2. e[n][1] # LD_PRELOAD /\ \A i \in 1 .. pair : e[i][1] # LD_PRELOAD
      BY <3>1
    <3>3. LD_PRELOAD \notin refused
      BY <2>2, <3>2
    <3>4. environ[LD_PRELOAD] = Wanted
      BY <2>1, <3>2, <3>3 DEF HookInv, Late
    <3> QED
      BY <2>2, <3>2, <3>4 DEF TextInv, Name
  <2> QED
    BY <1>0, <2>1, <2>3 DEF HookInv, Late
<1>9. CASE HostCatdup
  BY <1>9 DEF HostCatdup, HookInv, Late
<1>10. CASE UNCHANGED vars
  BY <1>0, <1>10 DEF vars, HookInv
<1> QED
  BY <1>1, <1>2, <1>3, <1>4, <1>5, <1>6, <1>7, <1>8, <1>9, <1>10
     DEF Next, Child, SetLdpreload, ExecProgram

(* The program runs with the libraries of ldpreload, in their order, before *)
(* those its host program was run with, whatever call failed but the last   *)
(* setenv() of LD_PRELOAD.  Arrays with an empty string are left out, since *)
(* loader.h:71 takes one for the end of the array.                          *)
THEOREM HooksAreFirst == Spec => []HooksFirst
<1>1. HookInv /\ TextInv /\ EnvironInv => HooksFirst
  <2> SUFFICES ASSUME HookInv, TextInv, EnvironInv, pc = "program", LibrariesPlain,
                      ~Asked(LD_PRELOAD), LD_PRELOAD \notin refused
               PROVE  WordsOf(environ[LD_PRELOAD]) =
                        (IF request.ldpreload = NULL THEN << >> ELSE request.ldpreload)
                        \o WordsOf(inherited[LD_PRELOAD])
    BY DEF HooksFirst
  <2> DEFINE array == request.ldpreload
             kept  == inherited[LD_PRELOAD]
             hooks == Followed(array, Delimiter)
  <2>1. environ[LD_PRELOAD] = Wanted
    <3>1. \A i \in 1 .. pair : request.env_vars[i][1] # LD_PRELOAD
      <4>1. CASE request.env_vars = NULL
        BY <4>1 DEF EnvironInv
      <4>2. CASE request.env_vars # NULL
        <5>1. DOMAIN request.env_vars = 1 .. pair
          BY <4>2 DEF EnvironInv
        <5> QED
          BY <4>2, <5>1 DEF Asked
      <4> QED
        BY <4>1, <4>2
    <3> QED
      BY <3>1 DEF HookInv, Late
  <2>2. kept \in {NULL} \cup String
    BY DEF HookInv, Name
  <2>3. NULL \notin String
    BY ProgramAssumption DEF String, Character
  <2>4. WordsOf(NULL) = << >>
    BY DEF WordsOf
  <2>5. \A t \in String : WordsOf(t) = Words(t) /\ Words(t) \in Seq(LibraryName)
    BY <2>3, WordsAreNames DEF WordsOf
  <2>6. \A w \in Seq(LibraryName) : << >> \o w = w /\ w \o << >> = w
    OBVIOUS
  <2>7. << >> \in Seq(LibraryName)
    OBVIOUS
  <2>8. CASE array = NULL
    <3>1. Wanted = kept /\ WordsOf(kept) \in Seq(LibraryName)
      BY <2>2, <2>4, <2>5, <2>7, <2>8 DEF Wanted
    <3> HIDE DEF kept
    <3> QED
      BY <2>1, <2>6, <2>8, <3>1 DEF kept
  <2>9. CASE array # NULL
    <3>1. array \in Seq(LibraryName)
      BY <2>9, BoundedIsSeq, ProgramAssumption, NamesAreNames DEF TextInv, Request
    <3>0. Libraries(array) = array
      BY <2>9, <3>1, PlainLibraries DEF LibrariesPlain, Range
    <3>2. /\ hooks \in String /\ Words(hooks) = array
          /\ \A o \in String : /\ hooks \o Delimiter \o o \in String
                               /\ Words(hooks \o Delimiter \o o) = array \o Words(o)
      BY <3>0, <3>1, LibrariesFound
    <3>3. CASE kept = NULL
      <4>1. Wanted = hooks
        BY <2>9, <3>3 DEF Wanted
      <4> HIDE DEF hooks
      <4> QED
        BY <2>1, <2>4, <2>5, <2>6, <2>9, <3>1, <3>2, <3>3, <4>1
    <3>4. CASE kept # NULL
      <4>1. Wanted = hooks \o Delimiter \o kept /\ kept \in String
        BY <2>2, <2>9, <3>4 DEF Wanted
      <4> HIDE DEF hooks, kept
      <4>2. WordsOf(Wanted) = Words(hooks \o Delimiter \o kept)
        BY <2>5, <3>2, <4>1
      <4>3. WordsOf(Wanted) = array \o WordsOf(kept)
        BY <2>5, <3>2, <4>1, <4>2
      <4> QED
        BY <2>1, <2>9, <4>3 DEF kept
    <3> QED
      BY <3>3, <3>4
  <2> QED
    BY <2>8, <2>9
<1> QED
  BY <1>1, HookInvInit, HookInvNext, TextInvInit, TextInvNext, HeapInvInit, HeapInvNext,
     EnvironInvInit, EnvironInvNext, PTL DEF Spec
=============================================================================
