-------------------------- MODULE LineReaderProofs --------------------------
(***************************************************************************)
(* Theorems about LineReader, for every size of the buffer and everything  *)
(* a child may write.  First that there is always room to read; then what  *)
(* the lines of a buffer become with one more character, with which a turn *)
(* of the loop is compared to the reference character by character; then   *)
(* the types and, from both, that the cuts between the reads do not show;  *)
(* then that the log tells the output, message by message; and at last     *)
(* that every line is accounted for, a NUL in the output or not.           *)
(***************************************************************************)
EXTENDS LineReader, DataLemmas

(* What the C library sees is a beginning of the buffer. *)
LEMMA SeenIsPrefix ==
  ASSUME NEW s \in Seq(Char)
  PROVE  UpToNul(s) \in Seq(Char) /\ Len(UpToNul(s)) <= Len(s)
<1> DEFINE ends == {i \in DOMAIN s : s[i] = Nul}
<1>1. Len(s) \in Nat /\ DOMAIN s = 1..Len(s)
  OBVIOUS
<1>2. CASE ends = {}
  BY <1>1, <1>2 DEF UpToNul
<1>3. CASE ends # {}
  <2>1. ends \subseteq Nat
    BY <1>1
  <2>2. Min(ends) \in 1..Len(s)
    BY <1>1, <1>3, <2>1, MinOfNaturals
  <2>3. UpToNul(s) = SubSeq(s, 1, Min(ends) - 1)
    BY <1>3 DEF UpToNul
  <2> HIDE DEF ends
  <2> QED
    BY <1>1, <2>2, <2>3
<1> QED
  BY <1>2, <1>3

(* What is left is no longer than the buffer was. *)
LEMMA RestFits ==
  ASSUME NEW s \in Seq(Char), NEW seen \in Seq(Char), Len(seen) <= Len(s)
  PROVE  RestOf(s, seen) \in Seq(Char) /\ Len(RestOf(s, seen)) <= Len(s)
<1> DEFINE eol == Newlines(seen)
<1>1. /\ Len(s) \in Nat /\ Len(seen) \in Nat /\ DOMAIN seen = 1..Len(seen)
      /\ eol \subseteq 1..Len(seen) /\ eol \subseteq Nat
  BY DEF Newlines
<1>2. CASE eol = {}
  BY <1>1, <1>2 DEF RestOf
<1>3. CASE eol # {}
  <2>1. Max(eol) \in 1..Len(seen)
    BY <1>1, <1>3, MaxOfNaturals
  <2>2. RestOf(s, seen) = SubSeq(s, Max(eol) + 1, Len(s))
    BY <1>3 DEF RestOf
  <2> HIDE DEF eol
  <2> QED
    BY <1>1, <2>1, <2>2
<1> QED
  BY <1>2, <1>3

(* At first there is room. *)
LEMMA RoomInit == Init => RoomToRead
BY LineReaderAssumption DEF Init, RoomToRead

(* A turn of the loop leaves room: what fills the buffer is cut.            *)
LEMMA RoomRead ==
  ASSUME RoomToRead, NEW n \in 1..BufferSize, Read(n)
  PROVE  RoomToRead'
<1> DEFINE chunk == SubSeq(written, Len(written) - unread + 1, Len(written) - unread + n)
           buffer == Buffer(chunk)
           rest == RestOf(buffer, UpToNul(buffer))
<1>1. /\ written \in Seq(Char) /\ Len(written) \in Nat /\ unread \in 0..Len(written)
      /\ held \in Seq(Char) /\ Len(held) \in Nat /\ BufferSize \in Nat
      /\ Len(held) <= BufferSize - 2
  BY LineReaderAssumption DEF RoomToRead
<1>2. /\ n \in 1..BufferSize - 1 - Len(held) /\ n <= unread
      /\ UNCHANGED written /\ unread' = unread - n
      /\ held' = IF TooLong(rest) THEN <<>> ELSE rest
  BY DEF Read, MaxRead
<1>3. chunk \in Seq(Char) /\ Len(chunk) = n
  BY <1>1, <1>2
<1>4. buffer \in Seq(Char) /\ Len(buffer) <= BufferSize - 1
  <2> HIDE DEF chunk
  <2> QED
    BY <1>1, <1>2, <1>3 DEF Buffer
<1>5. rest \in Seq(Char) /\ Len(rest) <= Len(buffer)
  <2> HIDE DEF buffer
  <2> QED
    BY <1>4, SeenIsPrefix, RestFits
<1>6. held' \in Seq(Char) /\ Len(held') <= BufferSize - 2
  <2> HIDE DEF buffer, rest
  <2>1. Len(buffer) \in Nat /\ Len(rest) \in Nat
    BY <1>4, <1>5
  <2>2. CASE TooLong(rest)
    BY <1>2, <2>2, LineReaderAssumption
  <2>3. CASE ~TooLong(rest)
    <3>1. held' = rest
      BY <1>2, <2>3
    <3>2. Len(rest) # BufferSize - 1 /\ Len(rest) <= BufferSize - 1
      BY <1>1, <1>4, <1>5, <2>1, <2>3 DEF TooLong
    <3> QED
      BY <1>1, <1>5, <2>1, <3>1, <3>2, SMTT(30)
  <2> QED
    BY <2>2, <2>3
<1>7. unread' \in 0..Len(written')
  BY <1>1, <1>2
<1> QED
  BY <1>2, <1>6, <1>7 DEF RoomToRead

(* Whatever the child writes and however the kernel cuts it, the buffer     *)
(* does not overflow, and there is always room for read() to fill: a line   *)
(* that fills the buffer is cut in time, NUL characters in it or not.       *)
THEOREM AlwaysRoomToRead == Spec => []RoomToRead
<1>1. RoomToRead /\ [Next]_vars => RoomToRead'
  <2> SUFFICES ASSUME RoomToRead, [Next]_vars PROVE RoomToRead'
    OBVIOUS
  <2>1. ASSUME NEW n \in 1..BufferSize, Read(n) PROVE RoomToRead'
    BY <2>1, RoomRead
  <2>2. ASSUME NEW c \in Char, ChildWrite(c) PROVE RoomToRead'
    <3>1. /\ written' \in Seq(Char) /\ Len(written') = Len(written) + 1
          /\ Len(written) \in Nat /\ Len(written) < MaxWritten
          /\ unread' = unread + 1 /\ held' = held
      BY <2>2 DEF ChildWrite, RoomToRead
    <3> QED
      BY <3>1, LineReaderAssumption DEF RoomToRead
  <2>3. ASSUME ReadBegin \/ ReadNothing \/ Bury \/ ChildExit \/ UNCHANGED vars
        PROVE  RoomToRead'
    BY <2>3 DEF ReadBegin, ReadNothing, Bury, ChildExit, vars, RoomToRead
  <2> QED
    BY <2>1, <2>2, <2>3 DEF Next, Loop
<1> QED
  BY <1>1, RoomInit, PTL DEF Spec
-----------------------------------------------------------------------------
(* Lines that fit into the buffer, and what the filter can be. *)
Fitting == {t \in Text : Len(t) <= BufferSize - 2}
FilterState == [log : Seq(Message), last : Fitting, count : 0..CountMod - 1]

(* What the operators of the messages give is a message. *)
LEMMA MessageTypes ==
  /\ \A t \in Text : Line(t) \in Message /\ Part(t) \in Message
  /\ \A n \in Nat : Repeated(n) \in Message
  /\ Repeating \in Message /\ Truncated \in Message
BY DEF Line, Part, Repeated, Repeating, Truncated, Message

(* The repeat count stays within an unsigned int. *)
LEMMA CountWraps ==
  ASSUME NEW n \in 0..CountMod - 1
  PROVE  (n + 1) % CountMod \in 0..CountMod - 1
<1>1. CountMod \in Nat /\ CountMod > 1
  BY LineReaderAssumption
<1> QED
  BY <1>1

(* The repetition filter stays what it can be, whatever line comes.         *)
LEMMA LogLineType ==
  ASSUME NEW f \in FilterState, NEW line \in Fitting
  PROVE  LogLine(f, line) \in FilterState
<1>1. f.log \in Seq(Message) /\ f.count \in 0..CountMod - 1 /\ f.last \in Fitting
      /\ f = [log |-> f.log, last |-> f.last, count |-> f.count]
  BY DEF FilterState
<1>2. 1 \in 0..CountMod - 1 /\ f.count \in Nat /\ line \in Text
  BY <1>1, LineReaderAssumption DEF Fitting
<1>3. EndRepeat(f) \in Seq(Message)
  <2>1. Repeated(f.count) \in Message
    BY <1>2, MessageTypes
  <2> QED
    BY <1>1, <2>1 DEF EndRepeat
<1>4. Append(EndRepeat(f), Line(line)) \in Seq(Message)
  <2>1. Line(line) \in Message
    BY <1>2, MessageTypes
  <2> QED
    BY <1>3, <2>1
<1>5. CASE f.count > 0 /\ f.last = line
  <2> DEFINE l == IF f.count = 1 THEN Append(f.log, Repeating) ELSE f.log
  <2>1. l \in Seq(Message)
    BY <1>1, MessageTypes
  <2>2. LogLine(f, line) = [log |-> l, last |-> f.last, count |-> (f.count + 1) % CountMod]
    BY <1>1, <1>5 DEF LogLine
  <2>3. (f.count + 1) % CountMod \in 0..CountMod - 1
    BY <1>1, CountWraps
  <2> HIDE DEF l
  <2> QED
    BY <1>1, <2>1, <2>2, <2>3 DEF FilterState
<1>6. CASE ~(f.count > 0 /\ f.last = line)
  BY <1>2, <1>4, <1>6 DEF LogLine, FilterState
<1> QED
  BY <1>5, <1>6
-----------------------------------------------------------------------------
(* How many of the places S are at i or before it. *)
Rank(S, i) == Cardinality({j \in S : j <= i})

(* The rank counts up along the places. *)
LEMMA RankRises ==
  ASSUME NEW n \in Nat, NEW S, S \subseteq 1..n
  PROVE  /\ IsFiniteSet(S) /\ Cardinality(S) \in Nat
         /\ \A i : Rank(S, i) \in Nat /\ Rank(S, i) <= Cardinality(S)
         /\ \A i, j \in S : i < j => Rank(S, i) < Rank(S, j)
<1>1. IsFiniteSet(S)
  <2>1. IsFiniteSet(1..n)
    BY FS_Interval
  <2>2. S \in SUBSET (1..n)
    OBVIOUS
  <2> QED
    BY <2>1, <2>2, FS_Subset
<1>2. ASSUME NEW i
      PROVE  /\ IsFiniteSet({j \in S : j <= i})
             /\ Rank(S, i) \in Nat /\ Rank(S, i) <= Cardinality(S)
  <2>1. {j \in S : j <= i} \subseteq S
    OBVIOUS
  <2> QED
    BY <1>1, <2>1, FS_Subset, FS_CardinalityType DEF Rank
<1>3. ASSUME NEW i \in S, NEW j \in S, i < j
      PROVE  Rank(S, i) < Rank(S, j)
  <2> DEFINE A == {k \in S : k <= i}
             B == {k \in S : k <= j}
  <2>1. A \subseteq B /\ j \in B /\ j \notin A
    <3>1. ASSUME NEW k \in S, k <= i PROVE k <= j
      <4>1. k \in Int /\ i \in Int /\ j \in Int
        OBVIOUS
      <4> QED
        BY <1>3, <3>1, <4>1
    <3>2. ~(j <= i) /\ j <= j
      <4>1. i \in Int /\ j \in Int
        OBVIOUS
      <4> QED
        BY <1>3, <4>1
    <3> QED
      BY <3>1, <3>2
  <2>2. IsFiniteSet(A) /\ IsFiniteSet(B) /\ Rank(S, i) = Cardinality(A)
        /\ Rank(S, j) = Cardinality(B)
    BY <1>2 DEF Rank
  <2> HIDE DEF A, B
  <2>3. Cardinality(A) <= Cardinality(B) /\ (Cardinality(A) = Cardinality(B) => A = B)
    BY <2>1, <2>2, FS_Subset
  <2>4. Cardinality(A) \in Nat /\ Cardinality(B) \in Nat
    BY <2>2, FS_CardinalityType
  <2> QED
    BY <2>1, <2>2, <2>3, <2>4
<1> QED
  BY <1>1, <1>2, <1>3, FS_CardinalityType

(* Counting up a set of places meets every count once. *)
LEMMA NthExists ==
  ASSUME NEW n \in Nat
  PROVE  \A S \in SUBSET (1..n) : \A k \in 1..Cardinality(S) :
           \E i \in S : Rank(S, i) = k
<1> DEFINE Good(S) == \A k \in 1..Cardinality(S) : \E i \in S : Rank(S, i) = k
           P == {m \in Nat : \A S \in SUBSET (1..m) : Good(S)}
<1>1. 0 \in P
  <2>1. \A S \in SUBSET (1..0) : S = {}
    OBVIOUS
  <2>2. Good({})
    BY FS_EmptySet
  <2> HIDE DEF Good
  <2> QED
    BY <2>1, <2>2
<1>2. ASSUME NEW m \in Nat, m \in P PROVE m + 1 \in P
  <2> SUFFICES ASSUME NEW S \in SUBSET (1..m+1) PROVE Good(S)
    OBVIOUS
  <2>1. CASE m + 1 \notin S
    <3>1. S \in SUBSET (1..m)
      BY <2>1
    <3> HIDE DEF Good
    <3> QED
      BY <1>2, <3>1
  <2>2. CASE m + 1 \in S
    <3> DEFINE R == S \ {m + 1}
    <3>1. R \in SUBSET (1..m) /\ R \subseteq 1..m
      OBVIOUS
    <3>2. Good(R)
      <4> HIDE DEF Good, R
      <4> QED
        BY <1>2, <3>1
    <3>3. S = R \cup {m + 1} /\ m + 1 \notin R
      BY <2>2
    <3> HIDE DEF R
    <3>4. Cardinality(S) = Cardinality(R) + 1 /\ Cardinality(R) \in Nat
      BY <3>1, <3>3, FS_AddElement, RankRises
    <3>5. ASSUME NEW i \in R PROVE Rank(S, i) = Rank(R, i)
      <4>1. {j \in S : j <= i} = {j \in R : j <= i}
        BY <3>1, <3>3
      <4> QED
        BY <4>1 DEF Rank
    <3>6. Rank(S, m + 1) = Cardinality(R) + 1
      <4>1. {j \in S : j <= m + 1} = S
        <5>1. \A j \in S : j <= m + 1
          OBVIOUS
        <5> QED
          BY <5>1
      <4> QED
        BY <3>4, <4>1 DEF Rank
    <3>7. ASSUME NEW k \in 1..Cardinality(S) PROVE \E i \in S : Rank(S, i) = k
      <4>1. CASE k = Cardinality(R) + 1
        BY <4>1, <2>2, <3>6
      <4>2. CASE k # Cardinality(R) + 1
        <5>1. k \in 1..Cardinality(R)
          BY <4>2, <3>4
        <5>2. PICK i \in R : Rank(R, i) = k
          BY <5>1, <3>2
        <5> QED
          BY <5>2, <3>3, <3>5
      <4> QED
        BY <4>1, <4>2
    <3> QED
      BY <3>7
  <2> QED
    BY <2>1, <2>2
<1>3. Nat \subseteq P
  <2> HIDE DEF P
  <2> QED
    BY <1>1, <1>2, Induction
<1> QED
  BY <1>3

(* Nth finds the place of a rank. *)
LEMMA NthIs ==
  ASSUME NEW n \in Nat, NEW S, S \subseteq 1..n
  PROVE  /\ \A k \in 1..Cardinality(S) : Nth(S, k) \in S /\ Rank(S, Nth(S, k)) = k
         /\ \A i \in S : Nth(S, Rank(S, i)) = i
         /\ Nth(S, 0) = 0
<1>1. ASSUME NEW k \in 1..Cardinality(S)
      PROVE  Nth(S, k) \in S /\ Rank(S, Nth(S, k)) = k
  <2>1. \E i \in S : Rank(S, i) = k
    <3>1. S \in SUBSET (1..n)
      OBVIOUS
    <3> QED
      BY <3>1, NthExists
  <2>2. k # 0
    OBVIOUS
  <2> QED
    BY <2>1, <2>2 DEF Nth, Rank
<1>2. ASSUME NEW i \in S PROVE Nth(S, Rank(S, i)) = i
  <2> DEFINE k == Rank(S, i)
             h == Nth(S, k)
  <2>1. k \in Nat /\ k <= Cardinality(S) /\ Cardinality(S) \in Nat
    BY RankRises
  <2>2. k # 0
    <3>1. i \in {j \in S : j <= i} /\ IsFiniteSet({j \in S : j <= i})
      <4>1. {j \in S : j <= i} \in SUBSET S /\ IsFiniteSet(S)
        BY RankRises
      <4>2. IsFiniteSet({j \in S : j <= i})
        BY <4>1, FS_Subset
      <4> QED
        BY <4>2
    <3> QED
      BY <3>1, FS_EmptySet DEF Rank
  <2>3. k \in 1..Cardinality(S)
    BY <2>1, <2>2
  <2> HIDE DEF k
  <2>4. h \in S /\ Rank(S, h) = k
    BY <2>3, <1>1
  <2> HIDE DEF h
  <2>5. ~(h < i) /\ ~(i < h)
    <3>1. Rank(S, i) = k /\ ~(k < k)
      BY <2>1 DEF k
    <3> QED
      BY <2>4, <3>1, RankRises
  <2>6. h \in Int /\ i \in Int
    BY <2>4
  <2>7. h = i
    BY <2>5, <2>6
  <2> QED
    BY <2>7 DEF h, k
<1>3. Nth(S, 0) = 0
  BY DEF Nth
<1> QED
  BY <1>1, <1>2, <1>3

(* One more place, behind the others. *)
LEMMA NthExtends ==
  ASSUME NEW n \in Nat, NEW S, S \subseteq 1..n
  PROVE  /\ Cardinality(S \cup {n + 1}) = Cardinality(S) + 1
         /\ Nth(S \cup {n + 1}, Cardinality(S) + 1) = n + 1
         /\ \A k \in 0..Cardinality(S) : Nth(S \cup {n + 1}, k) = Nth(S, k)
<1> DEFINE T == S \cup {n + 1}
<1>1. T \subseteq 1..n+1 /\ n + 1 \notin S /\ n + 1 \in Nat
  OBVIOUS
<1>2. Cardinality(T) = Cardinality(S) + 1 /\ Cardinality(S) \in Nat
  <2>1. IsFiniteSet(S) /\ Cardinality(S) \in Nat
    BY RankRises
  <2> QED
    BY <2>1, <1>1, FS_AddElement
<1>3. Rank(T, n + 1) = Cardinality(T)
  <2>1. {j \in T : j <= n + 1} = T
    <3>1. \A j \in T : j <= n + 1
      OBVIOUS
    <3> HIDE DEF T
    <3> QED
      BY <3>1
  <2> QED
    BY <2>1 DEF Rank
<1>4. ASSUME NEW i \in S PROVE Rank(T, i) = Rank(S, i)
  <2>1. {j \in T : j <= i} = {j \in S : j <= i}
    OBVIOUS
  <2> QED
    BY <2>1 DEF Rank
<1>5. n + 1 \in T /\ S \subseteq T
  OBVIOUS
<1> HIDE DEF T
<1>6. Nth(T, Cardinality(S) + 1) = n + 1
  BY <1>1, <1>2, <1>3, <1>5, NthIs
<1>7. ASSUME NEW k \in 1..Cardinality(S) PROVE Nth(T, k) = Nth(S, k)
  <2>1. Nth(S, k) \in S /\ Rank(S, Nth(S, k)) = k
    BY NthIs
  <2>2. Rank(T, Nth(S, k)) = k /\ Nth(S, k) \in T
    BY <2>1, <1>4, <1>5
  <2> QED
    BY <2>2, <1>1, NthIs
<1>8. Nth(T, 0) = Nth(S, 0)
  BY DEF Nth
<1>9. \A k \in 0..Cardinality(S) : k = 0 \/ k \in 1..Cardinality(S)
  BY <1>2
<1> QED
  BY <1>2, <1>6, <1>7, <1>8, <1>9 DEF T
-----------------------------------------------------------------------------
(* What lies before an appended character stays what it was. *)
LEMMA SubSeqOfAppend ==
  ASSUME NEW C, NEW s \in Seq(C), NEW c \in C, NEW a \in Nat \ {0}, NEW b \in 0..Len(s)
  PROVE  SubSeq(Append(s, c), a, b) = SubSeq(s, a, b)
<1> DEFINE t == Append(s, c)
<1>1. t \in Seq(C) /\ Len(t) = Len(s) + 1 /\ \A i \in 1..Len(s) : t[i] = s[i]
  OBVIOUS
<1> HIDE DEF t
<1>2. \A i \in 1..b - a + 1 : a + i - 1 \in 1..Len(s)
  OBVIOUS
<1>3. [i \in 1..b - a + 1 |-> t[a + i - 1]] = [i \in 1..b - a + 1 |-> s[a + i - 1]]
  BY <1>1, <1>2
<1>4. SubSeq(t, a, b) = [i \in 1..b - a + 1 |-> t[a + i - 1]]
  BY <1>1
<1>5. SubSeq(s, a, b) = [i \in 1..b - a + 1 |-> s[a + i - 1]]
  OBVIOUS
<1> QED
  BY <1>3, <1>4, <1>5 DEF t

(* t is s with c behind it, element by element. *)
IsAppend(t, s, c) ==
  t = [i \in 1..Len(s) + 1 |-> IF i <= Len(s) THEN s[i] ELSE c]

(* Append, element by element. *)
LEMMA AppendIs ==
  ASSUME NEW C, NEW s \in Seq(C), NEW c \in C
  PROVE  IsAppend(Append(s, c), s, c)
<1> DEFINE t == Append(s, c)
<1>1. t \in Seq(C) /\ Len(t) = Len(s) + 1
  OBVIOUS
<1>2. \A i \in 1..Len(s) + 1 : t[i] = IF i <= Len(s) THEN s[i] ELSE c
  OBVIOUS
<1> HIDE DEF t
<1>3. t = [i \in 1..Len(t) |-> t[i]]
  BY <1>1
<1>4. t = [i \in 1..Len(s) + 1 |-> t[i]]
  BY <1>1, <1>3
<1> QED
  BY <1>2, <1>4 DEF t, IsAppend

(* The places of the newlines, and the rest behind the last of them.        *)
LEMMA RestIs ==
  ASSUME NEW C, NEW s \in Seq(C)
  PROVE  /\ Newlines(s) \subseteq 1..Len(s)
         /\ Cardinality(Newlines(s)) \in Nat
         /\ \A k \in 1..Cardinality(Newlines(s)) :
              Nth(Newlines(s), k) \in 1..Len(s) /\ s[Nth(Newlines(s), k)] = NL
         /\ Nth(Newlines(s), 0) = 0
         /\ \A k \in 0..Cardinality(Newlines(s)) : Nth(Newlines(s), k) \in 0..Len(s)
         /\ RestOf(s, s) = SubSeq(s, Nth(Newlines(s), Cardinality(Newlines(s))) + 1, Len(s))
<1> DEFINE E == Newlines(s)
           m == Cardinality(E)
           n == Len(s)
<1>1. n \in Nat /\ E \subseteq 1..n
  BY DEF Newlines
<1>2. \A i \in E : s[i] = NL
  BY DEF Newlines
<1>3. RestOf(s, s) = IF E = {} THEN s ELSE SubSeq(s, Max(E) + 1, Len(s))
  BY DEF RestOf
<1>0. SubSeq(s, 1, n) = s
  OBVIOUS
<1> HIDE DEF E, n
<1>4. m \in Nat /\ IsFiniteSet(E)
  BY <1>1, RankRises
<1>5. \A k \in 1..m : Nth(E, k) \in 1..n /\ s[Nth(E, k)] = NL
  <2>1. \A k \in 1..m : Nth(E, k) \in E
    BY <1>1, NthIs
  <2> QED
    BY <2>1, <1>1, <1>2
<1>6. Nth(E, 0) = 0
  BY DEF Nth
<1>7. \A k \in 0..m : Nth(E, k) \in 0..n
  <2>1. \A k \in 0..m : k = 0 \/ k \in 1..m
    BY <1>4
  <2> QED
    BY <2>1, <1>1, <1>5, <1>6
<1>8. RestOf(s, s) = SubSeq(s, Nth(E, m) + 1, n)
  <2>1. CASE E = {}
    <3>1. m = 0
      BY <2>1, FS_EmptySet
    <3>2. Nth(E, m) + 1 = 1
      BY <3>1, <1>6
    <3> QED
      BY <2>1, <3>2, <1>0, <1>3
  <2>2. CASE E # {}
    <3>1. Max(E) \in E /\ \A i \in E : i <= Max(E)
      BY <1>1, <2>2, MaxOfNaturals
    <3>2. {j \in E : j <= Max(E)} = E
      BY <3>1
    <3>3. Rank(E, Max(E)) = m
      BY <3>2 DEF Rank
    <3>4. Nth(E, m) = Max(E)
      BY <1>1, <3>1, <3>3, NthIs
    <3> QED
      BY <2>2, <3>4, <1>3 DEF n
  <2> QED
    BY <2>1, <2>2
<1> QED
  BY <1>1, <1>4, <1>5, <1>6, <1>7, <1>8 DEF E, n

(* Lines are made of the characters of the buffer. *)
LEMMA LinesOfType ==
  ASSUME NEW C, NEW s \in Seq(C)
  PROVE  LinesOf(s) \in Seq(Seq(C)) /\ RestOf(s, s) \in Seq(C)
<1> DEFINE E == Newlines(s)
           m == Cardinality(E)
<1>1. /\ m \in Nat
      /\ \A k \in 0..m : Nth(E, k) \in 0..Len(s)
      /\ RestOf(s, s) = SubSeq(s, Nth(E, m) + 1, Len(s))
  BY RestIs
<1>2. LinesOf(s) = [k \in 1..m |-> SubSeq(s, Nth(E, k - 1) + 1, Nth(E, k) - 1)]
  BY DEF LinesOf
<1> HIDE DEF E, m
<1>3. ASSUME NEW k \in 1..m
      PROVE  SubSeq(s, Nth(E, k - 1) + 1, Nth(E, k) - 1) \in Seq(C)
  <2>1. k - 1 \in 0..m /\ k \in 0..m
    BY <1>1
  <2>2. Nth(E, k - 1) \in 0..Len(s) /\ Nth(E, k) \in 0..Len(s)
    BY <2>1, <1>1
  <2>3. ASSUME NEW a \in 0..Len(s), NEW b \in 0..Len(s)
        PROVE  SubSeq(s, a + 1, b - 1) \in Seq(C)
    OBVIOUS
  <2> QED
    BY <2>2, <2>3
<1>4. RestOf(s, s) \in Seq(C)
  <2>1. Nth(E, m) \in 0..Len(s)
    BY <1>1
  <2>2. ASSUME NEW a \in 0..Len(s) PROVE SubSeq(s, a + 1, Len(s)) \in Seq(C)
    OBVIOUS
  <2> QED
    BY <2>1, <2>2, <1>1
<1>5. LinesOf(s) \in [1..m -> Seq(C)]
  BY <1>2, <1>3
<1> QED
  BY <1>1, <1>5, <1>4

(* One more character completes a line, or prolongs the rest. *)
LEMMA LinesGrow ==
  ASSUME NEW C, NEW s \in Seq(C), NEW c \in C
  PROVE  /\ c = NL => /\ LinesOf(Append(s, c)) = Append(LinesOf(s), RestOf(s, s))
                      /\ RestOf(Append(s, c), Append(s, c)) = << >>
         /\ c # NL => /\ LinesOf(Append(s, c)) = LinesOf(s)
                      /\ RestOf(Append(s, c), Append(s, c)) = Append(RestOf(s, s), c)
<1> DEFINE t == Append(s, c)
           n == Len(s)
           E == Newlines(s)
           m == Cardinality(E)
           N(k) == Nth(E, k)
<1>1. /\ n \in Nat /\ t \in Seq(C) /\ Len(t) = n + 1 /\ t[n + 1] = c
      /\ \A i \in 1..n : t[i] = s[i]
  OBVIOUS
<1>2. /\ E \subseteq 1..n /\ m \in Nat
      /\ \A k \in 0..m : N(k) \in 0..n
      /\ RestOf(s, s) = SubSeq(s, N(m) + 1, n)
  BY RestIs
<1>3. Newlines(t) = IF c = NL THEN E \cup {n + 1} ELSE E
  <2> HIDE DEF t
  <2> QED
    BY <1>1 DEF Newlines
<1>4. \A a \in Nat \ {0}, b \in 0..n : SubSeq(t, a, b) = SubSeq(s, a, b)
  BY SubSeqOfAppend
<1>5. LinesOf(s) = [k \in 1..m |-> SubSeq(s, N(k - 1) + 1, N(k) - 1)]
  BY DEF LinesOf
<1>6. LinesOf(s) \in Seq(Seq(C)) /\ RestOf(s, s) \in Seq(C)
  BY LinesOfType
<1>7. ASSUME NEW k \in 1..m
      PROVE  SubSeq(t, N(k - 1) + 1, N(k) - 1) = SubSeq(s, N(k - 1) + 1, N(k) - 1)
  <2>1. k \in 1..m /\ k - 1 \in 0..m
    BY <1>2
  <2>2. N(k) \in 1..n /\ N(k - 1) \in 0..n
    BY <2>1, <1>2, RestIs
  <2> HIDE DEF t, E
  <2>3. N(k) - 1 \in 0..n /\ N(k - 1) + 1 \in Nat \ {0}
    BY <1>1, <2>2
  <2> QED
    BY <2>3, <1>4
<1>8. ASSUME c = NL PROVE LinesOf(t) = Append(LinesOf(s), RestOf(s, s))
  <2> DEFINE T == Newlines(t)
  <2>1. /\ T = E \cup {n + 1} /\ Cardinality(T) = m + 1
        /\ Nth(T, m + 1) = n + 1
        /\ \A k \in 0..m : Nth(T, k) = N(k)
    <3>1. T = E \cup {n + 1}
      BY <1>3, <1>8
    <3> HIDE DEF E, n, T
    <3> QED
      BY <3>1, <1>1, <1>2, NthExtends
  <2>2. LinesOf(t) = [k \in 1..m + 1 |-> SubSeq(t, Nth(T, k - 1) + 1, Nth(T, k) - 1)]
    BY <2>1 DEF LinesOf
  <2> HIDE DEF T, t, E, m
  <2>3. ASSUME NEW k \in 1..m
        PROVE  LinesOf(t)[k] = LinesOf(s)[k]
    <3>1. k \in 1..m + 1 /\ k - 1 \in 0..m /\ k \in 0..m
      BY <1>2
    <3> QED
      BY <3>1, <2>1, <2>2, <1>5, <1>7
  <2>4. LinesOf(t)[m + 1] = RestOf(s, s)
    <3>1. m + 1 \in 1..m + 1 /\ (m + 1) - 1 = m /\ m \in 0..m
      BY <1>2
    <3>2. (n + 1) - 1 = n /\ n \in 0..n /\ N(m) + 1 \in Nat \ {0}
      BY <1>1, <1>2, <3>1
    <3>3. LinesOf(t)[m + 1] = SubSeq(t, N(m) + 1, n)
      BY <2>1, <2>2, <3>1, <3>2
    <3> QED
      BY <3>2, <3>3, <1>2, <1>4
  <2>5. Len(LinesOf(s)) = m /\ DOMAIN LinesOf(t) = 1..m + 1
    BY <1>2, <1>5, <2>2
  <2> HIDE DEF n
  <2> DEFINE A == LinesOf(t)
             B == LinesOf(s)
             r == RestOf(s, s)
  <2>6. A = [k \in 1..m + 1 |-> A[k]]
    BY <2>2
  <2> HIDE DEF A, B, r
  <2>7. A = Append(B, r)
    <3>1. B \in Seq(Seq(C)) /\ r \in Seq(C) /\ Len(B) = m /\ m \in Nat
      BY <1>2, <1>6, <2>5 DEF B, r
    <3> DEFINE D == Seq(C)
               W == Append(B, r)
    <3> HIDE DEF D
    <3>2. /\ W \in Seq(D) /\ Len(W) = m + 1 /\ W[m + 1] = r
          /\ \A k \in 1..m : W[k] = B[k]
      <4>1. B \in Seq(D) /\ r \in D
        BY <3>1 DEF D
      <4> QED
        BY <3>1, <4>1
    <3> HIDE DEF W
    <3>3. W = [k \in 1..m + 1 |-> W[k]]
      <4>1. W = [k \in 1..Len(W) |-> W[k]]
        BY <3>2
      <4> QED
        BY <3>2, <4>1
    <3>4. \A k \in 1..m + 1 : A[k] = W[k]
      <4>1. \A k \in 1..m + 1 : k \in 1..m \/ k = m + 1
        BY <1>2
      <4> QED
        BY <4>1, <2>3, <2>4, <3>2 DEF A, B, r
    <3> QED
      BY <2>6, <3>3, <3>4 DEF W
  <2> QED
    BY <2>7 DEF A, B, r
<1>9. ASSUME c = NL PROVE RestOf(t, t) = << >>
  <2>1. Nth(Newlines(t), Cardinality(Newlines(t))) = n + 1
    <3>1. Newlines(t) = E \cup {n + 1}
      BY <1>3, <1>9
    <3> HIDE DEF E, n, t
    <3>2. Cardinality(E \cup {n + 1}) = m + 1 /\ Nth(E \cup {n + 1}, m + 1) = n + 1
      BY <1>1, <1>2, NthExtends
    <3> QED
      BY <3>1, <3>2
  <2>2. RestOf(t, t) = SubSeq(t, n + 2, n + 1)
    <3>1. RestOf(t, t) = SubSeq(t, Nth(Newlines(t), Cardinality(Newlines(t))) + 1, Len(t))
      <4> HIDE DEF t
      <4> QED
        BY <1>1, RestIs
    <3>2. (n + 1) + 1 = n + 2
      BY <1>1
    <3> QED
      BY <2>1, <3>1, <3>2, <1>1
  <2>3. SubSeq(t, n + 2, n + 1) = << >>
    <3> HIDE DEF t
    <3> QED
      BY <1>1
  <2> QED
    BY <2>2, <2>3
<1>10. ASSUME c # NL PROVE LinesOf(t) = LinesOf(s)
  <2>1. Newlines(t) = E
    BY <1>3, <1>10
  <2>2. LinesOf(t) = [k \in 1..m |-> SubSeq(t, N(k - 1) + 1, N(k) - 1)]
    BY <2>1 DEF LinesOf
  <2> HIDE DEF t, E, m
  <2> QED
    BY <2>2, <1>5, <1>7
<1>11. ASSUME c # NL PROVE RestOf(t, t) = Append(RestOf(s, s), c)
  <2>1. Newlines(t) = E
    BY <1>3, <1>11
  <2>2. RestOf(t, t) = SubSeq(t, N(m) + 1, n + 1)
    <3>1. RestOf(t, t) = SubSeq(t, Nth(Newlines(t), Cardinality(Newlines(t))) + 1, Len(t))
      <4> HIDE DEF t
      <4> QED
        BY <1>1, RestIs
    <3> QED
      BY <2>1, <3>1, <1>1
  <2>3. N(m) \in 0..n
    BY <1>2
  <2>4. ASSUME NEW a \in 0..n
        PROVE  SubSeq(t, a + 1, n + 1) = Append(SubSeq(s, a + 1, n), c)
    <3> DEFINE u == SubSeq(s, a + 1, n)
    <3>1. u \in Seq(C) /\ Len(u) = n - a /\ \A i \in 1..n - a : u[i] = s[a + i]
      BY <1>1
    <3> HIDE DEF u, t
    <3>2. Append(u, c) = [i \in 1..(n - a) + 1 |-> IF i <= n - a THEN u[i] ELSE c]
      <4>1. Append(u, c) = [i \in 1..Len(u) + 1 |-> IF i <= Len(u) THEN u[i] ELSE c]
        <5>1. u \in Seq(C)
          BY <3>1
        <5>2. IsAppend(Append(u, c), u, c)
          BY <5>1, AppendIs
        <5> QED
          BY <5>2 DEF IsAppend
      <4>2. Len(u) = n - a
        BY <3>1
      <4> HIDE DEF n
      <4> QED
        BY <4>1, <4>2
    <3>3. SubSeq(t, a + 1, n + 1) = [i \in 1..(n - a) + 1 |-> t[a + i]]
      <4>1. SubSeq(t, a + 1, n + 1) = [i \in 1..(n + 1) - (a + 1) + 1 |-> t[(a + 1) + i - 1]]
        OBVIOUS
      <4>2. (n + 1) - (a + 1) + 1 = (n - a) + 1
        BY <1>1
      <4>3. \A i \in 1..(n - a) + 1 : (a + 1) + i - 1 = a + i
        BY <1>1
      <4> QED
        BY <4>1, <4>2, <4>3
    <3>4. \A i \in 1..(n - a) + 1 : t[a + i] = IF i <= n - a THEN u[i] ELSE c
      <4>1. \A i \in 1..(n - a) + 1 : \/ (i \in 1..n - a /\ i <= n - a /\ a + i \in 1..n)
                                       \/ (~(i <= n - a) /\ a + i = n + 1)
        BY <1>1
      <4> QED
        BY <4>1, <3>1, <1>1
    <3> QED
      BY <3>2, <3>3, <3>4 DEF u
  <2> QED
    BY <2>2, <2>3, <2>4, <1>2
<1> QED
  BY <1>8, <1>9, <1>10, <1>11
-----------------------------------------------------------------------------
(* The two folds of this module: of characters and of lines. *)
FeedStep(d, x, c) == Feed(x, c)
LogStep(d, f, line) == LogLine(f, line)

Fed    == INSTANCE FoldLemmas WITH Step <- FeedStep
Logged == INSTANCE FoldLemmas WITH Step <- LogStep

FeedAll(b, s) == FoldLeft(Feed, b, s)
LogLines(f, lines) == FoldLeft(LogLine, f, lines)

(* The first fold takes one character at a time, in any pieces. *)
LEMMA FeedFold ==
  ASSUME NEW X, NEW b \in X, NEW C, \A x \in X, c \in C : Feed(x, c) \in X
  PROVE  /\ FeedAll(b, << >>) = b
         /\ \A s \in Seq(C) : FeedAll(b, s) \in X
         /\ \A s \in Seq(C), c \in C : FeedAll(b, Append(s, c)) = Feed(FeedAll(b, s), c)
         /\ \A s, t \in Seq(C) : FeedAll(b, s \o t) = FeedAll(FeedAll(b, s), t)
<1>1. \A a, s : FeedAll(a, s) = Fed!Fold(0, a, s)
  BY DEF FeedAll, FeedStep, Fed!Fold, FoldLeft, Fed!FoldLeft, MapThenFoldSet,
         Fed!MapThenFoldSet, Max, Fed!Max
<1>2. Fed!StaysIn(0, X, C)
  BY DEF Fed!StaysIn, FeedStep
<1>3. /\ Fed!Fold(0, b, << >>) = b
      /\ \A s \in Seq(C) : Fed!Fold(0, b, s) \in X
      /\ \A s \in Seq(C), c \in C : Fed!Fold(0, b, Append(s, c)) = Feed(Fed!Fold(0, b, s), c)
  <2>1. Fed!GoesStepwise(0, X, C, b)
    BY <1>2, Fed!FoldSteps
  <2> QED
    BY <2>1 DEF Fed!GoesStepwise, FeedStep
<1>4. \A s, t \in Seq(C) : Fed!Fold(0, b, s \o t) = Fed!Fold(0, Fed!Fold(0, b, s), t)
  BY <1>2, Fed!FoldConcat
<1>5. \A s, t \in Seq(C) : FeedAll(b, s \o t) = FeedAll(FeedAll(b, s), t)
  BY <1>1, <1>4
<1>6. \A s \in Seq(C), c \in C : FeedAll(b, Append(s, c)) = Feed(FeedAll(b, s), c)
  BY <1>1, <1>3
<1> QED
  BY <1>1, <1>3, <1>5, <1>6

(* The second fold takes one line at a time. *)
LEMMA LogFold ==
  ASSUME NEW X, NEW b \in X, NEW C, \A x \in X, c \in C : LogLine(x, c) \in X
  PROVE  /\ LogLines(b, << >>) = b
         /\ \A s \in Seq(C) : LogLines(b, s) \in X
         /\ \A s \in Seq(C), c \in C : LogLines(b, Append(s, c)) = LogLine(LogLines(b, s), c)
<1>1. \A a, s : LogLines(a, s) = Logged!Fold(0, a, s)
  BY DEF LogLines, LogStep, Logged!Fold, FoldLeft, Logged!FoldLeft, MapThenFoldSet,
         Logged!MapThenFoldSet, Max, Logged!Max
<1>2. Logged!StaysIn(0, X, C)
  BY DEF Logged!StaysIn, LogStep
<1>3. /\ Logged!Fold(0, b, << >>) = b
      /\ \A s \in Seq(C) : Logged!Fold(0, b, s) \in X
      /\ \A s \in Seq(C), c \in C :
           Logged!Fold(0, b, Append(s, c)) = LogLine(Logged!Fold(0, b, s), c)
  <2>1. Logged!GoesStepwise(0, X, C, b)
    BY <1>2, Logged!FoldSteps
  <2> QED
    BY <2>1 DEF Logged!GoesStepwise, LogStep
<1>4. \A s \in Seq(C), c \in C : LogLines(b, Append(s, c)) = LogLine(LogLines(b, s), c)
  BY <1>1, <1>3
<1> QED
  BY <1>1, <1>3, <1>4

(* The filter stays what it can be through all lines of a buffer.           *)
LEMMA LogLinesFold ==
  ASSUME NEW f \in FilterState
  PROVE  /\ LogLines(f, << >>) = f
         /\ \A s \in Seq(Fitting) : LogLines(f, s) \in FilterState
         /\ \A s \in Seq(Fitting), line \in Fitting :
              LogLines(f, Append(s, line)) = LogLine(LogLines(f, s), line)
BY LogFold, LogLineType

(* Without a newline there is no line, and all is rest. *)
LEMMA NoNewline ==
  ASSUME NEW s, Newlines(s) = {}
  PROVE  LinesOf(s) = << >> /\ RestOf(s, s) = s
<1>1. Cardinality(Newlines(s)) = 0
  BY FS_EmptySet
<1>2. LinesOf(s) = [k \in 1..0 |-> SubSeq(s, Nth({}, k - 1) + 1, Nth({}, k) - 1)]
  BY <1>1 DEF LinesOf
<1> QED
  BY <1>2 DEF RestOf

(* The lines of a buffer that nothing is hidden in, and its rest. *)
NoNul == Char \ {Nul}

(* The lines of a buffer fit, and so does its rest. *)
LEMMA LinesFit ==
  ASSUME NEW s \in Seq(NoNul), Len(s) <= BufferSize - 1
  PROVE  /\ LinesOf(s) \in Seq(Fitting)
         /\ RestOf(s, s) \in Text /\ Len(RestOf(s, s)) <= Len(s)
<1> DEFINE Good(u) == /\ LinesOf(u) \in Seq(Fitting)
                      /\ RestOf(u, u) \in Text /\ Len(RestOf(u, u)) <= Len(u)
           P == {u \in Seq(NoNul) : Len(u) <= BufferSize - 1 => Good(u)}
<1>1. << >> \in P
  <2>1. Newlines(<< >>) = {}
    BY DEF Newlines
  <2>2. LinesOf(<< >>) = << >> /\ RestOf(<< >>, << >>) = << >>
    BY <2>1, NoNewline
  <2>3. Len(<< >>) = 0 /\ << >> \in Text /\ << >> \in Seq(NoNul) /\ << >> \in Seq(Fitting)
    BY DEF Text
  <2>4. ASSUME NEW e, LinesOf(e) = e, RestOf(e, e) = e, Len(e) = 0, e \in Text,
               e \in Seq(Fitting)
        PROVE  Good(e)
    BY <2>4
  <2>5. Good(<< >>)
    <3> HIDE DEF Good
    <3> QED
      BY <2>2, <2>3, <2>4
  <2> HIDE DEF Good
  <2> QED
    BY <2>3, <2>5
<1>2. ASSUME NEW u \in Seq(NoNul), NEW c \in NoNul, u \in P PROVE Append(u, c) \in P
  <2> DEFINE t == Append(u, c)
  <2>1. t \in Seq(NoNul) /\ Len(t) = Len(u) + 1 /\ Len(u) \in Nat
    OBVIOUS
  <2> SUFFICES ASSUME Len(t) <= BufferSize - 1 PROVE Good(t)
    BY <2>1
  <2>2. Len(u) <= BufferSize - 2 /\ Good(u)
    BY <1>2, <2>1, LineReaderAssumption
  <2>3. CASE c = NL
    <3>1. LinesOf(t) = Append(LinesOf(u), RestOf(u, u)) /\ RestOf(t, t) = << >>
      BY <2>3, LinesGrow
    <3>2. RestOf(u, u) \in Fitting
      BY <2>1, <2>2, LineReaderAssumption DEF Fitting, Text
    <3>3. << >> \in Text /\ Len(<< >>) = 0
      BY DEF Text
    <3> HIDE DEF t
    <3> QED
      BY <2>1, <2>2, <3>1, <3>2, <3>3
  <2>4. CASE c # NL
    <3>1. LinesOf(t) = LinesOf(u) /\ RestOf(t, t) = Append(RestOf(u, u), c)
      BY <2>4, LinesGrow
    <3>2. c \in Char \ {NL, Nul}
      BY <2>4 DEF NoNul
    <3>3. Append(RestOf(u, u), c) \in Text /\ Len(Append(RestOf(u, u), c)) = Len(RestOf(u, u)) + 1
          /\ Len(RestOf(u, u)) \in Nat
      BY <2>2, <3>2 DEF Text
    <3> HIDE DEF t
    <3> QED
      BY <2>1, <2>2, <3>1, <3>3
  <2> QED
    BY <2>3, <2>4
<1>3. Seq(NoNul) \subseteq P
  <2> HIDE DEF P
  <2> QED
    BY <1>1, <1>2, SequenceInduction
<1> QED
  BY <1>3

(* Nothing is hidden where there is no NUL. *)
LEMMA AllSeen ==
  ASSUME NEW s \in Seq(NoNul)
  PROVE  UpToNul(s) = s
BY DEF UpToNul, NoNul
-----------------------------------------------------------------------------
(* The filter after a line was cut. *)
Cut(f, rest) ==
  [log |-> f.log \o <<Part(rest), Truncated>>, last |-> f.last, count |-> f.count]

(* Cutting a line off leaves the filter what it can be. *)
LEMMA CutType ==
  ASSUME NEW f \in FilterState, NEW rest \in Text
  PROVE  /\ [f EXCEPT !.log = @ \o <<Part(rest), Truncated>>] = Cut(f, rest)
         /\ Cut(f, rest) \in FilterState
<1>1. f = [log |-> f.log, last |-> f.last, count |-> f.count]
  BY DEF FilterState
<1>2. \A l : [f EXCEPT !.log = l] = [log |-> l, last |-> f.last, count |-> f.count]
  BY <1>1
<1>3. Part(rest) \in Message /\ Truncated \in Message
  BY MessageTypes
<1>4. f.log \o <<Part(rest), Truncated>> \in Seq(Message)
  <2>1. ASSUME NEW a \in Message, NEW b \in Message
        PROVE  f.log \o <<a, b>> \in Seq(Message)
    BY DEF FilterState
  <2> QED
    BY <1>3, <2>1
<1>5. Cut(f, rest) \in FilterState
  <2>1. f.last \in Fitting /\ f.count \in 0..CountMod - 1
    BY DEF FilterState
  <2> QED
    BY <1>4, <2>1 DEF Cut, FilterState
<1> QED
  BY <1>2, <1>5 DEF Cut

(* What the reference keeps: the filter and the line so far. *)
FeedState == [filter : FilterState, line : Fitting]

(* A character keeps it so. *)
LEMMA FeedType ==
  ASSUME NEW x \in FeedState, NEW c \in NoNul
  PROVE  Feed(x, c) \in FeedState
<1>1. x.filter \in FilterState /\ x.line \in Fitting
      /\ x = [filter |-> x.filter, line |-> x.line]
  BY DEF FeedState
<1>2. << >> \in Fitting
  BY LineReaderAssumption DEF Fitting, Text
<1>3. CASE c = NL
  BY <1>1, <1>2, <1>3, LogLineType DEF Feed, FeedState
<1>4. CASE c # NL
  <2>1. /\ Append(x.line, c) \in Text /\ Len(Append(x.line, c)) = Len(x.line) + 1
        /\ Len(x.line) \in Nat /\ Len(x.line) <= BufferSize - 2
    <3>1. c \in Char \ {NL, Nul}
      BY <1>4 DEF NoNul
    <3> QED
      BY <1>1, <3>1 DEF Fitting, Text
  <2>2. CASE Len(x.line) + 2 = BufferSize
    <3> DEFINE g == [x.filter EXCEPT !.log = @ \o <<Part(Append(x.line, c)), Truncated>>]
    <3>1. g \in FilterState
      BY <1>1, <2>1, CutType
    <3>2. Feed(x, c) = [filter |-> g, line |-> << >>]
      BY <1>4, <2>2 DEF Feed
    <3> HIDE DEF g
    <3> QED
      BY <1>2, <3>1, <3>2 DEF FeedState
  <2>3. CASE Len(x.line) + 2 # BufferSize
    <3>1. Append(x.line, c) \in Fitting
      BY <2>1, <2>3, LineReaderAssumption DEF Fitting
    <3>2. Feed(x, c) = [filter |-> x.filter, line |-> Append(x.line, c)]
      BY <1>1, <1>4, <2>3 DEF Feed
    <3> QED
      BY <1>1, <3>1, <3>2 DEF FeedState
  <2> QED
    BY <2>2, <2>3
<1> QED
  BY <1>3, <1>4

(* The fold of characters from such a state. *)
LEMMA FeedAllFold ==
  ASSUME NEW b \in FeedState
  PROVE  /\ FeedAll(b, << >>) = b
         /\ \A s \in Seq(NoNul) : FeedAll(b, s) \in FeedState
         /\ \A s \in Seq(NoNul), c \in NoNul :
              FeedAll(b, Append(s, c)) = Feed(FeedAll(b, s), c)
         /\ \A s, t \in Seq(NoNul) : FeedAll(b, s \o t) = FeedAll(FeedAll(b, s), t)
BY FeedFold, FeedType

(* What one turn of the loop makes of a buffer without a NUL. *)
Gather(f, buffer) ==
  IF TooLong(RestOf(buffer, buffer))
  THEN [filter |-> Cut(LogLines(f, LinesOf(buffer)), RestOf(buffer, buffer)), line |-> << >>]
  ELSE [filter |-> LogLines(f, LinesOf(buffer)), line |-> RestOf(buffer, buffer)]

(* One more character in the buffer is one more character fed. *)
LEMMA GatherGrows ==
  ASSUME NEW f \in FilterState, NEW b \in Seq(NoNul), Len(b) <= BufferSize - 2,
         NEW c \in NoNul
  PROVE  Gather(f, Append(b, c)) = Feed(Gather(f, b), c)
<1> DEFINE t == Append(b, c)
           rest == RestOf(b, b)
           g == LogLines(f, LinesOf(b))
<1>1. t \in Seq(NoNul) /\ Len(t) = Len(b) + 1 /\ Len(b) \in Nat /\ BufferSize \in Nat
      /\ Len(b) <= BufferSize - 1
  BY LineReaderAssumption
<1>2. LinesOf(b) \in Seq(Fitting) /\ rest \in Text /\ Len(rest) <= Len(b) /\ Len(rest) \in Nat
  BY <1>1, LinesFit DEF Text
<1>3. rest \in Fitting
  BY <1>1, <1>2 DEF Fitting
<1>4. Gather(f, b) = [filter |-> g, line |-> rest]
  <2>1. ~TooLong(rest)
    BY <1>1, <1>2 DEF TooLong
  <2> QED
    BY <2>1 DEF Gather
<1>5. CASE c = NL
  <2>1. LinesOf(t) = Append(LinesOf(b), rest) /\ RestOf(t, t) = << >>
    BY <1>5, LinesGrow
  <2>2. ~TooLong(<< >>)
    BY LineReaderAssumption DEF TooLong
  <2>3. Gather(f, t) = [filter |-> LogLines(f, Append(LinesOf(b), rest)), line |-> << >>]
    BY <2>1, <2>2 DEF Gather
  <2>4. LogLines(f, Append(LinesOf(b), rest)) = LogLine(g, rest)
    BY <1>2, <1>3, LogLinesFold
  <2> HIDE DEF rest, g
  <2> QED
    BY <1>4, <1>5, <2>3, <2>4 DEF Feed
<1>6. CASE c # NL
  <2>1. LinesOf(t) = LinesOf(b) /\ RestOf(t, t) = Append(rest, c)
    BY <1>6, LinesGrow
  <2>2. Len(Append(rest, c)) = Len(rest) + 1
    BY <1>2 DEF Text
  <2>3. TooLong(Append(rest, c)) <=> Len(rest) + 2 = BufferSize
    BY <1>1, <1>2, <2>2 DEF TooLong
  <2>4. Gather(f, t) = IF Len(rest) + 2 = BufferSize
                       THEN [filter |-> Cut(g, Append(rest, c)), line |-> << >>]
                       ELSE [filter |-> g, line |-> Append(rest, c)]
    BY <2>1, <2>3 DEF Gather
  <2>5. [g EXCEPT !.log = @ \o <<Part(Append(rest, c)), Truncated>>] = Cut(g, Append(rest, c))
    <3>1. g \in FilterState
      BY <1>2, LogLinesFold
    <3>2. Append(rest, c) \in Text
      BY <1>2, <1>6 DEF Text, NoNul
    <3> HIDE DEF g, rest
    <3> QED
      BY <3>1, <3>2, CutType
  <2> HIDE DEF rest, g
  <2>6. ASSUME NEW x, x = [filter |-> g, line |-> rest]
        PROVE  Feed(x, c) = IF Len(rest) + 2 = BufferSize
                            THEN [filter |-> Cut(g, Append(rest, c)), line |-> << >>]
                            ELSE [filter |-> g, line |-> Append(rest, c)]
    <3>1. x.filter = g /\ x.line = rest
      BY <2>6
    <3>2. \A l : [x EXCEPT !.line = l] = [filter |-> g, line |-> l]
      BY <2>6
    <3> QED
      BY <1>6, <2>5, <3>1, <3>2 DEF Feed
  <2> QED
    BY <1>4, <2>4, <2>6
<1> QED
  BY <1>5, <1>6

(* Character by character it is the same. *)
LEMMA ChunkFed ==
  ASSUME NEW x \in FeedState
  PROVE  \A chunk \in Seq(NoNul) : Len(x.line) + Len(chunk) <= BufferSize - 1 =>
           FeedAll(x, chunk) = Gather(x.filter, x.line \o chunk)
<1> DEFINE Good(u) == FeedAll(x, u) = Gather(x.filter, x.line \o u)
           P == {u \in Seq(NoNul) : Len(x.line) + Len(u) <= BufferSize - 1 => Good(u)}
<1>1. /\ x.filter \in FilterState /\ x.line \in Text /\ Len(x.line) <= BufferSize - 2
      /\ x.line \in Seq(NoNul) /\ Len(x.line) \in Nat /\ BufferSize \in Nat
      /\ x = [filter |-> x.filter, line |-> x.line]
  BY LineReaderAssumption DEF FeedState, Fitting, Text, NoNul
<1>2. << >> \in P
  <2>1. x.line \o << >> = x.line /\ << >> \in Seq(NoNul)
    BY <1>1
  <2>2. Newlines(x.line) = {}
    BY <1>1 DEF Newlines, Text
  <2>3. LinesOf(x.line) = << >> /\ RestOf(x.line, x.line) = x.line
    BY <2>2, NoNewline
  <2>4. ~TooLong(x.line)
    BY <1>1 DEF TooLong
  <2>5. Gather(x.filter, x.line) = x
    BY <1>1, <2>3, <2>4, LogLinesFold DEF Gather
  <2>6. FeedAll(x, << >>) = x
    BY FeedAllFold
  <2> QED
    BY <2>1, <2>5, <2>6
<1>3. ASSUME NEW u \in Seq(NoNul), NEW c \in NoNul, u \in P PROVE Append(u, c) \in P
  <2> DEFINE t == Append(u, c)
             b == x.line \o u
  <2>1. t \in Seq(NoNul) /\ Len(t) = Len(u) + 1 /\ Len(u) \in Nat
    OBVIOUS
  <2> SUFFICES ASSUME Len(x.line) + Len(t) <= BufferSize - 1 PROVE Good(t)
    BY <2>1
  <2>2. b \in Seq(NoNul) /\ Len(b) = Len(x.line) + Len(u)
    BY <1>1
  <2>3. Len(b) <= BufferSize - 2
    BY <1>1, <2>1, <2>2
  <2>4. Good(u)
    BY <1>1, <1>3, <2>1
  <2>5. x.line \o t = Append(b, c)
    BY <1>1
  <2>6. FeedAll(x, t) = Feed(FeedAll(x, u), c)
    BY FeedAllFold
  <2> HIDE DEF b, t
  <2>7. Gather(x.filter, Append(b, c)) = Feed(Gather(x.filter, b), c)
    BY <1>1, <2>2, <2>3, GatherGrows
  <2> QED
    BY <2>4, <2>5, <2>6, <2>7 DEF b
<1>4. Seq(NoNul) \subseteq P
  <2> HIDE DEF P
  <2> QED
    BY <1>2, <1>3, SequenceInduction
<1> QED
  BY <1>4
-----------------------------------------------------------------------------
(* Of what a turn of the loop logs, the NUL in a buffer hides the rest. *)
LEMMA SeenType ==
  ASSUME NEW s \in Seq(Char)
  PROVE  UpToNul(s) \in Seq(NoNul) /\ Len(UpToNul(s)) <= Len(s)
<1> DEFINE ends == {i \in DOMAIN s : s[i] = Nul}
<1>1. Len(s) \in Nat /\ DOMAIN s = 1..Len(s)
  OBVIOUS
<1>2. CASE ends = {}
  BY <1>1, <1>2 DEF UpToNul, NoNul
<1>3. CASE ends # {}
  <2> DEFINE e == Min(ends)
  <2>1. e \in ends /\ \A i \in ends : e <= i
    <3>1. ends \subseteq Nat
      BY <1>1
    <3> HIDE DEF ends
    <3> QED
      BY <1>3, <3>1, MinOfNaturals
  <2>2. UpToNul(s) = SubSeq(s, 1, e - 1)
    BY <1>3 DEF UpToNul
  <2> HIDE DEF e
  <2>3. e \in 1..Len(s)
    BY <1>1, <2>1
  <2>4. ASSUME NEW i \in 1..e - 1 PROVE s[i] \in NoNul
    <3>1. i \in 1..Len(s) /\ ~(e <= i)
      BY <1>1, <2>3
    <3> QED
      BY <1>1, <2>1, <3>1 DEF NoNul
  <2>5. SubSeq(s, 1, e - 1) = [i \in 1..e - 1 |-> s[i]]
    BY <1>1, <2>3
  <2>6. [i \in 1..e - 1 |-> s[i]] \in Seq(NoNul)
    <3>1. e - 1 \in Nat
      BY <1>1, <2>3
    <3> QED
      BY <2>4, <3>1
  <2>7. Len(SubSeq(s, 1, e - 1)) = e - 1
    BY <1>1, <2>3
  <2> QED
    BY <1>1, <2>2, <2>3, <2>5, <2>6, <2>7
<1> QED
  BY <1>2, <1>3

(* What the C library sees is the buffer up to there, character by character. *)
LEMMA SeenElements ==
  ASSUME NEW s \in Seq(Char), NEW seen, seen = UpToNul(s)
  PROVE  \A i \in 1..Len(seen) : seen[i] = s[i]
<1> DEFINE ends == {i \in DOMAIN s : s[i] = Nul}
<1>1. CASE ends = {}
  BY <1>1 DEF UpToNul
<1>2. CASE ends # {}
  <2>1. ends \subseteq Nat /\ ends \subseteq 1..Len(s)
    OBVIOUS
  <2>2. Min(ends) \in 1..Len(s)
    <3> HIDE DEF ends
    <3> QED
      BY <2>1, <1>2, MinOfNaturals
  <2>3. seen = SubSeq(s, 1, Min(ends) - 1)
    BY <1>2 DEF UpToNul
  <2> HIDE DEF ends
  <2> QED
    BY <2>2, <2>3
<1> QED
  BY <1>1, <1>2

(* Behind the last newline that is seen there is none before the NUL.       *)
LEMMA SeenOfRest ==
  ASSUME NEW s \in Seq(Char)
  PROVE  UpToNul(RestOf(s, UpToNul(s))) \in Text
<1> DEFINE seen == UpToNul(s)
           eol == Newlines(seen)
           rest == RestOf(s, seen)
           m == IF eol = {} THEN 0 ELSE Max(eol)
<1>1. /\ Len(s) \in Nat /\ seen \in Seq(NoNul) /\ Len(seen) \in Nat /\ Len(seen) <= Len(s)
  BY SeenType
<1>2. \A i \in 1..Len(seen) : seen[i] = s[i]
  BY SeenElements
<1>3. Len(seen) < Len(s) => s[Len(seen) + 1] = Nul
  <2> DEFINE ends == {i \in DOMAIN s : s[i] = Nul}
  <2>1. CASE ends = {}
    BY <2>1 DEF UpToNul
  <2>2. CASE ends # {}
    <3>1. ends \subseteq Nat /\ ends \subseteq 1..Len(s) /\ \A i \in ends : s[i] = Nul
      OBVIOUS
    <3>2. Min(ends) \in ends
      <4> HIDE DEF ends
      <4> QED
        BY <3>1, <2>2, MinOfNaturals
    <3>3. seen = SubSeq(s, 1, Min(ends) - 1)
      BY <2>2 DEF UpToNul
    <3> HIDE DEF ends, seen
    <3>4. Min(ends) \in 1..Len(s) /\ s[Min(ends)] = Nul
      BY <3>1, <3>2
    <3>5. Len(seen) = Min(ends) - 1
      BY <3>3, <3>4
    <3>6. Len(seen) + 1 = Min(ends)
      BY <3>4, <3>5
    <3> QED
      BY <3>4, <3>6
  <2> QED
    BY <2>1, <2>2
<1>4. eol \subseteq 1..Len(seen) /\ \A i \in 1..Len(seen) : seen[i] = NL => i \in eol
  BY <1>1 DEF Newlines
<1>5. rest = IF eol = {} THEN s ELSE SubSeq(s, Max(eol) + 1, Len(s))
  BY DEF RestOf
<1> HIDE DEF seen, eol
<1>6. m \in 0..Len(seen) /\ \A i \in eol : i <= m
  <2>1. CASE eol = {}
    BY <1>1, <2>1
  <2>2. CASE eol # {}
    <3>1. Max(eol) \in eol /\ \A i \in eol : Max(eol) >= i
      BY <1>1, <1>4, <2>2, MaxOfNaturals
    <3>2. Max(eol) \in 1..Len(seen)
      BY <1>4, <3>1
    <3>3. \A i \in eol : i \in Int
      <4>1. \A i \in 1..Len(seen) : i \in Int
        BY <1>1
      <4> QED
        BY <1>4, <4>1
    <3>4. m = Max(eol)
      BY <2>2
    <3> HIDE DEF m
    <3> QED
      BY <1>1, <3>1, <3>2, <3>3, <3>4
  <2> QED
    BY <2>1, <2>2
<1>7. rest = SubSeq(s, m + 1, Len(s))
  <2>1. SubSeq(s, 1, Len(s)) = s
    OBVIOUS
  <2> HIDE DEF rest
  <2>2. CASE eol = {}
    <3>1. m + 1 = 1
      BY <2>2
    <3> HIDE DEF m
    <3> QED
      BY <1>5, <2>1, <2>2, <3>1
  <2>3. CASE eol # {}
    BY <1>5, <2>3
  <2> QED
    BY <2>2, <2>3
<1> HIDE DEF rest, m
<1>8. /\ rest \in Seq(Char) /\ Len(rest) = Len(s) - m
      /\ \A i \in 1..Len(s) - m : rest[i] = s[m + i]
  BY <1>1, <1>6, <1>7
<1> DEFINE x == UpToNul(rest)
<1>9. /\ x \in Seq(NoNul) /\ Len(x) \in Nat /\ Len(x) <= Len(s) - m
      /\ \A i \in 1..Len(x) : x[i] = rest[i]
  <2>1. x \in Seq(NoNul) /\ Len(x) <= Len(rest)
    BY <1>8, SeenType
  <2> DEFINE ends == {i \in DOMAIN rest : rest[i] = Nul}
  <2>2. CASE ends = {}
    BY <1>8, <2>1, <2>2 DEF UpToNul
  <2>3. CASE ends # {}
    <3>1. ends \subseteq Nat /\ ends \subseteq 1..Len(rest)
      BY <1>8
    <3>2. Min(ends) \in 1..Len(rest)
      <4> HIDE DEF ends
      <4> QED
        BY <3>1, <2>3, MinOfNaturals
    <3>3. x = SubSeq(rest, 1, Min(ends) - 1)
      BY <2>3 DEF UpToNul
    <3> HIDE DEF ends, x
    <3>4. \A i \in 1..Len(x) : x[i] = rest[i]
      BY <1>8, <3>2, <3>3
    <3> QED
      BY <1>8, <2>1, <3>4
  <2> QED
    BY <2>2, <2>3
<1> HIDE DEF x
<1>10. ASSUME NEW i \in 1..Len(x) PROVE x[i] \in Char \ {NL, Nul}
  <2>1. x[i] \in Char /\ x[i] # Nul
    BY <1>9 DEF NoNul
  <2>2. i \in 1..Len(s) - m /\ x[i] = s[m + i]
    BY <1>1, <1>6, <1>8, <1>9
  <2>3. CASE m + i <= Len(seen)
    <3>1. m + i \in 1..Len(seen) /\ ~(m + i <= m)
      BY <1>1, <1>6, <2>3
    <3>2. m + i \notin eol
      BY <1>6, <3>1
    <3> QED
      BY <1>2, <1>4, <2>1, <2>2, <3>1, <3>2
  <2>4. CASE ~(m + i <= Len(seen))
    <3> DEFINE j == Len(seen) + 1 - m
    <3>1. j \in 1..i /\ j \in 1..Len(x) /\ j \in 1..Len(s) - m /\ m + j = Len(seen) + 1
          /\ Len(seen) < Len(s)
      BY <1>1, <1>6, <1>9, <2>2, <2>4
    <3> HIDE DEF j
    <3>2. x[j] = s[Len(seen) + 1]
      BY <1>8, <1>9, <3>1
    <3>3. x[j] = Nul
      BY <1>3, <3>1, <3>2
    <3> QED
      BY <1>9, <3>1, <3>3 DEF NoNul
  <2> QED
    BY <2>3, <2>4
<1>11. x \in Seq(Char \ {NL, Nul})
  <2>1. x = [i \in 1..Len(x) |-> x[i]]
    BY <1>9
  <2>2. [i \in 1..Len(x) |-> x[i]] \in Seq(Char \ {NL, Nul})
    BY <1>9, <1>10
  <2> QED
    BY <2>1, <2>2
<1> QED
  BY <1>11 DEF x, rest, seen, Text
-----------------------------------------------------------------------------
(* What a read() that returns n characters takes. *)
ChunkOf(n) == SubSeq(written, Len(written) - unread + 1, Len(written) - unread + n)

(* It fits behind what is held. *)
LEMMA ReadFits ==
  ASSUME RoomToRead, NEW n \in 1..BufferSize, Read(n)
  PROVE  /\ ChunkOf(n) \in Seq(Char) /\ Len(ChunkOf(n)) = n
         /\ held \in Seq(Char) /\ Len(held) \in Nat /\ Len(held) + n <= BufferSize - 1
         /\ Buffer(ChunkOf(n)) = held \o ChunkOf(n)
         /\ Buffer(ChunkOf(n)) \in Seq(Char) /\ Len(Buffer(ChunkOf(n))) = Len(held) + n
<1> DEFINE chunk == ChunkOf(n)
<1>1. /\ written \in Seq(Char) /\ Len(written) \in Nat /\ unread \in 0..Len(written)
      /\ held \in Seq(Char) /\ Len(held) \in Nat /\ BufferSize \in Nat
      /\ Len(held) <= BufferSize - 2
  BY LineReaderAssumption DEF RoomToRead
<1>2. n \in 1..BufferSize - 1 - Len(held) /\ n <= unread
  BY DEF Read, MaxRead
<1>3. chunk \in Seq(Char) /\ Len(chunk) = n
  BY <1>1, <1>2 DEF ChunkOf
<1> HIDE DEF chunk
<1>4. Buffer(chunk) = held \o chunk
  BY DEF Buffer
<1>5. held \o chunk \in Seq(Char) /\ Len(held \o chunk) = Len(held) + n
  BY <1>1, <1>3
<1>6. Len(held) + n <= BufferSize - 1
  BY <1>1, <1>2
<1> QED
  BY <1>1, <1>3, <1>4, <1>5, <1>6 DEF chunk

(* The variables of the filter make a state of it. *)
LEMMA FilterType ==
  ASSUME TypeOK
  PROVE  Filter \in FilterState
BY DEF TypeOK, Filter, FilterState, Fitting

(* The filter after a turn of the loop. *)
LEMMA ReadFilter ==
  ASSUME TypeOK, NEW n \in 1..BufferSize, Read(n),
         NEW buffer, buffer = Buffer(ChunkOf(n)),
         NEW seen, seen = UpToNul(buffer),
         NEW rest, rest = RestOf(buffer, seen)
  PROVE  /\ LogLines(Filter, LinesOf(seen)) \in FilterState
         /\ UpToNul(rest) \in Text
         /\ Filter' = IF TooLong(rest)
                      THEN Cut(LogLines(Filter, LinesOf(seen)), UpToNul(rest))
                      ELSE LogLines(Filter, LinesOf(seen))
         /\ held' = IF TooLong(rest) THEN << >> ELSE rest
         /\ UNCHANGED <<written, ended, buried>> /\ reading' \in BOOLEAN
         /\ unread' = unread - n /\ ~(~reading)
<1> DEFINE f == LogLines(Filter, LinesOf(seen))
<1>1. RoomToRead
  BY DEF TypeOK
<1>2. buffer \in Seq(Char) /\ Len(buffer) <= BufferSize - 1 /\ Len(buffer) \in Nat
  <2>1. /\ Buffer(ChunkOf(n)) \in Seq(Char) /\ Len(Buffer(ChunkOf(n))) = Len(held) + n
        /\ Len(held) \in Nat /\ Len(held) + n <= BufferSize - 1
    BY <1>1, ReadFits
  <2>2. buffer \in Seq(Char) /\ Len(buffer) = Len(held) + n
    BY <2>1
  <2> QED
    BY <2>1, <2>2
<1>3. seen \in Seq(NoNul) /\ Len(seen) <= Len(buffer) /\ Len(seen) \in Nat
  BY <1>2, SeenType
<1>4. LinesOf(seen) \in Seq(Fitting)
  <2>1. Len(seen) <= BufferSize - 1
    BY <1>2, <1>3, LineReaderAssumption
  <2> QED
    BY <1>3, <2>1, LinesFit
<1>5. f \in FilterState
  BY <1>4, FilterType, LogLinesFold
<1>6. UpToNul(rest) \in Text
  BY <1>2, SeenOfRest
<1>7. /\ IF TooLong(rest)
         THEN /\ SetFilter([f EXCEPT !.log = @ \o <<Part(UpToNul(rest)), Truncated>>])
              /\ held' = << >>
         ELSE SetFilter(f) /\ held' = rest
      /\ UNCHANGED <<written, ended, buried>> /\ reading' \in BOOLEAN
      /\ unread' = unread - n /\ reading
  BY DEF Read, LogLines, ChunkOf
<1> HIDE DEF f
<1>8. [f EXCEPT !.log = @ \o <<Part(UpToNul(rest)), Truncated>>] = Cut(f, UpToNul(rest))
      /\ Cut(f, UpToNul(rest)) \in FilterState
  BY <1>5, <1>6, CutType
<1>9. ASSUME NEW g \in FilterState, SetFilter(g) PROVE Filter' = g
  <2>1. g = [log |-> g.log, last |-> g.last, count |-> g.count]
    BY DEF FilterState
  <2> QED
    BY <1>9, <2>1 DEF SetFilter, Filter
<1>10. Filter' = IF TooLong(rest) THEN Cut(f, UpToNul(rest)) ELSE f
  <2>1. CASE TooLong(rest)
    <3>1. SetFilter(Cut(f, UpToNul(rest)))
      BY <2>1, <1>7, <1>8
    <3> QED
      BY <2>1, <3>1, <1>8, <1>9
  <2>2. CASE ~TooLong(rest)
    <3>1. SetFilter(f)
      BY <2>2, <1>7
    <3> QED
      BY <2>2, <3>1, <1>5, <1>9
  <2> QED
    BY <2>1, <2>2
<1> QED
  BY <1>5, <1>6, <1>7, <1>10 DEF f

(* And back. *)
LEMMA FilterFits ==
  ASSUME Filter' \in FilterState
  PROVE  /\ last_line' \in Text /\ Len(last_line') <= BufferSize - 2
         /\ repeat_count' \in 0..CountMod - 1
         /\ log' \in Seq(Message)
BY DEF Filter, FilterState, Fitting

(* A turn of the loop keeps the types. *)
LEMMA TypeRead ==
  ASSUME TypeOK, NEW n \in 1..BufferSize, Read(n)
  PROVE  TypeOK'
<1> DEFINE buffer == Buffer(ChunkOf(n))
           seen == UpToNul(buffer)
           rest == RestOf(buffer, seen)
           f == LogLines(Filter, LinesOf(seen))
<1>1. /\ f \in FilterState
      /\ UpToNul(rest) \in Text
      /\ Filter' = IF TooLong(rest) THEN Cut(f, UpToNul(rest)) ELSE f
      /\ UNCHANGED <<written, ended, buried>> /\ reading' \in BOOLEAN
  BY ReadFilter
<1> HIDE DEF f, rest
<1>2. Filter' \in FilterState
  <2>1. Cut(f, UpToNul(rest)) \in FilterState
    BY <1>1, CutType
  <2> QED
    BY <1>1, <2>1
<1>3. RoomToRead'
  BY RoomRead DEF TypeOK
<1> QED
  BY <1>1, <1>2, <1>3, FilterFits DEF TypeOK

(* The types hold at first. *)
LEMMA TypeInit == Init => TypeOK
<1> SUFFICES ASSUME Init PROVE TypeOK
  OBVIOUS
<1>1. RoomToRead
  BY RoomInit
<1>2. /\ ended = FALSE /\ last_line = << >> /\ repeat_count = 0 /\ log = << >>
      /\ reading = FALSE /\ buried = FALSE
  BY DEF Init
<1>3. last_line \in Text /\ Len(last_line) <= BufferSize - 2
  <2>1. last_line \in Text /\ Len(last_line) = 0
    BY <1>2 DEF Text
  <2> QED
    BY <2>1, LineReaderAssumption
<1>4. repeat_count \in 0..CountMod - 1
  BY <1>2, LineReaderAssumption
<1>5. log \in Seq(Message)
  BY <1>2
<1> QED
  BY <1>1, <1>2, <1>3, <1>4, <1>5 DEF TypeOK

(* Every step keeps them. *)
LEMMA TypeNext == TypeOK /\ [Next]_vars => TypeOK'
<1> SUFFICES ASSUME TypeOK, [Next]_vars PROVE TypeOK'
  OBVIOUS
<1>1. ASSUME NEW n \in 1..BufferSize, Read(n) PROVE TypeOK'
  BY <1>1, TypeRead
<1>2. ASSUME NEW c \in Char, ChildWrite(c) PROVE TypeOK'
  <2>1. RoomToRead'
    <3>1. /\ written' \in Seq(Char) /\ Len(written') = Len(written) + 1
          /\ Len(written) \in Nat /\ Len(written) < MaxWritten
          /\ unread' = unread + 1 /\ held' = held
      BY <1>2 DEF ChildWrite, TypeOK, RoomToRead
    <3> QED
      BY <3>1, LineReaderAssumption DEF TypeOK, RoomToRead
  <2> QED
    BY <1>2, <2>1 DEF ChildWrite, TypeOK
<1>3. ASSUME Bury PROVE TypeOK'
  <2>1. RoomToRead'
    BY <1>3 DEF Bury, TypeOK, RoomToRead
  <2>2. log' \in Seq(Message)
    <3>1. repeat_count \in Nat /\ log \in Seq(Message)
      BY LineReaderAssumption DEF TypeOK
    <3>2. Repeated(repeat_count) \in Message
      BY <3>1, MessageTypes
    <3>3. Append(log, Repeated(repeat_count)) \in Seq(Message)
      BY <3>1, <3>2
    <3>4. log' = IF repeat_count >= 2 THEN Append(log, Repeated(repeat_count)) ELSE log
      BY <1>3 DEF Bury, EndRepeat, Filter
    <3> QED
      BY <3>1, <3>3, <3>4
  <2> QED
    BY <1>3, <2>1, <2>2 DEF Bury, TypeOK
<1>4. ASSUME ReadBegin \/ ReadNothing \/ ChildExit \/ UNCHANGED vars PROVE TypeOK'
  BY <1>4 DEF ReadBegin, ReadNothing, ChildExit, vars, TypeOK, RoomToRead
<1> QED
  BY <1>1, <1>2, <1>3, <1>4 DEF Next, Loop

(* Types; every line that is logged or remembered is one the buffer can     *)
(* hold, without a newline or a NUL.                                        *)
THEOREM ReaderTypeCorrect == Spec => []TypeOK
BY TypeInit, TypeNext, PTL DEF Spec
-----------------------------------------------------------------------------
(* Reading starts with nothing logged and nothing held. *)
Fresh == [filter |-> [log |-> << >>, last |-> << >>, count |-> 0], line |-> << >>]

(* That is a state of the reference. *)
LEMMA FreshType == Fresh \in FeedState
<1>1. << >> \in Fitting
  <2>1. << >> \in Text /\ Len(<< >>) = 0
    BY DEF Text
  <2> QED
    BY <2>1, LineReaderAssumption DEF Fitting
<1>2. 0 \in 0..CountMod - 1
  BY LineReaderAssumption
<1>3. << >> \in Seq(Message)
  OBVIOUS
<1> QED
  BY <1>1, <1>2, <1>3 DEF Fresh, FeedState, FilterState

(* The reference, as the fold of this module. *)
LEMMA Reference == CharByChar = FeedAll(Fresh, Consumed)
BY DEF CharByChar, FeedAll, Fresh

(* What a turn of the loop reads is appended to what was read before.       *)
LEMMA ConsumedGrows ==
  ASSUME RoomToRead, NEW n \in 1..BufferSize, Read(n), written' = written,
         unread' = unread - n
  PROVE  /\ Consumed' = Consumed \o ChunkOf(n)
         /\ Consumed \in Seq(Char)
<1> DEFINE k == Len(written) - unread
<1>1. /\ written \in Seq(Char) /\ Len(written) \in Nat /\ unread \in 0..Len(written)
      /\ n \in Nat /\ n <= unread
  BY LineReaderAssumption DEF RoomToRead, Read
<1>2. k \in Nat /\ k + n <= Len(written) /\ Len(written) - (unread - n) = k + n
  BY <1>1
<1> HIDE DEF k
<1>3. SubSeq(written, 1, k + n) = SubSeq(written, 1, k) \o SubSeq(written, k + 1, k + n)
  BY <1>1, <1>2
<1>4. Consumed = SubSeq(written, 1, k) /\ ChunkOf(n) = SubSeq(written, k + 1, k + n)
  BY DEF k, Consumed, ChunkOf
<1>5. Consumed' = SubSeq(written, 1, k + n)
  BY <1>2 DEF Consumed
<1>6. SubSeq(written, 1, k) \in Seq(Char)
  BY <1>1, <1>2
<1> QED
  BY <1>3, <1>4, <1>5, <1>6

(* Of two sequences without a NUL, both are without it. *)
LEMMA NulInConcat ==
  ASSUME NEW s \in Seq(Char), NEW t \in Seq(Char), Nul \notin Range(s \o t)
  PROVE  s \in Seq(NoNul) /\ t \in Seq(NoNul)
<1>1. ASSUME NEW i \in 1..Len(s) PROVE s[i] \in NoNul
  <2>1. s[i] = (s \o t)[i] /\ i \in DOMAIN (s \o t)
    OBVIOUS
  <2> QED
    BY <2>1 DEF Range, NoNul
<1>2. ASSUME NEW i \in 1..Len(t) PROVE t[i] \in NoNul
  <2>1. t[i] = (s \o t)[Len(s) + i] /\ Len(s) + i \in DOMAIN (s \o t)
    OBVIOUS
  <2> QED
    BY <2>1 DEF Range, NoNul
<1> QED
  BY <1>1, <1>2

(* A turn of the loop does what feeding its characters does. *)
LEMMA ChunkingRead ==
  ASSUME TypeOK, NEW n \in 1..BufferSize, Read(n), ~buried, WithoutNul',
         CharByChar = [filter |-> Filter, line |-> held]
  PROVE  (CharByChar = [filter |-> Filter, line |-> held])'
<1> DEFINE chunk == ChunkOf(n)
           buffer == held \o chunk
           rest == RestOf(buffer, buffer)
           f == LogLines(Filter, LinesOf(buffer))
           x == [filter |-> Filter, line |-> held]
<1>1. RoomToRead
  BY DEF TypeOK
<1>2. /\ chunk \in Seq(Char) /\ Len(chunk) = n /\ held \in Seq(Char) /\ Len(held) \in Nat
      /\ Len(held) + n <= BufferSize - 1 /\ Buffer(chunk) = buffer
      /\ Len(buffer) = Len(held) + n
  BY <1>1, ReadFits
<1>3. written' = written /\ unread' = unread - n
  BY DEF Read
<1>4. Consumed' = Consumed \o chunk /\ Consumed \in Seq(Char)
  BY <1>1, <1>3, ConsumedGrows
<1> HIDE DEF chunk
<1>5. Consumed \in Seq(NoNul) /\ chunk \in Seq(NoNul)
  <2>1. Nul \notin Range(Consumed \o chunk)
    BY <1>4 DEF WithoutNul
  <2> QED
    BY <1>2, <1>4, <2>1, NulInConcat
<1>6. x = FeedAll(Fresh, Consumed) /\ x \in FeedState
  <2>1. FeedAll(Fresh, Consumed) \in FeedState
    BY <1>5, FreshType, FeedAllFold
  <2> QED
    BY <2>1, Reference
<1>7. x.filter = Filter /\ x.line = held
  OBVIOUS
<1>8. held \in Seq(NoNul)
  <2>1. held \in Text
    BY <1>6, <1>7 DEF FeedState, Fitting
  <2> QED
    BY <2>1 DEF Text, NoNul
<1>9. buffer \in Seq(NoNul) /\ UpToNul(buffer) = buffer
  <2>1. buffer \in Seq(NoNul)
    BY <1>5, <1>8
  <2> QED
    BY <2>1, AllSeen
<1>10. rest \in Seq(NoNul) /\ UpToNul(rest) = rest
  <2>1. Len(buffer) <= BufferSize - 1
    BY <1>2
  <2>2. rest \in Text
    BY <1>9, <2>1, LinesFit
  <2>3. rest \in Seq(NoNul)
    BY <2>2 DEF Text, NoNul
  <2> QED
    BY <2>3, AllSeen
<1>11. /\ Filter' = IF TooLong(rest) THEN Cut(f, rest) ELSE f
       /\ held' = IF TooLong(rest) THEN << >> ELSE rest
  <2> HIDE DEF rest, f, buffer
  <2>1. \A b, s, r : b = Buffer(ChunkOf(n)) /\ s = UpToNul(b) /\ r = RestOf(b, s) =>
          /\ Filter' = IF TooLong(r) THEN Cut(LogLines(Filter, LinesOf(s)), UpToNul(r))
                       ELSE LogLines(Filter, LinesOf(s))
          /\ held' = IF TooLong(r) THEN << >> ELSE r
    BY ReadFilter
  <2>2. buffer = Buffer(ChunkOf(n)) /\ buffer = UpToNul(buffer) /\ rest = RestOf(buffer, buffer)
    BY <1>2, <1>9 DEF chunk, rest
  <2>3. /\ Filter' = IF TooLong(rest) THEN Cut(LogLines(Filter, LinesOf(buffer)), UpToNul(rest))
                     ELSE LogLines(Filter, LinesOf(buffer))
        /\ held' = IF TooLong(rest) THEN << >> ELSE rest
    BY <2>1, <2>2
  <2> QED
    BY <1>10, <2>3 DEF f
<1>12. Gather(Filter, buffer) = [filter |-> Filter', line |-> held']
  BY <1>11 DEF Gather
<1>13. FeedAll(x, chunk) = Gather(Filter, buffer)
  <2> HIDE DEF x
  <2>1. Len(x.line) + Len(chunk) <= BufferSize - 1
    BY <1>2, <1>7
  <2> QED
    BY <1>5, <1>6, <1>7, <2>1, ChunkFed
<1>14. FeedAll(Fresh, Consumed \o chunk) = FeedAll(FeedAll(Fresh, Consumed), chunk)
  BY <1>5, FreshType, FeedAllFold
<1>15. CharByChar' = FeedAll(Fresh, Consumed')
  BY DEF CharByChar, FeedAll, Fresh
<1> HIDE DEF x, buffer
<1>16. CharByChar' = [filter |-> Filter', line |-> held']
  BY <1>4, <1>6, <1>12, <1>13, <1>14, <1>15
<1> QED
  BY <1>16

(* The reference has read what the loop has read, while a NUL has not come  *)
(* and the struct is there; and nobody reads into a struct that is gone.    *)
ReaderInv ==
  /\ TypeOK
  /\ ChunkingInvisible
  /\ buried => ~reading

(* Nothing read, nothing logged. *)
LEMMA ChunkingInit == Init => ChunkingInvisible
<1> SUFFICES ASSUME Init PROVE CharByChar = [filter |-> Filter, line |-> held]
  BY DEF ChunkingInvisible
<1>1. written = << >> /\ unread = 0 /\ [filter |-> Filter, line |-> held] = Fresh
  BY DEF Init, Filter, Fresh
<1>2. Consumed = << >>
  BY <1>1 DEF Consumed
<1> QED
  BY <1>1, <1>2, Reference, FreshType, FeedAllFold

(* A step that reads nothing and leaves what is held. *)
LEMMA ChunkingKept ==
  ASSUME ChunkingInvisible, Consumed' = Consumed, Filter' = Filter, held' = held,
         buried' = buried
  PROVE  ChunkingInvisible'
<1>1. WithoutNul' = WithoutNul
  BY DEF WithoutNul
<1>2. CharByChar' = CharByChar
  BY DEF CharByChar
<1> QED
  BY <1>1, <1>2 DEF ChunkingInvisible

(* Every step keeps the invariant. *)
LEMMA ChunkingNext == ReaderInv /\ [Next]_vars => ReaderInv'
<1> SUFFICES ASSUME ReaderInv, [Next]_vars PROVE ReaderInv'
  OBVIOUS
<1>1. TypeOK'
  BY TypeNext DEF ReaderInv
<1>2. (buried => ~reading)'
  BY DEF ReaderInv, Next, Loop, vars, ReadBegin, ReadNothing, Read, Bury, ChildExit, ChildWrite
<1>3. ASSUME NEW n \in 1..BufferSize, Read(n) PROVE ChunkingInvisible'
  <2>1. RoomToRead /\ written' = written /\ unread' = unread - n /\ reading
        /\ buried' = buried
    BY <1>3 DEF Read, ReaderInv, TypeOK
  <2>2. Consumed' = Consumed \o ChunkOf(n) /\ Consumed \in Seq(Char)
    BY <1>3, <2>1, ConsumedGrows
  <2>3. ChunkOf(n) \in Seq(Char)
    BY <1>3, <2>1, ReadFits
  <2> SUFFICES ASSUME WithoutNul', ~buried'
               PROVE  (CharByChar = [filter |-> Filter, line |-> held])'
    BY DEF ChunkingInvisible
  <2>4. WithoutNul
    <3>1. Nul \notin Range(Consumed \o ChunkOf(n))
      BY <2>2 DEF WithoutNul
    <3>2. Consumed \in Seq(NoNul)
      BY <2>2, <2>3, <3>1, NulInConcat
    <3> QED
      BY <3>2 DEF WithoutNul, Range, NoNul
  <2>5. CharByChar = [filter |-> Filter, line |-> held]
    BY <2>1, <2>4 DEF ReaderInv, ChunkingInvisible
  <2> QED
    BY <1>3, <2>1, <2>5, ChunkingRead DEF ReaderInv
<1>4. ASSUME NEW c \in Char, ChildWrite(c) PROVE ChunkingInvisible'
  <2>1. /\ written' = Append(written, c) /\ unread' = unread + 1
        /\ UNCHANGED <<held, last_line, repeat_count, log, buried>>
    BY <1>4 DEF ChildWrite
  <2>2. Consumed' = Consumed
    <3>1. written \in Seq(Char) /\ unread \in 0..Len(written)
      BY DEF ReaderInv, TypeOK, RoomToRead
    <3> DEFINE k == Len(written) - unread
    <3>2. /\ k \in Nat /\ k <= Len(written)
          /\ Len(Append(written, c)) - (unread + 1) = k
      BY <3>1
    <3> HIDE DEF k
    <3>3. SubSeq(Append(written, c), 1, k) = SubSeq(written, 1, k)
      BY <3>1, <3>2
    <3>4. Consumed' = SubSeq(Append(written, c), 1, k)
      BY <2>1, <3>2 DEF Consumed
    <3> QED
      BY <3>3, <3>4 DEF Consumed, k
  <2>3. Filter' = Filter
    BY <2>1 DEF Filter
  <2> QED
    BY <2>1, <2>2, <2>3, ChunkingKept DEF ReaderInv
<1>5. ASSUME ReadBegin \/ ReadNothing \/ ChildExit \/ UNCHANGED vars
      PROVE  ChunkingInvisible'
  <2>1. UNCHANGED <<written, unread, held, last_line, repeat_count, log, buried>>
    BY <1>5 DEF ReadBegin, ReadNothing, ChildExit, vars
  <2>2. Consumed' = Consumed /\ Filter' = Filter
    BY <2>1 DEF Consumed, Filter
  <2> QED
    BY <2>1, <2>2, ChunkingKept DEF ReaderInv
<1>6. ASSUME Bury PROVE ChunkingInvisible'
  BY <1>6 DEF Bury, ChunkingInvisible
<1>7. ChunkingInvisible'
  BY <1>3, <1>4, <1>5, <1>6 DEF Next, Loop
<1> QED
  BY <1>1, <1>2, <1>7 DEF ReaderInv

(* How the kernel cuts the output into reads does not show, for every size  *)
(* of the buffer and of the count, and output of any length.                *)
THEOREM ReaderChunkingInvisible == Spec => []ChunkingInvisible
<1>1. Init => ReaderInv
  BY TypeInit, ChunkingInit DEF ReaderInv, Init
<1>2. ReaderInv => ChunkingInvisible
  BY DEF ReaderInv
<1> QED
  BY <1>1, <1>2, ChunkingNext, PTL DEF Spec
-----------------------------------------------------------------------------
(* What a reader of the log has in mind, and how it grows with a message. *)
Nothing == [out |-> << >>, last |-> << >>]
Heard(messages) == FoldLeft(Understand, Nothing, messages)
HeardState == [out : Seq(Char), last : Text]

ToldStep(d, s, message) == Understand(s, message)

Told == INSTANCE FoldLemmas WITH Step <- ToldStep

(* So many copies of a line, one at a time. *)
LEMMA CopiesSteps ==
  ASSUME NEW line \in Text
  PROVE  /\ Append(line, NL) \in Seq(Char)
         /\ \A k \in Int : Copies(line, k) \in Seq(Char)
         /\ \A k \in Int : k <= 0 => Copies(line, k) = << >>
         /\ \A k \in Nat : Copies(line, k + 1) = Copies(line, k) \o Append(line, NL)
<1> DEFINE v == Append(line, NL)
           all(k) == [i \in 1..k |-> v]
<1>1. v \in Seq(Char)
  BY LineReaderAssumption DEF Text
<1>2. \A k : Copies(line, k) = FlattenSeq(all(k))
  BY DEF Copies
<1> HIDE DEF v
<1>3. ASSUME NEW k \in Int, k <= 0 PROVE all(k) = << >>
  <2>1. 1..k = {}
    BY <1>3
  <2> QED
    BY <2>1
<1>4. ASSUME NEW k \in Nat
      PROVE  all(k) \in Seq(Seq(Char)) /\ all(k + 1) = Append(all(k), v)
  <2>1. all(k) \in Seq(Seq(Char)) /\ Len(all(k)) = k
    BY <1>1
  <2>2. \A i \in 1..k : all(k)[i] = v
    OBVIOUS
  <2> DEFINE s == all(k)
             t == Append(s, v)
  <2> HIDE DEF s
  <2>3. Len(t) = k + 1 /\ t \in Seq(Seq(Char)) /\ \A i \in 1..k + 1 : t[i] = v
    <3>1. Len(t) = k + 1 /\ t \in Seq(Seq(Char)) /\ t[k + 1] = v
          /\ \A i \in 1..k : t[i] = s[i]
      BY <1>1, <2>1 DEF s
    <3>2. \A i \in 1..k + 1 : i \in 1..k \/ i = k + 1
      OBVIOUS
    <3> HIDE DEF t
    <3> QED
      BY <2>2, <3>1, <3>2 DEF s
  <2> HIDE DEF t
  <2>4. t = [i \in 1..k + 1 |-> v]
    <3>1. t = [i \in 1..Len(t) |-> t[i]]
      BY <2>3
    <3> QED
      BY <2>3, <3>1
  <2> QED
    BY <2>1, <2>4 DEF s, t
<1> HIDE DEF all
<1>5. \A k \in Nat : Copies(line, k + 1) = Copies(line, k) \o v
  <2> SUFFICES ASSUME NEW k \in Nat PROVE FlattenSeq(all(k + 1)) = FlattenSeq(all(k)) \o v
    BY <1>2
  <2>1. \A s \in Seq(Seq(Char)) : FlattenSeq(Append(s, v)) = FlattenSeq(s) \o v
    BY <1>1, FlattenSteps
  <2> QED
    BY <1>4, <2>1
<1>6. \A k \in Int : k <= 0 => Copies(line, k) = << >>
  BY <1>2, <1>3, FlattenSteps
<1>7. \A k \in Int : Copies(line, k) \in Seq(Char)
  <2> SUFFICES ASSUME NEW k \in Int PROVE Copies(line, k) \in Seq(Char)
    OBVIOUS
  <2>1. CASE k <= 0
    <3>1. Copies(line, k) = << >>
      BY <1>6, <2>1
    <3> QED
      BY <3>1
  <2>2. CASE ~(k <= 0)
    <3>1. k \in Nat
      BY <2>2
    <3>2. \A s \in Seq(Seq(Char)) : FlattenSeq(s) \in Seq(Char)
      BY FlattenSteps
    <3> QED
      BY <1>2, <1>4, <3>1, <3>2
  <2> QED
    BY <2>1, <2>2
<1> QED
  BY <1>1, <1>5, <1>6, <1>7 DEF v

(* What each message adds. *)
LEMMA UnderstandSteps ==
  ASSUME NEW s \in HeardState
  PROVE  /\ \A t \in Text : Understand(s, Line(t)) =
                              [out |-> s.out \o Append(t, NL), last |-> t]
         /\ Understand(s, Repeating) =
              [out |-> s.out \o Append(s.last, NL), last |-> s.last]
         /\ \A n \in Nat : Understand(s, Repeated(n)) =
                             [out |-> s.out \o Copies(s.last, n - 2), last |-> s.last]
         /\ \A m \in Message : Understand(s, m) \in HeardState
<1>1. /\ s.out \in Seq(Char) /\ s.last \in Text
      /\ \A o : [s EXCEPT !.out = o] = [out |-> o, last |-> s.last]
  BY DEF HeardState
<1>2. ASSUME NEW m, NEW t, m.kind = "line", m.text = t
      PROVE  Understand(s, m) = [out |-> s.out \o Append(t, NL), last |-> t]
  BY <1>2 DEF Understand
<1>3. ASSUME NEW m, m.kind = "repeating"
      PROVE  Understand(s, m) = [out |-> s.out \o Append(s.last, NL), last |-> s.last]
  <2>1. Copies(s.last, 1) = Append(s.last, NL)
    <3>1. Copies(s.last, 0 + 1) = Copies(s.last, 0) \o Append(s.last, NL)
      BY <1>1, CopiesSteps
    <3>2. Copies(s.last, 0) = << >> /\ Append(s.last, NL) \in Seq(Char)
      BY <1>1, CopiesSteps
    <3>3. 0 + 1 = 1 /\ \A u \in Seq(Char) : << >> \o u = u
      OBVIOUS
    <3>4. Copies(s.last, 1) = << >> \o Append(s.last, NL)
      BY <3>1, <3>2, <3>3
    <3> QED
      BY <3>2, <3>3, <3>4
  <2>2. Understand(s, m) = [s EXCEPT !.out = s.out \o Copies(s.last, 1)]
    BY <1>3 DEF Understand
  <2> QED
    BY <1>1, <2>1, <2>2
<1>4. ASSUME NEW m, NEW n, m.kind = "repeated", m.times = n
      PROVE  Understand(s, m) = [out |-> s.out \o Copies(s.last, n - 2), last |-> s.last]
  <2>1. Understand(s, m) = [s EXCEPT !.out = s.out \o Copies(s.last, n - 2)]
    BY <1>4 DEF Understand
  <2> QED
    BY <1>1, <2>1
<1>5. ASSUME NEW m, m.kind \in {"part", "truncated"} PROVE Understand(s, m) = s
  BY <1>5 DEF Understand
<1>6. \A u \in Seq(Char), v \in Seq(Char) : u \o v \in Seq(Char)
  OBVIOUS
<1>7. ASSUME NEW t \in Text PROVE [out |-> s.out \o Append(t, NL), last |-> t] \in HeardState
  <2> DEFINE a == Append(t, NL)
  <2>1. a \in Seq(Char)
    BY CopiesSteps
  <2> HIDE DEF a
  <2>2. s.out \o a \in Seq(Char)
    BY <1>1, <2>1
  <2> QED
    BY <2>2 DEF HeardState, a
<1>8. ASSUME NEW n \in Nat
      PROVE  [out |-> s.out \o Copies(s.last, n - 2), last |-> s.last] \in HeardState
  <2>1. n - 2 \in Int
    OBVIOUS
  <2>2. Copies(s.last, n - 2) \in Seq(Char)
    BY <1>1, <2>1, CopiesSteps
  <2>3. s.out \o Copies(s.last, n - 2) \in Seq(Char)
    BY <1>1, <1>6, <2>2
  <2> QED
    BY <1>1, <2>3 DEF HeardState
<1>9. ASSUME NEW m \in Message PROVE Understand(s, m) \in HeardState
  <2>1. CASE m \in [kind : {"line", "part"}, text : Text]
    <3>1. m.kind = "line" \/ m.kind = "part"
      BY <2>1
    <3>2. m.text \in Text
      BY <2>1
    <3> QED
      <4>1. CASE m.kind = "line"
        <5>1. Understand(s, m) = [out |-> s.out \o Append(m.text, NL), last |-> m.text]
          BY <1>2, <4>1
        <5> QED
          BY <1>7, <3>2, <5>1
      <4>2. CASE m.kind = "part"
        BY <1>5, <4>2
      <4> QED
        BY <3>1, <4>1, <4>2
  <2>2. CASE m \in [kind : {"repeated"}, times : Nat]
    <3>1. m.kind = "repeated" /\ m.times \in Nat
      BY <2>2
    <3> QED
      BY <1>4, <1>8, <3>1
  <2>3. CASE m = Repeating
    <3>1. m.kind = "repeating"
      BY <2>3 DEF Repeating
    <3> QED
      BY <1>1, <1>3, <1>7, <3>1
  <2>4. CASE m = Truncated
    <3>1. m.kind = "truncated"
      BY <2>4 DEF Truncated
    <3> QED
      BY <1>5, <3>1
  <2> QED
    BY <2>1, <2>2, <2>3, <2>4 DEF Message
<1>10. ASSUME NEW t \in Text PROVE Line(t).kind = "line" /\ Line(t).text = t
  BY DEF Line
<1>11. ASSUME NEW n \in Nat PROVE Repeated(n).kind = "repeated" /\ Repeated(n).times = n
  BY DEF Repeated
<1>12. Repeating.kind = "repeating"
  BY DEF Repeating
<1>13. \A t \in Text : Understand(s, Line(t)) = [out |-> s.out \o Append(t, NL), last |-> t]
  BY <1>2, <1>10
<1>14. \A n \in Nat : Understand(s, Repeated(n)) =
                        [out |-> s.out \o Copies(s.last, n - 2), last |-> s.last]
  BY <1>4, <1>11
<1> QED
  BY <1>3, <1>9, <1>12, <1>13, <1>14

(* The log is understood one message at a time. *)
LEMMA HeardSteps ==
  /\ Heard(<< >>) = Nothing
  /\ \A l \in Seq(Message) : Heard(l) \in HeardState
  /\ \A l \in Seq(Message), m \in Message : Heard(Append(l, m)) = Understand(Heard(l), m)
<1>1. \A l : Heard(l) = Told!Fold(0, Nothing, l)
  BY DEF Heard, ToldStep, Told!Fold, FoldLeft, Told!FoldLeft, MapThenFoldSet,
         Told!MapThenFoldSet, Max, Told!Max
<1>2. Told!StaysIn(0, HeardState, Message)
  BY UnderstandSteps DEF Told!StaysIn, ToldStep
<1>3. Nothing \in HeardState
  BY DEF Nothing, HeardState, Text
<1>4. Told!GoesStepwise(0, HeardState, Message, Nothing)
  BY <1>2, <1>3, Told!FoldSteps
<1> QED
  BY <1>1, <1>4 DEF Told!GoesStepwise, ToldStep

(* What a repetition that goes on has not told yet. *)
Untold(f) == IF f.count < 3 THEN << >> ELSE Copies(f.last, f.count - 2)

(* The notice that ends a repetition tells just that. *)
LEMMA RepetitionTold ==
  ASSUME NEW f \in FilterState, f.count > 0 => Heard(f.log).last = f.last
  PROVE  /\ EndRepeat(f) \in Seq(Message)
         /\ Heard(EndRepeat(f)).out = Heard(f.log).out \o Untold(f)
         /\ Range(f.log) \subseteq Range(EndRepeat(f))
<1>1. f.log \in Seq(Message) /\ f.count \in Nat /\ f.last \in Text
  BY LineReaderAssumption DEF FilterState, Fitting
<1>2. Heard(f.log) \in HeardState
  BY <1>1, HeardSteps
<1>3. Heard(f.log).out \in Seq(Char)
  BY <1>2 DEF HeardState
<1>4. CASE f.count >= 2
  <2> DEFINE m == Repeated(f.count)
             l == Append(f.log, m)
  <2>1. EndRepeat(f) = l
    BY <1>4 DEF EndRepeat
  <2>2. m \in Message
    BY <1>1, MessageTypes
  <2>3. l \in Seq(Message) /\ Range(f.log) \subseteq Range(l)
    <3> HIDE DEF m
    <3>1. \A i \in DOMAIN f.log : i \in DOMAIN l /\ l[i] = f.log[i]
      BY <1>1, <2>2
    <3> QED
      BY <1>1, <2>2, <3>1 DEF Range
  <2>4. Heard(l).out = Heard(f.log).out \o Copies(f.last, f.count - 2)
    <3>1. Heard(l) = Understand(Heard(f.log), m)
      BY <1>1, <2>2, HeardSteps
    <3>2. Understand(Heard(f.log), m) =
            [out |-> Heard(f.log).out \o Copies(Heard(f.log).last, f.count - 2),
             last |-> Heard(f.log).last]
      BY <1>1, <1>2, UnderstandSteps
    <3>3. Heard(f.log).last = f.last
      BY <1>1, <1>4
    <3> HIDE DEF l, m
    <3>4. Heard(l) = [out |-> Heard(f.log).out \o Copies(f.last, f.count - 2),
                      last |-> Heard(f.log).last]
      BY <3>1, <3>2, <3>3
    <3>5. \A r, o, t : r = [out |-> o, last |-> t] => r.out = o
      OBVIOUS
    <3> QED
      BY <3>4, <3>5
  <2>5. Untold(f) = Copies(f.last, f.count - 2)
    <3>1. CASE f.count < 3
      <4>1. f.count - 2 \in Int /\ f.count - 2 <= 0
        BY <1>1, <3>1
      <4>2. Copies(f.last, f.count - 2) = << >>
        BY <1>1, <4>1, CopiesSteps
      <4> QED
        BY <3>1, <4>2 DEF Untold
    <3>2. CASE ~(f.count < 3)
      BY <3>2 DEF Untold
    <3> QED
      BY <3>1, <3>2
  <2> HIDE DEF l
  <2> QED
    BY <2>1, <2>3, <2>4, <2>5
<1>5. CASE ~(f.count >= 2)
  <2>1. EndRepeat(f) = f.log
    BY <1>5 DEF EndRepeat
  <2>2. Untold(f) = << >>
    BY <1>1, <1>5 DEF Untold
  <2>3. Heard(f.log).out \o << >> = Heard(f.log).out
    BY <1>3
  <2> QED
    BY <1>1, <2>1, <2>2, <2>3
<1> QED
  BY <1>4, <1>5

(* No line comes as often in a row as the repeat count can count. *)
CountSuffices(lines) ==
  \A i \in 1..Len(lines) - CountMod + 1 :
    \E j \in i..i + CountMod - 1 : lines[j] # lines[i]

(* Neither the count nor the buffer has given way. *)
Clean(x, t) == CountSuffices(LinesOf(t)) /\ Truncated \notin Range(x.filter.log)

(* The last lines, of which the count tells how many are equal. *)
Counted(f, lines) ==
  /\ f.count \in 0..Len(lines)
  /\ \A j \in Len(lines) - f.count + 1..Len(lines) : lines[j] = f.last

(* What has been fed, t, is what the log tells, with what is yet to come. *)
Tells(x, t) ==
  /\ x.line = RestOf(t, t)
  /\ t = Heard(x.filter.log).out \o Untold(x.filter) \o x.line
  /\ x.filter.count > 0 => Heard(x.filter.log).last = x.filter.last
  /\ Counted(x.filter, LinesOf(t))

(* What suffices for more lines suffices for fewer. *)
LEMMA CountSufficed ==
  ASSUME NEW lines \in Seq(Seq(Char)), NEW line \in Seq(Char),
         CountSuffices(Append(lines, line))
  PROVE  CountSuffices(lines)
<1> DEFINE more == Append(lines, line)
<1>1. Len(more) = Len(lines) + 1 /\ Len(lines) \in Nat /\ CountMod \in Nat
      /\ \A j \in 1..Len(lines) : more[j] = lines[j]
  BY LineReaderAssumption
<1> HIDE DEF more
<1>2. ASSUME NEW i \in 1..Len(lines) - CountMod + 1
      PROVE  \E j \in i..i + CountMod - 1 : lines[j] # lines[i]
  <2>1. i \in 1..Len(more) - CountMod + 1
    BY <1>1
  <2>2. PICK j \in i..i + CountMod - 1 : more[j] # more[i]
    BY <2>1 DEF CountSuffices, more
  <2>3. CountMod > 1
    BY LineReaderAssumption
  <2>4. i \in 1..Len(lines) /\ j \in 1..Len(lines)
    BY <1>1, <2>3
  <2> QED
    BY <1>1, <2>2, <2>4
<1> QED
  BY <1>2 DEF CountSuffices

(* One more equal line is counted, and the count does not wrap. *)
LEMMA OneMoreCounted ==
  ASSUME NEW f \in FilterState, NEW lines \in Seq(Seq(Char)), Counted(f, lines),
         f.last \in Seq(Char), CountSuffices(Append(lines, f.last))
  PROVE  /\ f.count + 1 < CountMod
         /\ \A g : g.count = f.count + 1 /\ g.last = f.last =>
              Counted(g, Append(lines, f.last))
<1> DEFINE more == Append(lines, f.last)
           n == Len(lines)
<1>1. /\ Len(more) = n + 1 /\ n \in Nat /\ CountMod \in Nat /\ CountMod > 1
      /\ \A j \in 1..n : more[j] = lines[j]
      /\ more[n + 1] = f.last
  BY LineReaderAssumption
<1>2. f.count \in 0..n /\ f.count < CountMod
  <2>1. f.count \in 0..CountMod - 1
    BY DEF FilterState
  <2> QED
    BY <1>1, <2>1 DEF Counted
<1> HIDE DEF more
<1>3. \A j \in n - f.count + 1..n + 1 : more[j] = f.last
  <2> SUFFICES ASSUME NEW j \in n - f.count + 1..n + 1 PROVE more[j] = f.last
    OBVIOUS
  <2>1. j = n + 1 \/ j \in n - f.count + 1..n
    BY <1>1, <1>2
  <2>2. CASE j \in n - f.count + 1..n
    <3>1. j \in 1..n /\ lines[j] = f.last
      BY <1>1, <1>2, <2>2 DEF Counted
    <3> QED
      BY <1>1, <3>1
  <2> QED
    BY <1>1, <2>1, <2>2
<1> HIDE DEF n
<1>4. ASSUME NEW k \in Nat, k <= n, k < CountMod, k + 1 = CountMod
      PROVE  /\ n - k + 1 \in 1..Len(more) - CountMod + 1
             /\ (n - k + 1) + CountMod - 1 = n + 1
             /\ n - k + 1 \in n - k + 1..n + 1
  BY <1>1, <1>4
<1>5. ASSUME NEW k \in Nat, k <= n
      PROVE  k + 1 \in 0..Len(more) /\ Len(more) - (k + 1) + 1 = n - k + 1
  BY <1>1, <1>5
<1>6. f.count \in Nat /\ f.count <= n /\ f.count < CountMod
  BY <1>1, <1>2
<1>7. f.count + 1 # CountMod
  <2> SUFFICES ASSUME f.count + 1 = CountMod PROVE FALSE
    OBVIOUS
  <2> DEFINE i == n - f.count + 1
  <2>1. i \in 1..Len(more) - CountMod + 1 /\ i + CountMod - 1 = n + 1 /\ i \in i..n + 1
    BY <1>4, <1>6
  <2>2. \A j \in i..n + 1 : more[j] = f.last
    BY <1>3
  <2> HIDE DEF i
  <2>3. PICK j \in i..n + 1 : more[j] # more[i]
    BY <2>1 DEF CountSuffices, more
  <2> QED
    BY <2>1, <2>2, <2>3
<1>8. ASSUME NEW g, g.count = f.count + 1, g.last = f.last PROVE Counted(g, more)
  <2>1. g.count \in 0..Len(more) /\ Len(more) - g.count + 1 = n - f.count + 1
    BY <1>5, <1>6, <1>8
  <2>2. Len(more) = n + 1
    BY <1>1
  <2> QED
    BY <1>3, <1>8, <2>1, <2>2 DEF Counted
<1>9. f.count + 1 < CountMod
  BY <1>1, <1>6, <1>7
<1> QED
  BY <1>8, <1>9 DEF more

(* The line that x holds has come before. *)
Repeats(x) == x.filter.count > 0 /\ x.filter.last = x.line

(* What a character does, case by case. *)
LEMMA FeedCases ==
  ASSUME NEW x \in FeedState, NEW c \in NoNul
  PROVE  /\ c = NL /\ Repeats(x) =>
              Feed(x, c) =
                [filter |-> [log   |-> IF x.filter.count = 1 THEN Append(x.filter.log, Repeating)
                                       ELSE x.filter.log,
                             last  |-> x.filter.last,
                             count |-> (x.filter.count + 1) % CountMod],
                 line   |-> << >>]
         /\ c = NL /\ ~Repeats(x) =>
              Feed(x, c) =
                [filter |-> [log   |-> Append(EndRepeat(x.filter), Line(x.line)),
                             last  |-> x.line,
                             count |-> 1],
                 line   |-> << >>]
         /\ c # NL /\ Len(x.line) + 2 = BufferSize =>
              Feed(x, c).filter.log = x.filter.log \o <<Part(Append(x.line, c)), Truncated>>
         /\ c # NL /\ Len(x.line) + 2 # BufferSize =>
              Feed(x, c) = [filter |-> x.filter, line |-> Append(x.line, c)]
<1> DEFINE f == x.filter
<1>1. f \in FilterState /\ x = [filter |-> f, line |-> x.line]
  BY DEF FeedState
<1>2. f = [log |-> f.log, last |-> f.last, count |-> f.count]
  BY <1>1 DEF FilterState
<1> HIDE DEF f
<1>3. ASSUME NEW g, NEW line, g = [log |-> g.log, last |-> g.last, count |-> g.count],
             g.count > 0, g.last = line
      PROVE  LogLine(g, line) =
               [log   |-> IF g.count = 1 THEN Append(g.log, Repeating) ELSE g.log,
                last  |-> g.last,
                count |-> (g.count + 1) % CountMod]
  BY <1>3 DEF LogLine
<1>4. \A l : [f EXCEPT !.log = l] = [log |-> l, last |-> f.last, count |-> f.count]
  BY <1>2
<1>5. \A l : [x EXCEPT !.line = l] = [filter |-> f, line |-> l]
  BY <1>1
<1>6. ASSUME c = NL, Repeats(x)
      PROVE  Feed(x, c) = [filter |-> [log   |-> IF f.count = 1 THEN Append(f.log, Repeating)
                                                 ELSE f.log,
                                       last  |-> f.last,
                                       count |-> (f.count + 1) % CountMod],
                           line   |-> << >>]
  <2>1. LogLine(f, x.line) = [log   |-> IF f.count = 1 THEN Append(f.log, Repeating) ELSE f.log,
                              last  |-> f.last,
                              count |-> (f.count + 1) % CountMod]
    BY <1>2, <1>3, <1>6 DEF Repeats, f
  <2>2. Feed(x, c) = [filter |-> LogLine(f, x.line), line |-> << >>]
    BY <1>6 DEF Feed, f
  <2> QED
    BY <2>1, <2>2
<1>7. ASSUME c = NL, ~Repeats(x)
      PROVE  Feed(x, c) = [filter |-> [log   |-> Append(EndRepeat(f), Line(x.line)),
                                       last  |-> x.line,
                                       count |-> 1],
                           line   |-> << >>]
  <2>1. LogLine(f, x.line) = [log |-> Append(EndRepeat(f), Line(x.line)), last |-> x.line,
                              count |-> 1]
    BY <1>7 DEF LogLine, Repeats, f
  <2>2. Feed(x, c) = [filter |-> LogLine(f, x.line), line |-> << >>]
    BY <1>7 DEF Feed, f
  <2> QED
    BY <2>1, <2>2
<1>8. ASSUME c # NL, Len(x.line) + 2 = BufferSize
      PROVE  Feed(x, c).filter.log = f.log \o <<Part(Append(x.line, c)), Truncated>>
  <2> DEFINE l == f.log \o <<Part(Append(x.line, c)), Truncated>>
  <2>1. Feed(x, c) = [filter |-> [f EXCEPT !.log = l], line |-> << >>]
    BY <1>8 DEF Feed, f
  <2> HIDE DEF l
  <2>2. \A g, r, d, n : g = [log |-> l, last |-> d, count |-> n] /\ r = [filter |-> g, line |-> << >>]
          => r.filter.log = l
    OBVIOUS
  <2> QED
    BY <1>4, <2>1, <2>2 DEF l
<1>9. ASSUME c # NL, Len(x.line) + 2 # BufferSize
      PROVE  Feed(x, c) = [filter |-> f, line |-> Append(x.line, c)]
  <2>1. Feed(x, c) = [x EXCEPT !.line = Append(x.line, c)]
    BY <1>9 DEF Feed
  <2> QED
    BY <1>5, <2>1
<1> QED
  BY <1>6, <1>7, <1>8, <1>9 DEF f

(* Nothing is taken back: what has been clean was clean before. *)
LEMMA CleanBefore ==
  ASSUME NEW x \in FeedState, NEW t \in Seq(NoNul), NEW c \in NoNul,
         Clean(Feed(x, c), Append(t, c))
  PROVE  Clean(x, t) /\ ~(c # NL /\ Len(x.line) + 2 = BufferSize)
<1> DEFINE f == x.filter
           y == Feed(x, c)
<1>1. f \in FilterState /\ f.log \in Seq(Message) /\ x.line \in Text
  BY DEF FeedState, FilterState, Fitting
<1>2. LinesOf(t) \in Seq(Seq(Char)) /\ RestOf(t, t) \in Seq(Char)
  <2>1. t \in Seq(Char)
    BY DEF NoNul
  <2> QED
    BY <2>1, LinesOfType
<1>3. CountSuffices(LinesOf(t))
  <2>1. LinesOf(Append(t, c)) = LinesOf(t) \/ LinesOf(Append(t, c)) = Append(LinesOf(t), RestOf(t, t))
    BY LinesGrow
  <2>2. CountSuffices(LinesOf(Append(t, c)))
    BY DEF Clean
  <2> QED
    BY <1>2, <2>1, <2>2, CountSufficed
<1>4. Truncated \notin Range(y.filter.log)
  BY DEF Clean
<1>5. ASSUME NEW l \in Seq(Message), NEW m \in Message
      PROVE  /\ Append(l, m) \in Seq(Message)
             /\ Range(l) \subseteq Range(Append(l, m)) /\ m \in Range(Append(l, m))
  <2> DEFINE u == Append(l, m)
  <2>1. /\ u \in Seq(Message) /\ DOMAIN l = 1..Len(l) /\ DOMAIN u = 1..Len(l) + 1
        /\ u[Len(l) + 1] = m /\ Len(l) \in Nat /\ \A i \in 1..Len(l) : u[i] = l[i]
    OBVIOUS
  <2> HIDE DEF u
  <2>2. \A i \in 1..Len(l) : i \in 1..Len(l) + 1
    BY <2>1
  <2>3. Len(l) + 1 \in 1..Len(l) + 1
    BY <2>1
  <2> QED
    BY <2>1, <2>2, <2>3 DEF Range, u
<1>6. CASE c # NL /\ Len(x.line) + 2 = BufferSize
  <2> DEFINE p == Part(Append(x.line, c))
  <2>1. y.filter.log = f.log \o <<p, Truncated>>
    BY <1>6, FeedCases
  <2>2. p \in Message /\ Truncated \in Message
    <3>1. c \in Char \ {NL, Nul}
      BY <1>6 DEF NoNul
    <3>2. Append(x.line, c) \in Text
      BY <1>1, <3>1 DEF Text
    <3> QED
      BY <3>2, MessageTypes
  <2> HIDE DEF p
  <2>3. f.log \o <<p, Truncated>> = Append(Append(f.log, p), Truncated)
    <3>1. ASSUME NEW l \in Seq(Message), NEW m \in Message, NEW n \in Message
          PROVE  l \o <<m, n>> = Append(Append(l, m), n)
      OBVIOUS
    <3> HIDE DEF f
    <3> QED
      BY <1>1, <2>2, <3>1
  <2>4. Truncated \in Range(y.filter.log)
    BY <1>1, <1>5, <2>1, <2>2, <2>3
  <2> QED
    BY <1>4, <2>4
<1>7. CASE ~(c # NL /\ Len(x.line) + 2 = BufferSize)
  <2>1. Range(f.log) \subseteq Range(y.filter.log)
    <3>1. CASE c = NL /\ Repeats(x)
      <4>1. y.filter.log = IF f.count = 1 THEN Append(f.log, Repeating) ELSE f.log
        <5> DEFINE l == IF f.count = 1 THEN Append(f.log, Repeating) ELSE f.log
                   n == (f.count + 1) % CountMod
        <5>1. y = [filter |-> [log |-> l, last |-> f.last, count |-> n], line |-> << >>]
          BY <3>1, FeedCases
        <5> HIDE DEF l, n, y
        <5>2. \A g, r, d, k : g = [log |-> l, last |-> d, count |-> k] /\ r = [filter |-> g, line |-> << >>]
                => r.filter.log = l
          OBVIOUS
        <5>3. y.filter.log = l
          BY <5>1, <5>2
        <5> QED
          BY <5>3 DEF l
      <4> QED
        BY <1>1, <1>5, <4>1, MessageTypes
    <3>2. CASE c = NL /\ ~Repeats(x)
      <4>1. y.filter.log = Append(EndRepeat(f), Line(x.line))
        <5> DEFINE l == Append(EndRepeat(f), Line(x.line))
        <5>1. y = [filter |-> [log |-> l, last |-> x.line, count |-> 1], line |-> << >>]
          BY <3>2, FeedCases
        <5> HIDE DEF l, y
        <5>2. \A g, r, d, k : g = [log |-> l, last |-> d, count |-> k] /\ r = [filter |-> g, line |-> << >>]
                => r.filter.log = l
          OBVIOUS
        <5>3. y.filter.log = l
          BY <5>1, <5>2
        <5> QED
          BY <5>3 DEF l
      <4>2. Range(f.log) \subseteq Range(EndRepeat(f)) /\ EndRepeat(f) \in Seq(Message)
        <5>1. CASE f.count >= 2
          <6>1. EndRepeat(f) = Append(f.log, Repeated(f.count))
            BY <5>1 DEF EndRepeat
          <6>2. f.count \in Nat
            BY <1>1, LineReaderAssumption DEF FilterState
          <6> QED
            BY <1>1, <1>5, <6>1, <6>2, MessageTypes
        <5>2. CASE ~(f.count >= 2)
          <6>1. EndRepeat(f) = f.log
            BY <5>2 DEF EndRepeat
          <6> QED
            BY <1>1, <6>1
        <5> QED
          BY <5>1, <5>2
      <4>3. Line(x.line) \in Message
        BY <1>1, MessageTypes
      <4>4. Range(EndRepeat(f)) \subseteq Range(Append(EndRepeat(f), Line(x.line)))
        BY <1>5, <4>2, <4>3
      <4> QED
        BY <4>1, <4>2, <4>4
    <3>3. CASE c # NL
      <4>1. y = [filter |-> f, line |-> Append(x.line, c)]
        BY <1>7, <3>3, FeedCases
      <4> QED
        BY <4>1
    <3> QED
      BY <3>1, <3>2, <3>3
  <2> QED
    BY <1>3, <1>4, <1>7, <2>1 DEF Clean
<1> QED
  BY <1>6, <1>7

(* What is told in pieces is told as one. *)
LEMMA Pieces ==
  /\ \A s \in Seq(Char) : s \o << >> = s
  /\ \A s, t \in Seq(Char) : s \o t \in Seq(Char)
  /\ \A s, t, u \in Seq(Char) : (s \o t) \o u = s \o (t \o u)
  /\ \A s, t, u \in Seq(Char), c \in Char : Append(s \o t \o u, c) = s \o t \o Append(u, c)
<1>1. \A s \in Seq(Char) : s \o << >> = s
  OBVIOUS
<1>2. \A s, t \in Seq(Char) : s \o t \in Seq(Char)
  OBVIOUS
<1>3. \A s, t, u \in Seq(Char) : (s \o t) \o u = s \o (t \o u)
  OBVIOUS
<1>4. \A s, t \in Seq(Char), c \in Char : Append(s \o t, c) = s \o Append(t, c)
  OBVIOUS
<1>5. ASSUME NEW s \in Seq(Char), NEW t \in Seq(Char), NEW u \in Seq(Char), NEW c \in Char
      PROVE  Append(s \o t \o u, c) = s \o t \o Append(u, c)
  <2> DEFINE v == s \o t
  <2>1. v \in Seq(Char)
    BY <1>2
  <2> HIDE DEF v
  <2>2. Append(v \o u, c) = v \o Append(u, c)
    BY <1>4, <2>1
  <2> QED
    BY <2>2 DEF v
<1> QED
  BY <1>1, <1>2, <1>3, <1>5

(* One more character is told, or remembered to be told. *)
LEMMA TellsNext ==
  ASSUME NEW x \in FeedState, NEW t \in Seq(NoNul), NEW c \in NoNul,
         Tells(x, t), Clean(Feed(x, c), Append(t, c))
  PROVE  Tells(Feed(x, c), Append(t, c))
<1> DEFINE f == x.filter
           y == Feed(x, c)
           g == y.filter
           w == Append(t, c)
           lines == LinesOf(t)
           out == Heard(f.log).out
<1>1. /\ f \in FilterState /\ f.log \in Seq(Message) /\ f.count \in 0..CountMod - 1
      /\ f.count \in Nat /\ f.last \in Text /\ x.line \in Text /\ x.line \in Seq(Char)
      /\ f.last \in Seq(Char)
  BY LineReaderAssumption DEF FeedState, FilterState, Fitting, Text
<1>2. Heard(f.log) \in HeardState /\ out \in Seq(Char)
  <2>1. Heard(f.log) \in HeardState
    BY <1>1, HeardSteps
  <2> QED
    BY <2>1 DEF HeardState
<1>3. /\ x.line = RestOf(t, t)
      /\ t = out \o Untold(f) \o x.line
      /\ f.count > 0 => Heard(f.log).last = f.last
      /\ Counted(f, lines)
  BY DEF Tells
<1>4. lines \in Seq(Seq(Char))
  <2>1. t \in Seq(Char)
    BY DEF NoNul
  <2> QED
    BY <2>1, LinesOfType
<1>5. Untold(f) \in Seq(Char) /\ (f.count >= 2 => Untold(f) = Copies(f.last, f.count - 2))
  <2>1. f.count - 2 \in Int /\ (f.count < 3 => f.count - 2 <= 0)
    BY <1>1
  <2>2. Copies(f.last, f.count - 2) \in Seq(Char)
    BY <1>1, <2>1, CopiesSteps
  <2>3. f.count < 3 => Copies(f.last, f.count - 2) = << >>
    BY <1>1, <2>1, CopiesSteps
  <2>4. << >> \in Seq(Char)
    OBVIOUS
  <2> QED
    BY <2>2, <2>3, <2>4 DEF Untold
<1>6. \A l, d, n, e : y = [filter |-> [log |-> l, last |-> d, count |-> n], line |-> e] =>
        g.log = l /\ g.last = d /\ g.count = n /\ y.line = e
  <2> HIDE DEF y
  <2> QED
    OBVIOUS
<1>7. c \in Char /\ Append(x.line, NL) \in Seq(Char) /\ << >> \in Seq(Char)
  BY <1>1, CopiesSteps DEF NoNul
<1>11. /\ c = NL => LinesOf(w) = Append(lines, x.line) /\ RestOf(w, w) = << >>
       /\ c # NL => LinesOf(w) = lines /\ RestOf(w, w) = Append(x.line, c)
  <2>1. /\ c = NL => LinesOf(w) = Append(lines, RestOf(t, t)) /\ RestOf(w, w) = << >>
        /\ c # NL => LinesOf(w) = lines /\ RestOf(w, w) = Append(RestOf(t, t), c)
    BY LinesGrow
  <2> HIDE DEF lines, w
  <2> QED
    BY <1>3, <2>1
<1>12. w = out \o Untold(f) \o Append(x.line, c)
  <2> DEFINE o == out
             u == Untold(f)
             e == x.line
  <2>1. o \in Seq(Char) /\ u \in Seq(Char) /\ e \in Seq(Char) /\ t = o \o u \o e
    BY <1>1, <1>2, <1>3, <1>5
  <2> HIDE DEF o, u, e
  <2>2. \A a, b, d \in Seq(Char), k \in Char : Append(a \o b \o d, k) = a \o b \o Append(d, k)
    BY Pieces
  <2>3. Append(o \o u \o e, c) = o \o u \o Append(e, c)
    BY <1>7, <2>1, <2>2
  <2> QED
    BY <2>1, <2>3 DEF o, u, e
<1>13. y.filter = g
  OBVIOUS
<1> SUFFICES Tells(y, w)
  OBVIOUS
<1> HIDE DEF f, g, lines
<1>8. CASE c = NL /\ Repeats(x)
  <2>1. f.count > 0 /\ f.last = x.line
    BY <1>8 DEF Repeats, f
  <2>2. LinesOf(w) = Append(lines, f.last) /\ RestOf(w, w) = << >>
    BY <1>8, <1>11, <2>1
  <2>3. /\ f.count + 1 < CountMod
        /\ \A h : h.count = f.count + 1 /\ h.last = f.last => Counted(h, LinesOf(w))
    <3>1. CountSuffices(Append(lines, f.last))
      BY <2>2 DEF Clean
    <3> QED
      BY <1>1, <1>3, <1>4, <2>2, <3>1, OneMoreCounted
  <2>4. (f.count + 1) % CountMod = f.count + 1
    <3>1. \A n \in Nat : n < CountMod => n % CountMod = n
      BY LineReaderAssumption
    <3>2. f.count + 1 \in Nat
      BY <1>1
    <3> QED
      BY <2>3, <3>1, <3>2
  <2>5. /\ g.log = IF f.count = 1 THEN Append(f.log, Repeating) ELSE f.log
        /\ g.last = f.last /\ g.count = f.count + 1 /\ y.line = << >>
    <3> DEFINE l == IF f.count = 1 THEN Append(f.log, Repeating) ELSE f.log
    <3>1. y = [filter |-> [log |-> l, last |-> f.last, count |-> (f.count + 1) % CountMod],
               line |-> << >>]
      BY <1>8, FeedCases DEF f
    <3> HIDE DEF l, y
    <3>2. g.log = l /\ g.last = f.last /\ g.count = f.count + 1 /\ y.line = << >>
      BY <1>6, <2>4, <3>1
    <3> QED
      BY <3>2 DEF l
  <2> HIDE DEF y
  <2>6. Counted(g, LinesOf(w))
    BY <2>3, <2>5
  <2> DEFINE v == Append(x.line, NL)
  <2>7. w = out \o Untold(f) \o v
    BY <1>8, <1>12
  <2> HIDE DEF v, out
  <2>8. CASE f.count = 1
    <3>1. Heard(g.log) = [out |-> out \o v, last |-> Heard(f.log).last]
      <4>1. g.log = Append(f.log, Repeating)
        BY <2>5, <2>8
      <4>2. Heard(g.log) = Understand(Heard(f.log), Repeating)
        BY <1>1, <4>1, HeardSteps, MessageTypes
      <4>3. Heard(f.log).last = x.line
        BY <1>3, <2>1
      <4> QED
        BY <1>2, <4>2, <4>3, UnderstandSteps DEF v, out
    <3>2. Heard(g.log).out = out \o v /\ Heard(g.log).last = g.last
      BY <1>3, <2>1, <2>5, <3>1
    <3>3. Untold(f) = << >> /\ Untold(g) = << >>
      BY <2>5, <2>8 DEF Untold
    <3>4. w = (out \o v) \o << >> \o << >>
      <4>1. v \in Seq(Char) /\ out \o v \in Seq(Char)
        BY <1>2, <1>7, Pieces DEF v
      <4>2. out \o << >> = out /\ (out \o v) \o << >> = out \o v
        BY <1>2, <4>1, Pieces
      <4> QED
        BY <2>7, <3>3, <4>1, <4>2
    <3> QED
      BY <1>13, <2>2, <2>5, <2>6, <3>2, <3>3, <3>4 DEF Tells
  <2>9. CASE f.count # 1
    <3>1. Heard(g.log) = Heard(f.log)
      BY <2>5, <2>9
    <3>2. Untold(g) = Untold(f) \o v
      <4>1. f.count - 2 \in Nat /\ ~(f.count + 1 < 3) /\ f.count >= 2
            /\ (f.count + 1) - 2 = (f.count - 2) + 1
        BY <1>1, <2>1, <2>9
      <4>2. Untold(g) = Copies(f.last, (f.count - 2) + 1)
        BY <2>5, <4>1 DEF Untold
      <4>3. Copies(f.last, (f.count - 2) + 1) = Copies(f.last, f.count - 2) \o v
        BY <1>1, <2>1, <4>1, CopiesSteps DEF v
      <4> QED
        BY <1>5, <4>1, <4>2, <4>3
    <3>3. w = out \o Untold(g) \o << >>
      <4>1. v \in Seq(Char) /\ Untold(f) \o v \in Seq(Char)
        BY <1>5, <1>7, Pieces DEF v
      <4>2. out \o (Untold(f) \o v) \in Seq(Char)
        BY <1>2, <4>1, Pieces
      <4>3. w = out \o (Untold(f) \o v)
        BY <1>2, <1>5, <2>7, <4>1, Pieces
      <4> QED
        BY <3>2, <4>2, <4>3, Pieces
    <3> QED
      BY <1>3, <1>13, <2>1, <2>2, <2>5, <2>6, <3>1, <3>3 DEF Tells, out
  <2> QED
    BY <2>8, <2>9
<1>9. CASE c = NL /\ ~Repeats(x)
  <2> DEFINE e == EndRepeat(f)
             m == Line(x.line)
  <2>1. g.log = Append(e, m) /\ g.last = x.line /\ g.count = 1 /\ y.line = << >>
    <3> DEFINE l == Append(e, m)
    <3>1. y = [filter |-> [log |-> l, last |-> x.line, count |-> 1], line |-> << >>]
      BY <1>9, FeedCases DEF f
    <3> HIDE DEF l, y
    <3>2. g.log = l /\ g.last = x.line /\ g.count = 1 /\ y.line = << >>
      BY <1>6, <3>1
    <3> QED
      BY <3>2 DEF l
  <2> HIDE DEF y
  <2>2. LinesOf(w) = Append(lines, x.line) /\ RestOf(w, w) = << >>
    BY <1>9, <1>11
  <2>3. e \in Seq(Message) /\ Heard(e).out = out \o Untold(f)
    BY <1>1, <1>3, RepetitionTold
  <2> HIDE DEF e
  <2>4. Heard(g.log) = [out |-> Heard(e).out \o Append(x.line, NL), last |-> x.line]
    <3>1. Heard(e) \in HeardState /\ m \in Message
      BY <1>1, <2>3, HeardSteps, MessageTypes
    <3>2. Heard(g.log) = Understand(Heard(e), m)
      BY <2>1, <2>3, <3>1, HeardSteps
    <3> QED
      BY <1>1, <3>1, <3>2, UnderstandSteps
  <2> DEFINE v == Append(x.line, NL)
  <2>5. w = out \o Untold(f) \o v
    BY <1>9, <1>12
  <2> HIDE DEF v
  <2>6. Untold(g) = << >>
    BY <2>1 DEF Untold
  <2>7. Heard(g.log).out = out \o Untold(f) \o v /\ Heard(g.log).last = g.last
    <3>1. \A r, o, d : r = [out |-> o, last |-> d] => r.out = o /\ r.last = d
      OBVIOUS
    <3> HIDE DEF out, w
    <3>2. Heard(g.log).out = Heard(e).out \o v /\ Heard(g.log).last = x.line
      BY <2>4, <3>1 DEF v
    <3> QED
      BY <2>1, <2>3, <3>2
  <2>8. w = Heard(g.log).out \o Untold(g) \o y.line
    <3>1. v \in Seq(Char)
      BY <1>7 DEF v
    <3>2. out \o Untold(f) \o v \in Seq(Char)
      BY <1>2, <1>5, <3>1, Pieces
    <3> HIDE DEF out
    <3>3. (out \o Untold(f) \o v) \o << >> \o << >> = out \o Untold(f) \o v
      BY <3>2, Pieces
    <3> QED
      BY <2>1, <2>5, <2>6, <2>7, <3>3
  <2>9. Counted(g, LinesOf(w))
    <3> DEFINE u == Append(lines, x.line)
    <3>1. Len(u) = Len(lines) + 1 /\ Len(lines) \in Nat /\ u[Len(lines) + 1] = x.line
      BY <1>1, <1>4
    <3> HIDE DEF u
    <3>2. 1 \in 0..Len(u) /\ \A j \in Len(u) - 1 + 1..Len(u) : j = Len(lines) + 1
      BY <3>1
    <3> QED
      BY <2>1, <2>2, <3>1, <3>2 DEF Counted, u
  <2> QED
    BY <1>13, <2>1, <2>2, <2>7, <2>8, <2>9 DEF Tells
<1>10. CASE c # NL
  <2>1. Len(x.line) + 2 # BufferSize
    BY <1>10, CleanBefore
  <2>2. y = [filter |-> f, line |-> Append(x.line, c)]
    BY <1>10, <2>1, FeedCases DEF f
  <2> HIDE DEF y
  <2>3. y.filter = f /\ y.line = Append(x.line, c)
    BY <2>2
  <2>4. LinesOf(w) = lines /\ RestOf(w, w) = Append(x.line, c)
    BY <1>10, <1>11
  <2> HIDE DEF w, out
  <2> QED
    BY <1>3, <1>12, <2>3, <2>4 DEF Tells, out
<1> QED
  BY <1>8, <1>9, <1>10

(* So all that was fed is told. *)
LEMMA AllTold ==
  \A t \in Seq(NoNul) : Clean(FeedAll(Fresh, t), t) => Tells(FeedAll(Fresh, t), t)
<1> DEFINE P == {t \in Seq(NoNul) : Clean(FeedAll(Fresh, t), t) => Tells(FeedAll(Fresh, t), t)}
<1>1. << >> \in P
  <2>1. << >> \in Seq(NoNul) /\ FeedAll(Fresh, << >>) = Fresh
    BY FreshType, FeedAllFold
  <2>2. LinesOf(<< >>) = << >> /\ RestOf(<< >>, << >>) = << >>
    <3>1. Newlines(<< >>) = {}
      BY DEF Newlines
    <3> QED
      BY <3>1, NoNewline
  <2>3. /\ Fresh.line = << >> /\ Fresh.filter.log = << >> /\ Fresh.filter.count = 0
    BY DEF Fresh
  <2>4. Heard(<< >>).out = << >> /\ Untold(Fresh.filter) = << >>
    BY <2>3, HeardSteps DEF Nothing, Untold
  <2>5. << >> = << >> \o << >> \o << >>
    OBVIOUS
  <2>6. Counted(Fresh.filter, << >>)
    <3>1. Len(<< >>) = 0 /\ 0 - 0 + 1..0 = {}
      OBVIOUS
    <3> QED
      BY <2>3, <3>1 DEF Counted
  <2>7. Tells(Fresh, << >>)
    BY <2>2, <2>3, <2>4, <2>5, <2>6 DEF Tells
  <2> QED
    BY <2>1, <2>7
<1>2. ASSUME NEW t \in Seq(NoNul), NEW c \in NoNul, t \in P PROVE Append(t, c) \in P
  <2>1. Append(t, c) \in Seq(NoNul)
    OBVIOUS
  <2>2. /\ FeedAll(Fresh, Append(t, c)) = Feed(FeedAll(Fresh, t), c)
        /\ FeedAll(Fresh, t) \in FeedState
    BY FreshType, FeedAllFold
  <2> DEFINE x == FeedAll(Fresh, t)
  <2>3. Clean(x, t) => Tells(x, t)
    BY <1>2
  <2> HIDE DEF x
  <2>4. Clean(Feed(x, c), Append(t, c)) => Tells(Feed(x, c), Append(t, c))
    BY <2>2, <2>3, CleanBefore, TellsNext DEF x
  <2> QED
    BY <2>1, <2>2, <2>4 DEF x
<1>3. Seq(NoNul) \subseteq P
  <2> HIDE DEF P
  <2> QED
    BY <1>1, <1>2, SequenceInduction
<1> QED
  BY <1>3

(* While the struct is there, the reference tells it. *)
LEMMA LogTells ==
  ASSUME TypeOK, ChunkingInvisible, ~buried, WithoutNul, NoWrap, Truncated \notin Range(log)
  PROVE  /\ Consumed = Understood \o Untold(Filter) \o held
         /\ repeat_count > 0 => Heard(log).last = last_line
<1> DEFINE x == [filter |-> Filter, line |-> held]
<1>1. Consumed \in Seq(NoNul)
  <2>1. Consumed \in Seq(Char)
    <3>1. written \in Seq(Char) /\ unread \in 0..Len(written)
      BY DEF TypeOK, RoomToRead
    <3> DEFINE k == Len(written) - unread
    <3>2. k \in 0..Len(written)
      BY <3>1
    <3> HIDE DEF k
    <3>3. SubSeq(written, 1, k) \in Seq(Char)
      BY <3>1, <3>2
    <3> QED
      BY <3>3 DEF Consumed, k
  <2>2. Consumed \o << >> = Consumed /\ << >> \in Seq(Char)
    BY <2>1
  <2> QED
    BY <2>1, <2>2, NulInConcat DEF WithoutNul
<1>2. x = FeedAll(Fresh, Consumed)
  BY Reference DEF ChunkingInvisible
<1>3. /\ x.filter = Filter /\ x.line = held
      /\ Filter.log = log /\ Filter.count = repeat_count /\ Filter.last = last_line
  BY DEF Filter
<1>4. Clean(x, Consumed)
  BY <1>3 DEF Clean, CountSuffices, NoWrap
<1>5. Tells(x, Consumed)
  <2> HIDE DEF x
  <2> QED
    BY <1>1, <1>2, <1>4, AllTold
<1>6. Understood = Heard(log).out
  BY DEF Understood, Heard, Nothing
<1> HIDE DEF x
<1> QED
  BY <1>3, <1>5, <1>6 DEF Tells

(* The log tells it all, before and after the struct is gone. *)
TellInv == ReaderInv /\ LogTellsOutput

(* While the struct is there, that follows from the invariant of the reads. *)
LEMMA TellsUnburied == ReaderInv /\ ~buried => LogTellsOutput
<1> SUFFICES ASSUME ReaderInv, ~buried, WithoutNul, NoWrap, Truncated \notin Range(log)
             PROVE  Consumed = Understood
                               \o (IF buried \/ repeat_count < 3 THEN << >>
                                   ELSE Copies(last_line, repeat_count - 2))
                               \o held
  BY DEF LogTellsOutput
<1>1. Consumed = Understood \o Untold(Filter) \o held
  BY LogTells DEF ReaderInv
<1>2. Untold(Filter) = IF buried \/ repeat_count < 3 THEN << >>
                       ELSE Copies(last_line, repeat_count - 2)
  BY DEF Untold, Filter
<1> QED
  BY <1>1, <1>2

(* jpl_zombies_bury() tells the rest. *)
LEMMA TellsBury == ReaderInv /\ Bury => LogTellsOutput'
<1> SUFFICES ASSUME ReaderInv, Bury, WithoutNul', NoWrap', Truncated \notin Range(log')
             PROVE  (Consumed = Understood
                                \o (IF buried \/ repeat_count < 3 THEN << >>
                                    ELSE Copies(last_line, repeat_count - 2))
                                \o held)'
  BY DEF LogTellsOutput
<1>1. /\ ~buried /\ buried' = TRUE /\ log' = EndRepeat(Filter)
      /\ UNCHANGED <<written, unread, held>>
  BY DEF Bury
<1>2. Consumed' = Consumed /\ WithoutNul /\ NoWrap
  <2>1. Consumed' = Consumed
    BY <1>1 DEF Consumed
  <2> QED
    BY <2>1 DEF WithoutNul, NoWrap
<1>3. Filter \in FilterState
  BY FilterType DEF ReaderInv
<1>4. Filter.log = log /\ Filter.count = repeat_count /\ Filter.last = last_line
  BY DEF Filter
<1>5. Truncated \notin Range(log)
  <2>1. CASE repeat_count >= 2
    <3>1. log' = Append(log, Repeated(repeat_count))
      BY <1>1, <1>4, <2>1 DEF EndRepeat
    <3>2. log \in Seq(Message) /\ repeat_count \in Nat
      BY LineReaderAssumption DEF ReaderInv, TypeOK
    <3>3. Repeated(repeat_count) \in Message
      BY <3>2, MessageTypes
    <3> DEFINE m == Repeated(repeat_count)
    <3> HIDE DEF m
    <3>4. \A i \in DOMAIN log : i \in DOMAIN Append(log, m) /\ Append(log, m)[i] = log[i]
      BY <3>2, <3>3 DEF m
    <3> QED
      BY <3>1, <3>4 DEF Range, m
  <2>2. CASE ~(repeat_count >= 2)
    <3>1. log' = log
      BY <1>1, <1>4, <2>2 DEF EndRepeat
    <3> QED
      BY <3>1
  <2> QED
    BY <2>1, <2>2
<1>6. /\ Consumed = Understood \o Untold(Filter) \o held
      /\ repeat_count > 0 => Heard(log).last = last_line
  BY <1>1, <1>2, <1>5, LogTells DEF ReaderInv
<1>7. Heard(EndRepeat(Filter)).out = Heard(log).out \o Untold(Filter)
  BY <1>3, <1>4, <1>6, RepetitionTold
<1>8. Understood = Heard(log).out /\ Understood' = Heard(log').out
  BY DEF Understood, Heard, Nothing
<1>9. /\ log' \in Seq(Message) /\ Heard(log').out \in Seq(Char)
  <2>1. log' \in Seq(Message)
    BY <1>1, <1>3, <1>4, <1>6, RepetitionTold
  <2>2. Heard(log') \in HeardState
    BY <2>1, HeardSteps
  <2> QED
    BY <2>1, <2>2 DEF HeardState
<1>10. Understood' \o << >> = Understood'
  BY <1>8, <1>9
<1> QED
  BY <1>1, <1>2, <1>6, <1>7, <1>8, <1>10

(* What the child writes is not yet read. *)
LEMMA WriteUnread ==
  ASSUME RoomToRead, NEW c \in Char, ChildWrite(c)
  PROVE  Consumed' = Consumed
<1>1. written' = Append(written, c) /\ unread' = unread + 1
  BY DEF ChildWrite
<1>2. written \in Seq(Char) /\ unread \in 0..Len(written)
  BY DEF RoomToRead
<1> DEFINE k == Len(written) - unread
<1>3. k \in Nat /\ k <= Len(written) /\ Len(Append(written, c)) - (unread + 1) = k
  BY <1>2
<1> HIDE DEF k
<1>4. SubSeq(Append(written, c), 1, k) = SubSeq(written, 1, k)
  BY <1>2, <1>3
<1>5. Consumed' = SubSeq(Append(written, c), 1, k)
  BY <1>1, <1>3 DEF Consumed
<1> QED
  BY <1>4, <1>5 DEF Consumed, k

(* Afterwards nothing is read or logged. *)
LEMMA TellsBuried == TellInv /\ buried /\ [Next]_vars => LogTellsOutput'
<1> SUFFICES ASSUME TellInv, buried, [Next]_vars PROVE LogTellsOutput'
  OBVIOUS
<1>1. ~reading
  BY DEF TellInv, ReaderInv
<1>2. /\ UNCHANGED <<held, last_line, repeat_count, log, buried>>
      /\ \/ UNCHANGED <<written, unread>>
         \/ \E c \in Char : ChildWrite(c)
  BY <1>1 DEF Next, Loop, vars, ReadBegin, ReadNothing, Read, Bury, ChildExit, ChildWrite
<1>3. Consumed' = Consumed
  <2>1. CASE UNCHANGED <<written, unread>>
    BY <2>1 DEF Consumed
  <2>2. ASSUME NEW c \in Char, ChildWrite(c) PROVE Consumed' = Consumed
    BY <2>2, WriteUnread DEF TellInv, ReaderInv, TypeOK
  <2> QED
    BY <1>2, <2>1, <2>2
<1>4. Understood' = Understood
  BY <1>2 DEF Understood
<1>5. WithoutNul' = WithoutNul /\ NoWrap' = NoWrap
  BY <1>3 DEF WithoutNul, NoWrap
<1> QED
  BY <1>2, <1>3, <1>4, <1>5 DEF TellInv, LogTellsOutput

(* The log says exactly what the child wrote, for every size of the buffer  *)
(* and of the count: as long as neither gives way, and once a repetition is *)
(* over.                                                                    *)
THEOREM LogTellsTheOutput == Spec => []LogTellsOutput
<1>1. Init => TellInv
  <2>1. Init => ReaderInv /\ ~buried
    BY TypeInit, ChunkingInit DEF ReaderInv, Init
  <2> QED
    BY <2>1, TellsUnburied DEF TellInv
<1>2. TellInv /\ [Next]_vars => TellInv'
  <2> SUFFICES ASSUME TellInv, [Next]_vars PROVE TellInv'
    OBVIOUS
  <2>1. ReaderInv'
    BY ChunkingNext DEF TellInv
  <2>2. CASE buried
    BY <2>1, <2>2, TellsBuried DEF TellInv
  <2>3. CASE Bury
    BY <2>1, <2>3, TellsBury DEF TellInv
  <2>4. CASE ~buried /\ ~Bury
    <3>1. ~buried'
      BY <2>4 DEF Next, Loop, vars, ReadBegin, ReadNothing, Read, Bury, ChildExit, ChildWrite
    <3>2. (ReaderInv /\ ~buried => LogTellsOutput)'
      BY TellsUnburied, PTL
    <3> QED
      BY <2>1, <3>1, <3>2 DEF TellInv
  <2> QED
    BY <2>2, <2>3, <2>4
<1>3. TellInv => LogTellsOutput
  BY DEF TellInv
<1> QED
  BY <1>1, <1>2, <1>3, PTL DEF Spec
-----------------------------------------------------------------------------
(* How many elements of a sequence are in Q. *)
Count(s, Q) == Cardinality({i \in DOMAIN s : s[i] \in Q})

(* It counts up, and no further than the sequence is long. *)
LEMMA CountSteps ==
  ASSUME NEW C, NEW Q
  PROVE  /\ Count(<< >>, Q) = 0
         /\ \A s \in Seq(C) : Count(s, Q) \in 0..Len(s)
         /\ \A s \in Seq(C), c \in C :
              Count(Append(s, c), Q) = IF c \in Q THEN Count(s, Q) + 1 ELSE Count(s, Q)
<1>1. Count(<< >>, Q) = 0
  <2>1. {i \in DOMAIN << >> : << >>[i] \in Q} = {}
    OBVIOUS
  <2> QED
    BY <2>1, FS_EmptySet DEF Count
<1>2. ASSUME NEW s \in Seq(C), NEW c \in C
      PROVE  /\ Count(s, Q) \in 0..Len(s)
             /\ Count(Append(s, c), Q) = IF c \in Q THEN Count(s, Q) + 1 ELSE Count(s, Q)
  <2> DEFINE n == Len(s)
             t == Append(s, c)
             A == {i \in DOMAIN s : s[i] \in Q}
             B == {i \in DOMAIN t : t[i] \in Q}
  <2>1. /\ n \in Nat /\ DOMAIN s = 1..n /\ DOMAIN t = 1..n + 1 /\ t[n + 1] = c
        /\ \A i \in 1..n : t[i] = s[i]
    OBVIOUS
  <2>2. Count(s, Q) = Cardinality(A) /\ Count(t, Q) = Cardinality(B)
    BY DEF Count
  <2> HIDE DEF n, t
  <2>3. B = IF c \in Q THEN A \cup {n + 1} ELSE A
    <3>1. \A i \in 1..n + 1 : i \in 1..n \/ i = n + 1
      BY <2>1
    <3>2. \A i \in 1..n : i \in 1..n + 1 /\ i # n + 1
      BY <2>1
    <3>3. n + 1 \in 1..n + 1
      BY <2>1
    <3> QED
      BY <2>1, <3>1, <3>2, <3>3
  <2>4. A \subseteq 1..n /\ n + 1 \notin A
    <3>1. n + 1 \notin 1..n
      BY <2>1
    <3> QED
      BY <2>1, <3>1
  <2> HIDE DEF A, B
  <2>5. IsFiniteSet(1..n) /\ Cardinality(1..n) = n
    BY <2>1, FS_Interval
  <2>6. IsFiniteSet(A) /\ Cardinality(A) <= n /\ Cardinality(A) \in Nat
    BY <2>4, <2>5, FS_Subset, FS_CardinalityType
  <2>7. Cardinality(A \cup {n + 1}) = Cardinality(A) + 1
    BY <2>4, <2>6, FS_AddElement
  <2>8. Count(s, Q) \in 0..n
    BY <2>1, <2>2, <2>6
  <2>9. Count(t, Q) = IF c \in Q THEN Count(s, Q) + 1 ELSE Count(s, Q)
    BY <2>2, <2>3, <2>7
  <2> QED
    BY <2>8, <2>9 DEF n, t
<1>3. ASSUME NEW s \in Seq(C) PROVE Count(s, Q) \in 0..Len(s)
  <2>1. CASE C = {}
    <3>1. s = << >> /\ Len(s) = 0
      <4>1. Len(s) = 0
        <5> SUFFICES ASSUME Len(s) # 0 PROVE FALSE
          OBVIOUS
        <5>1. 1 \in 1..Len(s)
          OBVIOUS
        <5>2. s[1] \in C
          BY <5>1
        <5> QED
          BY <2>1, <5>2
      <4> QED
        BY <4>1
    <3> QED
      BY <1>1, <3>1
  <2>2. CASE C # {}
    BY <1>2, <2>2
  <2> QED
    BY <2>1, <2>2
<1>4. \A s \in Seq(C), c \in C :
        Count(Append(s, c), Q) = IF c \in Q THEN Count(s, Q) + 1 ELSE Count(s, Q)
  BY <1>2
<1> QED
  BY <1>1, <1>3, <1>4

LEMMA CountAppend ==
  ASSUME NEW C, NEW Q, NEW s \in Seq(C), NEW c \in C
  PROVE  Count(Append(s, c), Q) = IF c \in Q THEN Count(s, Q) + 1 ELSE Count(s, Q)
<1>1. \A t \in Seq(C), d \in C :
        Count(Append(t, d), Q) = IF d \in Q THEN Count(t, Q) + 1 ELSE Count(t, Q)
  BY CountSteps
<1> QED
  BY <1>1

LEMMA CountType ==
  ASSUME NEW C, NEW Q, NEW s \in Seq(C)
  PROVE  Count(s, Q) \in Nat
<1>1. \A t \in Seq(C) : Count(t, Q) \in 0..Len(t)
  BY CountSteps
<1>2. Count(s, Q) \in 0..Len(s) /\ Len(s) \in Nat
  BY <1>1
<1> QED
  BY <1>2

(* Two sequences have what each has. *)
LEMMA CountConcat ==
  ASSUME NEW C, NEW Q, NEW s \in Seq(C)
  PROVE  \A t \in Seq(C) : Count(s \o t, Q) = Count(s, Q) + Count(t, Q)
<1> DEFINE P == {t \in Seq(C) : Count(s \o t, Q) = Count(s, Q) + Count(t, Q)}
<1>0. \A u \in Seq(C) : Count(u, Q) \in Nat
  <2>1. \A u \in Seq(C) : Count(u, Q) \in 0..Len(u)
    BY CountSteps
  <2> QED
    BY <2>1
<1>1. << >> \in P
  <2>1. s \o << >> = s /\ << >> \in Seq(C)
    OBVIOUS
  <2>2. Count(<< >>, Q) = 0
    BY CountSteps
  <2>3. Count(s, Q) = Count(s, Q) + 0
    BY <1>0
  <2> QED
    BY <2>1, <2>2, <2>3
<1>2. ASSUME NEW t \in Seq(C), NEW c \in C, t \in P PROVE Append(t, c) \in P
  <2> DEFINE u == s \o t
  <2>1. s \o Append(t, c) = Append(u, c) /\ u \in Seq(C) /\ Append(t, c) \in Seq(C)
    OBVIOUS
  <2>2. Count(u, Q) = Count(s, Q) + Count(t, Q)
    BY <1>2
  <2> HIDE DEF u
  <2>3. /\ Count(Append(u, c), Q) = IF c \in Q THEN Count(u, Q) + 1 ELSE Count(u, Q)
        /\ Count(Append(t, c), Q) = IF c \in Q THEN Count(t, Q) + 1 ELSE Count(t, Q)
    <3>1. \A v \in Seq(C), d \in C :
            Count(Append(v, d), Q) = IF d \in Q THEN Count(v, Q) + 1 ELSE Count(v, Q)
      BY CountSteps
    <3> QED
      BY <2>1, <3>1
  <2>4. Count(s, Q) \in Nat /\ Count(t, Q) \in Nat /\ Count(u, Q) \in Nat
    BY <1>0, <2>1
  <2>5. Count(Append(u, c), Q) = Count(s, Q) + Count(Append(t, c), Q)
    BY <2>2, <2>3, <2>4
  <2> QED
    BY <2>1, <2>5
<1>3. Seq(C) \subseteq P
  <2> HIDE DEF P
  <2> QED
    BY <1>1, <1>2, SequenceInduction
<1> QED
  BY <1>3

(* One element that is not in Q is not counted. *)
LEMMA CountMisses ==
  ASSUME NEW C, NEW Q, NEW s \in Seq(C), NEW k \in 1..Len(s), s[k] \notin Q
  PROVE  Count(s, Q) <= Len(s) - 1
<1> DEFINE A == {i \in DOMAIN s : s[i] \in Q}
           B == (1..Len(s)) \ {k}
<1>1. Len(s) \in Nat /\ A \subseteq B
  OBVIOUS
<1>2. IsFiniteSet(1..Len(s)) /\ Cardinality(1..Len(s)) = Len(s)
  BY <1>1, FS_Interval
<1>3. IsFiniteSet(B) /\ Cardinality(B) = Len(s) - 1
  <2>1. /\ IsFiniteSet((1..Len(s)) \ {k})
        /\ Cardinality((1..Len(s)) \ {k}) = Cardinality(1..Len(s)) - 1
    BY <1>2, FS_RemoveElement
  <2> QED
    BY <1>2, <2>1
<1> HIDE DEF A, B
<1>4. Cardinality(A) <= Cardinality(B)
  BY <1>1, <1>3, FS_Subset
<1>5. Count(s, Q) = Cardinality(A)
  BY DEF Count, A
<1> QED
  BY <1>3, <1>4, <1>5
-----------------------------------------------------------------------------
(* What a log accounts for: its lines, and those its notices count; and how *)
(* often it says that a line was cut.                                       *)
LinesIn(l) == Count(l, {m \in Message : m.kind = "line"})
CutsIn(l) == Count(l, {Truncated})
Noted(l) == FoldLeft(LAMBDA n, message : n + Times(message), 0, l)

(* With those that the filter still counts. *)
Pending(f) == IF f.count = 0 THEN 0 ELSE f.count - 1
Acc(f) == LinesIn(f.log) + Noted(f.log) + Pending(f)

(* Lines that are counted have been accounted for. *)
Sane(f) == f.count <= Acc(f)

(* What is lost when the count wraps, as often as it does. *)
Lost == {(CountMod - 1) * k : k \in Nat}

NotedStep(d, n, message) == n + Times(message)

Notes == INSTANCE FoldLemmas WITH Step <- NotedStep

(* How much each message tells by itself. *)
LEMMA TimesOf ==
  /\ \A m \in Message : Times(m) \in Int
  /\ \A n \in Nat : Times(Repeated(n)) = n - 1
  /\ \A t \in Text : /\ Times(Line(t)) = 0 /\ Times(Part(t)) = 0
                     /\ Line(t).kind = "line" /\ Part(t).kind # "line"
                     /\ Line(t) # Truncated /\ Part(t) # Truncated
  /\ \A n \in Nat : Repeated(n).kind # "line" /\ Repeated(n) # Truncated
  /\ Times(Repeating) = 0 /\ Times(Truncated) = 0
  /\ Repeating.kind # "line" /\ Truncated.kind # "line" /\ Repeating # Truncated
<1>1. ASSUME NEW m \in Message PROVE Times(m) \in Int
  <2>1. CASE m.kind = "repeated"
    <3>1. m \in [kind : {"repeated"}, times : Nat]
      BY <2>1 DEF Message, Repeating, Truncated
    <3>2. m.times \in Nat
      BY <3>1
    <3>3. Times(m) = m.times - 1
      BY <2>1 DEF Times
    <3> QED
      BY <3>2, <3>3
  <2>2. CASE m.kind # "repeated"
    BY <2>2 DEF Times
  <2> QED
    BY <2>1, <2>2
<1>2. \A n \in Nat : Times(Repeated(n)) = n - 1
  BY DEF Times, Repeated
<1>3. ASSUME NEW t \in Text
      PROVE  /\ Line(t).kind = "line" /\ Part(t).kind = "part"
             /\ Times(Line(t)) = 0 /\ Times(Part(t)) = 0
  BY DEF Times, Line, Part
<1>4. ASSUME NEW n \in Nat PROVE Repeated(n).kind = "repeated"
  BY DEF Repeated
<1>5. Repeating.kind = "repeating" /\ Truncated.kind = "truncated"
  BY DEF Repeating, Truncated
<1>6. Times(Repeating) = 0 /\ Times(Truncated) = 0
  BY <1>5 DEF Times
<1>7. \A n \in Nat : Repeated(n).kind # "line" /\ Repeated(n) # Truncated
  BY <1>4, <1>5
<1>8. \A t \in Text : /\ Times(Line(t)) = 0 /\ Times(Part(t)) = 0
                      /\ Line(t).kind = "line" /\ Part(t).kind # "line"
                      /\ Line(t) # Truncated /\ Part(t) # Truncated
  BY <1>3, <1>5
<1> QED
  BY <1>1, <1>2, <1>5, <1>6, <1>7, <1>8

(* The notices are summed one by one. *)
LEMMA NotedSteps ==
  /\ Noted(<< >>) = 0
  /\ \A l \in Seq(Message) : Noted(l) \in Int
  /\ \A l \in Seq(Message), m \in Message : Noted(Append(l, m)) = Noted(l) + Times(m)
<1>1. \A l : Noted(l) = Notes!Fold(0, 0, l)
  BY DEF Noted, NotedStep, Notes!Fold, FoldLeft, Notes!FoldLeft, MapThenFoldSet,
         Notes!MapThenFoldSet, Max, Notes!Max
<1>2. Notes!StaysIn(0, Int, Message)
  BY TimesOf DEF Notes!StaysIn, NotedStep
<1>3. Notes!GoesStepwise(0, Int, Message, 0)
  BY <1>2, Notes!FoldSteps
<1> QED
  BY <1>1, <1>3 DEF Notes!GoesStepwise, NotedStep

(* What each message adds to the account. *)
LEMMA AccountSteps ==
  ASSUME NEW l \in Seq(Message)
  PROVE  /\ LinesIn(l) \in Nat /\ CutsIn(l) \in Nat /\ Noted(l) \in Int
         /\ \A t \in Text : /\ LinesIn(Append(l, Line(t))) = LinesIn(l) + 1
                            /\ CutsIn(Append(l, Line(t))) = CutsIn(l)
                            /\ Noted(Append(l, Line(t))) = Noted(l)
         /\ \A t \in Text : /\ LinesIn(Append(l, Part(t))) = LinesIn(l)
                            /\ CutsIn(Append(l, Part(t))) = CutsIn(l)
                            /\ Noted(Append(l, Part(t))) = Noted(l)
         /\ \A n \in Nat : /\ LinesIn(Append(l, Repeated(n))) = LinesIn(l)
                           /\ CutsIn(Append(l, Repeated(n))) = CutsIn(l)
                           /\ Noted(Append(l, Repeated(n))) = Noted(l) + (n - 1)
         /\ /\ LinesIn(Append(l, Repeating)) = LinesIn(l)
            /\ CutsIn(Append(l, Repeating)) = CutsIn(l)
            /\ Noted(Append(l, Repeating)) = Noted(l)
         /\ /\ LinesIn(Append(l, Truncated)) = LinesIn(l)
            /\ CutsIn(Append(l, Truncated)) = CutsIn(l) + 1
            /\ Noted(Append(l, Truncated)) = Noted(l)
<1>1. ASSUME NEW Q
      PROVE  /\ Count(l, Q) \in 0..Len(l)
             /\ \A m \in Message :
                  Count(Append(l, m), Q) = IF m \in Q THEN Count(l, Q) + 1 ELSE Count(l, Q)
  <2>1. \A s \in Seq(Message) : Count(s, Q) \in 0..Len(s)
    BY CountSteps
  <2>2. ASSUME NEW m \in Message
        PROVE  Count(Append(l, m), Q) = IF m \in Q THEN Count(l, Q) + 1 ELSE Count(l, Q)
    BY CountAppend
  <2> QED
    BY <2>1, <2>2
<1>2. \A m \in Message :
        LinesIn(Append(l, m)) = IF m.kind = "line" THEN LinesIn(l) + 1 ELSE LinesIn(l)
  BY <1>1 DEF LinesIn
<1>3. \A m \in Message :
        CutsIn(Append(l, m)) = IF m = Truncated THEN CutsIn(l) + 1 ELSE CutsIn(l)
  BY <1>1 DEF CutsIn
<1>4. LinesIn(l) \in Nat /\ CutsIn(l) \in Nat
  <2>1. LinesIn(l) \in 0..Len(l) /\ CutsIn(l) \in 0..Len(l)
    BY <1>1 DEF LinesIn, CutsIn
  <2> QED
    BY <2>1
<1>5. Noted(l) \in Int /\ \A m \in Message : Noted(Append(l, m)) = Noted(l) + Times(m)
  BY NotedSteps
<1>6. Noted(l) + 0 = Noted(l)
  BY <1>5
<1>7. ASSUME NEW t \in Text
      PROVE  /\ LinesIn(Append(l, Line(t))) = LinesIn(l) + 1
             /\ CutsIn(Append(l, Line(t))) = CutsIn(l)
             /\ Noted(Append(l, Line(t))) = Noted(l)
  BY <1>2, <1>3, <1>5, <1>6, MessageTypes, TimesOf
<1>8. ASSUME NEW t \in Text
      PROVE  /\ LinesIn(Append(l, Part(t))) = LinesIn(l)
             /\ CutsIn(Append(l, Part(t))) = CutsIn(l)
             /\ Noted(Append(l, Part(t))) = Noted(l)
  BY <1>2, <1>3, <1>5, <1>6, MessageTypes, TimesOf
<1>9. ASSUME NEW n \in Nat
      PROVE  /\ LinesIn(Append(l, Repeated(n))) = LinesIn(l)
             /\ CutsIn(Append(l, Repeated(n))) = CutsIn(l)
             /\ Noted(Append(l, Repeated(n))) = Noted(l) + (n - 1)
  BY <1>2, <1>3, <1>5, MessageTypes, TimesOf
<1>10. /\ LinesIn(Append(l, Repeating)) = LinesIn(l)
       /\ CutsIn(Append(l, Repeating)) = CutsIn(l)
       /\ Noted(Append(l, Repeating)) = Noted(l)
  BY <1>2, <1>3, <1>5, <1>6, MessageTypes, TimesOf
<1>11. /\ LinesIn(Append(l, Truncated)) = LinesIn(l)
       /\ CutsIn(Append(l, Truncated)) = CutsIn(l) + 1
       /\ Noted(Append(l, Truncated)) = Noted(l)
  BY <1>2, <1>3, <1>5, <1>6, MessageTypes, TimesOf
<1> QED
  BY <1>4, <1>5, <1>7, <1>8, <1>9, <1>10, <1>11

(* Losses add up. *)
LEMMA LostSum ==
  /\ 0 \in Lost /\ CountMod - 1 \in Lost
  /\ \A v \in Lost : v \in Nat
  /\ \A v, w \in Lost : v + w \in Lost
<1> DEFINE M == CountMod - 1
<1>1. M \in Nat /\ Lost = {M * k : k \in Nat}
  BY LineReaderAssumption DEF Lost
<1> HIDE DEF M
<1>2. M * 0 = 0 /\ M * 1 = M
  BY <1>1
<1>3. \A k \in Nat : M * k \in Nat
  BY <1>1
<1>4. \A j, k \in Nat : M * j + M * k = M * (j + k)
  BY <1>1
<1>5. \A j, k \in Nat : j + k \in Nat
  OBVIOUS
<1>6. 0 \in Lost /\ M \in Lost
  BY <1>1, <1>2
<1>7. ASSUME NEW v \in Lost, NEW w \in Lost PROVE v + w \in Lost
  <2>1. PICK j \in Nat : v = M * j
    BY <1>1
  <2>2. PICK k \in Nat : w = M * k
    BY <1>1
  <2>3. v + w = M * (j + k) /\ j + k \in Nat
    BY <1>4, <2>1, <2>2
  <2> QED
    BY <1>1, <2>3
<1> QED
  BY <1>1, <1>3, <1>6, <1>7 DEF M

(* They are multiples of what the count wraps at, less one. *)
LEMMA LostMod == \A v \in Lost : v % (CountMod - 1) = 0
<1> DEFINE M == CountMod - 1
<1>1. M \in Nat \ {0}
  BY LineReaderAssumption
<1> HIDE DEF M
<1>2. \A k \in Nat : (M * k) % M = 0
  BY <1>1
<1> QED
  BY <1>2 DEF Lost, M

(* The account is a number. *)
LEMMA AccType == \A f \in FilterState : Acc(f) \in Int
<1> SUFFICES ASSUME NEW f \in FilterState PROVE Acc(f) \in Int
  OBVIOUS
<1>1. f.log \in Seq(Message) /\ f.count \in Nat
  BY LineReaderAssumption DEF FilterState
<1>2. LinesIn(f.log) \in Nat /\ Noted(f.log) \in Int
  BY <1>1, AccountSteps
<1>3. Pending(f) \in Int
  BY <1>1 DEF Pending
<1> QED
  BY <1>2, <1>3 DEF Acc

(* The notice that a repetition is over tells what was pending. *)
LEMMA EndRepeatAccounts ==
  ASSUME NEW f \in FilterState
  PROVE  /\ EndRepeat(f) \in Seq(Message)
         /\ LinesIn(EndRepeat(f)) = LinesIn(f.log) /\ CutsIn(EndRepeat(f)) = CutsIn(f.log)
         /\ Noted(EndRepeat(f)) = Noted(f.log) + Pending(f)
<1> DEFINE e == EndRepeat(f)
           l == f.log
           n == f.count
           p == Pending(f)
<1>1. l \in Seq(Message) /\ n \in Nat /\ p = IF n = 0 THEN 0 ELSE n - 1
  BY LineReaderAssumption DEF FilterState, Pending
<1>2. CASE n >= 2
  <2>1. e = Append(l, Repeated(n))
    BY <1>2 DEF EndRepeat
  <2>2. Repeated(n) \in Message
    BY <1>1, MessageTypes
  <2> HIDE DEF e, l, n, p
  <2>3. p = n - 1
    BY <1>1, <1>2
  <2>4. Noted(e) = Noted(l) + p
    BY <1>1, <2>1, <2>3, AccountSteps
  <2> QED
    BY <1>1, <2>1, <2>2, <2>4, AccountSteps DEF e, l, p
<1>3. CASE ~(n >= 2)
  <2>1. e = l
    BY <1>3 DEF EndRepeat
  <2>2. p = 0
    BY <1>1, <1>3
  <2>3. Noted(l) \in Int
    BY <1>1, AccountSteps
  <2> HIDE DEF e, l, p
  <2> QED
    BY <1>1, <2>1, <2>2, <2>3 DEF e, l, p
<1> QED
  BY <1>2, <1>3

(* One line is accounted for, or the count wraps. *)
LEMMA LineAccounted ==
  ASSUME NEW f \in FilterState, NEW line \in Fitting, Sane(f)
  PROVE  /\ Sane(LogLine(f, line))
         /\ CutsIn(LogLine(f, line).log) = CutsIn(f.log)
         /\ Acc(f) \in Nat
         /\ \/ Acc(LogLine(f, line)) = Acc(f) + 1
            \/ /\ Acc(LogLine(f, line)) + (CountMod - 1) = Acc(f) + 1
               /\ Acc(f) + 1 >= CountMod
<1> DEFINE l == f.log
           n == f.count
           g == LogLine(f, line)
           M == CountMod
<1>1. /\ l \in Seq(Message) /\ n \in 0..M - 1 /\ n \in Nat /\ M \in Nat /\ M > 1
      /\ line \in Text /\ f = [log |-> l, last |-> f.last, count |-> n]
  BY LineReaderAssumption DEF FilterState, Fitting
<1> DEFINE A == LinesIn(l) + Noted(l)
<1>2. LinesIn(l) \in Nat /\ CutsIn(l) \in Nat /\ Noted(l) \in Int /\ A \in Int
  <2>1. LinesIn(l) \in Nat /\ CutsIn(l) \in Nat /\ Noted(l) \in Int
    BY <1>1, AccountSteps
  <2> QED
    BY <2>1
<1>3. Acc(f) = A + (IF n = 0 THEN 0 ELSE n - 1)
  BY DEF Acc, Pending
<1>4. n <= Acc(f)
  BY DEF Sane
<1>5. \A h : Acc(h) = LinesIn(h.log) + Noted(h.log) + (IF h.count = 0 THEN 0 ELSE h.count - 1)
  BY DEF Acc, Pending
<1>6. \A r, a, b, k : r = [log |-> a, last |-> b, count |-> k] => r.log = a /\ r.count = k
  OBVIOUS
<1>7. CASE n > 0 /\ f.last = line
  <2> DEFINE e == IF n = 1 THEN Append(l, Repeating) ELSE l
  <2>1. g = [log |-> e, last |-> f.last, count |-> (n + 1) % M]
    <3>1. ASSUME NEW h, h = [log |-> h.log, last |-> h.last, count |-> h.count],
                 h.count > 0, h.last = line
          PROVE  LogLine(h, line) =
                   [log   |-> IF h.count = 1 THEN Append(h.log, Repeating) ELSE h.log,
                    last  |-> h.last,
                    count |-> (h.count + 1) % CountMod]
      BY <3>1 DEF LogLine
    <3> QED
      BY <1>1, <1>7, <3>1
  <2>2. /\ LinesIn(e) = LinesIn(l) /\ Noted(e) = Noted(l) /\ CutsIn(e) = CutsIn(l)
    BY <1>1, AccountSteps
  <2> HIDE DEF e, l, n, g
  <2>3. g.log = e /\ g.count = (n + 1) % M
    BY <1>6, <2>1
  <2>4. Acc(g) = A + (IF g.count = 0 THEN 0 ELSE g.count - 1)
    BY <1>5, <2>2, <2>3
  <2> HIDE DEF A, M
  <2>5. CASE n + 1 < M
    <3>1. g.count = n + 1
      <4>1. \A k \in Nat : k < M => k % M = k
        BY <1>1
      <4> QED
        BY <1>1, <2>3, <2>5, <4>1
    <3>2. Acc(g) = A + n
      BY <1>1, <1>2, <2>4, <3>1
    <3>3. Acc(f) = A + (n - 1)
      BY <1>1, <1>3, <1>7
    <3>4. Acc(g) = Acc(f) + 1 /\ n + 1 <= Acc(g) /\ Acc(f) \in Nat
      BY <1>1, <1>2, <1>4, <3>2, <3>3
    <3> QED
      BY <2>2, <2>3, <3>1, <3>4 DEF Sane, g, l
  <2>6. CASE ~(n + 1 < M)
    <3>1. n + 1 = M
      BY <1>1, <2>6
    <3>2. g.count = 0
      <4>1. M % M = 0
        BY <1>1
      <4> QED
        BY <2>3, <3>1, <4>1
    <3>3. Acc(g) = A
      BY <1>2, <2>4, <3>2
    <3>4. Acc(f) = A + (n - 1)
      BY <1>1, <1>3, <1>7
    <3>5. Acc(g) + (M - 1) = Acc(f) + 1 /\ Acc(f) + 1 >= M /\ 0 <= Acc(g) /\ Acc(f) \in Nat
      BY <1>1, <1>2, <1>4, <3>1, <3>3, <3>4
    <3> QED
      BY <2>2, <2>3, <3>2, <3>5 DEF Sane, g, l, M
  <2> QED
    BY <2>5, <2>6
<1>8. CASE ~(n > 0 /\ f.last = line)
  <2> DEFINE e == EndRepeat(f)
             d == Append(e, Line(line))
  <2>1. g = [log |-> d, last |-> line, count |-> 1]
    BY <1>8 DEF LogLine
  <2>2. /\ e \in Seq(Message) /\ LinesIn(e) = LinesIn(l) /\ CutsIn(e) = CutsIn(l)
        /\ Noted(e) = Noted(l) + (IF n = 0 THEN 0 ELSE n - 1)
    BY EndRepeatAccounts DEF Pending
  <2>3. LinesIn(d) = LinesIn(e) + 1 /\ CutsIn(d) = CutsIn(e) /\ Noted(d) = Noted(e)
    BY <1>1, <2>2, AccountSteps
  <2> HIDE DEF e, d, l, n, g
  <2>4. g.log = d /\ g.count = 1
    BY <1>6, <2>1
  <2>5. Acc(g) = LinesIn(d) + Noted(d) + (IF 1 = 0 THEN 0 ELSE 1 - 1)
    BY <1>5, <2>4
  <2> DEFINE p == IF n = 0 THEN 0 ELSE n - 1
  <2>6. p \in Nat
    BY <1>1
  <2>7. Noted(e) = Noted(l) + p /\ Acc(f) = LinesIn(l) + Noted(l) + p
    BY <1>3, <2>2
  <2> HIDE DEF p
  <2>8. Acc(g) = Acc(f) + 1 /\ Acc(f) \in Nat /\ 1 <= Acc(g)
    <3>1. \A a, b, x, y, z \in Int :
            a = x + y + z /\ b = (x + 1) + (y + z) + 0 /\ 0 <= a
              => b = a + 1 /\ a \in Nat /\ 1 <= b
      OBVIOUS
    <3>2. Acc(g) = (LinesIn(l) + 1) + (Noted(l) + p) + 0
      BY <2>2, <2>3, <2>5, <2>7
    <3>3. Acc(f) = LinesIn(l) + Noted(l) + p
      BY <2>7
    <3>4. 0 <= Acc(f) /\ Acc(f) \in Int /\ Acc(g) \in Int
      <4>1. n \in Nat /\ n <= Acc(f) /\ Acc(f) \in Int /\ Acc(g) \in Int
        BY <1>1, <1>2, <1>4, <2>6, <3>2, <3>3
      <4> QED
        BY <4>1
    <3>5. LinesIn(l) \in Int /\ Noted(l) \in Int /\ p \in Int
      BY <1>2, <2>6
    <3> QED
      BY <3>1, <3>2, <3>3, <3>4, <3>5
  <2> QED
    BY <2>2, <2>3, <2>4, <2>8 DEF Sane, g, l
<1> QED
  BY <1>7, <1>8

(* n lines are accounted for, but those that were lost. *)
AllButLost(before, after, n) ==
  \E w \in Lost : after + w = before + n /\ (w # 0 => before + n >= CountMod)

(* All lines of a buffer. *)
LEMMA LinesAreAccounted ==
  ASSUME NEW f \in FilterState, Sane(f)
  PROVE  \A lines \in Seq(Fitting) :
           /\ LogLines(f, lines) \in FilterState
           /\ Sane(LogLines(f, lines))
           /\ CutsIn(LogLines(f, lines).log) = CutsIn(f.log)
           /\ AllButLost(Acc(f), Acc(LogLines(f, lines)), Len(lines))
<1> DEFINE Good(lines) == /\ Sane(LogLines(f, lines))
                          /\ CutsIn(LogLines(f, lines).log) = CutsIn(f.log)
                          /\ AllButLost(Acc(f), Acc(LogLines(f, lines)), Len(lines))
           P == {lines \in Seq(Fitting) : Good(lines)}
<1>0. /\ LogLines(f, << >>) = f
      /\ \A s \in Seq(Fitting) : LogLines(f, s) \in FilterState
      /\ \A s \in Seq(Fitting), line \in Fitting :
           LogLines(f, Append(s, line)) = LogLine(LogLines(f, s), line)
  BY LogLinesFold
<1>a. Acc(f) \in Nat
  <2>1. << >> \in Fitting
    <3>1. << >> \in Text /\ Len(<< >>) = 0
      BY DEF Text
    <3> QED
      BY <3>1, LineReaderAssumption DEF Fitting
  <2> QED
    BY <2>1, LineAccounted
<1>1. << >> \in P
  <2>1. << >> \in Seq(Fitting) /\ Len(<< >>) = 0
    OBVIOUS
  <2>2. AllButLost(Acc(f), Acc(f), 0)
    BY <1>a, LostSum DEF AllButLost
  <2> QED
    BY <1>0, <2>1, <2>2
<1>2. ASSUME NEW s \in Seq(Fitting), NEW line \in Fitting, s \in P
      PROVE  Append(s, line) \in P
  <2> DEFINE g == LogLines(f, s)
             h == LogLine(g, line)
             k == Len(s)
             a == Acc(f)
             b == Acc(g)
             c == Acc(h)
  <2>1. /\ g \in FilterState /\ LogLines(f, Append(s, line)) = h /\ k \in Nat
        /\ Append(s, line) \in Seq(Fitting) /\ Len(Append(s, line)) = k + 1
    BY <1>0
  <2>2. Sane(g) /\ CutsIn(g.log) = CutsIn(f.log) /\ AllButLost(a, b, k)
    BY <1>2
  <2> HIDE DEF g
  <2>3. /\ Sane(h) /\ CutsIn(h.log) = CutsIn(g.log) /\ b \in Nat
        /\ c = b + 1 \/ (c + (CountMod - 1) = b + 1 /\ b + 1 >= CountMod)
    BY <2>1, <2>2, LineAccounted
  <2>5. c \in Int
    BY <2>1, LogLineType, AccType
  <2> HIDE DEF h
  <2>4. AllButLost(a, c, k + 1)
    <3>1. PICK w \in Lost : b + w = a + k /\ (w # 0 => a + k >= CountMod)
      BY <2>2 DEF AllButLost
    <3>2. w \in Nat /\ w + (CountMod - 1) \in Lost /\ CountMod \in Nat /\ a \in Nat
      BY <1>a, LostSum, LineReaderAssumption
    <3> HIDE DEF a, b, c, k
    <3>3. CASE c = b + 1
      <4>1. c + w = a + (k + 1) /\ (w # 0 => a + (k + 1) >= CountMod)
        BY <2>1, <2>3, <3>1, <3>2, <3>3
      <4> QED
        BY <4>1 DEF AllButLost
    <3>4. CASE c + (CountMod - 1) = b + 1 /\ b + 1 >= CountMod
      <4> DEFINE v == w + (CountMod - 1)
      <4>0. c \in Int
        BY <2>5
      <4>1. c + v = a + (k + 1) /\ a + (k + 1) >= CountMod
        BY <2>1, <2>3, <3>1, <3>2, <3>4, <4>0
      <4> QED
        BY <3>2, <4>1 DEF AllButLost
    <3> QED
      BY <2>3, <3>3, <3>4
  <2> QED
    BY <2>1, <2>2, <2>3, <2>4
<1>3. Seq(Fitting) \subseteq P
  <2> HIDE DEF P
  <2> QED
    BY <1>1, <1>2, SequenceInduction
<1> QED
  BY <1>0, <1>3

(* Every newline of the output, as often as it is there. *)
LEMMA NewlinesCounted == \A s : Cardinality(Newlines(s)) = Count(s, {NL})
<1> SUFFICES ASSUME NEW s PROVE Cardinality(Newlines(s)) = Count(s, {NL})
  OBVIOUS
<1>1. Newlines(s) = {i \in DOMAIN s : s[i] \in {NL}}
  BY DEF Newlines
<1> QED
  BY <1>1 DEF Count

(* A text has none. *)
LEMMA TextNoLines == \A t \in Text : Count(t, {NL}) = 0
<1> SUFFICES ASSUME NEW t \in Text PROVE Count(t, {NL}) = 0
  OBVIOUS
<1>1. {i \in DOMAIN t : t[i] \in {NL}} = {}
  <2>1. \A i \in DOMAIN t : t[i] \in Char \ {NL, Nul}
    BY DEF Text
  <2> QED
    BY <2>1
<1> QED
  BY <1>1, FS_EmptySet DEF Count

(* A newline is seen, or it is in the rest. *)
LEMMA SeenOrLeft ==
  ASSUME NEW s \in Seq(Char), NEW seen, seen = UpToNul(s),
         NEW rest, rest = RestOf(s, seen)
  PROVE  /\ rest \in Seq(Char)
         /\ Cardinality(Newlines(seen)) \in Nat
         /\ Count(s, {NL}) = Cardinality(Newlines(seen)) + Count(rest, {NL})
<1> DEFINE eol == Newlines(seen)
<1>1. /\ Len(s) \in Nat /\ seen \in Seq(Char) /\ Len(seen) \in Nat /\ Len(seen) <= Len(s)
  BY SeenIsPrefix
<1>2. \A i \in 1..Len(seen) : seen[i] = s[i]
  BY SeenElements
<1>3. eol \subseteq 1..Len(seen) /\ \A i \in 1..Len(seen) : i \in eol <=> s[i] = NL
  BY <1>1, <1>2 DEF Newlines
<1>4. rest = IF eol = {} THEN s ELSE SubSeq(s, Max(eol) + 1, Len(s))
  BY DEF RestOf
<1>5. Cardinality(eol) \in Nat
  BY <1>1, RestIs
<1>6. Count(s, {NL}) \in Nat
  BY CountType
<1> HIDE DEF eol
<1>7. CASE eol = {}
  <2>1. Cardinality(eol) = 0 /\ rest = s
    BY <1>4, <1>7, FS_EmptySet
  <2>2. Count(s, {NL}) = 0 + Count(s, {NL})
    BY <1>6
  <2> QED
    BY <1>5, <2>1, <2>2 DEF eol
<1>8. CASE eol # {}
  <2> DEFINE m == Max(eol)
             p == SubSeq(s, 1, m)
  <2>1. m \in eol /\ \A i \in eol : i <= m
    <3>1. eol \subseteq Nat
      BY <1>1, <1>3
    <3>2. Max(eol) \in eol /\ \A i \in eol : Max(eol) >= i
      BY <1>1, <1>3, <1>8, <3>1, MaxOfNaturals
    <3>3. \A i \in eol : i \in Nat
      BY <3>1
    <3> DEFINE x == Max(eol)
    <3>4. x \in Nat /\ \A i \in eol : x >= i
      BY <3>2, <3>3
    <3> HIDE DEF x
    <3>5. \A i \in eol : i <= x
      BY <3>3, <3>4
    <3> QED
      BY <3>2, <3>5 DEF x
  <2>2. rest = SubSeq(s, m + 1, Len(s))
    BY <1>4, <1>8
  <2> HIDE DEF m
  <2>3. m \in 1..Len(seen) /\ m \in 1..Len(s)
    BY <1>1, <1>3, <2>1
  <2>4. /\ p \in Seq(Char) /\ DOMAIN p = 1..m /\ \A i \in 1..m : p[i] = s[i]
        /\ rest \in Seq(Char) /\ s = p \o rest
    BY <2>2, <2>3
  <2> HIDE DEF p
  <2>5. Count(s, {NL}) = Count(p, {NL}) + Count(rest, {NL})
    BY <2>4, CountConcat
  <2>6. {i \in DOMAIN p : p[i] \in {NL}} = eol
    <3>1. \A i \in 1..m : i \in 1..Len(seen)
      BY <1>1, <2>3
    <3>2. \A i \in 1..m : p[i] \in {NL} <=> i \in eol
      BY <1>3, <2>4, <3>1
    <3>3. \A i \in eol : i \in 1..m
      <4>1. \A i \in 1..Len(seen) : i <= m => i \in 1..m
        BY <1>1, <2>3
      <4> QED
        BY <1>3, <2>1, <4>1
    <3> QED
      BY <2>4, <3>2, <3>3
  <2>7. Count(p, {NL}) = Cardinality(eol)
    BY <2>6 DEF Count
  <2> QED
    BY <1>5, <2>4, <2>5, <2>7 DEF eol
<1> QED
  BY <1>7, <1>8

(* A rest that fills the buffer has a NUL in it or no newline. *)
LEMMA LittleIsCut ==
  ASSUME NEW s \in Seq(Char), NEW rest, rest = RestOf(s, UpToNul(s)), TooLong(rest),
         rest \in Seq(Char)
  PROVE  Count(rest, {NL}) <= BufferSize - 2
<1>1. UpToNul(rest) \in Text
  BY SeenOfRest
<1>2. Len(rest) = BufferSize - 1 /\ BufferSize \in Nat /\ BufferSize > 1
  BY LineReaderAssumption DEF TooLong
<1> DEFINE ends == {i \in DOMAIN rest : rest[i] = Nul}
<1>3. CASE ends = {}
  <2>1. UpToNul(rest) = rest
    BY <1>3 DEF UpToNul
  <2>2. Count(rest, {NL}) = 0
    BY <1>1, <2>1, TextNoLines
  <2> QED
    BY <1>2, <2>2
<1>4. CASE ends # {}
  <2>1. PICK k \in 1..Len(rest) : rest[k] = Nul
    BY <1>4
  <2>2. rest[k] \notin {NL}
    BY <2>1, LineReaderAssumption
  <2>3. Count(rest, {NL}) <= Len(rest) - 1
    BY <2>2, CountMisses
  <2>4. Count(rest, {NL}) \in Nat
    BY CountType
  <2> QED
    BY <1>2, <2>3, <2>4
<1> QED
  BY <1>3, <1>4

(* Cutting a line says so, and accounts for none. *)
LEMMA CutAccounts ==
  ASSUME NEW f \in FilterState, NEW rest \in Text
  PROVE  /\ CutsIn(Cut(f, rest).log) = CutsIn(f.log) + 1
         /\ Acc(Cut(f, rest)) = Acc(f)
         /\ Sane(f) => Sane(Cut(f, rest))
<1> DEFINE l == f.log
           p == Append(l, Part(rest))
           d == Append(p, Truncated)
           g == Cut(f, rest)
<1>1. l \in Seq(Message) /\ Part(rest) \in Message /\ Truncated \in Message
  BY MessageTypes DEF FilterState
<1>2. p \in Seq(Message) /\ l \o <<Part(rest), Truncated>> = d
  <2>1. ASSUME NEW a \in Message, NEW b \in Message, NEW k \in Seq(Message)
        PROVE  Append(k, a) \in Seq(Message) /\ k \o <<a, b>> = Append(Append(k, a), b)
    OBVIOUS
  <2> HIDE DEF l
  <2> QED
    BY <1>1, <2>1
<1>3. g.log = d /\ g.count = f.count
  BY <1>2 DEF Cut
<1>4. LinesIn(p) = LinesIn(l) /\ CutsIn(p) = CutsIn(l) /\ Noted(p) = Noted(l)
  BY <1>1, AccountSteps
<1> HIDE DEF p
<1>5. LinesIn(d) = LinesIn(p) /\ CutsIn(d) = CutsIn(p) + 1 /\ Noted(d) = Noted(p)
  BY <1>2, AccountSteps
<1> HIDE DEF d, g
<1>6. Acc(g) = Acc(f) /\ CutsIn(g.log) = CutsIn(l) + 1
  BY <1>3, <1>4, <1>5 DEF Acc, Pending
<1>7. Sane(f) => Sane(g)
  BY <1>3, <1>6 DEF Sane
<1> QED
  BY <1>6, <1>7 DEF g, l
-----------------------------------------------------------------------------
(* Of the lines read, some are accounted for, some are hidden in what is    *)
(* held, some were in rests that were cut, and some were lost when the      *)
(* count wrapped, which takes as many lines as it can count.                *)
Balanced(accounted, most, lines, hidden) ==
  \E z \in Nat, w \in Lost :
    /\ accounted + w + z + hidden = lines
    /\ z <= most
    /\ w # 0 => lines >= CountMod

(* How many lines can have been in the rests that were cut. *)
MostCut == IF WithoutNul THEN 0 ELSE CutsIn(log) * (BufferSize - 2)

AccountInv ==
  /\ ReaderInv
  /\ ~buried => Sane(Filter)
  /\ WithoutNul => held \in Text
  /\ Balanced(Accounted, MostCut, Count(Consumed, {NL}), Count(held, {NL}))

(* It is a number, none if nothing was cut. *)
LEMMA MostCutType ==
  ASSUME log \in Seq(Message)
  PROVE  /\ CutsIn(log) \in Nat /\ MostCut \in Nat
         /\ MostCut <= CutsIn(log) * (BufferSize - 2)
<1> DEFINE c == CutsIn(log)
           B == BufferSize - 2
<1>1. c \in Nat /\ B \in Nat
  BY AccountSteps, LineReaderAssumption
<1> HIDE DEF c, B
<1>2. c * B \in Nat
  BY <1>1
<1>3. MostCut = IF WithoutNul THEN 0 ELSE c * B
  BY DEF MostCut, c, B
<1> DEFINE d == c * B
<1> HIDE DEF d
<1>4. d \in Nat /\ (MostCut = 0 \/ MostCut = d)
  BY <1>2, <1>3 DEF d
<1>5. MostCut \in Nat /\ MostCut <= d
  BY <1>4
<1> QED
  BY <1>1, <1>5 DEF c, B, d

(* What is accounted for, by the log and the filter. *)
LEMMA AccountedIs ==
  log \in Seq(Message) => /\ ~buried => Accounted = Acc(Filter)
                          /\ buried => Accounted = LinesIn(log) + Noted(log) + 0
<1> SUFFICES ASSUME log \in Seq(Message)
             PROVE  /\ ~buried => Accounted = Acc(Filter)
                    /\ buried => Accounted = LinesIn(log) + Noted(log) + 0
  OBVIOUS
<1>1. \A i \in DOMAIN log : log[i] \in Message
  OBVIOUS
<1>2. {i \in DOMAIN log : log[i].kind = "line"}
        = {i \in DOMAIN log : log[i] \in {m \in Message : m.kind = "line"}}
  BY <1>1
<1>3. Cardinality({i \in DOMAIN log : log[i].kind = "line"}) = LinesIn(log)
  BY <1>2 DEF LinesIn, Count
<1>4. FoldLeft(LAMBDA n, message : n + Times(message), 0, log) = Noted(log)
  BY DEF Noted
<1>5. Accounted = LinesIn(log) + Noted(log)
                  + (IF buried \/ repeat_count = 0 THEN 0 ELSE repeat_count - 1)
  BY <1>3, <1>4 DEF Accounted
<1>6. Filter.log = log /\ Filter.count = repeat_count
  BY DEF Filter
<1>7. Acc(Filter) = LinesIn(log) + Noted(log)
                    + (IF repeat_count = 0 THEN 0 ELSE repeat_count - 1)
  BY <1>6 DEF Acc, Pending
<1> QED
  BY <1>5, <1>7

(* Balanced books are what LinesAccounted asks for. *)
LEMMA BooksSuffice == AccountInv => LinesAccounted
<1> SUFFICES ASSUME AccountInv PROVE LinesAccounted
  OBVIOUS
<1> DEFINE a == Accounted
           c == CutsIn(log)
           l == Count(Consumed, {NL})
           h == Count(held, {NL})
<1>1. PICK z \in Nat, w \in Lost : /\ a + w + z + h = l
                                   /\ z <= MostCut
                                   /\ w # 0 => l >= CountMod
  BY DEF AccountInv, Balanced
<1>2. TypeOK /\ log \in Seq(Message)
  BY DEF AccountInv, ReaderInv, TypeOK
<1>3. a \in Int /\ c \in Nat
  <2>1. LinesIn(log) \in Nat /\ Noted(log) \in Int /\ c \in Nat
    BY <1>2, AccountSteps
  <2>2. Filter \in FilterState
    BY <1>2, FilterType
  <2>3. Acc(Filter) \in Int
    BY <2>2, AccType
  <2>4. LinesIn(log) + Noted(log) + 0 \in Int
    BY <2>1
  <2> QED
    BY <1>2, <2>1, <2>3, <2>4, AccountedIs
<1>4. l \in Nat /\ h \in Nat
  <2>1. Consumed \in Seq(Char) /\ held \in Seq(Char)
    BY <1>2 DEF TypeOK, RoomToRead, Consumed
  <2> QED
    BY <2>1, CountType
<1>5. WithoutNul => h = 0
  BY TextNoLines DEF AccountInv
<1>6. w \in Nat /\ w % (CountMod - 1) = 0 /\ CountMod \in Nat /\ BufferSize \in Nat
  BY LostSum, LostMod, LineReaderAssumption
<1>7. /\ Cardinality(Newlines(Consumed)) = l /\ Cardinality(Newlines(held)) = h
      /\ Cardinality({i \in DOMAIN log : log[i] = Truncated}) = c
  <2>1. {i \in DOMAIN log : log[i] = Truncated} = {i \in DOMAIN log : log[i] \in {Truncated}}
    OBVIOUS
  <2> QED
    BY <2>1, NewlinesCounted DEF CutsIn, Count
<1> DEFINE d == c * (BufferSize - 2)
<1>8. d \in Nat /\ z <= d /\ (WithoutNul => z = 0)
  <2>1. MostCut \in Nat /\ MostCut <= d /\ BufferSize - 2 \in Nat
    BY <1>2, MostCutType, LineReaderAssumption
  <2>2. d \in Nat
    <3> DEFINE B == BufferSize - 2
    <3>1. c \in Nat /\ B \in Nat
      BY <1>3, <2>1
    <3> HIDE DEF B, c
    <3>2. c * B \in Nat
      BY <3>1
    <3> QED
      BY <3>2 DEF B
  <2>3. WithoutNul => MostCut = 0
    BY DEF MostCut
  <2> HIDE DEF d
  <2> QED
    BY <1>1, <2>1, <2>2, <2>3
<1> HIDE DEF a, c, l, h, d
<1>9. a + h <= l
  BY <1>1, <1>3, <1>4, <1>6
<1>10. WithoutNul => (l - a) % (CountMod - 1) = 0
  <2> SUFFICES ASSUME WithoutNul PROVE (l - a) % (CountMod - 1) = 0
    OBVIOUS
  <2>1. l - a = w
    BY <1>1, <1>3, <1>4, <1>5, <1>6, <1>8
  <2> QED
    BY <1>6, <2>1
<1>11. l < CountMod => /\ WithoutNul => a = l
                       /\ l <= a + h + d
  <2> SUFFICES ASSUME l < CountMod PROVE (WithoutNul => a = l) /\ l <= a + h + d
    OBVIOUS
  <2>1. w = 0
    BY <1>1, <1>4, <1>6
  <2>2. a + z + h = l
    BY <1>1, <1>3, <1>4, <2>1
  <2> QED
    BY <1>1, <1>3, <1>4, <1>5, <1>8, <2>2
<1> QED
  BY <1>7, <1>9, <1>10, <1>11 DEF LinesAccounted, a, c, l, h, d

(* No line read, none accounted for. *)
LEMMA BooksInit == Init => AccountInv
<1> SUFFICES ASSUME Init PROVE AccountInv
  OBVIOUS
<1>1. ReaderInv
  BY TypeInit, ChunkingInit DEF ReaderInv, Init
<1>2. /\ written = << >> /\ unread = 0 /\ held = << >> /\ log = << >> /\ repeat_count = 0
      /\ ~buried
  BY DEF Init
<1>3. Consumed = << >>
  BY <1>2 DEF Consumed
<1>4. \A Q : Count(<< >>, Q) = 0
  <2> SUFFICES ASSUME NEW Q PROVE Count(<< >>, Q) = 0
    OBVIOUS
  <2> QED
    BY CountSteps
<1>5. Filter.count = 0 /\ Filter.log = << >>
  BY <1>2 DEF Filter
<1>6. LinesIn(<< >>) = 0 /\ Noted(<< >>) = 0 /\ CutsIn(<< >>) = 0
  BY <1>4, NotedSteps DEF LinesIn, CutsIn
<1>7. Acc(Filter) = 0
  BY <1>5, <1>6 DEF Acc, Pending
<1>8. Accounted = 0
  <2>1. log \in Seq(Message)
    BY <1>2
  <2> QED
    BY <1>2, <1>7, <2>1, AccountedIs
<1>9. Sane(Filter)
  BY <1>5, <1>7 DEF Sane
<1>10. held \in Text
  BY <1>2 DEF Text
<1>11. Balanced(0, 0, 0, 0) /\ MostCut = 0
  <2>1. 0 \in Lost
    BY LostSum
  <2>2. 0 * (BufferSize - 2) = 0
    BY LineReaderAssumption
  <2>3. MostCut = 0
    BY <1>2, <1>6, <2>2 DEF MostCut
  <2> QED
    BY <2>1, <2>3 DEF Balanced
<1> QED
  BY <1>1, <1>2, <1>3, <1>4, <1>6, <1>8, <1>9, <1>10, <1>11 DEF AccountInv

(* The books after n lines of a buffer: of its other newlines, g are held   *)
(* and d are cut.                                                           *)
LEMMA BooksKept ==
  ASSUME NEW a \in Int, NEW b \in Int, NEW l \in Nat, NEW h \in Nat, NEW m \in Nat,
         NEW n \in Nat, NEW g \in Nat, NEW d \in Nat, NEW most \in Int, NEW more \in Int,
         Balanced(a, most, l, h), AllButLost(a, b, n),
         h + m = n + (g + d), most + d <= more
  PROVE  Balanced(b, more, l + m, g)
<1>1. PICK z \in Nat, w \in Lost : /\ a + w + z + h = l
                                   /\ z <= most
                                   /\ w # 0 => l >= CountMod
  BY DEF Balanced
<1>2. PICK v \in Lost : b + v = a + n /\ (v # 0 => a + n >= CountMod)
  BY DEF AllButLost
<1>3. v \in Nat /\ w \in Nat /\ w + v \in Lost /\ CountMod \in Nat
  BY LostSum, LineReaderAssumption
<1> DEFINE u == w + v
           y == z + d
<1>4. u \in Lost /\ u \in Nat /\ y \in Nat /\ y <= more
  BY <1>1, <1>3
<1>5. b + u + y + g = l + m
  BY <1>1, <1>2, <1>3
<1>6. u # 0 => l + m >= CountMod
  <2>1. a + n <= l + m
    BY <1>1, <1>3
  <2>2. u # 0 => w # 0 \/ v # 0
    BY <1>3
  <2> HIDE DEF u
  <2> QED
    BY <1>1, <1>2, <1>3, <2>1, <2>2
<1> HIDE DEF u, y
<1> QED
  BY <1>4, <1>5, <1>6 DEF Balanced

(* A turn of the loop keeps the books. *)
LEMMA BooksRead ==
  ASSUME AccountInv, TypeOK', NEW n \in 1..BufferSize, Read(n)
  PROVE  /\ ~buried' => Sane(Filter')
         /\ WithoutNul' => held' \in Text
         /\ Balanced(Accounted, MostCut, Count(Consumed, {NL}), Count(held, {NL}))'
<1> DEFINE chunk == ChunkOf(n)
           buffer == Buffer(chunk)
           seen == UpToNul(buffer)
           rest == RestOf(buffer, seen)
           lines == LinesOf(seen)
           f == LogLines(Filter, lines)
           cut == UpToNul(rest)
<1>1. /\ TypeOK /\ RoomToRead /\ Filter \in FilterState /\ log \in Seq(Message)
      /\ reading /\ ~buried /\ buried' = buried /\ Sane(Filter)
      /\ written' = written /\ unread' = unread - n
  BY FilterType DEF AccountInv, ReaderInv, TypeOK, Read
<1>2. /\ chunk \in Seq(Char) /\ held \in Seq(Char) /\ buffer = held \o chunk
      /\ buffer \in Seq(Char) /\ Len(buffer) <= BufferSize - 1
  <2>1. /\ ChunkOf(n) \in Seq(Char)
        /\ held \in Seq(Char) /\ Len(held) \in Nat /\ Len(held) + n <= BufferSize - 1
        /\ Buffer(ChunkOf(n)) = held \o ChunkOf(n)
        /\ Buffer(ChunkOf(n)) \in Seq(Char) /\ Len(Buffer(ChunkOf(n))) = Len(held) + n
    BY <1>1, ReadFits
  <2> QED
    BY <2>1
<1>3. /\ f \in FilterState /\ cut \in Text
      /\ Filter' = IF TooLong(rest) THEN Cut(f, cut) ELSE f
      /\ held' = IF TooLong(rest) THEN << >> ELSE rest
  BY <1>1, ReadFilter
<1>4. Consumed' = Consumed \o chunk /\ Consumed \in Seq(Char)
  BY <1>1, ConsumedGrows
<1>5. seen \in Seq(NoNul) /\ Len(seen) <= Len(buffer) /\ lines \in Seq(Fitting)
  <2>1. seen \in Seq(NoNul) /\ Len(seen) <= Len(buffer)
    BY <1>2, SeenType
  <2>2. Len(seen) <= BufferSize - 1
    <3>1. Len(seen) \in Nat /\ Len(buffer) \in Nat /\ BufferSize \in Nat
      BY <1>2, <2>1, LineReaderAssumption
    <3> HIDE DEF seen, buffer
    <3> QED
      BY <1>2, <2>1, <3>1
  <2> QED
    BY <2>1, <2>2, LinesFit
<1>6. /\ rest \in Seq(Char) /\ Cardinality(Newlines(seen)) \in Nat
      /\ Count(buffer, {NL}) = Cardinality(Newlines(seen)) + Count(rest, {NL})
  BY <1>2, SeenOrLeft
<1>7. Len(lines) = Cardinality(Newlines(seen))
  <2> DEFINE k == Cardinality(Newlines(seen))
  <2>1. lines = [i \in 1..k |-> SubSeq(seen, Nth(Newlines(seen), i - 1) + 1,
                                       Nth(Newlines(seen), i) - 1)]
    BY DEF LinesOf
  <2>2. k \in Nat
    BY <1>6
  <2> HIDE DEF k, seen
  <2>3. DOMAIN lines = 1..k
    BY <2>1
  <2>4. DOMAIN lines = 1..Len(lines) /\ Len(lines) \in Nat
    BY <1>5
  <2> HIDE DEF lines
  <2> QED
    BY <2>2, <2>3, <2>4 DEF k
<1>8. WithoutNul' => WithoutNul /\ rest \in Text
  <2> SUFFICES ASSUME WithoutNul' PROVE WithoutNul /\ rest \in Text
    OBVIOUS
  <2>1. Consumed \in Seq(NoNul) /\ chunk \in Seq(NoNul)
    <3>1. Nul \notin Range(Consumed \o chunk)
      BY <1>4 DEF WithoutNul
    <3> HIDE DEF chunk
    <3> QED
      BY <1>2, <1>4, <3>1, NulInConcat
  <2>2. WithoutNul
    BY <2>1 DEF WithoutNul, Range, NoNul
  <2>3. held \in Seq(NoNul)
    <3>1. held \in Seq(Char \ {NL, Nul})
      BY <2>2 DEF AccountInv, Text
    <3> QED
      BY <3>1 DEF NoNul
  <2>4. buffer \in Seq(NoNul)
    <3> HIDE DEF chunk
    <3>1. held \o chunk \in Seq(NoNul)
      BY <2>1, <2>3
    <3> QED
      BY <1>2, <3>1
  <2>5. seen = buffer
    <3> HIDE DEF buffer
    <3> QED
      BY <2>4, AllSeen
  <2>6. RestOf(buffer, buffer) \in Text
    <3> HIDE DEF buffer
    <3> QED
      BY <1>2, <2>4, LinesFit
  <2> QED
    BY <2>2, <2>5, <2>6
<1>9. /\ Sane(f) /\ CutsIn(f.log) = CutsIn(log)
      /\ AllButLost(Acc(Filter), Acc(f), Len(lines))
  <2>1. Filter.log = log
    BY DEF Filter
  <2> HIDE DEF lines
  <2> QED
    BY <1>1, <1>5, <2>1, LinesAreAccounted
<1> HIDE DEF chunk, buffer, seen, rest, lines, f, cut
<1>10. /\ Count(buffer, {NL}) = Count(held, {NL}) + Count(chunk, {NL})
       /\ Count(Consumed', {NL}) = Count(Consumed, {NL}) + Count(chunk, {NL})
  BY <1>2, <1>4, CountConcat
<1> DEFINE a == Acc(Filter)
           b == Acc(f)
           c == CutsIn(log)
           l == Count(Consumed, {NL})
           h == Count(held, {NL})
           m == Count(chunk, {NL})
           k == Len(lines)
           r == Count(rest, {NL})
<1>11. /\ a \in Int /\ b \in Int /\ c \in Nat /\ l \in Nat /\ h \in Nat /\ m \in Nat
       /\ k \in Nat /\ r \in Nat
  <2>1. a \in Int /\ b \in Int
    BY <1>1, <1>3, AccType
  <2>2. c \in Nat
    BY <1>1, AccountSteps
  <2>3. l \in Nat /\ h \in Nat /\ m \in Nat /\ r \in Nat
    BY <1>2, <1>4, <1>6, CountType
  <2>4. k \in Nat
    BY <1>6, <1>7
  <2> QED
    BY <2>1, <2>2, <2>3, <2>4
<1>12. Balanced(a, MostCut, l, h)
  BY <1>1, AccountedIs DEF AccountInv
<1>13. h + m = k + r
  BY <1>6, <1>7, <1>10
<1>14. AllButLost(a, b, k)
  BY <1>9
<1>15. WithoutNul' => r = 0
  BY <1>8, TextNoLines
<1> DEFINE B == BufferSize - 2
<1>16. /\ MostCut \in Nat /\ MostCut <= c * B /\ c * B \in Int /\ B \in Nat
       /\ (c + 1) * B = c * B + B
       /\ MostCut' = IF WithoutNul' THEN 0 ELSE CutsIn(log') * B
       /\ WithoutNul' => MostCut = 0
  <2>1. MostCut \in Nat /\ MostCut <= c * B
    BY <1>1, MostCutType
  <2>2. B \in Nat
    BY LineReaderAssumption
  <2>3. /\ MostCut' = IF WithoutNul' THEN 0 ELSE CutsIn(log') * B
        /\ WithoutNul' => MostCut = 0
    BY <1>8 DEF MostCut
  <2>4. c * B \in Int /\ (c + 1) * B = c * B + B
    <3> HIDE DEF B, c
    <3> QED
      BY <1>11, <2>2
  <2> QED
    BY <2>1, <2>2, <2>3, <2>4
<1>17. \A g, d \in Nat, more \in Int :
         r = g + d /\ MostCut + d <= more => Balanced(b, more, l + m, g)
  <2> SUFFICES ASSUME NEW g \in Nat, NEW d \in Nat, NEW more \in Int,
                      r = g + d, MostCut + d <= more
               PROVE  Balanced(b, more, l + m, g)
    OBVIOUS
  <2>1. MostCut \in Int
    BY <1>16
  <2>2. h + m = k + (g + d)
    BY <1>13
  <2> HIDE DEF a, b, c, l, h, m, k, r
  <2> QED
    BY <1>11, <1>12, <1>14, <2>1, <2>2, BooksKept
<1>18. /\ log' = Filter'.log /\ log' \in Seq(Message) /\ ~buried'
       /\ Accounted' = Acc(Filter')
  <2>1. log' \in Seq(Message)
    BY DEF TypeOK
  <2>2. (log \in Seq(Message) => /\ ~buried => Accounted = Acc(Filter)
                                 /\ buried => Accounted = LinesIn(log) + Noted(log) + 0)'
    BY AccountedIs, PTL
  <2> QED
    BY <1>1, <2>1, <2>2 DEF Filter
<1>19. CASE TooLong(rest)
  <2>1. Filter' = Cut(f, cut) /\ held' = << >>
    BY <1>3, <1>19
  <2>2. /\ CutsIn(Cut(f, cut).log) = c + 1 /\ Acc(Cut(f, cut)) = b /\ Sane(Cut(f, cut))
    BY <1>3, <1>9, CutAccounts
  <2>3. CutsIn(log') = c + 1 /\ Accounted' = b /\ Sane(Filter')
    BY <1>18, <2>1, <2>2
  <2>4. held' \in Text /\ Count(held', {NL}) = 0
    <3>1. << >> \in Text
      BY DEF Text
    <3>2. Count(<< >>, {NL}) = 0
      BY <3>1, TextNoLines
    <3> QED
      BY <2>1, <3>1, <3>2
  <2>5. r <= B
    BY <1>2, <1>6, <1>19, LittleIsCut DEF rest, seen
  <2>6. MostCut + r <= MostCut' /\ MostCut' \in Int
    <3>1. MostCut' = IF WithoutNul' THEN 0 ELSE c * B + B
      BY <1>16, <2>3
    <3> DEFINE e == c * B
               p == MostCut
               q == MostCut'
    <3>2. /\ p \in Nat /\ p <= e /\ e \in Int /\ B \in Nat /\ r \in Nat /\ r <= B
          /\ (q = 0 /\ p = 0 /\ r = 0) \/ q = e + B
      BY <1>11, <1>15, <1>16, <2>5, <3>1
    <3> HIDE DEF e, p, q, r, B
    <3>3. p + r <= q /\ q \in Int
      BY <3>2
    <3> QED
      BY <3>3 DEF p, q, r
  <2>7. Balanced(b, MostCut', l + m, 0)
    <3> DEFINE q == MostCut'
    <3>1. r = 0 + r /\ r \in Nat /\ MostCut + r <= q /\ q \in Int
      BY <1>11, <2>6
    <3> HIDE DEF b, l, m, r, q
    <3>2. Balanced(b, q, l + m, 0)
      BY <1>17, <3>1
    <3> QED
      BY <3>2 DEF q
  <2>8. Count(Consumed', {NL}) = l + m
    BY <1>10
  <2> QED
    BY <2>3, <2>4, <2>7, <2>8
<1>20. CASE ~TooLong(rest)
  <2>1. Filter' = f /\ held' = rest
    BY <1>3, <1>20
  <2>2. CutsIn(log') = c /\ Accounted' = b /\ Sane(Filter')
    BY <1>9, <1>18, <2>1
  <2>3. MostCut <= MostCut' /\ MostCut' \in Int
    <3> DEFINE e == c * B
               p == MostCut
               q == MostCut'
    <3>1. /\ p \in Nat /\ p <= e /\ e \in Int
          /\ (q = 0 /\ p = 0) \/ q = e
      BY <1>16, <2>2
    <3> HIDE DEF e, p, q
    <3>2. p <= q /\ q \in Int
      BY <3>1
    <3> QED
      BY <3>2 DEF p, q
  <2>4. Balanced(b, MostCut', l + m, r)
    <3> DEFINE q == MostCut'
    <3>1. r = r + 0 /\ r \in Nat /\ MostCut + 0 <= q /\ q \in Int
      BY <1>11, <1>16, <2>3
    <3> HIDE DEF b, l, m, r, q
    <3>2. Balanced(b, q, l + m, r)
      BY <1>17, <3>1
    <3> QED
      BY <3>2 DEF q
  <2>5. Count(Consumed', {NL}) = l + m /\ Count(held', {NL}) = r
    BY <1>10, <2>1
  <2> QED
    BY <1>8, <2>1, <2>2, <2>4, <2>5
<1> QED
  BY <1>19, <1>20

(* jpl_zombies_bury() tells what is pending. *)
LEMMA BooksBury ==
  ASSUME AccountInv, TypeOK', Bury
  PROVE  Accounted' = Accounted /\ CutsIn(log') = CutsIn(log)
<1>1. /\ TypeOK /\ ~buried /\ buried' = TRUE /\ log' = EndRepeat(Filter)
      /\ log \in Seq(Message) /\ log' \in Seq(Message) /\ Filter \in FilterState
  BY FilterType DEF AccountInv, ReaderInv, TypeOK, Bury
<1>2. Filter.log = log
  BY DEF Filter
<1>3. /\ LinesIn(log') = LinesIn(log) /\ CutsIn(log') = CutsIn(log)
      /\ Noted(log') = Noted(log) + Pending(Filter)
  BY <1>1, <1>2, EndRepeatAccounts
<1>4. (log \in Seq(Message) => /\ ~buried => Accounted = Acc(Filter)
                               /\ buried => Accounted = LinesIn(log) + Noted(log) + 0)'
  BY AccountedIs, PTL
<1>5. Accounted' = LinesIn(log') + Noted(log') + 0
  BY <1>1, <1>4
<1>6. Accounted = LinesIn(log) + Noted(log) + Pending(Filter)
  BY <1>1, <1>2, AccountedIs DEF Acc
<1>7. LinesIn(log) \in Int /\ Noted(log) \in Int /\ Pending(Filter) \in Int
  <2>1. LinesIn(log) \in Nat /\ Noted(log) \in Int
    BY <1>1, AccountSteps
  <2>2. Filter.count \in Nat
    BY <1>1, LineReaderAssumption DEF FilterState
  <2> QED
    BY <2>1, <2>2 DEF Pending
<1>8. LinesIn(log) + (Noted(log) + Pending(Filter)) + 0
        = LinesIn(log) + Noted(log) + Pending(Filter)
  BY <1>7
<1> QED
  BY <1>3, <1>5, <1>6, <1>8

(* A step that reads nothing and logs nothing. *)
LEMMA BooksClosed ==
  ASSUME AccountInv, ReaderInv', Consumed' = Consumed,
         UNCHANGED <<held, last_line, repeat_count, log, buried>>
  PROVE  AccountInv'
<1>1. log' = log /\ repeat_count' = repeat_count /\ buried' = buried /\ held' = held
  OBVIOUS
<1>2. Filter' = Filter
  BY DEF Filter
<1>3. Accounted' = Accounted
  <2>1. log \in Seq(Message)
    BY DEF AccountInv, ReaderInv, TypeOK
  <2>2. (log \in Seq(Message) => /\ ~buried => Accounted = Acc(Filter)
                                 /\ buried => Accounted = LinesIn(log) + Noted(log) + 0)'
    BY AccountedIs, PTL
  <2> QED
    BY <1>1, <1>2, <2>1, <2>2, AccountedIs
<1>4. WithoutNul' = WithoutNul
  BY DEF WithoutNul
<1>5. MostCut' = MostCut
  BY <1>1, <1>4 DEF MostCut
<1> QED
  BY <1>1, <1>2, <1>3, <1>4, <1>5 DEF AccountInv

(* Every line the child wrote is in the log, or in the count of a notice,   *)
(* or still to be told, for every size of the buffer and of the count; what *)
(* is lost when the count wraps and behind a NUL is no more than that.      *)
THEOREM EveryLineAccounted == Spec => []LinesAccounted
<1>1. AccountInv /\ [Next]_vars => AccountInv'
  <2> SUFFICES ASSUME AccountInv, [Next]_vars PROVE AccountInv'
    OBVIOUS
  <2>1. ReaderInv' /\ TypeOK' /\ TypeOK /\ RoomToRead
    BY ChunkingNext DEF AccountInv, ReaderInv, TypeOK
  <2>2. ASSUME NEW n \in 1..BufferSize, Read(n) PROVE AccountInv'
    BY <2>1, <2>2, BooksRead DEF AccountInv
  <2>3. ASSUME Bury PROVE AccountInv'
    <3>1. Accounted' = Accounted /\ CutsIn(log') = CutsIn(log)
      BY <2>1, <2>3, BooksBury
    <3>2. buried' /\ held' = held /\ Consumed' = Consumed
      BY <2>3 DEF Bury, Consumed
    <3>3. WithoutNul' = WithoutNul
      BY <3>2 DEF WithoutNul
    <3>4. MostCut' = MostCut
      BY <3>1, <3>3 DEF MostCut
    <3> QED
      BY <2>1, <3>1, <3>2, <3>3, <3>4 DEF AccountInv
  <2>4. ASSUME NEW c \in Char, ChildWrite(c) PROVE AccountInv'
    <3>1. Consumed' = Consumed
      BY <2>1, <2>4, WriteUnread
    <3>2. UNCHANGED <<held, last_line, repeat_count, log, buried>>
      BY <2>4 DEF ChildWrite
    <3> QED
      BY <2>1, <3>1, <3>2, BooksClosed
  <2>5. ASSUME ReadBegin \/ ReadNothing \/ ChildExit \/ UNCHANGED vars PROVE AccountInv'
    <3>1. UNCHANGED <<written, unread, held, last_line, repeat_count, log, buried>>
      BY <2>5 DEF ReadBegin, ReadNothing, ChildExit, vars
    <3>2. Consumed' = Consumed
      BY <3>1 DEF Consumed
    <3> QED
      BY <2>1, <3>1, <3>2, BooksClosed
  <2> QED
    BY <2>2, <2>3, <2>4, <2>5 DEF Next, Loop
<1> QED
  BY <1>1, BooksInit, BooksSuffice, PTL DEF Spec
=============================================================================
