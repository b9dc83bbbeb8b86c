----------------------------- MODULE DataLemmas -----------------------------
(* Facts about numbers and sequences that the proofs share. *)
EXTENDS SequencesExt, SequenceTheorems, FiniteSetTheorems, TLAPS

(* Every set of natural numbers with an element has a smallest. *)
LEMMA MinOfNaturals ==
  ASSUME NEW S, S \subseteq Nat, S # {}
  PROVE  Min(S) \in S /\ \A x \in S : Min(S) <= x
<1>1. \E x \in S : \A y \in S : ~(<<y, x>> \in OpToRel(<, Nat))
  BY NatLessThanWellFounded, WFMin
<1>2. \A x, y \in Nat : y < x => <<y, x>> \in OpToRel(<, Nat)
  BY DEF OpToRel
<1>3. \E x \in S : \A y \in S : x <= y
  <2>1. PICK x \in S : \A y \in S : ~(<<y, x>> \in OpToRel(<, Nat))
    BY <1>1
  <2>2. \A y \in S : ~(y < x) /\ y \in Nat /\ x \in Nat
    BY <1>2, <2>1
  <2>3. \A y \in S : x <= y
    BY <2>2
  <2> QED
    BY <2>3
<1> QED
  BY <1>3 DEF Min

(* So does one that has a bound have a largest. *)
LEMMA MaxOfNaturals ==
  ASSUME NEW n \in Nat, NEW S, S \subseteq 1..n, S # {}
  PROVE  Max(S) \in S /\ \A x \in S : Max(S) >= x
<1> DEFINE T == {n - x : x \in S}
<1>0. \A x \in S : x \in Int /\ n - x \in Nat
  <2> SUFFICES ASSUME NEW x \in S PROVE x \in Int /\ n - x \in Nat
    OBVIOUS
  <2>1. x \in 1..n
    OBVIOUS
  <2> QED
    BY <2>1
<1>1. T \subseteq Nat /\ T # {}
  BY <1>0
<1>2. PICK m \in T : \A t \in T : m <= t
  BY <1>1, MinOfNaturals
<1>3. PICK x \in S : m = n - x
  BY <1>2
<1>4. ASSUME NEW y \in S PROVE x >= y
  <2>1. m <= n - y
    BY <1>2
  <2>2. x \in Int /\ y \in Int
    BY <1>0
  <2> QED
    BY <1>3, <2>1, <2>2
<1> QED
  BY <1>3, <1>4 DEF Max

(* Induction over the natural numbers, for a set of them. *)
LEMMA Induction ==
  ASSUME NEW P, 0 \in P, \A n \in Nat : n \in P => n + 1 \in P
  PROVE  Nat \subseteq P
<1> SUFFICES ASSUME Nat \ P # {} PROVE FALSE
  OBVIOUS
<1> DEFINE m == Min(Nat \ P)
<1>1. m \in Nat \ P /\ \A x \in Nat \ P : m <= x
  BY MinOfNaturals
<1> HIDE DEF m
<1>2. m - 1 \in Nat /\ m - 1 \notin Nat \ P
  BY <1>1
<1> QED
  BY <1>1, <1>2
-----------------------------------------------------------------------------
(* What is where when element i is taken out of a sequence. *)
LEMMA RemoveAtElements ==
  ASSUME NEW S, NEW s \in Seq(S), NEW i \in DOMAIN s
  PROVE  /\ RemoveAt(s, i) \in Seq(S)
         /\ Len(RemoveAt(s, i)) = Len(s) - 1
         /\ \A k \in 1..Len(s)-1 :
              RemoveAt(s, i)[k] = IF k < i THEN s[k] ELSE s[k + 1]
<1> DEFINE t == RemoveAt(s, i)
           u == SubSeq(s, 1, i - 1)
           v == SubSeq(s, i + 1, Len(s))
<1>1. i \in 1..Len(s) /\ Len(s) \in Nat
  OBVIOUS
<1>2. /\ u \in Seq(S) /\ Len(u) = i - 1
      /\ \A k \in 1..i-1 : u[k] = s[k]
  BY <1>1
<1>3. /\ v \in Seq(S) /\ Len(v) = Len(s) - i
      /\ \A k \in 1..Len(s)-i : v[k] = s[i + k]
  BY <1>1
<1>4. t = u \o v
  BY DEF RemoveAt
<1> HIDE DEF u, v, t
<1>5. /\ t \in Seq(S) /\ Len(t) = Len(u) + Len(v)
      /\ \A k \in 1..Len(u) + Len(v) :
           t[k] = IF k <= Len(u) THEN u[k] ELSE v[k - Len(u)]
  BY <1>2, <1>3, <1>4, ConcatProperties
<1>6. ASSUME NEW k \in 1..Len(s)-1
      PROVE  t[k] = IF k < i THEN s[k] ELSE s[k + 1]
  <2>1. CASE k < i BY <2>1, <1>1, <1>2, <1>3, <1>5, SMTT(30)
  <2>2. CASE ~(k < i)
    <3>1. k - (i - 1) \in 1..Len(s)-i /\ i + (k - (i - 1)) = k + 1
      BY <2>2, <1>1
    <3>2. t[k] = v[k - (i - 1)]
      BY <2>2, <1>1, <1>2, <1>3, <1>5, SMTT(30)
    <3> QED BY <3>1, <3>2, <1>3, <2>2
  <2> QED BY <2>1, <2>2
<1> QED BY <1>1, <1>2, <1>3, <1>5, <1>6 DEF t

(* It takes exactly that element out of the range of a sequence without     *)
(* duplicates, and leaves no duplicates.                                    *)
LEMMA RemoveAtUnlists ==
  ASSUME NEW S, NEW s \in Seq(S), IsInjective(s), NEW i \in DOMAIN s
  PROVE  /\ RemoveAt(s, i) \in Seq(S)
         /\ Len(RemoveAt(s, i)) = Len(s) - 1
         /\ IsInjective(RemoveAt(s, i))
         /\ Range(RemoveAt(s, i)) = Range(s) \ {s[i]}
<1> DEFINE t == RemoveAt(s, i)
<1>1. i \in 1..Len(s) /\ Len(s) \in Nat
  OBVIOUS
<1>2. /\ t \in Seq(S)
      /\ Len(t) = Len(s) - 1
      /\ \A k \in 1..Len(s)-1 : t[k] = IF k < i THEN s[k] ELSE s[k + 1]
  BY RemoveAtElements
<1> HIDE DEF t
<1>3. DOMAIN t = 1..Len(s)-1 /\ DOMAIN s = 1..Len(s)
  BY <1>1, <1>2
<1>4. IsInjective(t)
  <2> SUFFICES ASSUME NEW a \in 1..Len(s)-1, NEW b \in 1..Len(s)-1, t[a] = t[b]
               PROVE  a = b
    BY <1>3 DEF IsInjective
  <2> DEFINE old(k) == IF k < i THEN k ELSE k + 1
  <2>1. old(a) \in 1..Len(s) /\ old(b) \in 1..Len(s)
    BY <1>1
  <2>2. s[old(a)] = t[a] /\ s[old(b)] = t[b]
    BY <1>1, <1>2
  <2>3. old(a) = old(b)
    BY <1>3, <2>1, <2>2 DEF IsInjective
  <2> QED BY <1>1, <2>3
<1>5. Range(t) = Range(s) \ {s[i]}
  <2>1. ASSUME NEW k \in 1..Len(s)-1 PROVE t[k] \in Range(s) \ {s[i]}
    <3>1. PICK j \in 1..Len(s) : t[k] = s[j] /\ j # i
      BY <1>1, <1>2
    <3> QED BY <1>1, <1>3, <3>1 DEF IsInjective, Range
  <2>2. ASSUME NEW k \in 1..Len(s), k # i PROVE \E j \in 1..Len(s)-1 : t[j] = s[k]
    <3>1. CASE k < i BY <3>1, <1>1, <1>2
    <3>2. CASE k > i
      <4>1. k - 1 \in 1..Len(s)-1 /\ t[k - 1] = s[k] BY <3>2, <1>1, <1>2
      <4> QED BY <4>1
    <3> QED BY <2>2, <3>1, <3>2, <1>1
  <2>3. Range(t) \subseteq Range(s) \ {s[i]}
    BY <2>1, <1>3 DEF Range
  <2>4. ASSUME NEW x \in Range(s), x # s[i] PROVE x \in Range(t)
    <3>1. PICK k \in 1..Len(s) : x = s[k] BY <1>3 DEF Range
    <3>2. PICK j \in 1..Len(s)-1 : t[j] = x BY <2>2, <2>4, <3>1
    <3> QED BY <3>2, <1>3 DEF Range
  <2> QED BY <2>3, <2>4
<1> QED BY <1>2, <1>4, <1>5 DEF t

(* Adding an element that is not in a sequence without duplicates. *)
LEMMA AppendUnlisted ==
  ASSUME NEW S, NEW s \in Seq(S), IsInjective(s), NEW x \in S, x \notin Range(s)
  PROVE  /\ Append(s, x) \in Seq(S)
         /\ IsInjective(Append(s, x))
         /\ Range(Append(s, x)) = Range(s) \cup {x}
<1> DEFINE t == Append(s, x)
<1>1. /\ t \in Seq(S)
      /\ Len(t) = Len(s) + 1
      /\ Len(s) \in Nat
      /\ \A k \in 1..Len(s) : t[k] = s[k]
      /\ t[Len(s) + 1] = x
  OBVIOUS
<1>2. DOMAIN t = 1..Len(s) + 1 /\ DOMAIN s = 1..Len(s)
  BY <1>1
<1>3. IsInjective(t)
  <2> SUFFICES ASSUME NEW a \in 1..Len(s)+1, NEW b \in 1..Len(s)+1, t[a] = t[b]
               PROVE  a = b
    BY <1>1, <1>2 DEF IsInjective
  <2>1. \A k \in 1..Len(s) : s[k] # x
    BY <1>2 DEF Range
  <2> QED BY <2>1, <1>1, <1>2 DEF IsInjective
<1>4. Range(t) = Range(s) \cup {x}
  <2>1. ASSUME NEW k \in 1..Len(s)+1 PROVE t[k] \in Range(s) \cup {x}
    BY <1>1, <1>2 DEF Range
  <2>2. ASSUME NEW k \in 1..Len(s) PROVE \E j \in 1..Len(s)+1 : t[j] = s[k]
    BY <1>1
  <2>3. \E j \in 1..Len(s)+1 : t[j] = x
    BY <1>1
  <2> QED BY <2>1, <2>2, <2>3, <1>2 DEF Range
<1>5. QED BY <1>1, <1>3, <1>4

(* What is where when an element is put in at place i. *)
LEMMA InsertAtElements ==
  ASSUME NEW S, NEW s \in Seq(S), NEW i \in 1..Len(s) + 1, NEW x \in S
  PROVE  /\ InsertAt(s, i, x) \in Seq(S)
         /\ Len(InsertAt(s, i, x)) = Len(s) + 1
         /\ \A k \in 1..Len(s) + 1 :
              InsertAt(s, i, x)[k] = IF k < i THEN s[k]
                                     ELSE IF k = i THEN x ELSE s[k - 1]
<1> DEFINE t == InsertAt(s, i, x)
           u == SubSeq(s, 1, i - 1)
           v == SubSeq(s, i, Len(s))
           w == u \o <<x>>
<1>1. i \in 1..Len(s) + 1 /\ Len(s) \in Nat
  OBVIOUS
<1>2. /\ u \in Seq(S) /\ Len(u) = i - 1
      /\ \A k \in 1..i-1 : u[k] = s[k]
  BY <1>1
<1>3. /\ v \in Seq(S) /\ Len(v) = Len(s) - i + 1
      /\ \A k \in 1..Len(s)-i+1 : v[k] = s[i + k - 1]
  BY <1>1
<1>4. /\ w \in Seq(S) /\ Len(w) = i
      /\ \A k \in 1..i : w[k] = IF k < i THEN u[k] ELSE x
  <2> HIDE DEF u
  <2> QED
    BY <1>1, <1>2
<1>5. t = w \o v
  BY DEF InsertAt
<1> HIDE DEF u, v, w, t
<1>6. /\ t \in Seq(S) /\ Len(t) = Len(w) + Len(v)
      /\ \A k \in 1..Len(w) + Len(v) :
           t[k] = IF k <= Len(w) THEN w[k] ELSE v[k - Len(w)]
  BY <1>3, <1>4, <1>5, ConcatProperties
<1>7. ASSUME NEW k \in 1..Len(s) + 1
      PROVE  t[k] = IF k < i THEN s[k] ELSE IF k = i THEN x ELSE s[k - 1]
  <2>1. CASE k <= i
    BY <2>1, <1>1, <1>2, <1>3, <1>4, <1>6
  <2>2. CASE k > i
    <3>1. k - i \in 1..Len(s)-i+1 /\ i + (k - i) - 1 = k - 1
      BY <2>2, <1>1
    <3>2. t[k] = v[k - i]
      BY <2>2, <1>1, <1>3, <1>4, <1>6
    <3> QED
      BY <3>1, <3>2, <1>3, <2>2
  <2> QED
    BY <2>1, <2>2, <1>1
<1> QED
  BY <1>1, <1>3, <1>4, <1>6, <1>7 DEF t

(* It is the only one that comes, and makes no duplicate if it is new. *)
LEMMA InsertAtLists ==
  ASSUME NEW S, NEW s \in Seq(S), NEW i \in 1..Len(s) + 1, NEW x \in S
  PROVE  /\ Range(InsertAt(s, i, x)) = Range(s) \cup {x}
         /\ IsInjective(s) /\ x \notin Range(s) => IsInjective(InsertAt(s, i, x))
<1> DEFINE t == InsertAt(s, i, x)
           old(k) == IF k < i THEN k ELSE k - 1
<1>1. i \in 1..Len(s) + 1 /\ Len(s) \in Nat
  OBVIOUS
<1> HIDE DEF t
<1>2. /\ t \in Seq(S) /\ Len(t) = Len(s) + 1
      /\ \A k \in 1..Len(s) + 1 :
           t[k] = IF k < i THEN s[k] ELSE IF k = i THEN x ELSE s[k - 1]
  <2>1. t \in Seq(S)
    BY InsertAtElements DEF t
  <2>2. Len(t) = Len(s) + 1
    BY InsertAtElements DEF t
  <2>3. ASSUME NEW k \in 1..Len(s) + 1
        PROVE  t[k] = IF k < i THEN s[k] ELSE IF k = i THEN x ELSE s[k - 1]
    BY InsertAtElements DEF t
  <2> QED
    BY <2>1, <2>2, <2>3
<1>3. DOMAIN t = 1..Len(s) + 1 /\ DOMAIN s = 1..Len(s)
  BY <1>1, <1>2
<1>4. \A k \in 1..Len(s) + 1 : k # i => old(k) \in 1..Len(s) /\ t[k] = s[old(k)]
  BY <1>1, <1>2
<1>5. t[i] = x
  BY <1>1, <1>2
<1>6. Range(t) = Range(s) \cup {x}
  <2>1. \A k \in 1..Len(s) + 1 : t[k] \in Range(s) \cup {x}
    BY <1>3, <1>4, <1>5 DEF Range
  <2>2. ASSUME NEW k \in 1..Len(s) PROVE \E j \in 1..Len(s) + 1 : t[j] = s[k]
    <3>1. CASE k < i
      BY <3>1, <1>1, <1>2
    <3>2. CASE k >= i
      <4>1. k + 1 \in 1..Len(s) + 1 /\ t[k + 1] = s[(k + 1) - 1] /\ (k + 1) - 1 = k
        BY <3>2, <1>1, <1>2
      <4> QED
        BY <4>1
    <3> QED
      BY <3>1, <3>2, <1>1
  <2>3. x \in Range(t)
    BY <1>1, <1>3, <1>5 DEF Range
  <2> QED
    BY <2>1, <2>2, <2>3, <1>3 DEF Range
<1>7. ASSUME IsInjective(s), x \notin Range(s) PROVE IsInjective(t)
  <2> SUFFICES ASSUME NEW a \in 1..Len(s) + 1, NEW b \in 1..Len(s) + 1, t[a] = t[b]
               PROVE  a = b
    BY <1>3 DEF IsInjective
  <2>1. \A k \in 1..Len(s) : s[k] # x
    BY <1>3, <1>7 DEF Range
  <2>2. a # i /\ b # i => old(a) = old(b)
    BY <1>3, <1>4, <1>7 DEF IsInjective
  <2>3. a = i <=> b = i
    BY <2>1, <1>4, <1>5
  <2> QED
    BY <2>2, <2>3, <1>1
<1> QED
  BY <1>6, <1>7 DEF t

(* Another element at place i. *)
LEMMA ReplaceAtLists ==
  ASSUME NEW S, NEW s \in Seq(S), IsInjective(s), NEW i \in DOMAIN s,
         NEW x \in S, x \notin Range(s)
  PROVE  /\ ReplaceAt(s, i, x) \in Seq(S)
         /\ Len(ReplaceAt(s, i, x)) = Len(s)
         /\ \A k \in 1..Len(s) : ReplaceAt(s, i, x)[k] = IF k = i THEN x ELSE s[k]
         /\ IsInjective(ReplaceAt(s, i, x))
         /\ Range(ReplaceAt(s, i, x)) = (Range(s) \ {s[i]}) \cup {x}
<1> DEFINE t == ReplaceAt(s, i, x)
<1>1. /\ t \in Seq(S) /\ Len(t) = Len(s) /\ Len(s) \in Nat
      /\ \A k \in 1..Len(s) : t[k] = IF k = i THEN x ELSE s[k]
  BY DEF ReplaceAt
<1> HIDE DEF t
<1>2. DOMAIN t = 1..Len(s) /\ DOMAIN s = 1..Len(s) /\ i \in 1..Len(s)
  BY <1>1
<1>3. \A k \in 1..Len(s) : s[k] # x
  BY <1>2 DEF Range
<1>4. IsInjective(t)
  BY <1>1, <1>2, <1>3 DEF IsInjective
<1>5. Range(t) = (Range(s) \ {s[i]}) \cup {x}
  BY <1>1, <1>2, <1>3 DEF IsInjective, Range
<1> QED
  BY <1>1, <1>4, <1>5 DEF t
-----------------------------------------------------------------------------
(* The largest number of an interval, and of a set that has the largest.    *)
LEMMA MaxOfInterval ==
  ASSUME NEW n \in Nat \ {0}, NEW S, S \subseteq 1..n, n \in S
  PROVE  Max(S) = n
<1>1. Max(S) \in S /\ Max(S) >= n
  BY MaxOfNaturals
<1>2. Max(S) \in 1..n
  BY <1>1
<1> QED
  BY <1>1, <1>2

(* What holds of the empty sequence and stays when an element is appended   *)
(* holds of every sequence.                                                 *)
LEMMA SequenceInduction ==
  ASSUME NEW C, NEW P, << >> \in P,
         \A s \in Seq(C), c \in C : s \in P => Append(s, c) \in P
  PROVE  Seq(C) \subseteq P
<1> DEFINE Q == {m \in Nat : \A s \in Seq(C) : Len(s) = m => s \in P}
<1>1. 0 \in Q
  <2>1. \A s \in Seq(C) : Len(s) = 0 => s = << >>
    OBVIOUS
  <2> QED
    BY <2>1
<1>2. ASSUME NEW m \in Nat, m \in Q PROVE m + 1 \in Q
  <2> SUFFICES ASSUME NEW s \in Seq(C), Len(s) = m + 1 PROVE s \in P
    OBVIOUS
  <2> DEFINE u == SubSeq(s, 1, m)
             c == s[m + 1]
  <2>1. u \in Seq(C) /\ Len(u) = m /\ c \in C /\ \A i \in 1..m : u[i] = s[i]
    OBVIOUS
  <2> HIDE DEF u
  <2>2. Append(u, c) \in Seq(C) /\ Len(Append(u, c)) = m + 1
    BY <2>1
  <2>3. \A i \in 1..m + 1 : Append(u, c)[i] = s[i]
    <3>1. \A i \in 1..m + 1 : i \in 1..m \/ i = m + 1
      OBVIOUS
    <3> QED
      BY <2>1, <3>1
  <2>4. Append(u, c) = s
    BY <2>2, <2>3
  <2>5. u \in P
    BY <1>2, <2>1
  <2> QED
    BY <2>1, <2>4, <2>5
<1>3. Nat \subseteq Q
  <2> HIDE DEF Q
  <2> QED
    BY <1>1, <1>2, Induction
<1>4. \A s \in Seq(C) : Len(s) \in Nat
  OBVIOUS
<1> QED
  BY <1>3, <1>4

SameUpTo(n, T, U) == \A i \in 0..n : T[i] = U[i]

(* Two functions that begin with the same value and go on in the same way.  *)
LEMMA SameCourse ==
  ASSUME NEW n \in Nat, NEW T, NEW U, T[0] = U[0],
         \A i \in 1..n : T[i - 1] = U[i - 1] => T[i] = U[i]
  PROVE  SameUpTo(n, T, U)
<1> DEFINE P == {m \in Nat : m <= n => T[m] = U[m]}
<1>1. 0 \in P
  OBVIOUS
<1>2. ASSUME NEW m \in Nat, m \in P PROVE m + 1 \in P
  <2>1. CASE m + 1 <= n
    <3>1. m + 1 \in 1..n /\ (m + 1) - 1 = m /\ T[m] = U[m]
      BY <1>2, <2>1
    <3>2. T[m + 1] = U[m + 1]
      BY <3>1
    <3> QED
      BY <3>2
  <2>2. CASE ~(m + 1 <= n)
    BY <2>2
  <2> QED
    BY <2>1, <2>2
<1>3. Nat \subseteq P
  <2> HIDE DEF P
  <2> QED
    BY <1>1, <1>2, Induction
<1> QED
  BY <1>3 DEF SameUpTo
-----------------------------------------------------------------------------
(* The recursive function in the definition of FlattenSeq. *)
Flattens(f, s) == f = [i \in 1..Len(s) |-> IF i = 1 THEN s[i] ELSE f[i - 1] \o s[i]]

(* There is one. *)
LEMMA FlattensExists ==
  ASSUME NEW C
  PROVE  \A s \in Seq(Seq(C)) : \E f \in [1..Len(s) -> Seq(C)] : Flattens(f, s)
<1> DEFINE Good(s) == \E f \in [1..Len(s) -> Seq(C)] : Flattens(f, s)
           P == {s \in Seq(Seq(C)) : Good(s)}
<1>1. << >> \in P
  <2>1. << >> \in Seq(Seq(C)) /\ Len(<< >>) = 0 /\ 1..0 = {}
    OBVIOUS
  <2> DEFINE f == [i \in {} |-> << >>]
  <2>2. f \in [1..Len(<< >>) -> Seq(C)] /\ Flattens(f, << >>)
    BY <2>1 DEF Flattens
  <2>3. Good(<< >>)
    BY <2>2
  <2> HIDE DEF Good
  <2> QED
    BY <2>1, <2>3
<1>2. ASSUME NEW s \in Seq(Seq(C)), NEW c \in Seq(C), s \in P PROVE Append(s, c) \in P
  <2> DEFINE n == Len(s)
             t == Append(s, c)
  <2>1. /\ n \in Nat /\ t \in Seq(Seq(C)) /\ Len(t) = n + 1 /\ t[n + 1] = c
        /\ \A i \in 1..n : t[i] = s[i]
    OBVIOUS
  <2>2. PICK f \in [1..n -> Seq(C)] : Flattens(f, s)
    BY <1>2
  <2> HIDE DEF t, n
  <2> DEFINE last == IF n = 0 THEN c ELSE f[n] \o c
             g == [i \in 1..n + 1 |-> IF i = n + 1 THEN last ELSE f[i]]
  <2>3. last \in Seq(C)
    <3>1. n # 0 => n \in 1..n
      BY <2>1
    <3> QED
      BY <2>2, <3>1
  <2> HIDE DEF last
  <2>4. \A i \in 1..n + 1 : i = n + 1 \/ i \in 1..n
    BY <2>1
  <2>5. g \in [1..n + 1 -> Seq(C)]
    BY <2>2, <2>3, <2>4
  <2>6. g[n + 1] = last /\ \A i \in 1..n : g[i] = f[i]
    <3>1. n + 1 \in 1..n + 1 /\ \A i \in 1..n : i \in 1..n + 1 /\ i # n + 1
      BY <2>1
    <3> QED
      BY <3>1
  <2> HIDE DEF g
  <2>7. ASSUME NEW i \in 1..n + 1
        PROVE  g[i] = IF i = 1 THEN t[i] ELSE g[i - 1] \o t[i]
    <3>1. CASE i = n + 1
      <4>1. n = 0 <=> i = 1
        BY <2>1, <3>1
      <4>2. n # 0 => i - 1 = n /\ n \in 1..n
        BY <2>1, <3>1
      <4> QED
        BY <2>1, <2>6, <3>1, <4>1, <4>2 DEF last
    <3>2. CASE i \in 1..n
      <4>1. i # 1 => i - 1 \in 1..n
        BY <2>1, <3>2
      <4>2. f[i] = IF i = 1 THEN s[i] ELSE f[i - 1] \o s[i]
        BY <2>2, <3>2 DEF Flattens, n
      <4> QED
        BY <2>1, <2>6, <3>2, <4>1, <4>2
    <3> QED
      BY <2>4, <3>1, <3>2
  <2>8. Flattens(g, t)
    BY <2>1, <2>5, <2>7 DEF Flattens
  <2>9. Good(t)
    BY <2>1, <2>5, <2>8
  <2> HIDE DEF Good
  <2> QED
    BY <2>1, <2>9 DEF t
<1>3. Seq(Seq(C)) \subseteq P
  <2> HIDE DEF P
  <2> QED
    BY <1>1, <1>2, SequenceInduction
<1> QED
  BY <1>3

(* A sequence that goes on as another does. *)
Begins(s, t) ==
  /\ Len(s) \in Nat /\ Len(t) \in Nat /\ Len(s) <= Len(t)
  /\ \A i \in 1..Len(s) : t[i] = s[i]

(* And one only, whatever comes behind. *)
LEMMA FlattensAgree ==
  ASSUME NEW s, NEW t, Begins(s, t), NEW f, Flattens(f, s), NEW g, Flattens(g, t)
  PROVE  \A i \in 1..Len(s) : f[i] = g[i]
<1> DEFINE Q == {i \in Nat : i + 1 \in 1..Len(s) => f[i + 1] = g[i + 1]}
<1>0. /\ Len(s) \in Nat /\ Len(t) \in Nat /\ Len(s) <= Len(t)
      /\ \A i \in 1..Len(s) : t[i] = s[i]
  BY DEF Begins
<1>1. \A i \in 1..Len(s) :
        /\ f[i] = IF i = 1 THEN s[i] ELSE f[i - 1] \o s[i]
        /\ g[i] = IF i = 1 THEN s[i] ELSE g[i - 1] \o s[i]
  <2>1. \A i \in 1..Len(s) : i \in 1..Len(t)
    BY <1>0
  <2> QED
    BY <1>0, <2>1 DEF Flattens
<1>2. 0 \in Q
  BY <1>1
<1>3. ASSUME NEW i \in Nat, i \in Q PROVE i + 1 \in Q
  <2> SUFFICES ASSUME (i + 1) + 1 \in 1..Len(s) PROVE f[(i + 1) + 1] = g[(i + 1) + 1]
    OBVIOUS
  <2>1. i + 1 \in 1..Len(s) /\ (i + 1) + 1 # 1 /\ ((i + 1) + 1) - 1 = i + 1
    BY <1>0
  <2> QED
    BY <1>1, <1>3, <2>1
<1>4. Nat \subseteq Q
  <2> HIDE DEF Q
  <2> QED
    BY <1>2, <1>3, Induction
<1>5. ASSUME NEW i \in 1..Len(s) PROVE f[i] = g[i]
  <2>1. i - 1 \in Nat /\ (i - 1) + 1 = i
    BY <1>0
  <2>2. i - 1 \in Q
    BY <1>4, <2>1
  <2> QED
    BY <2>1, <2>2
<1> QED
  BY <1>5

(* FlattenSeq takes one sequence at a time. *)
LEMMA FlattenSteps ==
  ASSUME NEW C
  PROVE  /\ FlattenSeq(<< >>) = << >>
         /\ \A s \in Seq(Seq(C)) : FlattenSeq(s) \in Seq(C)
         /\ \A s \in Seq(Seq(C)), c \in Seq(C) :
              FlattenSeq(Append(s, c)) = FlattenSeq(s) \o c
<1>1. FlattenSeq(<< >>) = << >>
  <2>1. Len(<< >>) = 0
    OBVIOUS
  <2> QED
    BY <2>1 DEF FlattenSeq
<1>2. ASSUME NEW s \in Seq(Seq(C))
      PROVE  \E f \in [1..Len(s) -> Seq(C)] :
               /\ Flattens(f, s)
               /\ FlattenSeq(s) = IF Len(s) = 0 THEN s ELSE f[Len(s)]
  <2> DEFINE g == CHOOSE h : Flattens(h, s)
  <2>1. PICK f \in [1..Len(s) -> Seq(C)] : Flattens(f, s)
    BY FlattensExists
  <2>2. Flattens(g, s)
    BY <2>1
  <2>3. FlattenSeq(s) = IF Len(s) = 0 THEN s ELSE g[Len(s)]
    BY DEF FlattenSeq, Flattens
  <2> HIDE DEF g
  <2>4. Len(s) \in Nat /\ (Len(s) # 0 => Len(s) \in 1..Len(s))
    OBVIOUS
  <2>5. \A i \in 1..Len(s) : f[i] = g[i]
    <3>1. Begins(s, s)
      BY <2>4 DEF Begins
    <3> QED
      BY <2>1, <2>2, <3>1, FlattensAgree
  <2> QED
    BY <2>1, <2>3, <2>4, <2>5
<1>3. ASSUME NEW s \in Seq(Seq(C)) PROVE FlattenSeq(s) \in Seq(C)
  <2>1. PICK f \in [1..Len(s) -> Seq(C)] : FlattenSeq(s) = IF Len(s) = 0 THEN s ELSE f[Len(s)]
    BY <1>2
  <2>2. Len(s) = 0 => s = << >>
    OBVIOUS
  <2>3. << >> \in Seq(C) /\ (Len(s) # 0 => Len(s) \in 1..Len(s))
    OBVIOUS
  <2> QED
    BY <2>1, <2>2, <2>3
<1>4. ASSUME NEW s \in Seq(Seq(C)), NEW t \in Seq(Seq(C)), NEW n \in Nat,
             Len(s) = n, Len(t) = n + 1, Begins(s, t)
      PROVE  FlattenSeq(t) = FlattenSeq(s) \o t[n + 1]
  <2>1. PICK f : Flattens(f, s) /\ FlattenSeq(s) = IF n = 0 THEN s ELSE f[n]
    BY <1>2, <1>4
  <2>2. PICK g : Flattens(g, t) /\ FlattenSeq(t) = g[n + 1]
    <3>1. n + 1 # 0
      OBVIOUS
    <3> QED
      BY <1>2, <1>4, <3>1
  <2>3. \A i \in 1..n : f[i] = g[i]
    BY <1>4, <2>1, <2>2, FlattensAgree
  <2>4. g[n + 1] = IF n = 0 THEN t[n + 1] ELSE g[n] \o t[n + 1]
    <3>1. n + 1 \in 1..n + 1 /\ (n + 1 = 1 <=> n = 0) /\ (n + 1) - 1 = n
      OBVIOUS
    <3>2. g[n + 1] = IF n + 1 = 1 THEN t[n + 1] ELSE g[(n + 1) - 1] \o t[n + 1]
      BY <1>4, <2>2, <3>1 DEF Flattens
    <3> QED
      BY <3>1, <3>2
  <2>5. CASE n = 0
    <3>1. s = << >>
      BY <1>4, <2>5
    <3>2. t[n + 1] \in Seq(C)
      BY <1>4
    <3>3. << >> \o t[n + 1] = t[n + 1]
      BY <3>2
    <3> QED
      BY <2>1, <2>2, <2>4, <2>5, <3>1, <3>3
  <2>6. CASE n # 0
    <3>1. n \in 1..n
      BY <2>6
    <3> QED
      BY <2>1, <2>2, <2>3, <2>4, <2>6, <3>1
  <2> QED
    BY <2>5, <2>6
<1>5. ASSUME NEW s \in Seq(Seq(C)), NEW c \in Seq(C)
      PROVE  FlattenSeq(Append(s, c)) = FlattenSeq(s) \o c
  <2>1. ASSUME NEW D, NEW u \in Seq(D), NEW e \in D
        PROVE  /\ Len(u) \in Nat /\ Append(u, e) \in Seq(D) /\ Len(Append(u, e)) = Len(u) + 1
               /\ Append(u, e)[Len(u) + 1] = e /\ Begins(u, Append(u, e))
    <3> DEFINE t == Append(u, e)
    <3>1. /\ Len(u) \in Nat /\ t \in Seq(D) /\ Len(t) = Len(u) + 1
          /\ t[Len(u) + 1] = e /\ \A i \in 1..Len(u) : t[i] = u[i]
      OBVIOUS
    <3> HIDE DEF t
    <3>2. Begins(u, t)
      BY <3>1 DEF Begins
    <3> QED
      BY <3>1, <3>2 DEF t
  <2> DEFINE t == Append(s, c)
  <2>2. /\ Len(s) \in Nat /\ t \in Seq(Seq(C)) /\ Len(t) = Len(s) + 1
        /\ t[Len(s) + 1] = c /\ Begins(s, t)
    BY <2>1
  <2> HIDE DEF t
  <2>3. FlattenSeq(t) = FlattenSeq(s) \o t[Len(s) + 1]
    BY <1>4, <2>2
  <2> QED
    BY <2>2, <2>3 DEF t
<1> QED
  BY <1>1, <1>3, <1>5
=============================================================================
