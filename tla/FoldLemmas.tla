----------------------------- MODULE FoldLemmas -----------------------------
(***************************************************************************)
(* What FoldLeft makes of a sequence, for any step that stays in some set. *)
(* The step is a constant of this module, since no prover instantiates an  *)
(* operator: who folds with an operator of its own takes an instance.  Its *)
(* first argument is the same in all steps of a fold.                      *)
(***************************************************************************)
EXTENDS DataLemmas

CONSTANT Step(_, _, _)

Fold(d, b, s) == FoldLeft(LAMBDA x, c : Step(d, x, c), b, s)

(* The recursive function in the definition of FoldLeft: f exists if every  *)
(* step F stays in X.                                                       *)
FoldsBy(f, m, b, F) ==
  f = [s \in SUBSET (1..m) |->
         IF s = {} THEN b ELSE F[<<f[s \ {Max(s)}], Max(s)>>]]

LEMMA FoldExists ==
  ASSUME NEW n \in Nat, NEW X, NEW b \in X, NEW F \in [X \X (1..n) -> X]
  PROVE  \E f \in [SUBSET (1..n) -> X] : FoldsBy(f, n, b, F)
<1> DEFINE Exists(m) == \E f \in [SUBSET (1..m) -> X] : FoldsBy(f, m, b, F)
           P == {m \in Nat : m <= n => Exists(m)}
<1>1. Exists(0)
  <2> DEFINE f == [s \in SUBSET (1..0) |-> b]
  <2>1. SUBSET (1..0) = {{}}
    <3>1. 1..0 = {}
      OBVIOUS
    <3> QED
      BY <3>1
  <2>2. f \in [SUBSET (1..0) -> X] /\ FoldsBy(f, 0, b, F)
    BY <2>1 DEF FoldsBy
  <2> QED
    BY <2>2
<1>2. ASSUME NEW m \in Nat, Exists(m), m + 1 <= n PROVE Exists(m + 1)
  <2>1. PICK f \in [SUBSET (1..m) -> X] : FoldsBy(f, m, b, F)
    BY <1>2
  <2> DEFINE g == [s \in SUBSET (1..m+1) |->
                     IF m + 1 \in s THEN F[<<f[s \ {m + 1}], m + 1>>] ELSE f[s]]
  <2>2. \A s \in SUBSET (1..m+1) : s \ {m + 1} \in SUBSET (1..m)
    OBVIOUS
  <2>3. \A s \in SUBSET (1..m+1) : m + 1 \notin s => s \in SUBSET (1..m)
    OBVIOUS
  <2>4. m + 1 \in 1..n
    BY <1>2
  <2>5. g \in [SUBSET (1..m+1) -> X]
    BY <2>2, <2>3, <2>4
  <2>6. \A s \in SUBSET (1..m+1) : m + 1 \notin s => g[s] = f[s]
    OBVIOUS
  <2>7. \A s \in SUBSET (1..m+1) : m + 1 \in s => g[s] = F[<<f[s \ {m + 1}], m + 1>>]
    OBVIOUS
  <2> HIDE DEF g
  <2>8. ASSUME NEW s \in SUBSET (1..m+1)
        PROVE  g[s] = IF s = {} THEN b ELSE F[<<g[s \ {Max(s)}], Max(s)>>]
    <3>1. CASE m + 1 \in s
      <4>1. Max(s) = m + 1
        <5>1. m + 1 \in Nat \ {0}
          OBVIOUS
        <5> HIDE DEF P
        <5> QED
          BY <5>1, <3>1, MaxOfInterval
      <4>2. g[s \ {m + 1}] = f[s \ {m + 1}]
        BY <2>6
      <4> QED
        BY <3>1, <4>1, <4>2, <2>7
    <3>2. CASE m + 1 \notin s
      <4>1. s \in SUBSET (1..m) /\ g[s] = f[s]
        BY <3>2, <2>3, <2>6
      <4>2. f[s] = IF s = {} THEN b ELSE F[<<f[s \ {Max(s)}], Max(s)>>]
        BY <4>1, <2>1 DEF FoldsBy
      <4>3. s \ {Max(s)} \in SUBSET (1..m+1) /\ m + 1 \notin s \ {Max(s)}
        BY <3>2
      <4>4. g[s \ {Max(s)}] = f[s \ {Max(s)}]
        BY <4>3, <2>6
      <4> QED
        BY <4>1, <4>2, <4>4
    <3> QED
      BY <3>1, <3>2
  <2>9. FoldsBy(g, m + 1, b, F)
    BY <2>5, <2>8 DEF FoldsBy
  <2> QED
    BY <2>5, <2>9
<1> HIDE DEF Exists
<1>3. ASSUME NEW m \in Nat, m \in P PROVE m + 1 \in P
  <2>1. CASE m + 1 <= n
    BY <2>1, <1>2, <1>3
  <2>2. CASE ~(m + 1 <= n)
    BY <2>2
  <2> QED
    BY <2>1, <2>2
<1>4. 0 \in P
  BY <1>1
<1>5. Nat \subseteq P
  <2> HIDE DEF P
  <2> QED
    BY <1>3, <1>4, Induction
<1>6. Exists(n)
  BY <1>5
<1> QED
  BY <1>6 DEF Exists

(* The step stays in X, whatever comes from C. *)
StaysIn(d, X, C) == \A x \in X, c \in C : Step(d, x, c) \in X

(* T is the course of a fold. *)
FoldsThrough(T, X, d, b, s) ==
  /\ T \in [0..Len(s) -> X] /\ T[0] = b
  /\ \A i \in 1..Len(s) : T[i] = Step(d, T[i - 1], s[i])
  /\ Fold(d, b, s) = T[Len(s)]

(* What FoldLeft does, step by step. *)
LEMMA FoldTrace ==
  ASSUME NEW d, NEW X, NEW b \in X, NEW C, NEW s \in Seq(C),
         StaysIn(d, X, C)
  PROVE  \E T : FoldsThrough(T, X, d, b, s)
<1> DEFINE n == Len(s)
           F == [p \in X \X (1..n) |-> Step(d, p[1], s[p[2]])]
           Folds(f) == f = [t \in SUBSET DOMAIN s |->
                         IF t = {} THEN b ELSE Step(d, f[t \ {Max(t)}], s[Max(t)])]
           g == CHOOSE f : Folds(f)
<1>1. n \in Nat /\ DOMAIN s = 1..n /\ \A i \in 1..n : s[i] \in C
  OBVIOUS
<1>2. F \in [X \X (1..n) -> X]
  BY <1>1 DEF StaysIn
<1>3. PICK f \in [SUBSET (1..n) -> X] : FoldsBy(f, n, b, F)
  BY <1>1, <1>2, FoldExists
<1>4. Folds(f)
  <2>1. ASSUME NEW t \in SUBSET (1..n), t # {}
        PROVE  F[<<f[t \ {Max(t)}], Max(t)>>] = Step(d, f[t \ {Max(t)}], s[Max(t)])
    <3>1. Max(t) \in 1..n /\ t \ {Max(t)} \in SUBSET (1..n)
      BY <1>1, <2>1, MaxOfNaturals
    <3>2. f[t \ {Max(t)}] \in X
      BY <3>1, <1>3
    <3> QED
      BY <3>1, <3>2
  <2> HIDE DEF F
  <2> QED
    BY <1>1, <1>3, <2>1 DEF FoldsBy
<1>5. Folds(g)
  <2> HIDE DEF Folds
  <2> QED
    BY <1>4
<1>6. Fold(d, b, s) = g[DOMAIN s]
  BY DEF Fold, FoldLeft, MapThenFoldSet
<1> DEFINE T == [i \in 0..n |-> g[1..i]]
<1>7. T[0] = b
  <2>1. 1..0 = {} /\ {} \in SUBSET DOMAIN s
    BY <1>1
  <2>2. g[{}] = b
    BY <1>5, <2>1
  <2> HIDE DEF g
  <2> QED
    BY <1>1, <2>1, <2>2
<1>8. ASSUME NEW i \in 1..n PROVE T[i] = Step(d, T[i - 1], s[i])
  <2>1. 1..i \in SUBSET (1..n) /\ 1..i # {} /\ (1..i) \ {i} = 1..(i - 1) /\ i - 1 \in 0..n
    BY <1>1
  <2>2. Max(1..i) = i
    <3>1. i \in Nat \ {0} /\ i \in 1..i
      BY <1>1
    <3> QED
      BY <3>1, MaxOfInterval
  <2>3. g[1..i] = Step(d, g[(1..i) \ {Max(1..i)}], s[Max(1..i)])
    <3> HIDE DEF g
    <3> QED
      BY <1>1, <1>5, <2>1
  <2> HIDE DEF g
  <2>4. T[i] = g[1..i] /\ T[i - 1] = g[1..(i - 1)]
    BY <1>1, <2>1
  <2> QED
    BY <2>1, <2>2, <2>3, <2>4
<1>9. T[n] = g[DOMAIN s]
  <2> HIDE DEF g
  <2> QED
    BY <1>1
<1>10. ASSUME NEW i \in 0..n PROVE T[i] \in X
  <2> DEFINE P == {m \in Nat : m <= n => T[m] \in X}
  <2> HIDE DEF T
  <2>1. 0 \in P
    BY <1>7
  <2>2. ASSUME NEW m \in Nat, m \in P PROVE m + 1 \in P
    <3>1. CASE m + 1 <= n
      <4>1. m + 1 \in 1..n /\ (m + 1) - 1 = m /\ T[m] \in X
        BY <2>2, <3>1
      <4>2. T[m + 1] = Step(d, T[m], s[m + 1]) /\ s[m + 1] \in C
        BY <1>1, <1>8, <4>1
      <4>3. T[m + 1] \in X
        BY <4>1, <4>2 DEF StaysIn
      <4> QED
        BY <4>3
    <3>2. CASE ~(m + 1 <= n)
      BY <3>2, <1>1
    <3> QED
      BY <3>1, <3>2
  <2>3. Nat \subseteq P
    <3> HIDE DEF P
    <3> QED
      BY <2>1, <2>2, Induction
  <2> QED
    BY <2>3, <1>1
<1>11. T \in [0..n -> X]
  BY <1>10
<1> HIDE DEF T, g
<1> QED
  BY <1>1, <1>6, <1>7, <1>8, <1>9, <1>11 DEF FoldsThrough

(* A fold takes one element at a time. *)
GoesStepwise(d, X, C, b) ==
  /\ Fold(d, b, << >>) = b
  /\ \A s \in Seq(C) : Fold(d, b, s) \in X
  /\ \A s \in Seq(C), c \in C : Fold(d, b, Append(s, c)) = Step(d, Fold(d, b, s), c)

(* It does, as long as the step stays in X. *)
LEMMA FoldSteps ==
  ASSUME NEW d, NEW X, NEW b \in X, NEW C, StaysIn(d, X, C)
  PROVE  GoesStepwise(d, X, C, b)
<1>1. Fold(d, b, << >>) = b
  <2>1. << >> \in Seq(C) /\ Len(<< >>) = 0
    OBVIOUS
  <2>2. PICK T : FoldsThrough(T, X, d, b, << >>)
    BY <2>1, FoldTrace
  <2> QED
    BY <2>1, <2>2 DEF FoldsThrough
<1>2. ASSUME NEW s \in Seq(C) PROVE Fold(d, b, s) \in X
  <2>1. Len(s) \in 0..Len(s)
    OBVIOUS
  <2>2. PICK T : FoldsThrough(T, X, d, b, s)
    BY FoldTrace
  <2> QED
    BY <2>1, <2>2 DEF FoldsThrough
<1>3. ASSUME NEW s \in Seq(C), NEW c \in C
      PROVE  Fold(d, b, Append(s, c)) = Step(d, Fold(d, b, s), c)
  <2> DEFINE n == Len(s)
             t == Append(s, c)
  <2>1. /\ n \in Nat /\ t \in Seq(C) /\ Len(t) = n + 1 /\ t[n + 1] = c
        /\ \A i \in 1..n : t[i] = s[i]
    OBVIOUS
  <2> HIDE DEF t
  <2>2. PICK T : FoldsThrough(T, X, d, b, s)
    BY FoldTrace
  <2>3. PICK U : FoldsThrough(U, X, d, b, t)
    BY <2>1, FoldTrace
  <2>4. \A i \in 1..n : U[i - 1] = T[i - 1] => U[i] = T[i]
    <3>1. \A i \in 1..n : i \in 1..n + 1
      BY <2>1
    <3> QED
      BY <2>1, <2>2, <2>3, <3>1 DEF FoldsThrough
  <2>5. SameUpTo(n, U, T)
    <3>1. U[0] = T[0] /\ n \in Nat
      BY <2>1, <2>2, <2>3 DEF FoldsThrough
    <3> HIDE DEF n
    <3> QED
      BY <2>4, <3>1, SameCourse
  <2>6. U[n] = T[n] /\ U[n + 1] = Step(d, U[n], c)
    <3>1. n \in 0..n /\ n + 1 \in 1..n + 1 /\ (n + 1) - 1 = n
      BY <2>1
    <3> QED
      BY <2>1, <2>3, <2>5, <3>1 DEF FoldsThrough, SameUpTo
  <2> QED
    BY <2>1, <2>2, <2>3, <2>6 DEF t, FoldsThrough
<1> QED
  BY <1>1, <1>2, <1>3 DEF GoesStepwise

(* One sequence after the other. *)
LEMMA FoldConcat ==
  ASSUME NEW d, NEW X, NEW b \in X, NEW C, StaysIn(d, X, C),
         NEW s \in Seq(C)
  PROVE  \A t \in Seq(C) : Fold(d, b, s \o t) = Fold(d, Fold(d, b, s), t)
<1> DEFINE a == Fold(d, b, s)
           P == {t \in Seq(C) : Fold(d, b, s \o t) = Fold(d, a, t)}
<1>s. \A x \in X : GoesStepwise(d, X, C, x)
  BY FoldSteps
<1>1. a \in X
  BY <1>s DEF GoesStepwise
<1>0. ASSUME NEW x \in X, NEW u \in Seq(C), NEW c \in C
      PROVE  Fold(d, x, Append(u, c)) = Step(d, Fold(d, x, u), c)
  <2>1. \A t \in Seq(C), e \in C : Fold(d, x, Append(t, e)) = Step(d, Fold(d, x, t), e)
    BY <1>s DEF GoesStepwise
  <2> QED
    BY <2>1
<1> HIDE DEF a
<1>2. << >> \in P
  <2>1. s \o << >> = s /\ << >> \in Seq(C)
    OBVIOUS
  <2>2. Fold(d, a, << >>) = a
    BY <1>1, <1>s DEF GoesStepwise
  <2> QED
    BY <2>1, <2>2 DEF a
<1>3. ASSUME NEW t \in Seq(C), NEW c \in C, t \in P PROVE Append(t, c) \in P
  <2>1. s \o Append(t, c) = Append(s \o t, c) /\ s \o t \in Seq(C) /\ Append(t, c) \in Seq(C)
    OBVIOUS
  <2>2. Fold(d, b, Append(s \o t, c)) = Step(d, Fold(d, b, s \o t), c)
    <3> DEFINE u == s \o t
    <3>1. u \in Seq(C)
      BY <2>1
    <3> HIDE DEF u
    <3>2. Fold(d, b, Append(u, c)) = Step(d, Fold(d, b, u), c)
      BY <1>0, <3>1
    <3> QED
      BY <3>2 DEF u
  <2>3. Fold(d, a, Append(t, c)) = Step(d, Fold(d, a, t), c)
    BY <1>0, <1>1
  <2> QED
    BY <1>3, <2>1, <2>2, <2>3
<1>4. Seq(C) \subseteq P
  <2> HIDE DEF P
  <2> QED
    BY <1>2, <1>3, SequenceInduction
<1> QED
  BY <1>4 DEF a
=============================================================================
