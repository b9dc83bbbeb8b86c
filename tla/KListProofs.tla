----------------------------- MODULE KListProofs -----------------------------
(***************************************************************************)
(* Theorems of KList, for any number of nodes.  First lemmas on the course *)
(* of a list and on what a store does to it; then the plan of each call:   *)
(* which list each of its stores leaves; then the invariant, action by     *)
(* action, for the lists and for whoever walks them; last the properties   *)
(* that follow from it and the refinement of AtomicList.                   *)
(***************************************************************************)
EXTENDS KListInv, DataLemmas

(* A head and where its list ends. *)
LEMMA Places ==
  /\ \A h \in Heads : h \in Place /\ h \notin Node /\ h # Null /\ h # Poison
  /\ \A n \in Node : n \in Place /\ n \notin Heads /\ n # Null /\ n # Poison
  /\ Null \notin Place /\ Poison \notin Place /\ Poison # Null
  /\ \A p \in Place : p \in Pointer
  /\ Null \in Pointer /\ Poison \in Pointer
BY KListAssumption DEF Place, Pointer, Heads

(* What a walk meets are places, the first is the head, the others nodes.   *)
LEMMA StopPlaces ==
  ASSUME NEW h \in Heads, NEW e \in {h, Null}, NEW s \in Seq(Node)
  PROVE  /\ Len(s) \in Nat
         /\ Stop(h, s, e, 0) = h
         /\ \A i \in 1..Len(s) : Stop(h, s, e, i) = s[i] /\ s[i] \in Node
         /\ \A i \in 0..Len(s) : Stop(h, s, e, i) \in Place
         /\ Stop(h, s, e, Len(s) + 1) = e
<1>1. Len(s) \in Nat /\ \A i \in 1..Len(s) : s[i] \in Node
  OBVIOUS
<1>2. \A i \in 1..Len(s) : Stop(h, s, e, i) = s[i] /\ s[i] \in Node
  BY <1>1 DEF Stop
<1>3. Stop(h, s, e, 0) = h
  BY DEF Stop
<1>4. Stop(h, s, e, Len(s) + 1) = e
  BY <1>1 DEF Stop
<1>5. \A i \in 0..Len(s) : i = 0 \/ i \in 1..Len(s)
  BY <1>1
<1>6. \A i \in 0..Len(s) : Stop(h, s, e, i) \in Place
  BY <1>2, <1>3, <1>5, Places
<1> QED
  BY <1>1, <1>2, <1>3, <1>4, <1>6

(* They are all different, and so are those but the first and the end.      *)
LEMMA StopInjective ==
  ASSUME NEW h \in Heads, NEW e \in {h, Null}, NEW s \in Seq(Node), IsInjective(s)
  PROVE  /\ \A i, j \in 0..Len(s) : Stop(h, s, e, i) = Stop(h, s, e, j) => i = j
         /\ \A i, j \in 1..Len(s) + 1 : Stop(h, s, e, i) = Stop(h, s, e, j) => i = j
<1>1. Len(s) \in Nat /\ DOMAIN s = 1..Len(s)
  OBVIOUS
<1>2. \A i, j \in 1..Len(s) : s[i] = s[j] => i = j
  BY <1>1 DEF IsInjective
<1>3. h \notin Node /\ e \notin Node
  BY Places
<1>4. /\ \A i \in 0..Len(s) : i = 0 \/ i \in 1..Len(s)
      /\ \A i \in 1..Len(s) + 1 : i = Len(s) + 1 \/ i \in 1..Len(s)
  BY <1>1
<1> QED
  BY <1>2, <1>3, <1>4, StopPlaces

(* How the way changes with the list. *)
LEMMA StopInsert ==
  ASSUME NEW h \in Heads, NEW e \in {h, Null}, NEW s \in Seq(Node),
         NEW i \in 1..Len(s) + 1, NEW n \in Node
  PROVE  /\ InsertAt(s, i, n) \in Seq(Node)
         /\ Len(InsertAt(s, i, n)) = Len(s) + 1
         /\ \A k \in 0..i - 1 : Stop(h, InsertAt(s, i, n), e, k) = Stop(h, s, e, k)
         /\ Stop(h, InsertAt(s, i, n), e, i) = n
         /\ \A k \in i + 1..Len(s) + 2 :
              Stop(h, InsertAt(s, i, n), e, k) = Stop(h, s, e, k - 1)
<1> DEFINE t == InsertAt(s, i, n)
<1>1. Len(s) \in Nat /\ i \in 1..Len(s) + 1
  OBVIOUS
<1> HIDE DEF t
<1>2. t \in Seq(Node)
  BY InsertAtElements DEF t
<1>3. Len(t) = Len(s) + 1
  BY InsertAtElements DEF t
<1>4. \A k \in 1..Len(s) + 1 : t[k] = IF k < i THEN s[k] ELSE IF k = i THEN n ELSE s[k - 1]
  BY InsertAtElements DEF t
<1>5. \A k \in 0..i - 1 : Stop(h, t, e, k) = Stop(h, s, e, k)
  BY <1>1, <1>3, <1>4 DEF Stop
<1>6. Stop(h, t, e, i) = n
  BY <1>1, <1>3, <1>4 DEF Stop
<1>7. \A k \in i + 1..Len(s) + 2 : Stop(h, t, e, k) = Stop(h, s, e, k - 1)
  BY <1>1, <1>3, <1>4 DEF Stop
<1> QED
  BY <1>2, <1>3, <1>5, <1>6, <1>7 DEF t

LEMMA StopRemove ==
  ASSUME NEW h \in Heads, NEW e \in {h, Null}, NEW s \in Seq(Node), NEW i \in 1..Len(s)
  PROVE  /\ RemoveAt(s, i) \in Seq(Node)
         /\ Len(RemoveAt(s, i)) = Len(s) - 1
         /\ \A k \in 0..i - 1 : Stop(h, RemoveAt(s, i), e, k) = Stop(h, s, e, k)
         /\ \A k \in i..Len(s) : Stop(h, RemoveAt(s, i), e, k) = Stop(h, s, e, k + 1)
<1> DEFINE t == RemoveAt(s, i)
<1>1. Len(s) \in Nat /\ i \in 1..Len(s) /\ i \in DOMAIN s
  OBVIOUS
<1> HIDE DEF t
<1>2. t \in Seq(Node)
  BY <1>1, RemoveAtElements DEF t
<1>3. Len(t) = Len(s) - 1
  BY <1>1, RemoveAtElements DEF t
<1>4. \A k \in 1..Len(s) - 1 : t[k] = IF k < i THEN s[k] ELSE s[k + 1]
  BY <1>1, RemoveAtElements DEF t
<1>5. \A k \in 0..i - 1 : Stop(h, t, e, k) = Stop(h, s, e, k)
  BY <1>1, <1>3, <1>4 DEF Stop
<1>6. \A k \in i..Len(s) : Stop(h, t, e, k) = Stop(h, s, e, k + 1)
  BY <1>1, <1>3, <1>4 DEF Stop
<1> QED
  BY <1>2, <1>3, <1>5, <1>6 DEF t

LEMMA StopReplace ==
  ASSUME NEW h \in Heads, NEW e \in {h, Null}, NEW s \in Seq(Node),
         NEW i \in 1..Len(s), NEW n \in Node
  PROVE  /\ ReplaceAt(s, i, n) \in Seq(Node)
         /\ Len(ReplaceAt(s, i, n)) = Len(s)
         /\ \A k \in 0..Len(s) + 1 :
              k # i => Stop(h, ReplaceAt(s, i, n), e, k) = Stop(h, s, e, k)
         /\ Stop(h, ReplaceAt(s, i, n), e, i) = n
<1> DEFINE t == ReplaceAt(s, i, n)
<1>1. Len(s) \in Nat /\ i \in 1..Len(s)
  OBVIOUS
<1>2. /\ t \in Seq(Node) /\ Len(t) = Len(s)
      /\ \A k \in 1..Len(s) : t[k] = IF k = i THEN n ELSE s[k]
  BY <1>1 DEF ReplaceAt
<1> HIDE DEF t
<1>3. \A k \in 0..Len(s) + 1 : k # i => Stop(h, t, e, k) = Stop(h, s, e, k)
  BY <1>1, <1>2 DEF Stop
<1>4. Stop(h, t, e, i) = n
  BY <1>1, <1>2 DEF Stop
<1> QED
  BY <1>2, <1>3, <1>4 DEF t
-----------------------------------------------------------------------------
(* How the pointers that lead along a list must change with it. *)

LEMMA LeadsInsert ==
  ASSUME NEW h \in Heads, NEW e \in {h, Null}, NEW s \in Seq(Node),
         NEW i \in 1..Len(s) + 1, NEW n \in Node, NEW mem, NEW new,
         Leads(mem, h, s, e),
         new[Stop(h, s, e, i - 1)] = n, new[n] = Stop(h, s, e, i),
         \A k \in 0..Len(s) : k # i - 1 => new[Stop(h, s, e, k)] = mem[Stop(h, s, e, k)]
  PROVE  Leads(new, h, InsertAt(s, i, n), e)
<1> DEFINE t == InsertAt(s, i, n)
<1>1. Len(s) \in Nat /\ i \in 1..Len(s) + 1
  OBVIOUS
<1>2. /\ Len(t) = Len(s) + 1
      /\ \A k \in 0..i - 1 : Stop(h, t, e, k) = Stop(h, s, e, k)
      /\ Stop(h, t, e, i) = n
      /\ \A k \in i + 1..Len(s) + 2 : Stop(h, t, e, k) = Stop(h, s, e, k - 1)
  BY StopInsert
<1> HIDE DEF t
<1>3. SUFFICES ASSUME NEW k \in 0..Len(s) + 1
               PROVE  new[Stop(h, t, e, k)] = Stop(h, t, e, k + 1)
  BY <1>2 DEF Leads, t
<1>4. \A j \in 0..Len(s) : mem[Stop(h, s, e, j)] = Stop(h, s, e, j + 1)
  BY DEF Leads
<1>5. CASE k < i - 1
  <2>1. k \in 0..i - 1 /\ k + 1 \in 0..i - 1 /\ k \in 0..Len(s) /\ k # i - 1
    BY <1>1, <1>5
  <2> QED
    BY <2>1, <1>2, <1>4
<1>6. CASE k = i - 1
  <2>1. k \in 0..i - 1 /\ k + 1 = i
    BY <1>1, <1>6
  <2> QED
    BY <2>1, <1>2, <1>6
<1>7. CASE k = i
  <2>1. k + 1 \in i + 1..Len(s) + 2 /\ (k + 1) - 1 = i
    BY <1>1, <1>7
  <2> QED
    BY <2>1, <1>2, <1>7
<1>8. CASE k > i
  <2>1. /\ k \in i + 1..Len(s) + 2 /\ k + 1 \in i + 1..Len(s) + 2
        /\ k - 1 \in 0..Len(s) /\ k - 1 # i - 1 /\ (k + 1) - 1 = k /\ (k - 1) + 1 = k
    BY <1>1, <1>8
  <2> QED
    BY <2>1, <1>2, <1>4
<1> QED
  BY <1>1, <1>5, <1>6, <1>7, <1>8

LEMMA BacksInsert ==
  ASSUME NEW h \in Heads, NEW e \in {h, Null}, NEW s \in Seq(Node),
         NEW i \in 1..Len(s) + 1, NEW n \in Node, NEW mem, NEW new,
         Backs(mem, h, s, e),
         new[n] = Stop(h, s, e, i - 1),
         Stop(h, s, e, i) # Null => new[Stop(h, s, e, i)] = n,
         \A k \in 1..Len(s) + 1 : k # i /\ Stop(h, s, e, k) # Null =>
           new[Stop(h, s, e, k)] = mem[Stop(h, s, e, k)]
  PROVE  Backs(new, h, InsertAt(s, i, n), e)
<1> DEFINE t == InsertAt(s, i, n)
<1>1. Len(s) \in Nat /\ i \in 1..Len(s) + 1
  OBVIOUS
<1>2. /\ Len(t) = Len(s) + 1
      /\ \A k \in 0..i - 1 : Stop(h, t, e, k) = Stop(h, s, e, k)
      /\ Stop(h, t, e, i) = n
      /\ \A k \in i + 1..Len(s) + 2 : Stop(h, t, e, k) = Stop(h, s, e, k - 1)
  BY StopInsert
<1> HIDE DEF t
<1>3. SUFFICES ASSUME NEW k \in 0..Len(s) + 1, Stop(h, t, e, k + 1) # Null
               PROVE  new[Stop(h, t, e, k + 1)] = Stop(h, t, e, k)
  BY <1>2 DEF Backs, t
<1>4. \A j \in 0..Len(s) :
        Stop(h, s, e, j + 1) # Null => mem[Stop(h, s, e, j + 1)] = Stop(h, s, e, j)
  BY DEF Backs
<1>5. CASE k < i - 1
  <2>1. /\ k \in 0..i - 1 /\ k + 1 \in 0..i - 1 /\ k \in 0..Len(s)
        /\ k + 1 \in 1..Len(s) + 1 /\ k + 1 # i
    BY <1>1, <1>5
  <2> QED
    BY <2>1, <1>2, <1>3, <1>4
<1>6. CASE k = i - 1
  <2>1. k \in 0..i - 1 /\ k + 1 = i
    BY <1>1, <1>6
  <2> QED
    BY <2>1, <1>2, <1>6
<1>7. CASE k = i
  <2>1. k + 1 \in i + 1..Len(s) + 2 /\ (k + 1) - 1 = i
    BY <1>1, <1>7
  <2> QED
    BY <2>1, <1>2, <1>3, <1>7
<1>8. CASE k > i
  <2>1. /\ k \in i + 1..Len(s) + 2 /\ k + 1 \in i + 1..Len(s) + 2
        /\ k - 1 \in 0..Len(s) /\ (k + 1) - 1 = k /\ (k - 1) + 1 = k
        /\ k \in 1..Len(s) + 1 /\ k # i
    BY <1>1, <1>8
  <2> QED
    BY <2>1, <1>2, <1>3, <1>4
<1> QED
  BY <1>1, <1>5, <1>6, <1>7, <1>8

LEMMA LeadsRemove ==
  ASSUME NEW h \in Heads, NEW e \in {h, Null}, NEW s \in Seq(Node),
         NEW i \in 1..Len(s), NEW mem, NEW new,
         Leads(mem, h, s, e),
         new[Stop(h, s, e, i - 1)] = Stop(h, s, e, i + 1),
         \A k \in 0..Len(s) : k \notin {i - 1, i} =>
           new[Stop(h, s, e, k)] = mem[Stop(h, s, e, k)]
  PROVE  Leads(new, h, RemoveAt(s, i), e)
<1> DEFINE t == RemoveAt(s, i)
<1>1. Len(s) \in Nat /\ i \in 1..Len(s)
  OBVIOUS
<1>2. /\ Len(t) = Len(s) - 1
      /\ \A k \in 0..i - 1 : Stop(h, t, e, k) = Stop(h, s, e, k)
      /\ \A k \in i..Len(s) : Stop(h, t, e, k) = Stop(h, s, e, k + 1)
  BY StopRemove
<1> HIDE DEF t
<1>3. SUFFICES ASSUME NEW k \in 0..Len(s) - 1
               PROVE  new[Stop(h, t, e, k)] = Stop(h, t, e, k + 1)
  BY <1>2 DEF Leads, t
<1>4. \A j \in 0..Len(s) : mem[Stop(h, s, e, j)] = Stop(h, s, e, j + 1)
  BY DEF Leads
<1>5. CASE k < i - 1
  <2>1. k \in 0..i - 1 /\ k + 1 \in 0..i - 1 /\ k \in 0..Len(s) /\ k \notin {i - 1, i}
    BY <1>1, <1>5
  <2> QED
    BY <2>1, <1>2, <1>4
<1>6. CASE k = i - 1
  <2>1. k \in 0..i - 1 /\ k + 1 \in i..Len(s) /\ (k + 1) + 1 = i + 1
    BY <1>1, <1>6
  <2> QED
    BY <2>1, <1>2, <1>6
<1>7. CASE k >= i
  <2>1. /\ k \in i..Len(s) /\ k + 1 \in i..Len(s)
        /\ k + 1 \in 0..Len(s) /\ k + 1 \notin {i - 1, i}
    BY <1>1, <1>7
  <2> QED
    BY <2>1, <1>2, <1>4
<1> QED
  BY <1>1, <1>5, <1>6, <1>7

LEMMA BacksRemove ==
  ASSUME NEW h \in Heads, NEW e \in {h, Null}, NEW s \in Seq(Node),
         NEW i \in 1..Len(s), NEW mem, NEW new,
         Backs(mem, h, s, e),
         Stop(h, s, e, i + 1) # Null => new[Stop(h, s, e, i + 1)] = Stop(h, s, e, i - 1),
         \A k \in 1..Len(s) + 1 : k \notin {i, i + 1} /\ Stop(h, s, e, k) # Null =>
           new[Stop(h, s, e, k)] = mem[Stop(h, s, e, k)]
  PROVE  Backs(new, h, RemoveAt(s, i), e)
<1> DEFINE t == RemoveAt(s, i)
<1>1. Len(s) \in Nat /\ i \in 1..Len(s)
  OBVIOUS
<1>2. /\ Len(t) = Len(s) - 1
      /\ \A k \in 0..i - 1 : Stop(h, t, e, k) = Stop(h, s, e, k)
      /\ \A k \in i..Len(s) : Stop(h, t, e, k) = Stop(h, s, e, k + 1)
  BY StopRemove
<1> HIDE DEF t
<1>3. SUFFICES ASSUME NEW k \in 0..Len(s) - 1, Stop(h, t, e, k + 1) # Null
               PROVE  new[Stop(h, t, e, k + 1)] = Stop(h, t, e, k)
  BY <1>2 DEF Backs, t
<1>4. \A j \in 0..Len(s) :
        Stop(h, s, e, j + 1) # Null => mem[Stop(h, s, e, j + 1)] = Stop(h, s, e, j)
  BY DEF Backs
<1>5. CASE k < i - 1
  <2>1. /\ k \in 0..i - 1 /\ k + 1 \in 0..i - 1 /\ k \in 0..Len(s)
        /\ k + 1 \in 1..Len(s) + 1 /\ k + 1 \notin {i, i + 1}
    BY <1>1, <1>5
  <2> QED
    BY <2>1, <1>2, <1>3, <1>4
<1>6. CASE k = i - 1
  <2>1. k \in 0..i - 1 /\ k + 1 \in i..Len(s) /\ (k + 1) + 1 = i + 1
    BY <1>1, <1>6
  <2> QED
    BY <2>1, <1>2, <1>3, <1>6
<1>7. CASE k >= i
  <2>1. /\ k \in i..Len(s) /\ k + 1 \in i..Len(s)
        /\ k + 1 \in 0..Len(s) /\ (k + 1) + 1 \in 1..Len(s) + 1
        /\ (k + 1) + 1 \notin {i, i + 1}
    BY <1>1, <1>7
  <2> QED
    BY <2>1, <1>2, <1>3, <1>4
<1> QED
  BY <1>1, <1>5, <1>6, <1>7

LEMMA LeadsReplace ==
  ASSUME NEW h \in Heads, NEW e \in {h, Null}, NEW s \in Seq(Node),
         NEW i \in 1..Len(s), NEW n \in Node, NEW mem, NEW new,
         Leads(mem, h, s, e),
         new[Stop(h, s, e, i - 1)] = n, new[n] = Stop(h, s, e, i + 1),
         \A k \in 0..Len(s) : k \notin {i - 1, i} =>
           new[Stop(h, s, e, k)] = mem[Stop(h, s, e, k)]
  PROVE  Leads(new, h, ReplaceAt(s, i, n), e)
<1> DEFINE t == ReplaceAt(s, i, n)
<1>1. Len(s) \in Nat /\ i \in 1..Len(s)
  OBVIOUS
<1>2. /\ Len(t) = Len(s)
      /\ \A k \in 0..Len(s) + 1 : k # i => Stop(h, t, e, k) = Stop(h, s, e, k)
      /\ Stop(h, t, e, i) = n
  <2>1. Len(t) = Len(s)
    BY StopReplace
  <2>2. \A k \in 0..Len(s) + 1 : k # i => Stop(h, t, e, k) = Stop(h, s, e, k)
    BY StopReplace, ZenonT(30)
  <2>3. Stop(h, t, e, i) = n
    BY StopReplace, ZenonT(30)
  <2> QED
    BY <2>1, <2>2, <2>3
<1> HIDE DEF t
<1>3. SUFFICES ASSUME NEW k \in 0..Len(s)
               PROVE  new[Stop(h, t, e, k)] = Stop(h, t, e, k + 1)
  BY <1>2 DEF Leads, t
<1>4. \A j \in 0..Len(s) : mem[Stop(h, s, e, j)] = Stop(h, s, e, j + 1)
  BY DEF Leads
<1>5. k \in 0..Len(s) + 1 /\ k + 1 \in 0..Len(s) + 1
  BY <1>1
<1>6. CASE k \notin {i - 1, i}
  <2>1. k # i /\ k + 1 # i
    BY <1>1, <1>6
  <2> QED
    BY <2>1, <1>2, <1>4, <1>5, <1>6
<1>7. CASE k = i - 1
  <2>1. k # i /\ k + 1 = i
    BY <1>1, <1>7
  <2> QED
    BY <2>1, <1>2, <1>5, <1>7
<1>8. CASE k = i
  <2>1. k + 1 # i
    BY <1>1, <1>8
  <2> QED
    BY <2>1, <1>2, <1>5, <1>8
<1> QED
  BY <1>6, <1>7, <1>8

LEMMA BacksReplace ==
  ASSUME NEW h \in Heads, NEW e \in {h, Null}, NEW s \in Seq(Node),
         NEW i \in 1..Len(s), NEW n \in Node, NEW mem, NEW new,
         Backs(mem, h, s, e),
         new[n] = Stop(h, s, e, i - 1),
         Stop(h, s, e, i + 1) # Null => new[Stop(h, s, e, i + 1)] = n,
         \A k \in 1..Len(s) + 1 : k \notin {i, i + 1} /\ Stop(h, s, e, k) # Null =>
           new[Stop(h, s, e, k)] = mem[Stop(h, s, e, k)]
  PROVE  Backs(new, h, ReplaceAt(s, i, n), e)
<1> DEFINE t == ReplaceAt(s, i, n)
<1>1. Len(s) \in Nat /\ i \in 1..Len(s)
  OBVIOUS
<1>2. /\ Len(t) = Len(s)
      /\ \A k \in 0..Len(s) + 1 : k # i => Stop(h, t, e, k) = Stop(h, s, e, k)
      /\ Stop(h, t, e, i) = n
  <2>1. Len(t) = Len(s)
    BY StopReplace
  <2>2. \A k \in 0..Len(s) + 1 : k # i => Stop(h, t, e, k) = Stop(h, s, e, k)
    BY StopReplace, ZenonT(30)
  <2>3. Stop(h, t, e, i) = n
    BY StopReplace, ZenonT(30)
  <2> QED
    BY <2>1, <2>2, <2>3
<1> HIDE DEF t
<1>3. SUFFICES ASSUME NEW k \in 0..Len(s), Stop(h, t, e, k + 1) # Null
               PROVE  new[Stop(h, t, e, k + 1)] = Stop(h, t, e, k)
  BY <1>2 DEF Backs, t
<1>4. \A j \in 0..Len(s) :
        Stop(h, s, e, j + 1) # Null => mem[Stop(h, s, e, j + 1)] = Stop(h, s, e, j)
  BY DEF Backs
<1>5. k \in 0..Len(s) + 1 /\ k + 1 \in 0..Len(s) + 1 /\ k + 1 \in 1..Len(s) + 1
  BY <1>1
<1>6. CASE k \notin {i - 1, i}
  <2>1. k # i /\ k + 1 # i /\ k + 1 # i + 1
    BY <1>1, <1>6
  <2> QED
    BY <2>1, <1>2, <1>3, <1>4, <1>5
<1>7. CASE k = i - 1
  <2>1. k # i /\ k + 1 = i
    BY <1>1, <1>7
  <2> QED
    BY <2>1, <1>2, <1>5, <1>7
<1>8. CASE k = i
  <2>1. k + 1 # i
    BY <1>1, <1>8
  <2> QED
    BY <2>1, <1>2, <1>3, <1>5, <1>8
<1> QED
  BY <1>6, <1>7, <1>8

(* Where nothing changes on its way, a list stays what it is. *)
LEMMA LeadsKept ==
  ASSUME NEW h \in Heads, NEW e \in {h, Null}, NEW s \in Seq(Node), NEW mem, NEW new,
         Leads(mem, h, s, e),
         \A p \in {h} \cup Range(s) : new[p] = mem[p]
  PROVE  Leads(new, h, s, e)
<1>1. \A k \in 0..Len(s) : Stop(h, s, e, k) \in {h} \cup Range(s)
  <2>1. Len(s) \in Nat /\ DOMAIN s = 1..Len(s)
    OBVIOUS
  <2>2. \A k \in 0..Len(s) : k = 0 \/ k \in 1..Len(s)
    BY <2>1
  <2> QED
    BY <2>1, <2>2, StopPlaces DEF Range
<1> QED
  BY <1>1 DEF Leads

LEMMA BacksKept ==
  ASSUME NEW h \in Heads, NEW e \in {h, Null}, NEW s \in Seq(Node), NEW mem, NEW new,
         Backs(mem, h, s, e),
         \A p \in {h} \cup Range(s) : new[p] = mem[p]
  PROVE  Backs(new, h, s, e)
<1>1. \A k \in 0..Len(s) : Stop(h, s, e, k + 1) \in {h} \cup Range(s) \cup {Null}
  <2>1. Len(s) \in Nat /\ DOMAIN s = 1..Len(s)
    OBVIOUS
  <2>2. \A k \in 1..Len(s) : Stop(h, s, e, k) \in Range(s)
    BY <2>1, StopPlaces DEF Range
  <2>3. Stop(h, s, e, Len(s) + 1) \in {h, Null}
    BY StopPlaces
  <2> SUFFICES ASSUME NEW k \in 0..Len(s)
               PROVE  Stop(h, s, e, k + 1) \in {h} \cup Range(s) \cup {Null}
    OBVIOUS
  <2>4. k + 1 = Len(s) + 1 \/ k + 1 \in 1..Len(s)
    BY <2>1
  <2> QED
    BY <2>2, <2>3, <2>4
<1> QED
  BY <1>1 DEF Backs
-----------------------------------------------------------------------------
(* What is in memory after some stores. *)

StoreSet == [field : {"next", "prev"}, at : Place, value : Pointer]

Hits(f, p, st, k) == {i \in 1..k : st[i].field = f /\ st[i].at = p}

LEMMA WrittenMiss ==
  ASSUME NEW f, NEW mem, NEW st, NEW k \in Nat, NEW p \in Place, Hits(f, p, st, k) = {}
  PROVE  Written(f, mem, st, k)[p] = mem[p]
BY DEF Written, Hits

LEMMA WrittenHit ==
  ASSUME NEW f, NEW mem, NEW st, NEW k \in Nat, NEW p \in Place,
         Hits(f, p, st, k) # {}
  PROVE  \E m \in 1..k :
           /\ m \in Hits(f, p, st, k)
           /\ \A i \in Hits(f, p, st, k) : m >= i
           /\ Written(f, mem, st, k)[p] = st[m].value
<1>1. Hits(f, p, st, k) \subseteq 1..k
  BY DEF Hits
<1>2. /\ Max(Hits(f, p, st, k)) \in Hits(f, p, st, k)
      /\ \A i \in Hits(f, p, st, k) : Max(Hits(f, p, st, k)) >= i
  <2> DEFINE H == Hits(f, p, st, k)
  <2> HIDE DEF H
  <2>1. H \subseteq 1..k /\ H # {}
    BY <1>1 DEF H
  <2>2. Max(H) \in H /\ \A i \in H : Max(H) >= i
    BY <2>1, MaxOfNaturals
  <2> QED
    BY <2>2 DEF H
<1>3. Written(f, mem, st, k)[p] = st[Max(Hits(f, p, st, k))].value
  BY DEF Written, Hits
<1> QED
  BY <1>1, <1>2, <1>3

(* A place to which only one value is stored has it, if it is at all. *)
LEMMA WrittenAlike ==
  ASSUME NEW f, NEW mem, NEW st, NEW k \in Nat, NEW p \in Place, NEW x,
         Hits(f, p, st, k) # {}, \A i \in Hits(f, p, st, k) : st[i].value = x
  PROVE  Written(f, mem, st, k)[p] = x
BY WrittenHit

LEMMA WrittenWithin ==
  ASSUME NEW f, NEW mem, NEW st, NEW k \in Nat, NEW p \in Place, NEW V,
         mem[p] \in V, \A i \in 1..k : st[i].value \in V
  PROVE  Written(f, mem, st, k)[p] \in V
<1>1. CASE Hits(f, p, st, k) = {}
  BY <1>1, WrittenMiss
<1>2. CASE Hits(f, p, st, k) # {}
  <2>1. PICK m \in 1..k :
          /\ m \in Hits(f, p, st, k)
          /\ \A i \in Hits(f, p, st, k) : m >= i
          /\ Written(f, mem, st, k)[p] = st[m].value
    BY <1>2, WrittenHit
  <2> QED
    BY <2>1
<1> QED
  BY <1>1, <1>2

LEMMA WrittenType ==
  ASSUME NEW f, NEW mem \in [Place -> Pointer], NEW st \in Seq(StoreSet),
         NEW k \in 0..Len(st)
  PROVE  Written(f, mem, st, k) \in [Place -> Pointer]
<1>0. k \in Nat /\ \A i \in 1..k : st[i] \in StoreSet
  OBVIOUS
<1>1. \A i \in 1..k : st[i].value \in Pointer
  BY <1>0 DEF StoreSet
<1>2. \A p \in Place : mem[p] \in Pointer
  OBVIOUS
<1>3. \A p \in Place : Written(f, mem, st, k)[p] \in Pointer
  BY <1>0, <1>1, <1>2, WrittenWithin
<1> QED
  BY <1>3 DEF Written

(* Only the stores that were done count. *)
LEMMA WrittenPrefix ==
  ASSUME NEW f, NEW mem, NEW st, NEW a, NEW k \in Nat, \A i \in 1..k : a[i] = st[i]
  PROVE  Written(f, mem, a, k) = Written(f, mem, st, k)
<1>1. ASSUME NEW p \in Place
      PROVE  Written(f, mem, a, k)[p] = Written(f, mem, st, k)[p]
  <2>1. Hits(f, p, a, k) = Hits(f, p, st, k)
    BY DEF Hits
  <2>2. CASE Hits(f, p, st, k) = {}
    BY <2>1, <2>2, WrittenMiss
  <2>3. CASE Hits(f, p, st, k) # {}
    <3>1. PICK m \in 1..k :
            /\ m \in Hits(f, p, st, k)
            /\ \A i \in Hits(f, p, st, k) : m >= i
            /\ Written(f, mem, st, k)[p] = st[m].value
      BY <2>3, WrittenHit
    <3>2. PICK l \in 1..k :
            /\ l \in Hits(f, p, a, k)
            /\ \A i \in Hits(f, p, a, k) : l >= i
            /\ Written(f, mem, a, k)[p] = a[l].value
      BY <2>1, <2>3, WrittenHit
    <3>3. l = m
      BY <2>1, <3>1, <3>2
    <3> QED
      BY <3>1, <3>2, <3>3
  <2> QED
    BY <2>2, <2>3
<1> QED
  BY <1>1 DEF Written

(* The stores of b, done after the first d, are those that follow. *)
LEMMA WrittenThen ==
  ASSUME NEW f, NEW mem, NEW st, NEW b, NEW d \in Nat, NEW k \in Nat,
         \A i \in 1..k : b[i] = st[d + i]
  PROVE  Written(f, Written(f, mem, st, d), b, k) = Written(f, mem, st, d + k)
<1> DEFINE between == Written(f, mem, st, d)
<1>1. ASSUME NEW p \in Place
      PROVE  Written(f, between, b, k)[p] = Written(f, mem, st, d + k)[p]
  <2> DEFINE H == Hits(f, p, st, d + k)
             G == Hits(f, p, b, k)
  <2>0. d + k \in Nat
    OBVIOUS
  <2>1. \A i \in 1..k : i \in G <=> d + i \in H
    BY DEF Hits
  <2>2. \A i \in H : i > d => i - d \in G
    <3> SUFFICES ASSUME NEW i \in H, i > d PROVE i - d \in G
      OBVIOUS
    <3>1. i \in 1..d + k
      BY DEF Hits
    <3>2. i - d \in 1..k /\ d + (i - d) = i
      BY <3>1
    <3> QED
      BY <2>1, <3>2
  <2>3. \A i \in H : ~(i > d) => i \in Hits(f, p, st, d)
    BY DEF Hits
  <2>4. Hits(f, p, st, d) \subseteq H
    BY DEF Hits
  <2>5. CASE G = {}
    <3>1. H = Hits(f, p, st, d)
      BY <2>2, <2>3, <2>4, <2>5
    <3>2. Written(f, between, b, k)[p] = between[p]
      BY <2>5, WrittenMiss
    <3>3. between[p] = Written(f, mem, st, d + k)[p]
      <4>1. CASE H = {}
        BY <2>0, <3>1, <4>1, WrittenMiss
      <4>2. CASE H # {}
        BY <2>0, <3>1, <4>2, WrittenHit
      <4> QED
        BY <4>1, <4>2
    <3> QED
      BY <3>2, <3>3
  <2>6. CASE G # {}
    <3>1. PICK g \in 1..k :
            g \in G /\ (\A i \in G : g >= i) /\ Written(f, between, b, k)[p] = b[g].value
      BY <2>6, WrittenHit
    <3>2. d + g \in H
      BY <2>1, <3>1
    <3>3. PICK m \in 1..d + k :
            /\ m \in H
            /\ \A i \in H : m >= i
            /\ Written(f, mem, st, d + k)[p] = st[m].value
      BY <2>0, <3>2, WrittenHit
    <3>4. m >= d + g
      BY <3>2, <3>3
    <3>5. m - d \in G
      BY <2>2, <3>3, <3>4
    <3>6. g >= m - d
      BY <3>1, <3>5
    <3>7. m = d + g
      BY <3>4, <3>6
    <3> QED
      BY <3>1, <3>3, <3>7
  <2> QED
    BY <2>5, <2>6
<1> QED
  BY <1>1 DEF Written

LEMMA WrittenNone ==
  ASSUME NEW f, NEW mem \in [Place -> Pointer], NEW st
  PROVE  Written(f, mem, st, 0) = mem
<1>1. \A p \in Place : Hits(f, p, st, 0) = {}
  BY DEF Hits
<1>2. \A p \in Place : Written(f, mem, st, 0)[p] = mem[p]
  BY <1>1, WrittenMiss
<1> QED
  BY <1>2 DEF Written
-----------------------------------------------------------------------------
(* There is one list along which pointers lead. *)
LEMMA LeadsOne ==
  ASSUME NEW h \in Heads, NEW e \in {h, Null}, NEW mem,
         NEW s \in Seq(Node), NEW t \in Seq(Node),
         Leads(mem, h, s, e), Leads(mem, h, t, e)
  PROVE  s = t
<1>1. Len(s) \in Nat /\ Len(t) \in Nat /\ e \notin Node
  BY Places
<1>2. /\ \A i \in 0..Len(s) : mem[Stop(h, s, e, i)] = Stop(h, s, e, i + 1)
      /\ \A i \in 0..Len(t) : mem[Stop(h, t, e, i)] = Stop(h, t, e, i + 1)
  BY DEF Leads
<1> DEFINE P == {i \in Nat : i <= Len(s) /\ i <= Len(t) => Stop(h, s, e, i) = Stop(h, t, e, i)}
<1>3. 0 \in P
  BY StopPlaces
<1>4. ASSUME NEW i \in Nat, i \in P PROVE i + 1 \in P
  <2> SUFFICES ASSUME i + 1 <= Len(s), i + 1 <= Len(t)
               PROVE  Stop(h, s, e, i + 1) = Stop(h, t, e, i + 1)
    OBVIOUS
  <2>1. i \in 0..Len(s) /\ i \in 0..Len(t)
    BY <1>1
  <2> QED
    BY <1>2, <1>4, <2>1
<1>5. Nat \subseteq P
  <2> HIDE DEF P
  <2> QED
    BY <1>3, <1>4, Induction
<1>6. \A i \in 0..Len(s) : i <= Len(t) => Stop(h, s, e, i) = Stop(h, t, e, i)
  BY <1>1, <1>5
<1>7. ~(Len(s) < Len(t))
  <2> SUFFICES ASSUME Len(s) < Len(t) PROVE FALSE
    OBVIOUS
  <2>1. Len(s) \in 0..Len(s) /\ Len(s) \in 0..Len(t) /\ Len(s) + 1 \in 1..Len(t)
    BY <1>1
  <2>2. Stop(h, s, e, Len(s) + 1) = Stop(h, t, e, Len(s) + 1)
    BY <1>2, <1>6, <2>1
  <2>3. Stop(h, s, e, Len(s) + 1) = e /\ Stop(h, t, e, Len(s) + 1) \in Node
    BY <2>1, StopPlaces
  <2> QED
    BY <1>1, <2>2, <2>3
<1>8. ~(Len(t) < Len(s))
  <2> SUFFICES ASSUME Len(t) < Len(s) PROVE FALSE
    OBVIOUS
  <2>1. Len(t) \in 0..Len(s) /\ Len(t) \in 0..Len(t) /\ Len(t) + 1 \in 1..Len(s)
    BY <1>1
  <2>2. Stop(h, s, e, Len(t) + 1) = Stop(h, t, e, Len(t) + 1)
    BY <1>1, <1>2, <1>6, <2>1
  <2>3. Stop(h, t, e, Len(t) + 1) = e /\ Stop(h, s, e, Len(t) + 1) \in Node
    BY <2>1, StopPlaces
  <2> QED
    BY <1>1, <2>2, <2>3
<1>9. Len(s) = Len(t)
  BY <1>1, <1>7, <1>8
<1>10. \A i \in 1..Len(s) : s[i] = t[i]
  <2>1. \A i \in 1..Len(s) : i \in 0..Len(s) /\ i <= Len(t) /\ i \in 1..Len(t)
    BY <1>1, <1>9
  <2> QED
    BY <1>6, <2>1, StopPlaces
<1> QED
  BY <1>9, <1>10, SeqEqual
-----------------------------------------------------------------------------
(* Calls whose stores change a list at one of them. *)

(* Up to some store pointers lead along s, from it on along t, and at last  *)
(* they lead back the same way.                                             *)
Swings(mem, back, st, h, e, s, t) ==
  /\ \E b \in 1..Len(st) : \A k \in 0..Len(st) :
       Leads(Written("next", mem, st, k), h, IF k < b THEN s ELSE t, e)
  /\ Backs(Written("prev", back, st, Len(st)), h, t, e)

(* A node is put between two others: its own pointer first, then that to it. *)
PutShape(st, n, before, after, rest) ==
  /\ st \in Seq(StoreSet)
  /\ \A i \in DOMAIN st :
       st[i] \in {Assign("next", n, after), Assign("next", before, n),
                  Assign("prev", n, before), Assign("prev", after, n)} \cup rest
  /\ \E a, b \in DOMAIN st :
       /\ a < b /\ st[a] = Assign("next", n, after) /\ st[b] = Assign("next", before, n)
       /\ \A i \in DOMAIN st : st[i] = Assign("next", before, n) => i = b
  /\ \E i \in DOMAIN st : st[i] = Assign("prev", n, before)
  /\ after # Null => \E i \in DOMAIN st : st[i] = Assign("prev", after, n)

(* An entry is taken out from between two others, and its own pointers are  *)
(* written after that.                                                      *)
TakeShape(st, n, before, after) ==
  /\ st \in Seq(StoreSet)
  /\ \E b \in DOMAIN st :
       /\ st[b] = Assign("next", before, after)
       /\ \A i \in DOMAIN st :
            st[i].field = "next" => i = b \/ (st[i].at = n /\ i > b)
  /\ \A i \in DOMAIN st :
       st[i].field = "prev" =>
         st[i] = Assign("prev", after, before) \/ (st[i].at = n /\ i = Len(st))
  /\ after # Null => \E i \in DOMAIN st : st[i] = Assign("prev", after, before)

LEMMA PutSwings ==
  ASSUME NEW h \in Heads, NEW e \in {h, Null}, NEW s \in Seq(Node), IsInjective(s),
         NEW i \in 1..Len(s) + 1, NEW n \in Node \ Range(s),
         NEW mem, NEW back, Leads(mem, h, s, e), Backs(back, h, s, e),
         NEW st, PutShape(st, n, Stop(h, s, e, i - 1), Stop(h, s, e, i), {})
  PROVE  Swings(mem, back, st, h, e, s, InsertAt(s, i, n))
<1> DEFINE before == Stop(h, s, e, i - 1)
           after == Stop(h, s, e, i)
           N(k) == Written("next", mem, st, k)
           B == Written("prev", back, st, Len(st))
<1>1. Len(s) \in Nat /\ i \in 1..Len(s) + 1 /\ DOMAIN s = 1..Len(s)
  OBVIOUS
<1>2. Len(st) \in Nat /\ DOMAIN st = 1..Len(st)
  BY DEF PutShape
<1>3. PICK a \in 1..Len(st), b \in 1..Len(st) :
        /\ a < b /\ st[a] = Assign("next", n, after) /\ st[b] = Assign("next", before, n)
        /\ \A j \in 1..Len(st) : st[j] = Assign("next", before, n) => j = b
  BY <1>2 DEF PutShape
<1>4. /\ \A k \in 0..Len(s) : Stop(h, s, e, k) \in Place /\ Stop(h, s, e, k) # n
      /\ e # n /\ Stop(h, s, e, Len(s) + 1) = e /\ n \in Place
  <2>1. \A k \in 0..Len(s) : k = 0 \/ k \in 1..Len(s)
    BY <1>1
  <2>2. \A k \in 1..Len(s) : s[k] # n
    BY <1>1 DEF Range
  <2> QED
    BY <2>1, <2>2, StopPlaces, Places
<1>5. before \in Place /\ before # n /\ after # n
  <2>1. i - 1 \in 0..Len(s) /\ (i \in 0..Len(s) \/ i = Len(s) + 1)
    BY <1>1
  <2> QED
    BY <2>1, <1>4
<1>6. \A j \in 1..Len(st) :
        st[j] \in {Assign("next", n, after), Assign("next", before, n),
                   Assign("prev", n, before), Assign("prev", after, n)}
  BY <1>2 DEF PutShape
<1> HIDE DEF before, after
<1>7. ASSUME NEW k \in 0..Len(st), NEW p \in Place, p # n, p # before \/ k < b
      PROVE  N(k)[p] = mem[p]
  <2>1. Hits("next", p, st, k) = {}
    BY <1>2, <1>3, <1>6, <1>7 DEF Hits, Assign
  <2> QED
    BY <2>1, <1>2, WrittenMiss
<1>8. ASSUME NEW k \in b..Len(st) PROVE N(k)[before] = n /\ N(k)[n] = after
  <2>1. k \in Nat /\ a \in 1..k /\ b \in 1..k /\ \A j \in 1..k : j \in 1..Len(st)
    BY <1>2, <1>3
  <2>2. /\ Hits("next", before, st, k) # {}
        /\ \A j \in Hits("next", before, st, k) : st[j].value = n
    BY <2>1, <1>3, <1>5, <1>6, SMTT(30) DEF Assign, Hits
  <2>3. /\ Hits("next", n, st, k) # {}
        /\ \A j \in Hits("next", n, st, k) : st[j].value = after
    BY <2>1, <1>3, <1>5, <1>6, SMTT(30) DEF Assign, Hits
  <2> QED
    BY <2>1, <2>2, <2>3, <1>4, <1>5, WrittenAlike
<1>9. ASSUME NEW k \in 0..Len(st), k < b PROVE Leads(N(k), h, s, e)
  <2>1. \A p \in {h} \cup Range(s) : p \in Place /\ p # n
    BY Places, <1>1 DEF Range
  <2>2. \A p \in {h} \cup Range(s) : N(k)[p] = mem[p]
    BY <2>1, <1>7, <1>9
  <2> HIDE DEF N
  <2> QED
    BY <2>2, LeadsKept
<1>10. ASSUME NEW k \in 0..Len(st), ~(k < b) PROVE Leads(N(k), h, InsertAt(s, i, n), e)
  <2>1. k \in b..Len(st)
    BY <1>2, <1>10
  <2>2. N(k)[Stop(h, s, e, i - 1)] = n /\ N(k)[n] = Stop(h, s, e, i)
    BY <2>1, <1>8 DEF before, after
  <2>3. ASSUME NEW j \in 0..Len(s), j # i - 1
        PROVE  N(k)[Stop(h, s, e, j)] = mem[Stop(h, s, e, j)]
    <3>1. Stop(h, s, e, j) # before
      <4>1. i - 1 \in 0..Len(s)
        BY <1>1
      <4> QED
        BY <2>3, <4>1, StopInjective DEF before
    <3> QED
      BY <3>1, <1>4, <1>7
  <2> HIDE DEF N
  <2> QED
    BY <2>2, <2>3, LeadsInsert
<1>11. Backs(B, h, InsertAt(s, i, n), e)
  <2>1. B[n] = Stop(h, s, e, i - 1)
    <3>1. \E j \in 1..Len(st) : st[j] = Assign("prev", n, before)
      BY <1>2 DEF PutShape, before
    <3>2. /\ Hits("prev", n, st, Len(st)) # {}
          /\ \A j \in Hits("prev", n, st, Len(st)) : st[j].value = before
      BY <3>1, <1>5, <1>6 DEF Assign, Hits
    <3>3. B[n] = before
      BY <3>2, <1>2, <1>4, WrittenAlike
    <3> QED
      BY <3>3 DEF before
  <2>2. ASSUME Stop(h, s, e, i) # Null PROVE B[Stop(h, s, e, i)] = n
    <3>1. \E j \in 1..Len(st) : st[j] = Assign("prev", after, n)
      BY <2>2, <1>2 DEF PutShape, after
    <3>2. /\ Hits("prev", after, st, Len(st)) # {}
          /\ \A j \in Hits("prev", after, st, Len(st)) : st[j].value = n
      BY <3>1, <1>5, <1>6 DEF Assign, Hits
    <3>3. after \in Place
      BY <3>1, <1>2 DEF PutShape, StoreSet, Assign
    <3>4. B[after] = n
      BY <3>2, <3>3, <1>2, WrittenAlike
    <3> QED
      BY <3>4 DEF after
  <2>3. ASSUME NEW j \in 1..Len(s) + 1, j # i, Stop(h, s, e, j) # Null
        PROVE  B[Stop(h, s, e, j)] = back[Stop(h, s, e, j)]
    <3>1. Stop(h, s, e, j) # after
      BY <2>3, StopInjective DEF after
    <3>2. Stop(h, s, e, j) # n /\ Stop(h, s, e, j) \in Place
      <4>1. j \in 0..Len(s) \/ j = Len(s) + 1
        BY <1>1
      <4> QED
        BY <4>1, <2>3, <1>4, Places
    <3>3. Hits("prev", Stop(h, s, e, j), st, Len(st)) = {}
      BY <3>1, <3>2, <1>6 DEF Hits, Assign
    <3> QED
      BY <3>2, <3>3, <1>2, WrittenMiss
  <2> HIDE DEF B
  <2> QED
    BY <2>1, <2>2, <2>3, BacksInsert
<1>12. \A k \in 0..Len(st) :
         Leads(Written("next", mem, st, k), h, IF k < b THEN s ELSE InsertAt(s, i, n), e)
  BY <1>9, <1>10
<1> QED
  BY <1>11, <1>12 DEF Swings

(* The same two stores put it in the place of another, whose own forward    *)
(* pointer stays.                                                           *)
LEMMA SwapSwings ==
  ASSUME NEW h \in Heads, NEW e \in {h, Null}, NEW s \in Seq(Node), IsInjective(s),
         NEW i \in 1..Len(s), NEW n \in Node \ Range(s),
         NEW mem, NEW back, Leads(mem, h, s, e), Backs(back, h, s, e),
         NEW st, PutShape(st, n, Stop(h, s, e, i - 1), Stop(h, s, e, i + 1),
                          {Assign("prev", s[i], Poison)})
  PROVE  Swings(mem, back, st, h, e, s, ReplaceAt(s, i, n))
<1> DEFINE before == Stop(h, s, e, i - 1)
           after == Stop(h, s, e, i + 1)
           old == s[i]
           N(k) == Written("next", mem, st, k)
           B == Written("prev", back, st, Len(st))
<1>1. Len(s) \in Nat /\ i \in 1..Len(s) /\ DOMAIN s = 1..Len(s)
  OBVIOUS
<1>2. Len(st) \in Nat /\ DOMAIN st = 1..Len(st)
  BY DEF PutShape
<1>3. PICK a \in 1..Len(st), b \in 1..Len(st) :
        /\ a < b /\ st[a] = Assign("next", n, after) /\ st[b] = Assign("next", before, n)
        /\ \A j \in 1..Len(st) : st[j] = Assign("next", before, n) => j = b
  BY <1>2 DEF PutShape
<1>4. /\ \A k \in 0..Len(s) : Stop(h, s, e, k) \in Place /\ Stop(h, s, e, k) # n
      /\ e # n /\ Stop(h, s, e, Len(s) + 1) = e /\ n \in Place
  <2>1. \A k \in 0..Len(s) : k = 0 \/ k \in 1..Len(s)
    BY <1>1
  <2>2. \A k \in 1..Len(s) : s[k] # n
    BY <1>1 DEF Range
  <2> QED
    BY <2>1, <2>2, StopPlaces, Places
<1>5. before \in Place /\ before # n /\ after # n /\ old # n /\ old # after
      /\ old = Stop(h, s, e, i)
  <2>1. /\ i - 1 \in 0..Len(s) /\ (i + 1 \in 0..Len(s) \/ i + 1 = Len(s) + 1)
        /\ i \in 1..Len(s) + 1 /\ i + 1 \in 1..Len(s) + 1 /\ i + 1 # i
        /\ i \in 0..Len(s)
    BY <1>1
  <2>2. old = Stop(h, s, e, i)
    BY <1>1, StopPlaces
  <2>3. Stop(h, s, e, i) # Stop(h, s, e, i + 1)
    BY <2>1, StopInjective
  <2> QED
    BY <2>1, <2>2, <2>3, <1>4
<1>6. \A j \in 1..Len(st) :
        st[j] \in {Assign("next", n, after), Assign("next", before, n),
                   Assign("prev", n, before), Assign("prev", after, n),
                   Assign("prev", old, Poison)}
  BY <1>2 DEF PutShape
<1> HIDE DEF before, after, old
<1>7. ASSUME NEW k \in 0..Len(st), NEW p \in Place, p # n, p # before \/ k < b
      PROVE  N(k)[p] = mem[p]
  <2>1. Hits("next", p, st, k) = {}
    BY <1>2, <1>3, <1>6, <1>7 DEF Hits, Assign
  <2> QED
    BY <2>1, <1>2, WrittenMiss
<1>8. ASSUME NEW k \in b..Len(st) PROVE N(k)[before] = n /\ N(k)[n] = after
  <2>1. k \in Nat /\ a \in 1..k /\ b \in 1..k /\ \A j \in 1..k : j \in 1..Len(st)
    BY <1>2, <1>3
  <2>2. /\ Hits("next", before, st, k) # {}
        /\ \A j \in Hits("next", before, st, k) : st[j].value = n
    BY <2>1, <1>3, <1>5, <1>6 DEF Assign, Hits
  <2>3. /\ Hits("next", n, st, k) # {}
        /\ \A j \in Hits("next", n, st, k) : st[j].value = after
    BY <2>1, <1>3, <1>5, <1>6 DEF Assign, Hits
  <2> QED
    BY <2>1, <2>2, <2>3, <1>4, <1>5, WrittenAlike
<1>9. ASSUME NEW k \in 0..Len(st), k < b PROVE Leads(N(k), h, s, e)
  <2>1. \A p \in {h} \cup Range(s) : p \in Place /\ p # n
    BY Places, <1>1 DEF Range
  <2>2. \A p \in {h} \cup Range(s) : N(k)[p] = mem[p]
    BY <2>1, <1>7, <1>9
  <2> HIDE DEF N
  <2> QED
    BY <2>2, LeadsKept
<1>10. ASSUME NEW k \in 0..Len(st), ~(k < b) PROVE Leads(N(k), h, ReplaceAt(s, i, n), e)
  <2>1. k \in b..Len(st)
    BY <1>2, <1>10
  <2>2. N(k)[Stop(h, s, e, i - 1)] = n /\ N(k)[n] = Stop(h, s, e, i + 1)
    BY <2>1, <1>8 DEF before, after
  <2>3. ASSUME NEW j \in 0..Len(s), j \notin {i - 1, i}
        PROVE  N(k)[Stop(h, s, e, j)] = mem[Stop(h, s, e, j)]
    <3>1. Stop(h, s, e, j) # before
      <4>1. i - 1 \in 0..Len(s)
        BY <1>1
      <4> QED
        BY <2>3, <4>1, StopInjective DEF before
    <3> QED
      BY <3>1, <1>4, <1>7
  <2> HIDE DEF N
  <2> QED
    BY <2>2, <2>3, LeadsReplace
<1>11. Backs(B, h, ReplaceAt(s, i, n), e)
  <2>1. B[n] = Stop(h, s, e, i - 1)
    <3>1. \E j \in 1..Len(st) : st[j] = Assign("prev", n, before)
      BY <1>2 DEF PutShape, before
    <3>2. /\ Hits("prev", n, st, Len(st)) # {}
          /\ \A j \in Hits("prev", n, st, Len(st)) : st[j].value = before
      BY <3>1, <1>5, <1>6, SMTT(30) DEF Assign, Hits
    <3>3. B[n] = before
      BY <3>2, <1>2, <1>4, WrittenAlike
    <3> QED
      BY <3>3 DEF before
  <2>2. ASSUME Stop(h, s, e, i + 1) # Null PROVE B[Stop(h, s, e, i + 1)] = n
    <3>1. \E j \in 1..Len(st) : st[j] = Assign("prev", after, n)
      BY <2>2, <1>2 DEF PutShape, after
    <3>2. /\ Hits("prev", after, st, Len(st)) # {}
          /\ \A j \in Hits("prev", after, st, Len(st)) : st[j].value = n
      BY <3>1, <1>5, <1>6 DEF Assign, Hits
    <3>3. after \in Place
      BY <3>1, <1>2 DEF PutShape, StoreSet, Assign
    <3>4. B[after] = n
      BY <3>2, <3>3, <1>2, WrittenAlike
    <3> QED
      BY <3>4 DEF after
  <2>3. ASSUME NEW j \in 1..Len(s) + 1, j \notin {i, i + 1}, Stop(h, s, e, j) # Null
        PROVE  B[Stop(h, s, e, j)] = back[Stop(h, s, e, j)]
    <3>1. Stop(h, s, e, j) # after /\ Stop(h, s, e, j) # old
      <4>1. i \in 1..Len(s) + 1 /\ i + 1 \in 1..Len(s) + 1
        BY <1>1
      <4> QED
        BY <4>1, <2>3, <1>5, StopInjective DEF after
    <3>2. Stop(h, s, e, j) # n /\ Stop(h, s, e, j) \in Place
      <4>1. j \in 0..Len(s) \/ j = Len(s) + 1
        BY <1>1
      <4> QED
        BY <4>1, <2>3, <1>4, Places
    <3>3. Hits("prev", Stop(h, s, e, j), st, Len(st)) = {}
      BY <3>1, <3>2, <1>6 DEF Hits, Assign
    <3> QED
      BY <3>2, <3>3, <1>2, WrittenMiss
  <2> HIDE DEF B
  <2> QED
    BY <2>1, <2>2, <2>3, BacksReplace
<1>12. \A k \in 0..Len(st) :
         Leads(Written("next", mem, st, k), h, IF k < b THEN s ELSE ReplaceAt(s, i, n), e)
  BY <1>9, <1>10
<1> QED
  BY <1>11, <1>12 DEF Swings

LEMMA TakeSwings ==
  ASSUME NEW h \in Heads, NEW e \in {h, Null}, NEW s \in Seq(Node), IsInjective(s),
         NEW i \in 1..Len(s),
         NEW mem, NEW back, Leads(mem, h, s, e), Backs(back, h, s, e),
         NEW st, TakeShape(st, s[i], Stop(h, s, e, i - 1), Stop(h, s, e, i + 1))
  PROVE  Swings(mem, back, st, h, e, s, RemoveAt(s, i))
<1> DEFINE before == Stop(h, s, e, i - 1)
           after == Stop(h, s, e, i + 1)
           n == s[i]
           N(k) == Written("next", mem, st, k)
           B == Written("prev", back, st, Len(st))
<1>1. Len(s) \in Nat /\ i \in 1..Len(s) /\ DOMAIN s = 1..Len(s)
  OBVIOUS
<1>2. Len(st) \in Nat /\ DOMAIN st = 1..Len(st)
  BY DEF TakeShape
<1>3. PICK b \in 1..Len(st) :
        /\ st[b] = Assign("next", before, after)
        /\ \A j \in 1..Len(st) :
             st[j].field = "next" => j = b \/ (st[j].at = n /\ j > b)
  BY <1>2 DEF TakeShape
<1>4. \A k \in 0..Len(s) : Stop(h, s, e, k) \in Place
  BY StopPlaces
<1>5. before \in Place /\ before # n /\ n # after /\ n = Stop(h, s, e, i)
  <2>1. /\ i - 1 \in 0..Len(s) /\ i - 1 # i /\ i \in 0..Len(s)
        /\ i \in 1..Len(s) + 1 /\ i + 1 \in 1..Len(s) + 1 /\ i + 1 # i
    BY <1>1
  <2>2. n = Stop(h, s, e, i)
    BY <1>1, StopPlaces
  <2>3. Stop(h, s, e, i) # Stop(h, s, e, i + 1)
    BY <2>1, StopInjective
  <2>4. Stop(h, s, e, i - 1) # Stop(h, s, e, i)
    BY <2>1, StopInjective
  <2> QED
    BY <2>1, <2>2, <2>3, <2>4, <1>4
<1>6. \A j \in 1..Len(st) :
        st[j].field = "prev" => st[j] = Assign("prev", after, before) \/ st[j].at = n
  BY <1>2 DEF TakeShape
<1> HIDE DEF before, after, n
<1>7. ASSUME NEW k \in 0..Len(st), NEW p \in Place,
             k < b \/ (p # n /\ p # before)
      PROVE  N(k)[p] = mem[p]
  <2>1. Hits("next", p, st, k) = {}
    BY <1>2, <1>3, <1>7 DEF Hits, Assign
  <2> QED
    BY <2>1, <1>2, WrittenMiss
<1>8. ASSUME NEW k \in b..Len(st) PROVE N(k)[before] = after
  <2>1. k \in Nat /\ b \in 1..k /\ \A j \in 1..k : j \in 1..Len(st)
    BY <1>2, <1>3
  <2>2. /\ Hits("next", before, st, k) # {}
        /\ \A j \in Hits("next", before, st, k) : st[j].value = after
    BY <2>1, <1>3, <1>5 DEF Assign, Hits
  <2> QED
    BY <2>1, <2>2, <1>5, WrittenAlike
<1>9. ASSUME NEW k \in 0..Len(st), k < b PROVE Leads(N(k), h, s, e)
  <2>1. \A p \in {h} \cup Range(s) : p \in Place
    BY Places, <1>1 DEF Range
  <2>2. \A p \in {h} \cup Range(s) : N(k)[p] = mem[p]
    BY <2>1, <1>7, <1>9
  <2> HIDE DEF N
  <2> QED
    BY <2>2, LeadsKept
<1>10. ASSUME NEW k \in 0..Len(st), ~(k < b) PROVE Leads(N(k), h, RemoveAt(s, i), e)
  <2>1. k \in b..Len(st)
    BY <1>2, <1>10
  <2>2. N(k)[Stop(h, s, e, i - 1)] = Stop(h, s, e, i + 1)
    BY <2>1, <1>8 DEF before, after
  <2>3. ASSUME NEW j \in 0..Len(s), j \notin {i - 1, i}
        PROVE  N(k)[Stop(h, s, e, j)] = mem[Stop(h, s, e, j)]
    <3>1. Stop(h, s, e, j) # before /\ Stop(h, s, e, j) # n
      <4>1. i - 1 \in 0..Len(s) /\ i \in 0..Len(s)
        BY <1>1
      <4> QED
        BY <2>3, <4>1, <1>5, StopInjective DEF before
    <3> QED
      BY <3>1, <1>4, <1>7
  <2> HIDE DEF N
  <2> QED
    BY <2>2, <2>3, LeadsRemove
<1>11. Backs(B, h, RemoveAt(s, i), e)
  <2>1. ASSUME Stop(h, s, e, i + 1) # Null
        PROVE  B[Stop(h, s, e, i + 1)] = Stop(h, s, e, i - 1)
    <3>1. \E j \in 1..Len(st) : st[j] = Assign("prev", after, before)
      BY <2>1, <1>2 DEF TakeShape, after, before
    <3>2. /\ Hits("prev", after, st, Len(st)) # {}
          /\ \A j \in Hits("prev", after, st, Len(st)) : st[j].value = before
      <4>1. Hits("prev", after, st, Len(st)) # {}
        BY <3>1 DEF Assign, Hits
      <4>2. ASSUME NEW j \in Hits("prev", after, st, Len(st)) PROVE st[j].value = before
        <5>1. j \in 1..Len(st) /\ st[j].field = "prev" /\ st[j].at # n
          BY <1>5 DEF Hits
        <5>2. st[j] = Assign("prev", after, before)
          BY <5>1, <1>6
        <5> QED
          BY <5>2 DEF Assign
      <4> QED
        BY <4>1, <4>2
    <3>3. after \in Place
      BY <3>1, <1>2 DEF TakeShape, StoreSet, Assign
    <3>4. B[after] = before
      BY <3>2, <3>3, <1>2, WrittenAlike
    <3> QED
      BY <3>4 DEF after, before
  <2>2. ASSUME NEW j \in 1..Len(s) + 1, j \notin {i, i + 1}, Stop(h, s, e, j) # Null
        PROVE  B[Stop(h, s, e, j)] = back[Stop(h, s, e, j)]
    <3>1. Stop(h, s, e, j) # after /\ Stop(h, s, e, j) # n
      <4>1. i \in 1..Len(s) + 1 /\ i + 1 \in 1..Len(s) + 1
        BY <1>1
      <4> QED
        BY <4>1, <2>2, <1>5, StopInjective DEF after
    <3>2. Stop(h, s, e, j) \in Place
      <4>1. j \in 0..Len(s) \/ j = Len(s) + 1
        BY <1>1
      <4>2. Stop(h, s, e, Len(s) + 1) = e
        BY StopPlaces
      <4> QED
        BY <4>1, <4>2, <2>2, <1>4, Places
    <3>3. Hits("prev", Stop(h, s, e, j), st, Len(st)) = {}
      BY <3>1, <1>6 DEF Hits, Assign
    <3> QED
      BY <3>2, <3>3, <1>2, WrittenMiss
  <2> HIDE DEF B
  <2> QED
    BY <2>1, <2>2, BacksRemove
<1>12. \A k \in 0..Len(st) :
         Leads(Written("next", mem, st, k), h, IF k < b THEN s ELSE RemoveAt(s, i), e)
  BY <1>9, <1>10
<1> QED
  BY <1>11, <1>12 DEF Swings

(* A list none of whose pointers is stored to. *)
LEMMA ApartSwings ==
  ASSUME NEW h \in Heads, NEW e \in {h, Null}, NEW s \in Seq(Node),
         NEW mem, NEW back, Leads(mem, h, s, e), Backs(back, h, s, e),
         NEW st \in Seq(StoreSet), st # <<>>,
         \A i \in DOMAIN st : st[i].at \notin {h} \cup Range(s)
  PROVE  Swings(mem, back, st, h, e, s, s)
<1>1. Len(st) \in Nat /\ DOMAIN st = 1..Len(st) /\ 1 \in 1..Len(st)
  OBVIOUS
<1>2. \A p \in {h} \cup Range(s) : p \in Place
  <2>1. \A p \in Range(s) : p \in Node
    BY DEF Range
  <2> QED
    BY <2>1, Places
<1>3. ASSUME NEW f, NEW mm, NEW k \in 0..Len(st), NEW p \in {h} \cup Range(s)
      PROVE  Written(f, mm, st, k)[p] = mm[p]
  <2>1. Hits(f, p, st, k) = {}
    BY <1>1 DEF Hits
  <2> QED
    BY <2>1, <1>1, <1>2, WrittenMiss
<1>4. \A k \in 0..Len(st) : Leads(Written("next", mem, st, k), h, s, e)
  <2> SUFFICES ASSUME NEW k \in 0..Len(st)
               PROVE  Leads(Written("next", mem, st, k), h, s, e)
    OBVIOUS
  <2> DEFINE N == Written("next", mem, st, k)
  <2>1. \A p \in {h} \cup Range(s) : N[p] = mem[p]
    BY <1>3
  <2> HIDE DEF N
  <2>2. Leads(N, h, s, e)
    BY <2>1, LeadsKept
  <2> QED
    BY <2>2 DEF N
<1>5. Backs(Written("prev", back, st, Len(st)), h, s, e)
  <2> DEFINE B == Written("prev", back, st, Len(st))
  <2>1. \A p \in {h} \cup Range(s) : B[p] = back[p]
    BY <1>1, <1>3
  <2> HIDE DEF B
  <2>2. Backs(B, h, s, e)
    BY <2>1, BacksKept
  <2> QED
    BY <2>2 DEF B
<1> QED
  BY <1>1, <1>4, <1>5 DEF Swings
-----------------------------------------------------------------------------
(* The lists of a state. *)

LEMMA Ends == \A h \in Heads : End(h) \in {h, Null}
BY DEF End

LEMMA WithoutIs ==
  ASSUME NEW s \in Seq(Node), IsInjective(s), NEW n
  PROVE  /\ n \notin Range(s) => Without(s, n) = s
         /\ \A i \in 1..Len(s) :
              s[i] = n => IndexIn(s, n) = i /\ Without(s, n) = RemoveAt(s, i)
<1>1. DOMAIN s = 1..Len(s)
  OBVIOUS
<1>2. n \notin Range(s) => Without(s, n) = s
  BY DEF Without
<1>3. ASSUME NEW i \in 1..Len(s), s[i] = n
      PROVE  IndexIn(s, n) = i /\ Without(s, n) = RemoveAt(s, i)
  <2>1. \A k \in DOMAIN s : s[k] = n => k = i
    BY <1>1, <1>3 DEF IsInjective
  <2>2. IndexIn(s, n) = i
    BY <1>1, <1>3, <2>1 DEF IndexIn
  <2>3. n \in Range(s)
    BY <1>1, <1>3 DEF Range
  <2> QED
    BY <2>2, <2>3 DEF Without
<1> QED
  BY <1>2, <1>3

(* What is on a list without duplicates stands at one place of it. *)
LEMMA ListedAt ==
  ASSUME NEW s \in Seq(Node), NEW n \in Range(s)
  PROVE  n \in Node /\ \E i \in 1..Len(s) : s[i] = n
BY DEF Range

LEMMA WithoutType ==
  ASSUME NEW s \in Seq(Node), IsInjective(s), NEW n
  PROVE  /\ Without(s, n) \in Seq(Node) /\ IsInjective(Without(s, n))
         /\ Range(Without(s, n)) = Range(s) \ {n}
<1>1. CASE n \notin Range(s)
  BY <1>1, WithoutIs
<1>2. CASE n \in Range(s)
  <2>1. PICK i \in 1..Len(s) : s[i] = n
    BY <1>2, ListedAt
  <2>2. i \in DOMAIN s
    OBVIOUS
  <2>3. Without(s, n) = RemoveAt(s, i)
    BY <2>1, WithoutIs
  <2> QED
    BY <2>1, <2>2, <2>3, RemoveAtUnlists
<1> QED
  BY <1>1, <1>2

LEMMA ViewsType ==
  ASSUME TypeOK, CallInv, NEW h \in Heads, NEW v \in Views(h)
  PROVE  v \in Seq(Node) /\ IsInjective(v) /\ Range(v) \subseteq Range(former[h]) \cup Linked
<1>1. /\ former[h] \in Seq(Node) /\ IsInjective(former[h])
      /\ lists[h] \in Seq(Node) /\ IsInjective(lists[h])
      /\ Range(lists[h]) \subseteq Linked
  BY DEF TypeOK, CallInv, Linked
<1>2. CASE v \in {former[h], lists[h]}
  BY <1>1, <1>2
<1>3. CASE \E n : v = Without(former[h], n)
  BY <1>1, <1>3, WithoutType
<1> QED
  BY <1>2, <1>3 DEF Views

(* Between calls there is one view. *)
LEMMA ViewsIdle ==
  ASSUME CallInv, stores = <<>>, NEW h \in Heads
  PROVE  Views(h) = {lists[h]}
BY DEF CallInv, Views

(* Then pointers lead along the lists, both ways. *)
LEMMA IdleLeads ==
  ASSUME TypeOK, CallInv, PlanInv, stores = <<>>, NEW h \in Heads
  PROVE  Leads(next, h, lists[h], End(h)) /\ Backs(prev, h, lists[h], End(h))
<1>1. Len(stores) = 0
  OBVIOUS
<1>2. next \in [Place -> Pointer] /\ prev \in [Place -> Pointer]
  BY DEF TypeOK
<1>3. Written("next", next, stores, 0) = next /\ Written("prev", prev, stores, 0) = prev
  BY <1>2, WrittenNone
<1>4. PICK V \in [0..0 -> Views(h)] : Course(h, V)
  BY <1>1 DEF PlanInv
<1>5. Leads(next, h, V[0], End(h)) /\ V[0] = lists[h]
  BY <1>1, <1>3, <1>4 DEF Course
<1> QED
  BY <1>1, <1>3, <1>5 DEF PlanInv

(* A call may be made of these stores, if they change a list in one step. *)
HasCourse(st, h, views, t, nodes, linked, kind) ==
  \E V \in [0..Len(st) -> views] :
    /\ \A k \in 0..Len(st) : Leads(Written("next", next, st, k), h, V[k], End(h))
    /\ V[Len(st)] = t
    /\ \A k \in 1..Len(st) : OneStep(V[k - 1], V[k], nodes, linked, kind)

LEMMA SwingCourse ==
  ASSUME NEW h \in Heads, NEW s, NEW t, NEW st, Len(st) \in Nat,
         Swings(next, prev, st, h, End(h), s, t),
         NEW nodes, NEW linked, NEW kind, OneStep(s, t, nodes, linked, kind),
         NEW views, s \in views, t \in views
  PROVE  HasCourse(st, h, views, t, nodes, linked, kind)
<1>1. PICK b \in 1..Len(st) : \A k \in 0..Len(st) :
        Leads(Written("next", next, st, k), h, IF k < b THEN s ELSE t, End(h))
  BY DEF Swings
<1> DEFINE V == [k \in 0..Len(st) |-> IF k < b THEN s ELSE t]
<1>2. V \in [0..Len(st) -> views]
  OBVIOUS
<1>3. \A k \in 0..Len(st) : Leads(Written("next", next, st, k), h, V[k], End(h))
  BY <1>1
<1>4. V[Len(st)] = t
  OBVIOUS
<1>5. ASSUME NEW k \in 1..Len(st)
      PROVE  OneStep(V[k - 1], V[k], nodes, linked, kind)
  <2>1. V[k] = V[k - 1] \/ (V[k - 1] = s /\ V[k] = t)
    OBVIOUS
  <2> HIDE DEF V
  <2>2. CASE V[k] = V[k - 1]
    BY <2>2 DEF OneStep
  <2> QED
    BY <2>1, <2>2
<1> HIDE DEF V
<1> QED
  BY <1>2, <1>3, <1>4, <1>5 DEF HasCourse
-----------------------------------------------------------------------------
(* What all calls that are stored one by one have in common: the stores     *)
(* change each list from what it is to what the call asks for, and what is  *)
(* owed to a reader is still on its path.                                   *)

(* What a call does for the reader; x is on no list nor retired. *)
SpareReader(nodes) ==
  /\ ~Reading => owed' = {} /\ retired' = {}
  /\ Reading =>
       /\ retired \subseteq retired' /\ retired' \subseteq Node
       /\ Linked' \cap retired' = {}
       /\ nodes \ Linked' \subseteq retired'
       /\ \A S \in owed' :
            /\ S \subseteq Linked' \cup retired'
            /\ S \cap nodes # {} => nodes \subseteq S /\ \A n \in Node : nodes # {n}
            /\ \E Q \in owed : S = Q \/ \E x \in Node \ (Linked \cup retired) : S = Q \cup {x}

LEMMA CallKeeps ==
  ASSUME IInv, NEW kind \in {"plain", "rcu"}, NEW st \in Seq(StoreSet), st # <<>>,
         NEW nodes \in SUBSET Node, NEW result \in [Heads -> Seq(Node)],
         Call(kind, st, nodes, result), SpareReader(nodes),
         \A h \in Heads : IsInjective(result[h]),
         Range(result[ListHead]) \cap Range(result[OtherHead]) = {},
         hashed => result[OtherHead] = <<>>, OneStays(nodes, Linked'),
         \A h \in Heads :
           /\ HasCourse(st, h, {lists[h], result[h]}
                          \cup {Without(lists[h], n) : n \in nodes \cap Linked'},
                        result[h], nodes, Linked', kind)
           /\ Backs(Written("prev", prev, st, Len(st)), h, result[h], End(h)),
         \A n \in nodes \ Linked', k \in 0..Len(st) - 1 :
           Written("prev", prev, st, k)[n] # n,
         kind = "rcu" =>
           \A i \in DOMAIN st : st[i].field = "next" => st[i].at \in Heads \cup Linked'
  PROVE  IInv'
<1>1. /\ stores = <<>> /\ walk # "handler" /\ (Reading => kind = "rcu")
      /\ stores' = st /\ call' = kind /\ touched' = nodes /\ lists' = result
      /\ hashed' = hashed /\ next' = next /\ prev' = prev /\ former' = former
      /\ walk' = walk /\ pos' = pos /\ ahead' = ahead /\ seen' = seen
  BY DEF Call, MayCall, memory, walker
<1>2. TypeOK /\ CallInv /\ PlanInv /\ WalkInv /\ ReaderInv
  BY DEF IInv
<1>3. former = lists /\ touched = {} /\ Len(st) \in Nat /\ Len(st) # 0
  BY <1>1, <1>2 DEF CallInv
<1>4. \A h \in Heads : End(h)' = End(h)
  BY <1>1 DEF End
<1>5. Reading' <=> Reading
  BY <1>1 DEF Reading
<1>6. \A h \in Heads :
        Views(h)' = {lists[h], result[h]} \cup {Without(lists[h], n) : n \in nodes \cap Linked'}
  BY <1>1, <1>3 DEF Views
<1>7. Linked' \subseteq Node
  <2>1. \A h \in Heads : Range(result[h]) \subseteq Node
    BY ListedAt
  <2> QED
    BY <1>1, <2>1 DEF Linked
<1>8. TypeOK'
  <2>1. owed' \subseteq SUBSET Node /\ retired' \subseteq Node
    BY <1>7 DEF SpareReader
  <2>2. stores' \in Seq([field : {"next", "prev"}, at : Place, value : Pointer])
    BY <1>1 DEF StoreSet
  <2> QED
    BY <1>1, <1>2, <2>1, <2>2 DEF TypeOK
<1>9. CallInv'
  BY <1>1, <1>2, <1>3 DEF CallInv
<1>10. PlanInv'
  <2> SUFFICES ASSUME NEW h \in Heads
               PROVE  /\ \E V \in [0..Len(st) -> Views(h)'] : Course(h, V)'
                      /\ Backs(Written("prev", prev, st, Len(st)), h, result[h], End(h))
    BY <1>1, <1>4 DEF PlanInv
  <2>1. PICK V \in [0..Len(st) -> Views(h)'] :
          /\ \A k \in 0..Len(st) : Leads(Written("next", next, st, k), h, V[k], End(h))
          /\ V[Len(st)] = result[h]
          /\ \A k \in 1..Len(st) : OneStep(V[k - 1], V[k], nodes, Linked', kind)
    BY <1>6 DEF HasCourse
  <2>2. Course(h, V)'
    BY <1>1, <1>4, <2>1 DEF Course
  <2> QED
    BY <2>1, <2>2
<1>11. CarefulInv'
  BY <1>1 DEF CarefulInv
<1>12. RcuInv'
  BY <1>1 DEF RcuInv
<1>13. WalkInv'
  <2>1. /\ walk' = "none" => seen' = <<>>
        /\ ahead' # Poison => walk' = "safe"
    BY <1>1, <1>2 DEF WalkInv
  <2>2. ~Reading' => owed' = {} /\ retired' = {}
    BY <1>5 DEF SpareReader
  <2>3. Reading' =>
          /\ call' # "plain"
          /\ Linked' \cap retired' = {}
          /\ touched' \ Linked' \subseteq retired'
          /\ \A S \in owed' :
               /\ S \subseteq Linked' \cup retired'
               /\ S \cap touched' # {} =>
                    touched' \subseteq S /\ \A n \in Node : touched' # {n}
    BY <1>1, <1>5 DEF SpareReader
  <2> QED
    BY <2>1, <2>2, <2>3 DEF WalkInv
<1>14. WalkVisitsList'
  BY <1>1 DEF WalkVisitsList
<1>15. ReaderInv'
  <2> SUFFICES ASSUME Reading
               PROVE  \E p \in Path, v \in Views(ListHead)' :
                        \E m \in 1..Len(p) + 1, j \in 1..Len(v) + 1 :
                          OnPath(p, m, v, j)' /\ AtStop(p, m)'
    BY <1>5 DEF ReaderInv
  <2>0. ListHead \in Heads
    BY DEF Heads
  <2>a. PICK p \in Path, v \in Views(ListHead) :
          \E m \in 1..Len(p) + 1, j \in 1..Len(v) + 1 : OnPath(p, m, v, j) /\ AtStop(p, m)
    BY <1>2 DEF ReaderInv
  <2>1. PICK m \in 1..Len(p) + 1, j \in 1..Len(v) + 1 : OnPath(p, m, v, j) /\ AtStop(p, m)
    BY <2>a
  <2>2. v \in Views(ListHead)' /\ Range(v) \subseteq Linked
    <3>1. v = lists[ListHead]
      BY <1>1, <1>2, <2>0, ViewsIdle
    <3> QED
      BY <1>6, <2>0, <3>1 DEF Linked
  <2>3. AtStop(p, m)'
    BY <1>1, <1>4, <2>0, <2>1 DEF AtStop
  <2>4. ASSUME NEW S \in owed' PROVE \E n \in Node : S \cap Range(p) = {n}
    <3>1. PICK Q \in owed : S = Q \/ \E x \in Node \ (Linked \cup retired) : S = Q \cup {x}
      BY DEF SpareReader
    <3>2. PICK n \in Node : Q \cap Range(p) = {n}
      BY <2>1 DEF OnPath
    <3>3. Range(p) \subseteq Linked \cup retired
      BY <2>1, <2>2 DEF OnPath
    <3>4. S \cap Range(p) = Q \cap Range(p)
      BY <3>1, <3>3
    <3> QED
      BY <3>2, <3>4
  <2>5. OnPath(p, m, v, j)'
    <3>1. /\ Leads(next, ListHead, v, End(ListHead))
          /\ Range(p) \subseteq Range(v) \cup retired
          /\ m <= j + Len(p) - Len(v)
          /\ \A k \in j..Len(v) : p[k + Len(p) - Len(v)] = v[k]
          /\ \A k \in m..j + Len(p) - Len(v) - 1 :
               p[k] \in retired /\ next[p[k]] = Stop(ListHead, p, End(ListHead), k + 1)
      BY <2>1 DEF OnPath
    <3>2. retired \subseteq retired'
      BY DEF SpareReader
    <3> QED
      BY <1>1, <1>4, <2>0, <2>4, <3>1, <3>2 DEF OnPath
  <2> QED
    BY <2>1, <2>2, <2>3, <2>5
<1> QED
  BY <1>8, <1>9, <1>10, <1>11, <1>12, <1>13, <1>14, <1>15 DEF IInv
-----------------------------------------------------------------------------
(* The four kinds of calls. *)

LEMMA StopNear ==
  ASSUME NEW h \in Heads, NEW e \in {h, Null}, NEW s \in Seq(Node), NEW k \in 0..Len(s) + 1
  PROVE  Stop(h, s, e, k) \in {h, Null} \cup Range(s)
<1>1. Len(s) \in Nat /\ DOMAIN s = 1..Len(s)
  OBVIOUS
<1>2. k = 0 \/ k \in 1..Len(s) \/ k = Len(s) + 1
  BY <1>1
<1>3. \A j \in 1..Len(s) : s[j] \in Range(s)
  BY <1>1 DEF Range
<1>4. Stop(h, s, e, 0) = h /\ Stop(h, s, e, Len(s) + 1) = e
  BY StopPlaces
<1>5. \A j \in 1..Len(s) : Stop(h, s, e, j) = s[j]
  BY StopPlaces
<1> QED
  BY <1>2, <1>3, <1>4, <1>5

(* Two heads have nothing in common. *)
LEMMA ListsApart ==
  ASSUME TypeOK, NEW h \in Heads, NEW g \in Heads, g # h
  PROVE  ({h, Null} \cup Range(lists[h])) \cap ({g} \cup Range(lists[g])) = {}
<1>1. Range(lists[h]) \cap Range(lists[g]) = {}
  BY DEF TypeOK, Heads
<1>2. Range(lists[h]) \subseteq Node /\ Range(lists[g]) \subseteq Node
  BY ListedAt DEF TypeOK
<1> QED
  BY <1>1, <1>2, Places

LEMMA IdleStart ==
  ASSUME IInv, stores = <<>>
  PROVE  /\ TypeOK /\ CallInv /\ WalkInv /\ touched = {} /\ former = lists
         /\ \A h \in Heads :
              /\ lists[h] \in Seq(Node) /\ IsInjective(lists[h]) /\ End(h) \in {h, Null}
              /\ Leads(next, h, lists[h], End(h)) /\ Backs(prev, h, lists[h], End(h))
              /\ Range(lists[h]) \subseteq Linked
         /\ Linked \subseteq Node
<1>1. TypeOK /\ CallInv /\ PlanInv /\ WalkInv
  BY DEF IInv
<1>2. touched = {} /\ former = lists
  BY <1>1 DEF CallInv
<1>3. \A h \in Heads : lists[h] \in Seq(Node) /\ IsInjective(lists[h])
  BY <1>1 DEF TypeOK
<1>4. \A h \in Heads : Range(lists[h]) \subseteq Linked
  BY DEF Linked
<1>5. Linked \subseteq Node
  BY <1>3, ListedAt DEF Linked
<1> QED
  BY <1>1, <1>2, <1>3, <1>4, <1>5, IdleLeads, Ends

(* A list that a call leaves alone. *)
LEMMA ApartCourse ==
  ASSUME IInv, stores = <<>>, NEW h \in Heads, NEW g \in Heads, g # h,
         NEW st \in Seq(StoreSet), st # <<>>,
         NEW nodes, nodes \cap Range(lists[g]) = {},
         \A i \in DOMAIN st : st[i].at \in {h, Null} \cup Range(lists[h]) \cup nodes,
         nodes \subseteq Node, NEW linked, NEW kind, NEW views, lists[g] \in views
  PROVE  /\ HasCourse(st, g, views, lists[g], nodes, linked, kind)
         /\ Backs(Written("prev", prev, st, Len(st)), g, lists[g], End(g))
<1>1. /\ lists[g] \in Seq(Node) /\ End(g) \in {g, Null} /\ TypeOK
      /\ Leads(next, g, lists[g], End(g)) /\ Backs(prev, g, lists[g], End(g))
  BY IdleStart
<1>2. \A i \in DOMAIN st : st[i].at \notin {g} \cup Range(lists[g])
  <2>1. ({h, Null} \cup Range(lists[h])) \cap ({g} \cup Range(lists[g])) = {}
    BY <1>1, ListsApart
  <2>2. nodes \cap ({g} \cup Range(lists[g])) = {}
    BY Places
  <2> QED
    BY <2>1, <2>2
<1>3. Swings(next, prev, st, g, End(g), lists[g], lists[g])
  BY <1>1, <1>2, ApartSwings
<1>4. OneStep(lists[g], lists[g], nodes, linked, kind)
  BY DEF OneStep
<1>5. Len(st) \in Nat
  OBVIOUS
<1> QED
  BY <1>3, <1>4, <1>5, SwingCourse DEF Swings

LEMMA AddKeeps ==
  ASSUME IInv, NEW kind \in {"plain", "rcu"}, NEW st, NEW new, NEW h \in Heads,
         hashed => h = ListHead,
         NEW i \in 1..Len(lists[h]) + 1, Add(kind, st, new, h, i),
         PutShape(st, new, Stop(h, lists[h], End(h), i - 1),
                  Stop(h, lists[h], End(h), i), {})
  PROVE  IInv'
<1> DEFINE s == lists[h]
           e == End(h)
           before == Stop(h, s, e, i - 1)
           after == Stop(h, s, e, i)
           t == InsertAt(s, i, new)
           R == [lists EXCEPT ![h] = t]
<1>1. /\ new \in Node \ (Linked \cup retired) /\ Call(kind, st, {new}, R)
      /\ owed' = owed /\ retired' = retired
  BY DEF Add, Fresh
<1>2. stores = <<>> /\ lists' = R /\ lists \in [Heads -> Seq(Node)]
  BY <1>1 DEF Call, MayCall, IInv, TypeOK
<1>3. /\ TypeOK /\ CallInv /\ WalkInv /\ s \in Seq(Node) /\ IsInjective(s) /\ e \in {h, Null}
      /\ Leads(next, h, s, e) /\ Backs(prev, h, s, e) /\ new \notin Range(s)
  BY <1>1, <1>2, IdleStart
<1>4. /\ t \in Seq(Node) /\ Range(t) = Range(s) \cup {new} /\ IsInjective(t)
  <2>1. t \in Seq(Node)
    BY <1>1, <1>3, InsertAtElements
  <2>2. Range(t) = Range(s) \cup {new}
    BY <1>1, <1>3, InsertAtLists
  <2>3. IsInjective(t)
    BY <1>1, <1>3, InsertAtLists
  <2> QED
    BY <2>1, <2>2, <2>3
<1> HIDE DEF t
<1>5. R[h] = t /\ (\A g \in Heads : g # h => R[g] = lists[g]) /\ R \in [Heads -> Seq(Node)]
  BY <1>2, <1>4
<1>6. Linked' = Linked \cup {new}
  BY <1>2, <1>4, <1>5 DEF Linked
<1>7. st \in Seq(StoreSet) /\ st # <<>> /\ Len(st) \in Nat /\ DOMAIN st = 1..Len(st)
  <2>1. st \in Seq(StoreSet) /\ \E a \in DOMAIN st : TRUE
    BY DEF PutShape
  <2> QED
    BY <2>1
<1>8. Swings(next, prev, st, h, e, s, t)
  BY <1>1, <1>3, PutSwings DEF t
<1>9. OneStep(s, t, {new}, Linked', kind)
  <2>1. new \in Linked' \ Range(s)
    BY <1>3, <1>6
  <2> QED
    BY <2>1 DEF OneStep, t
<1>10. \A k \in DOMAIN st :
         /\ st[k].at \in {h, Null} \cup Range(s) \cup {new}
         /\ st[k].field = "next" => st[k].at \in {new, before}
  <2>1. \A k \in DOMAIN st :
          st[k] \in {Assign("next", new, after), Assign("next", before, new),
                     Assign("prev", new, before), Assign("prev", after, new)}
    BY DEF PutShape
  <2>2. before \in {h, Null} \cup Range(s) /\ after \in {h, Null} \cup Range(s)
    <3>1. Len(s) \in Nat /\ i - 1 \in 0..Len(s) + 1 /\ i \in 0..Len(s) + 1
      BY <1>3
    <3> QED
      BY <1>3, <3>1, StopNear
  <2> HIDE DEF before, after
  <2> QED
    BY <2>1, <2>2 DEF Assign
<1>11. ASSUME NEW g \in Heads
       PROVE  /\ HasCourse(st, g, {lists[g], R[g]}
                             \cup {Without(lists[g], n) : n \in {new} \cap Linked'},
                           R[g], {new}, Linked', kind)
              /\ Backs(Written("prev", prev, st, Len(st)), g, R[g], End(g))
  <2> DEFINE views == {lists[g], R[g]} \cup {Without(lists[g], n) : n \in {new} \cap Linked'}
  <2>1. lists[g] \in views /\ R[g] \in views
    OBVIOUS
  <2> HIDE DEF views, R
  <2>2. CASE g = h
    BY <1>5, <1>7, <1>8, <1>9, <2>1, <2>2, SwingCourse DEF Swings, views
  <2>3. CASE g # h
    <3> DEFINE nodes == {new}
               linked == Linked'
    <3>1. nodes \cap Range(lists[g]) = {} /\ nodes \subseteq Node
      BY <1>1, <1>2, IdleStart
    <3>2. \A k \in DOMAIN st : st[k].at \in {h, Null} \cup Range(lists[h]) \cup nodes
      BY <1>10
    <3> HIDE DEF nodes, linked
    <3>3. /\ HasCourse(st, g, views, lists[g], nodes, linked, kind)
          /\ Backs(Written("prev", prev, st, Len(st)), g, lists[g], End(g))
      BY <1>2, <1>7, <2>1, <2>3, <3>1, <3>2, ApartCourse
    <3> QED
      BY <1>5, <2>3, <3>3 DEF views, nodes, linked
  <2> QED
    BY <2>2, <2>3
<1>12. SpareReader({new})
  <2>1. \A S \in owed : Reading => S \subseteq Linked \cup retired
    BY <1>3 DEF WalkInv
  <2>2. retired \subseteq Node
    BY <1>3 DEF TypeOK
  <2>3. Reading => Linked \cap retired = {}
    BY <1>3 DEF WalkInv
  <2>4. ~Reading => owed = {} /\ retired = {}
    BY <1>3 DEF WalkInv
  <2> QED
    BY <1>1, <1>6, <2>1, <2>2, <2>3, <2>4 DEF SpareReader
<1>13. \A g \in Heads : IsInjective(R[g])
  <2>1. \A g \in Heads : IsInjective(lists[g])
    BY <1>3 DEF TypeOK
  <2> QED
    BY <2>1, <1>4, <1>5
<1>14. Range(R[ListHead]) \cap Range(R[OtherHead]) = {}
  <2>1. Range(lists[ListHead]) \cap Range(lists[OtherHead]) = {}
    BY <1>3 DEF TypeOK
  <2>2. \A g \in Heads : Range(lists[g]) \subseteq Linked
    BY <1>2, IdleStart
  <2>3. (h = ListHead /\ OtherHead # h) \/ (h = OtherHead /\ ListHead # h)
    BY KListAssumption DEF Heads
  <2> QED
    BY <1>1, <1>4, <1>5, <2>1, <2>2, <2>3 DEF Heads
<1>15. hashed => R[OtherHead] = <<>>
  BY <1>3, <1>5, KListAssumption DEF CallInv, Heads
<1>16. \A n \in {new} \ Linked', k \in 0..Len(st) - 1 : Written("prev", prev, st, k)[n] # n
  BY <1>6
<1>17. \A k \in DOMAIN st : st[k].field = "next" => st[k].at \in Heads \cup Linked'
  <2>1. before \in Heads \cup Linked
    <3>1. Len(s) \in Nat /\ i - 1 \in 0..Len(s) /\ i - 1 \in 0..Len(s) + 1
      BY <1>3
    <3>2. before \in {h, Null} \cup Range(s) /\ before \in Place
      BY <1>3, <3>1, StopNear, StopPlaces
    <3> QED
      BY <3>2, Places DEF Linked
  <2> HIDE DEF before
  <2> QED
    BY <1>6, <1>10, <2>1
<1>18. OneStays({new}, Linked')
  BY DEF OneStays
<1> HIDE DEF R
<1> QED
  BY <1>1, <1>5, <1>7, <1>11, <1>12, <1>13, <1>14, <1>15, <1>16, <1>17, <1>18, CallKeeps

(* An entry and its neighbours. *)
LEMMA AroundEntry ==
  ASSUME NEW h \in Heads, NEW e \in {h, Null}, NEW s \in Seq(Node), IsInjective(s),
         NEW i \in 1..Len(s)
  PROVE  /\ s[i] \in Range(s) /\ s[i] \in Node
         /\ Stop(h, s, e, i - 1) \in ({h} \cup Range(s)) \ {s[i]}
         /\ Stop(h, s, e, i + 1) \in ({h, Null} \cup Range(s)) \ {s[i]}
         /\ \A mem : Leads(mem, h, s, e) => mem[s[i]] = Stop(h, s, e, i + 1)
         /\ \A mem : Backs(mem, h, s, e) => mem[s[i]] = Stop(h, s, e, i - 1)
<1>1. /\ Len(s) \in Nat /\ DOMAIN s = 1..Len(s) /\ i - 1 \in 0..Len(s) /\ i \in 0..Len(s)
      /\ i - 1 \in 0..Len(s) + 1 /\ i + 1 \in 0..Len(s) + 1 /\ i - 1 # i /\ i # i + 1
      /\ i \in 1..Len(s) + 1 /\ i + 1 \in 1..Len(s) + 1 /\ (i - 1) + 1 = i
  OBVIOUS
<1>2. s[i] \in Range(s) /\ s[i] \in Node
  BY <1>1 DEF Range
<1>3. Stop(h, s, e, i) = s[i]
  BY StopPlaces
<1>4. Stop(h, s, e, i - 1) \in {h, Null} \cup Range(s)
  BY <1>1, StopNear
<1>5. Stop(h, s, e, i - 1) \in Place
  BY <1>1, StopPlaces
<1>6. Stop(h, s, e, i - 1) # s[i]
  BY <1>1, <1>3, StopInjective
<1>7. Stop(h, s, e, i + 1) \in {h, Null} \cup Range(s)
  BY <1>1, StopNear
<1>8. Stop(h, s, e, i + 1) # s[i]
  BY <1>1, <1>3, StopInjective
<1>9. \A mem : Leads(mem, h, s, e) => mem[s[i]] = Stop(h, s, e, i + 1)
  BY <1>1, <1>3 DEF Leads
<1>10. \A mem : Backs(mem, h, s, e) => mem[s[i]] = Stop(h, s, e, i - 1)
  BY <1>1, <1>2, <1>3, Places DEF Backs
<1> QED
  BY <1>2, <1>4, <1>5, <1>6, <1>7, <1>8, <1>9, <1>10, Places

LEMMA DelKeeps ==
  ASSUME IInv, NEW kind \in {"plain", "rcu"}, NEW st, NEW h \in Heads,
         NEW i \in 1..Len(lists[h]), Del(kind, st, lists[h][i]),
         TakeShape(st, lists[h][i], Stop(h, lists[h], End(h), i - 1),
                   Stop(h, lists[h], End(h), i + 1)),
         kind = "rcu" =>
           \A k \in DOMAIN st : st[k].field = "next" => st[k].at # lists[h][i]
  PROVE  IInv'
<1> DEFINE s == lists[h]
           e == End(h)
           entry == s[i]
           before == Stop(h, s, e, i - 1)
           after == Stop(h, s, e, i + 1)
           t == RemoveAt(s, i)
           R == [g \in Heads |-> Without(lists[g], entry)]
<1>1. Call(kind, st, {entry}, R) /\ Retire({entry})
  BY DEF Del
<1>2. stores = <<>> /\ lists' = R
  BY <1>1 DEF Call, MayCall
<1>3. /\ TypeOK /\ CallInv /\ WalkInv /\ s \in Seq(Node) /\ IsInjective(s) /\ e \in {h, Null}
      /\ Leads(next, h, s, e) /\ Backs(prev, h, s, e) /\ Range(s) \subseteq Linked
      /\ Linked \subseteq Node
  BY <1>2, IdleStart
<1>4. /\ entry \in Range(s) /\ entry \in Node
      /\ before \in ({h} \cup Range(s)) \ {entry}
      /\ after \in ({h, Null} \cup Range(s)) \ {entry}
      /\ prev[entry] = before
  BY <1>3, AroundEntry
<1>5. /\ t \in Seq(Node) /\ IsInjective(t) /\ Range(t) = Range(s) \ {entry}
  <2>1. i \in DOMAIN s
    BY <1>3
  <2> QED
    BY <1>3, <2>1, RemoveAtUnlists
<1>6. R[h] = t
  BY <1>3, WithoutIs
<1>7. ASSUME NEW g \in Heads, g # h
      PROVE  R[g] = lists[g] /\ entry \notin Range(lists[g])
  <2>1. entry \notin Range(lists[g])
    BY <1>3, <1>4, <1>7, ListsApart
  <2>2. lists[g] \in Seq(Node) /\ IsInjective(lists[g])
    BY <1>2, IdleStart
  <2> QED
    BY <2>1, <2>2, WithoutIs
<1> HIDE DEF t, entry, before, after
<1>8. \A g \in Heads : R[g] \in Seq(Node) /\ IsInjective(R[g])
  BY <1>2, <1>5, <1>6, <1>7, IdleStart
<1>9. R \in [Heads -> Seq(Node)]
  BY <1>8
<1>10. Linked' = Linked \ {entry}
  <2>1. \A g \in Heads : Range(R[g]) = Range(lists[g]) \ {entry}
    BY <1>5, <1>6, <1>7
  <2> HIDE DEF R
  <2>2. \A x : x \in Linked' <=> \E g \in Heads : x \in Range(R[g])
    BY <1>2 DEF Linked
  <2>3. \A x : x \in Linked <=> \E g \in Heads : x \in Range(lists[g])
    BY DEF Linked
  <2>4. \A x : x \in Linked' <=> x \in Linked /\ x # entry
    BY <2>1, <2>2, <2>3, ZenonT(30)
  <2> DEFINE linked == Linked'
  <2>5. \A x : x \in linked <=> x \in Linked /\ x # entry
    BY <2>4
  <2> HIDE DEF linked
  <2>6. linked = Linked \ {entry}
    BY <2>5
  <2> QED
    BY <2>6 DEF linked
<1> HIDE DEF R
<1>11. TakeShape(st, entry, before, after)
  BY DEF entry, before, after
<1>12. st \in Seq(StoreSet) /\ st # <<>> /\ Len(st) \in Nat /\ DOMAIN st = 1..Len(st)
  <2>1. st \in Seq(StoreSet) /\ \E a \in DOMAIN st : TRUE
    BY <1>11 DEF TakeShape
  <2> QED
    BY <2>1
<1>13. Swings(next, prev, st, h, e, s, t)
  BY <1>3, TakeSwings DEF t
<1>14. OneStep(s, t, {entry}, Linked', kind)
  BY <1>10 DEF OneStep, t, entry
<1>15. \A k \in DOMAIN st :
         /\ st[k].at \in {h, Null} \cup Range(s) \cup {entry}
         /\ st[k].field = "next" => st[k].at \in {entry, before}
  <2> SUFFICES ASSUME NEW k \in DOMAIN st
               PROVE  /\ st[k].at \in {h, Null} \cup Range(s) \cup {entry}
                      /\ st[k].field = "next" => st[k].at \in {entry, before}
    OBVIOUS
  <2>0. st[k] \in StoreSet
    BY <1>12
  <2>1. st[k].field \in {"next", "prev"}
    BY <2>0 DEF StoreSet
  <2>2. CASE st[k].field = "next"
    BY <2>2, <1>4, <1>11 DEF TakeShape, Assign
  <2>3. CASE st[k].field = "prev"
    BY <2>3, <1>4, <1>11 DEF TakeShape, Assign
  <2> QED
    BY <2>1, <2>2, <2>3
<1>16. ASSUME NEW g \in Heads
       PROVE  /\ HasCourse(st, g, {lists[g], R[g]}
                             \cup {Without(lists[g], n) : n \in {entry} \cap Linked'},
                           R[g], {entry}, Linked', kind)
              /\ Backs(Written("prev", prev, st, Len(st)), g, R[g], End(g))
  <2> DEFINE views == {lists[g], R[g]} \cup {Without(lists[g], n) : n \in {entry} \cap Linked'}
  <2>1. lists[g] \in views /\ R[g] \in views
    OBVIOUS
  <2> HIDE DEF views
  <2>2. CASE g = h
    BY <1>6, <1>12, <1>13, <1>14, <2>1, <2>2, SwingCourse DEF Swings, views
  <2>3. CASE g # h
    <3> DEFINE nodes == {entry}
               linked == Linked'
    <3>1. nodes \cap Range(lists[g]) = {} /\ nodes \subseteq Node
      BY <1>4, <1>7, <2>3
    <3>2. \A k \in DOMAIN st : st[k].at \in {h, Null} \cup Range(lists[h]) \cup nodes
      BY <1>15
    <3> HIDE DEF nodes, linked
    <3>3. /\ HasCourse(st, g, views, lists[g], nodes, linked, kind)
          /\ Backs(Written("prev", prev, st, Len(st)), g, lists[g], End(g))
      BY <1>2, <1>12, <2>1, <2>3, <3>1, <3>2, ApartCourse
    <3> QED
      BY <1>7, <2>3, <3>3 DEF views, nodes, linked
  <2> QED
    BY <2>2, <2>3
<1>17. SpareReader({entry})
  <2>1. /\ Reading => Linked \cap retired = {} /\ \A S \in owed : S \subseteq Linked \cup retired
        /\ ~Reading => owed = {} /\ retired = {}
    BY <1>3 DEF WalkInv
  <2>2. retired \subseteq Node
    BY <1>3 DEF TypeOK
  <2>3. /\ owed' = {S \in owed : S \cap {entry} = {}}
        /\ retired' = IF Reading THEN retired \cup {entry} ELSE {}
    BY <1>1 DEF Retire
  <2> QED
    BY <1>4, <1>10, <2>1, <2>2, <2>3 DEF SpareReader
<1>18. Range(R[ListHead]) \cap Range(R[OtherHead]) = {}
  <2>1. Range(lists[ListHead]) \cap Range(lists[OtherHead]) = {}
    BY <1>3 DEF TypeOK
  <2>2. \A g \in Heads : Range(R[g]) \subseteq Range(lists[g])
    BY <1>5, <1>6, <1>7
  <2> QED
    BY <2>1, <2>2 DEF Heads
<1>19. hashed => R[OtherHead] = <<>>
  <2> SUFFICES ASSUME hashed PROVE R[OtherHead] = <<>>
    OBVIOUS
  <2>1. lists[OtherHead] = <<>> /\ OtherHead \in Heads
    BY <1>3 DEF CallInv, Heads
  <2>2. OtherHead # h
    BY <1>4, <2>1 DEF Range
  <2> QED
    BY <1>7, <2>1, <2>2
<1>20. \A n \in {entry} \ Linked', k \in 0..Len(st) - 1 : Written("prev", prev, st, k)[n] # n
  <2> SUFFICES ASSUME NEW k \in 0..Len(st) - 1
               PROVE  Written("prev", prev, st, k)[entry] # entry
    OBVIOUS
  <2>1. Hits("prev", entry, st, k) = {}
    BY <1>4, <1>11, <1>12 DEF Hits, TakeShape, Assign
  <2>2. Written("prev", prev, st, k)[entry] = prev[entry]
    BY <1>4, <1>12, <2>1, WrittenMiss, Places
  <2> QED
    BY <1>4, <2>2
<1>21. kind = "rcu" =>
         \A k \in DOMAIN st : st[k].field = "next" => st[k].at \in Heads \cup Linked'
  <2>1. kind = "rcu" => \A k \in DOMAIN st : st[k].field = "next" => st[k].at # entry
    BY DEF entry
  <2> QED
    BY <1>3, <1>4, <1>10, <1>15, <2>1
<1>22. {entry} \in SUBSET Node
  BY <1>4
<1>23. OneStays({entry}, Linked')
  BY DEF OneStays
<1> HIDE DEF R
<1> QED
  BY <1>1, <1>8, <1>9, <1>12, <1>16, <1>17, <1>18, <1>19, <1>20, <1>21, <1>22, <1>23, CallKeeps

LEMMA ReplaceKeeps ==
  ASSUME IInv, NEW st, NEW h \in Heads, NEW i \in 1..Len(lists[h]), NEW new,
         Replace(st, lists[h][i], new),
         PutShape(st, new, Stop(h, lists[h], End(h), i - 1),
                  Stop(h, lists[h], End(h), i + 1), {Assign("prev", lists[h][i], Poison)}),
         \A k \in DOMAIN st : st[k].at = lists[h][i] => k = Len(st)
  PROVE  IInv'
<1> DEFINE s == lists[h]
           e == End(h)
           old == s[i]
           before == Stop(h, s, e, i - 1)
           after == Stop(h, s, e, i + 1)
           t == ReplaceAt(s, i, new)
           R == [g \in Heads |-> ReplaceAll(lists[g], old, new)]
           nodes == {old, new}
<1>1. /\ Call("rcu", st, nodes, R) /\ new \in Node \ (Linked \cup retired)
      /\ owed' = {IF old \in S THEN S \cup {new} ELSE S : S \in owed}
      /\ retired' = IF Reading THEN retired \cup {old} ELSE {}
  BY DEF Replace, Fresh
<1>2. stores = <<>> /\ lists' = R
  BY <1>1 DEF Call, MayCall
<1>3. /\ TypeOK /\ CallInv /\ WalkInv /\ s \in Seq(Node) /\ IsInjective(s) /\ e \in {h, Null}
      /\ Leads(next, h, s, e) /\ Backs(prev, h, s, e) /\ Range(s) \subseteq Linked
      /\ Linked \subseteq Node
  BY <1>2, IdleStart
<1>4. /\ old \in Range(s) /\ old \in Node /\ new \notin Range(s) /\ new \in Node /\ old # new
      /\ before \in ({h} \cup Range(s)) \ {old}
      /\ after \in ({h, Null} \cup Range(s)) \ {old}
      /\ prev[old] = before
  BY <1>1, <1>3, AroundEntry
<1>5. /\ t \in Seq(Node) /\ Len(t) = Len(s) /\ IsInjective(t)
      /\ Range(t) = (Range(s) \ {old}) \cup {new}
      /\ \A k \in 1..Len(s) : t[k] = IF k = i THEN new ELSE s[k]
  <2>1. i \in DOMAIN s
    BY <1>3
  <2>2. t \in Seq(Node) /\ Len(t) = Len(s)
    BY <1>3, <1>4, <2>1, ReplaceAtLists
  <2>3. IsInjective(t)
    BY <1>3, <1>4, <2>1, ReplaceAtLists
  <2>4. Range(t) = (Range(s) \ {old}) \cup {new}
    BY <1>3, <1>4, <2>1, ReplaceAtLists
  <2>5. \A k \in 1..Len(s) : t[k] = IF k = i THEN new ELSE s[k]
    BY <1>3, <1>4, <2>1, ReplaceAtLists
  <2> QED
    BY <2>2, <2>3, <2>4, <2>5
<1>6. R[h] = t
  <2>1. DOMAIN s = 1..Len(s) /\ \A k \in 1..Len(s) : s[k] = old <=> k = i
    BY <1>3 DEF IsInjective
  <2>2. ReplaceAll(s, old, new) = [k \in 1..Len(s) |-> IF k = i THEN new ELSE s[k]]
    BY <2>1 DEF ReplaceAll
  <2>3. t = [k \in 1..Len(s) |-> IF k = i THEN new ELSE s[k]]
    BY <1>3, <2>1 DEF ReplaceAt
  <2> QED
    BY <2>2, <2>3
<1>7. ASSUME NEW g \in Heads, g # h
      PROVE  R[g] = lists[g] /\ old \notin Range(lists[g])
  <2>1. old \notin Range(lists[g])
    BY <1>3, <1>4, <1>7, ListsApart
  <2>2. lists[g] \in Seq(Node)
    BY <1>2, IdleStart
  <2>3. DOMAIN lists[g] = 1..Len(lists[g]) /\ \A k \in 1..Len(lists[g]) : lists[g][k] # old
    BY <2>1, <2>2 DEF Range
  <2>4. ReplaceAll(lists[g], old, new) = [k \in 1..Len(lists[g]) |-> lists[g][k]]
    BY <2>3 DEF ReplaceAll
  <2> DEFINE u == lists[g]
  <2> HIDE DEF u
  <2>5. u \in Seq(Node) => [k \in 1..Len(u) |-> u[k]] = u
    OBVIOUS
  <2> QED
    BY <2>1, <2>2, <2>4, <2>5 DEF u
<1> HIDE DEF t, old, before, after
<1>8. \A g \in Heads : R[g] \in Seq(Node) /\ IsInjective(R[g])
  BY <1>2, <1>5, <1>6, <1>7, IdleStart
<1>9. R \in [Heads -> Seq(Node)]
  BY <1>8
<1> HIDE DEF R
<1>10. Linked' = (Linked \ {old}) \cup {new}
  <2>1. \A g \in Heads : Range(R[g]) = IF g = h THEN (Range(lists[g]) \ {old}) \cup {new}
                                       ELSE Range(lists[g]) \ {old}
    BY <1>5, <1>6, <1>7
  <2>2. \A x : x \in Linked' <=> \E g \in Heads : x \in Range(R[g])
    BY <1>2 DEF Linked
  <2>3. \A x : x \in Linked <=> \E g \in Heads : x \in Range(lists[g])
    BY DEF Linked
  <2>4. \A x : x \in Linked' <=> (x \in Linked /\ x # old) \/ x = new
    <3> SUFFICES ASSUME NEW x
                 PROVE  (\E g \in Heads : x \in Range(R[g]))
                          <=> ((\E g \in Heads : x \in Range(lists[g])) /\ x # old) \/ x = new
      BY <2>2, <2>3
    <3>1. \A g \in Heads :
            x \in Range(R[g]) <=> (x \in Range(lists[g]) /\ x # old) \/ (g = h /\ x = new)
      BY <1>4, <2>1
    <3> QED
      BY <3>1
  <2> DEFINE linked == Linked'
  <2>5. \A x : x \in linked <=> (x \in Linked /\ x # old) \/ x = new
    BY <2>4
  <2> HIDE DEF linked
  <2>6. linked = (Linked \ {old}) \cup {new}
    BY <2>5
  <2> QED
    BY <2>6 DEF linked
<1>11. PutShape(st, new, before, after, {Assign("prev", old, Poison)})
  BY DEF old, before, after
<1>12. st \in Seq(StoreSet) /\ st # <<>> /\ Len(st) \in Nat /\ DOMAIN st = 1..Len(st)
  <2>1. st \in Seq(StoreSet) /\ \E a \in DOMAIN st : TRUE
    BY <1>11 DEF PutShape
  <2> QED
    BY <2>1
<1>13. Swings(next, prev, st, h, e, s, t)
  BY <1>3, <1>4, SwapSwings DEF t
<1>14. OneStep(s, t, nodes, Linked', "rcu")
  <2>1. new \in Linked' \ Range(s) /\ s[i] \notin Linked'
    BY <1>4, <1>10 DEF old
  <2> QED
    BY <2>1 DEF OneStep, t, old
<1>15. \A k \in DOMAIN st :
         /\ st[k].at \in {h, Null} \cup Range(s) \cup nodes
         /\ st[k].field = "next" => st[k].at \in {new, before}
  <2>1. \A k \in DOMAIN st :
          st[k] \in {Assign("next", new, after), Assign("next", before, new),
                     Assign("prev", new, before), Assign("prev", after, new),
                     Assign("prev", old, Poison)}
    BY <1>11 DEF PutShape
  <2> QED
    BY <1>4, <2>1 DEF Assign
<1>16. ASSUME NEW g \in Heads
       PROVE  /\ HasCourse(st, g, {lists[g], R[g]}
                             \cup {Without(lists[g], n) : n \in nodes \cap Linked'},
                           R[g], nodes, Linked', "rcu")
              /\ Backs(Written("prev", prev, st, Len(st)), g, R[g], End(g))
  <2> DEFINE views == {lists[g], R[g]} \cup {Without(lists[g], n) : n \in nodes \cap Linked'}
             kind == "rcu"
  <2>1. lists[g] \in views /\ R[g] \in views
    OBVIOUS
  <2> HIDE DEF views, kind, nodes
  <2>2. CASE g = h
    BY <1>6, <1>12, <1>13, <1>14, <2>1, <2>2, SwingCourse DEF Swings, views
  <2>3. CASE g # h
    <3> DEFINE linked == Linked'
    <3>1. nodes \cap Range(lists[g]) = {} /\ nodes \subseteq Node
      BY <1>1, <1>2, <1>4, <1>7, <2>3, IdleStart DEF nodes
    <3>2. \A k \in DOMAIN st : st[k].at \in {h, Null} \cup Range(lists[h]) \cup nodes
      BY <1>15
    <3> HIDE DEF linked
    <3>3. /\ HasCourse(st, g, views, lists[g], nodes, linked, kind)
          /\ Backs(Written("prev", prev, st, Len(st)), g, lists[g], End(g))
      BY <1>2, <1>12, <2>1, <2>3, <3>1, <3>2, ApartCourse
    <3> QED
      BY <1>7, <2>3, <3>3 DEF views, linked, kind
  <2> QED
    BY <2>2, <2>3
<1>17. SpareReader(nodes)
  <2>1. /\ Reading => Linked \cap retired = {} /\ \A S \in owed : S \subseteq Linked \cup retired
        /\ ~Reading => owed = {} /\ retired = {}
    BY <1>3 DEF WalkInv
  <2>2. retired \subseteq Node
    BY <1>3 DEF TypeOK
  <2>3. ~Reading => owed' = {} /\ retired' = {}
    BY <1>1, <2>1
  <2>4. ASSUME Reading
        PROVE  /\ retired \subseteq retired' /\ retired' \subseteq Node
               /\ Linked' \cap retired' = {}
               /\ nodes \ Linked' \subseteq retired'
    BY <1>1, <1>4, <1>10, <2>1, <2>2, <2>4
  <2>5. ASSUME Reading, NEW S \in owed'
        PROVE  /\ S \subseteq Linked' \cup retired'
               /\ S \cap nodes # {} => nodes \subseteq S /\ \A n \in Node : nodes # {n}
               /\ \E Q \in owed : S = Q \/ \E x \in Node \ (Linked \cup retired) : S = Q \cup {x}
    <3>1. PICK Q \in owed : S = IF old \in Q THEN Q \cup {new} ELSE Q
      BY <1>1, <2>5
    <3>2. Q \subseteq Linked \cup retired /\ new \notin Q /\ retired' = retired \cup {old}
      BY <1>1, <2>1, <2>5
    <3>3. S \subseteq Linked' \cup retired'
      BY <1>10, <3>1, <3>2
    <3>4. S \cap nodes # {} => nodes \subseteq S
      BY <3>1, <3>2
    <3>5. ASSUME NEW n \in Node, nodes = {n} PROVE FALSE
      <4>1. old = n /\ new = n
        BY <3>5
      <4> QED
        BY <1>4, <4>1
    <3>6. S = Q \/ \E x \in Node \ (Linked \cup retired) : S = Q \cup {x}
      BY <1>1, <3>1
    <3> QED
      BY <3>3, <3>4, <3>5, <3>6
  <2> QED
    BY <2>3, <2>4, <2>5 DEF SpareReader
<1>18. Range(R[ListHead]) \cap Range(R[OtherHead]) = {}
  <2>1. Range(lists[ListHead]) \cap Range(lists[OtherHead]) = {}
    BY <1>3 DEF TypeOK
  <2>2. \A g \in Heads : Range(lists[g]) \subseteq Linked
    BY <1>2, IdleStart
  <2>3. (h = ListHead /\ OtherHead # h) \/ (h = OtherHead /\ ListHead # h)
    BY KListAssumption DEF Heads
  <2> QED
    BY <1>1, <1>5, <1>6, <1>7, <2>1, <2>2, <2>3 DEF Heads
<1>19. hashed => R[OtherHead] = <<>>
  <2> SUFFICES ASSUME hashed PROVE R[OtherHead] = <<>>
    OBVIOUS
  <2>1. lists[OtherHead] = <<>> /\ OtherHead \in Heads
    BY <1>3 DEF CallInv, Heads
  <2>2. OtherHead # h
    BY <1>4, <2>1 DEF Range
  <2> QED
    BY <1>7, <2>1, <2>2
<1>20. \A n \in nodes \ Linked', k \in 0..Len(st) - 1 : Written("prev", prev, st, k)[n] # n
  <2> SUFFICES ASSUME NEW k \in 0..Len(st) - 1
               PROVE  Written("prev", prev, st, k)[old] # old
    BY <1>10
  <2>1. \A j \in DOMAIN st : st[j].at = old => j = Len(st)
    BY DEF old
  <2>2. Hits("prev", old, st, k) = {}
    BY <1>12, <2>1 DEF Hits
  <2>3. Written("prev", prev, st, k)[old] = prev[old]
    BY <1>4, <1>12, <2>2, WrittenMiss, Places
  <2> QED
    BY <1>4, <2>3
<1>21. \A k \in DOMAIN st : st[k].field = "next" => st[k].at \in Heads \cup Linked'
  BY <1>3, <1>4, <1>10, <1>15
<1>22. nodes \in SUBSET Node
  BY <1>4
<1>23. OneStays(nodes, Linked')
  BY <1>4, <1>10 DEF OneStays
<1> HIDE DEF nodes
<1> QED
  BY <1>1, <1>8, <1>9, <1>12, <1>16, <1>17, <1>18, <1>19, <1>20, <1>21, <1>22, <1>23, CallKeeps
-----------------------------------------------------------------------------
(* The stores of the calls have these shapes. *)

LEMMA AssignType ==
  ASSUME NEW f \in {"next", "prev"}, NEW p \in Place, NEW x \in Pointer
  PROVE  Assign(f, p, x) \in StoreSet
BY DEF Assign, StoreSet

LEMMA AssignEqual ==
  ASSUME NEW f, NEW p, NEW x, NEW g, NEW q, NEW y
  PROVE  /\ Assign(f, p, x) = Assign(g, q, y) <=> f = g /\ p = q /\ x = y
         /\ Assign(f, p, x).field = f /\ Assign(f, p, x).at = p /\ Assign(f, p, x).value = x
BY DEF Assign

LEMMA UnlinkShape ==
  ASSUME NEW n \in Node, NEW b \in Place, NEW a \in Place, b # n, a # n
  PROVE  TakeShape(UnlinkStores(b, a), n, b, a)
<1> DEFINE st == UnlinkStores(b, a)
<1>1. /\ Len(st) = 2 /\ DOMAIN st = {1, 2}
      /\ st[1] = Assign("prev", a, b) /\ st[2] = Assign("next", b, a)
  BY DEF UnlinkStores
<1>2. st \in Seq(StoreSet)
  BY AssignType, Places DEF UnlinkStores
<1> HIDE DEF st
<1>3. TakeShape(st, n, b, a)
  BY <1>1, <1>2, AssignEqual DEF TakeShape
<1> QED
  BY <1>3 DEF st

LEMMA AddShape ==
  ASSUME NEW n \in Node, NEW b \in Place, NEW a \in Place, b # n, a # n
  PROVE  PutShape(AddStores(n, b, a), n, b, a, {})
<1> DEFINE st == AddStores(n, b, a)
<1>1. /\ Len(st) = 4 /\ DOMAIN st = {1, 2, 3, 4}
      /\ st[1] = Assign("prev", a, n) /\ st[2] = Assign("next", n, a)
      /\ st[3] = Assign("prev", n, b) /\ st[4] = Assign("next", b, n)
  BY DEF AddStores
<1>2. st \in Seq(StoreSet)
  BY AssignType, Places DEF AddStores
<1> HIDE DEF st
<1>3. PutShape(st, n, b, a, {})
  BY <1>1, <1>2, AssignEqual DEF PutShape
<1> QED
  BY <1>3 DEF st

LEMMA AddRcuShape ==
  ASSUME NEW n \in Node, NEW b \in Place, NEW a \in Place, b # n, a # n
  PROVE  PutShape(AddRcuStores(n, b, a), n, b, a, {})
<1> DEFINE st == AddRcuStores(n, b, a)
<1>1. /\ Len(st) = 4 /\ DOMAIN st = {1, 2, 3, 4}
      /\ st[1] = Assign("next", n, a) /\ st[2] = Assign("prev", n, b)
      /\ st[3] = Assign("prev", a, n) /\ st[4] = Assign("next", b, n)
  BY DEF AddRcuStores
<1>2. st \in Seq(StoreSet)
  BY AssignType, Places DEF AddRcuStores
<1> HIDE DEF st
<1>3. PutShape(st, n, b, a, {})
  BY <1>1, <1>2, AssignEqual DEF PutShape
<1> QED
  BY <1>3 DEF st

LEMMA Joined ==
  ASSUME NEW S, NEW r \in Seq(S), NEW q \in Seq(S), NEW st, st = r \o q
  PROVE  /\ st \in Seq(S) /\ Len(st) = Len(r) + Len(q)
         /\ \A i \in 1..Len(r) : st[i] = r[i]
         /\ \A i \in 1..Len(q) : st[Len(r) + i] = q[i]
BY ConcatProperties

LEMMA DelShape ==
  ASSUME NEW n \in Node, NEW b \in Place, NEW a \in Place,
         b # n, a # n
  PROVE  TakeShape(DelStores(n, b, a), n, b, a)
<1> DEFINE st == DelStores(n, b, a)
<1> DEFINE u == Assign("prev", a, b)
           v == Assign("next", b, a)
           w == Assign("next", n, Poison)
           x == Assign("prev", n, Poison)
<1>1. u \in StoreSet /\ v \in StoreSet /\ w \in StoreSet /\ x \in StoreSet
  BY AssignType, Places
<1>2. st = <<u, v>> \o <<w, x>>
  BY DEF DelStores, UnlinkStores
<1> HIDE DEF st, u, v, w, x
<1>3. /\ st \in Seq(StoreSet) /\ Len(st) = 4 /\ DOMAIN st = {1, 2, 3, 4}
      /\ st[1] = u /\ st[2] = v /\ st[3] = w /\ st[4] = x
  BY <1>1, <1>2
<1>4. TakeShape(st, n, b, a)
  BY <1>3, AssignEqual, Places DEF TakeShape, u, v, w, x
<1> QED
  BY <1>4 DEF st

LEMMA DelRcuShape ==
  ASSUME NEW n \in Node, NEW b \in Place, NEW a \in Place,
         b # n, a # n
  PROVE  /\ TakeShape(DelRcuStores(n, b, a), n, b, a)
         /\ \A k \in DOMAIN DelRcuStores(n, b, a) : DelRcuStores(n, b, a)[k].field = "next" => DelRcuStores(n, b, a)[k].at # n
<1> DEFINE st == DelRcuStores(n, b, a)
<1> DEFINE u == Assign("prev", a, b)
           v == Assign("next", b, a)
           w == Assign("prev", n, Poison)
<1>1. u \in StoreSet /\ v \in StoreSet /\ w \in StoreSet
  BY AssignType, Places
<1>2. st = <<u, v>> \o <<w>>
  BY DEF DelRcuStores, UnlinkStores
<1> HIDE DEF st, u, v, w
<1>3. /\ st \in Seq(StoreSet) /\ Len(st) = 3 /\ DOMAIN st = {1, 2, 3}
      /\ st[1] = u /\ st[2] = v /\ st[3] = w
  BY <1>1, <1>2
<1>4. TakeShape(st, n, b, a) /\ (\A k \in DOMAIN st : st[k].field = "next" => st[k].at # n)
  BY <1>3, AssignEqual, Places DEF TakeShape, u, v, w
<1> QED
  BY <1>4 DEF st

LEMMA DelInitShape ==
  ASSUME NEW n \in Node, NEW b \in Place, NEW a \in Place,
         b # n, a # n
  PROVE  TakeShape(DelInitStores(n, b, a), n, b, a)
<1> DEFINE st == DelInitStores(n, b, a)
<1> DEFINE u == Assign("prev", a, b)
           v == Assign("next", b, a)
           w == Assign("next", n, n)
           x == Assign("prev", n, n)
<1>1. u \in StoreSet /\ v \in StoreSet /\ w \in StoreSet /\ x \in StoreSet
  BY AssignType, Places
<1>2. st = <<u, v>> \o <<w, x>>
  BY DEF DelInitStores, UnlinkStores, InitStores
<1> HIDE DEF st, u, v, w, x
<1>3. /\ st \in Seq(StoreSet) /\ Len(st) = 4 /\ DOMAIN st = {1, 2, 3, 4}
      /\ st[1] = u /\ st[2] = v /\ st[3] = w /\ st[4] = x
  BY <1>1, <1>2
<1>4. TakeShape(st, n, b, a)
  BY <1>3, AssignEqual, Places DEF TakeShape, u, v, w, x
<1> QED
  BY <1>4 DEF st

(* m is the old entry. *)
LEMMA ReplaceShape ==
  ASSUME NEW m \in Node, NEW n \in Node, NEW b \in Place, NEW a \in Place,
         b # n, a # n, m # n, m # a, m # b
  PROVE  /\ PutShape(ReplaceRcuStores(m, n, b, a), n, b, a, {Assign("prev", m, Poison)})
         /\ \A k \in DOMAIN ReplaceRcuStores(m, n, b, a) : ReplaceRcuStores(m, n, b, a)[k].at = m => k = Len(ReplaceRcuStores(m, n, b, a))
<1> DEFINE st == ReplaceRcuStores(m, n, b, a)
<1> DEFINE u == Assign("next", n, a)
           v == Assign("prev", n, b)
           w == Assign("prev", a, n)
           x == Assign("next", b, n)
           y == Assign("prev", m, Poison)
<1>1. u \in StoreSet /\ v \in StoreSet /\ w \in StoreSet /\ x \in StoreSet /\ y \in StoreSet
  BY AssignType, Places
<1>2. st = <<u, v, w, x, y>>
  BY DEF ReplaceRcuStores
<1> HIDE DEF st, u, v, w, x, y
<1>3. /\ st \in Seq(StoreSet) /\ Len(st) = 5 /\ DOMAIN st = {1, 2, 3, 4, 5}
      /\ st[1] = u /\ st[2] = v /\ st[3] = w /\ st[4] = x /\ st[5] = y
  BY <1>1, <1>2
<1>4. PutShape(st, n, b, a, {Assign("prev", m, Poison)}) /\ (\A k \in DOMAIN st : st[k].at = m => k = Len(st))
  BY <1>3, AssignEqual, Places DEF PutShape, u, v, w, x, y
<1> QED
  BY <1>4 DEF st

LEMMA HDelShape ==
  ASSUME NEW n \in Node, NEW b \in Place, NEW a \in Place \cup {Null},
         b # n, a # n
  PROVE  TakeShape(HDelStores(n, b, a), n, b, a)
<1> DEFINE st == HDelStores(n, b, a)
<1> SUFFICES TakeShape(st, n, b, a)
  OBVIOUS
<1>1. CASE a = Null
  <2> DEFINE u == Assign("next", b, a)
             v == Assign("next", n, Poison)
             w == Assign("prev", n, Poison)
  <2>1. u \in StoreSet /\ v \in StoreSet /\ w \in StoreSet
    BY <1>1, AssignType, Places
  <2>2. st = <<u>> \o <<v, w>>
    BY <1>1 DEF HDelStores, HUnlinkStores, IfNode
  <2> HIDE DEF st, u, v, w
  <2>3. /\ st \in Seq(StoreSet) /\ Len(st) = 3 /\ DOMAIN st = {1, 2, 3}
        /\ st[1] = u /\ st[2] = v /\ st[3] = w
    BY <2>1, <2>2
  <2> QED
    BY <1>1, <2>3, AssignEqual, Places DEF TakeShape, u, v, w
<1>2. CASE a # Null
  <2> DEFINE u == Assign("next", b, a)
             v == Assign("prev", a, b)
             w == Assign("next", n, Poison)
             x == Assign("prev", n, Poison)
  <2>1. u \in StoreSet /\ v \in StoreSet /\ w \in StoreSet /\ x \in StoreSet
    BY <1>2, AssignType, Places
  <2>2. st = <<u>> \o <<v>> \o <<w, x>>
    BY <1>2 DEF HDelStores, HUnlinkStores, IfNode
  <2> DEFINE r == <<u>> \o <<v>>
  <2> HIDE DEF st, u, v, w, x
  <2> DEFINE q == <<w, x>>
  <2>a. r \in Seq(StoreSet) /\ q \in Seq(StoreSet)
    BY <2>1
  <2>b. /\ Len(r) = 2 /\ r[1] = u /\ r[2] = v
        /\ Len(q) = 2 /\ q[1] = w /\ q[2] = x
    BY <2>1
  <2>c. st = r \o q
    BY <2>2
  <2> HIDE DEF r, q
  <2>d. /\ st \in Seq(StoreSet) /\ Len(st) = Len(r) + Len(q)
        /\ \A i \in 1..Len(r) : st[i] = r[i]
        /\ \A i \in 1..Len(q) : st[Len(r) + i] = q[i]
    BY <2>a, <2>c, Joined
  <2>e. Len(st) = 4 /\ st[1] = u /\ st[2] = v
    BY <2>b, <2>d
  <2>f. st[3] = w /\ st[4] = x
    BY <2>b, <2>d, 1 \in 1..Len(q), 2 \in 1..Len(q)
  <2>g. st \in Seq(StoreSet)
    BY <2>d
  <2>3. /\ st \in Seq(StoreSet) /\ Len(st) = 4 /\ DOMAIN st = {1, 2, 3, 4}
        /\ st[1] = u /\ st[2] = v /\ st[3] = w /\ st[4] = x
    BY <2>e, <2>f, <2>g
  <2> QED
    BY <1>2, <2>3, AssignEqual, Places DEF TakeShape, u, v, w, x
<1> QED
  BY <1>1, <1>2

LEMMA HDelRcuShape ==
  ASSUME NEW n \in Node, NEW b \in Place, NEW a \in Place \cup {Null},
         b # n, a # n
  PROVE  /\ TakeShape(HDelRcuStores(n, b, a), n, b, a)
         /\ \A k \in DOMAIN HDelRcuStores(n, b, a) : HDelRcuStores(n, b, a)[k].field = "next" => HDelRcuStores(n, b, a)[k].at # n
<1> DEFINE st == HDelRcuStores(n, b, a)
<1> SUFFICES TakeShape(st, n, b, a) /\ (\A k \in DOMAIN st : st[k].field = "next" => st[k].at # n)
  OBVIOUS
<1>1. CASE a = Null
  <2> DEFINE u == Assign("next", b, a)
             v == Assign("prev", n, Poison)
  <2>1. u \in StoreSet /\ v \in StoreSet
    BY <1>1, AssignType, Places
  <2>2. st = <<u>> \o <<v>>
    BY <1>1 DEF HDelRcuStores, HUnlinkStores, IfNode
  <2> HIDE DEF st, u, v
  <2>3. /\ st \in Seq(StoreSet) /\ Len(st) = 2 /\ DOMAIN st = {1, 2}
        /\ st[1] = u /\ st[2] = v
    BY <2>1, <2>2
  <2> QED
    BY <1>1, <2>3, AssignEqual, Places DEF TakeShape, u, v
<1>2. CASE a # Null
  <2> DEFINE u == Assign("next", b, a)
             v == Assign("prev", a, b)
             w == Assign("prev", n, Poison)
  <2>1. u \in StoreSet /\ v \in StoreSet /\ w \in StoreSet
    BY <1>2, AssignType, Places
  <2>2. st = <<u>> \o <<v>> \o <<w>>
    BY <1>2 DEF HDelRcuStores, HUnlinkStores, IfNode
  <2> DEFINE r == <<u>> \o <<v>>
  <2> HIDE DEF st, u, v, w
  <2> DEFINE q == <<w>>
  <2>a. r \in Seq(StoreSet) /\ q \in Seq(StoreSet)
    BY <2>1
  <2>b. /\ Len(r) = 2 /\ r[1] = u /\ r[2] = v
        /\ Len(q) = 1 /\ q[1] = w
    BY <2>1
  <2>c. st = r \o q
    BY <2>2
  <2> HIDE DEF r, q
  <2>d. /\ st \in Seq(StoreSet) /\ Len(st) = Len(r) + Len(q)
        /\ \A i \in 1..Len(r) : st[i] = r[i]
        /\ \A i \in 1..Len(q) : st[Len(r) + i] = q[i]
    BY <2>a, <2>c, Joined
  <2>e. Len(st) = 3 /\ st[1] = u /\ st[2] = v
    BY <2>b, <2>d
  <2>f. st[3] = w
    BY <2>b, <2>d, 1 \in 1..Len(q)
  <2>g. st \in Seq(StoreSet)
    BY <2>d
  <2>3. /\ st \in Seq(StoreSet) /\ Len(st) = 3 /\ DOMAIN st = {1, 2, 3}
        /\ st[1] = u /\ st[2] = v /\ st[3] = w
    BY <2>e, <2>f, <2>g
  <2> QED
    BY <1>2, <2>3, AssignEqual, Places DEF TakeShape, u, v, w
<1> QED
  BY <1>1, <1>2

LEMMA HDelInitShape ==
  ASSUME NEW n \in Node, NEW b \in Place, NEW a \in Place \cup {Null},
         b # n, a # n
  PROVE  TakeShape(HDelInitStores(n, b, a), n, b, a)
<1> DEFINE st == HDelInitStores(n, b, a)
<1> SUFFICES TakeShape(st, n, b, a)
  OBVIOUS
<1>1. CASE a = Null
  <2> DEFINE u == Assign("next", b, a)
             v == Assign("next", n, Null)
             w == Assign("prev", n, Null)
  <2>1. u \in StoreSet /\ v \in StoreSet /\ w \in StoreSet
    BY <1>1, AssignType, Places
  <2>2. st = <<u>> \o <<v, w>>
    BY <1>1 DEF HDelInitStores, HUnlinkStores, IfNode
  <2> HIDE DEF st, u, v, w
  <2>3. /\ st \in Seq(StoreSet) /\ Len(st) = 3 /\ DOMAIN st = {1, 2, 3}
        /\ st[1] = u /\ st[2] = v /\ st[3] = w
    BY <2>1, <2>2
  <2> QED
    BY <1>1, <2>3, AssignEqual, Places DEF TakeShape, u, v, w
<1>2. CASE a # Null
  <2> DEFINE u == Assign("next", b, a)
             v == Assign("prev", a, b)
             w == Assign("next", n, Null)
             x == Assign("prev", n, Null)
  <2>1. u \in StoreSet /\ v \in StoreSet /\ w \in StoreSet /\ x \in StoreSet
    BY <1>2, AssignType, Places
  <2>2. st = <<u>> \o <<v>> \o <<w, x>>
    BY <1>2 DEF HDelInitStores, HUnlinkStores, IfNode
  <2> DEFINE r == <<u>> \o <<v>>
  <2> HIDE DEF st, u, v, w, x
  <2> DEFINE q == <<w, x>>
  <2>a. r \in Seq(StoreSet) /\ q \in Seq(StoreSet)
    BY <2>1
  <2>b. /\ Len(r) = 2 /\ r[1] = u /\ r[2] = v
        /\ Len(q) = 2 /\ q[1] = w /\ q[2] = x
    BY <2>1
  <2>c. st = r \o q
    BY <2>2
  <2> HIDE DEF r, q
  <2>d. /\ st \in Seq(StoreSet) /\ Len(st) = Len(r) + Len(q)
        /\ \A i \in 1..Len(r) : st[i] = r[i]
        /\ \A i \in 1..Len(q) : st[Len(r) + i] = q[i]
    BY <2>a, <2>c, Joined
  <2>e. Len(st) = 4 /\ st[1] = u /\ st[2] = v
    BY <2>b, <2>d
  <2>f. st[3] = w /\ st[4] = x
    BY <2>b, <2>d, 1 \in 1..Len(q), 2 \in 1..Len(q)
  <2>g. st \in Seq(StoreSet)
    BY <2>d
  <2>3. /\ st \in Seq(StoreSet) /\ Len(st) = 4 /\ DOMAIN st = {1, 2, 3, 4}
        /\ st[1] = u /\ st[2] = v /\ st[3] = w /\ st[4] = x
    BY <2>e, <2>f, <2>g
  <2> QED
    BY <1>2, <2>3, AssignEqual, Places DEF TakeShape, u, v, w, x
<1> QED
  BY <1>1, <1>2

LEMMA HReplaceShape ==
  ASSUME NEW m \in Node, NEW n \in Node, NEW b \in Place, NEW a \in Place \cup {Null},
         b # n, a # n, m # n, m # a, m # b
  PROVE  /\ PutShape(HReplaceRcuStores(m, n, b, a), n, b, a, {Assign("prev", m, Poison)})
         /\ \A k \in DOMAIN HReplaceRcuStores(m, n, b, a) : HReplaceRcuStores(m, n, b, a)[k].at = m => k = Len(HReplaceRcuStores(m, n, b, a))
<1> DEFINE st == HReplaceRcuStores(m, n, b, a)
<1> SUFFICES PutShape(st, n, b, a, {Assign("prev", m, Poison)}) /\ (\A k \in DOMAIN st : st[k].at = m => k = Len(st))
  OBVIOUS
<1>1. CASE a = Null
  <2> DEFINE u == Assign("next", n, a)
             v == Assign("prev", n, b)
             w == Assign("next", b, n)
             x == Assign("prev", m, Poison)
  <2>1. u \in StoreSet /\ v \in StoreSet /\ w \in StoreSet /\ x \in StoreSet
    BY <1>1, AssignType, Places
  <2>2. st = <<u, v>> \o <<w, x>>
    BY <1>1 DEF HReplaceRcuStores, IfNode
  <2> HIDE DEF st, u, v, w, x
  <2>3. /\ st \in Seq(StoreSet) /\ Len(st) = 4 /\ DOMAIN st = {1, 2, 3, 4}
        /\ st[1] = u /\ st[2] = v /\ st[3] = w /\ st[4] = x
    BY <2>1, <2>2
  <2> QED
    BY <1>1, <2>3, AssignEqual, Places DEF PutShape, u, v, w, x
<1>2. CASE a # Null
  <2> DEFINE u == Assign("next", n, a)
             v == Assign("prev", n, b)
             w == Assign("prev", a, n)
             x == Assign("next", b, n)
             y == Assign("prev", m, Poison)
  <2>1. u \in StoreSet /\ v \in StoreSet /\ w \in StoreSet /\ x \in StoreSet /\ y \in StoreSet
    BY <1>2, AssignType, Places
  <2>2. st = <<u, v>> \o <<w>> \o <<x, y>>
    BY <1>2 DEF HReplaceRcuStores, IfNode
  <2> DEFINE r == <<u, v>> \o <<w>>
  <2> HIDE DEF st, u, v, w, x, y
  <2> DEFINE q == <<x, y>>
  <2>a. r \in Seq(StoreSet) /\ q \in Seq(StoreSet)
    BY <2>1
  <2>b. /\ Len(r) = 3 /\ r[1] = u /\ r[2] = v /\ r[3] = w
        /\ Len(q) = 2 /\ q[1] = x /\ q[2] = y
    BY <2>1
  <2>c. st = r \o q
    BY <2>2
  <2> HIDE DEF r, q
  <2>d. /\ st \in Seq(StoreSet) /\ Len(st) = Len(r) + Len(q)
        /\ \A i \in 1..Len(r) : st[i] = r[i]
        /\ \A i \in 1..Len(q) : st[Len(r) + i] = q[i]
    BY <2>a, <2>c, Joined
  <2>e. Len(st) = 5 /\ st[1] = u /\ st[2] = v /\ st[3] = w
    BY <2>b, <2>d
  <2>f. st[4] = x /\ st[5] = y
    BY <2>b, <2>d, 1 \in 1..Len(q), 2 \in 1..Len(q)
  <2>g. st \in Seq(StoreSet)
    BY <2>d
  <2>3. /\ st \in Seq(StoreSet) /\ Len(st) = 5 /\ DOMAIN st = {1, 2, 3, 4, 5}
        /\ st[1] = u /\ st[2] = v /\ st[3] = w /\ st[4] = x /\ st[5] = y
    BY <2>e, <2>f, <2>g
  <2> QED
    BY <1>2, <2>3, AssignEqual, Places DEF PutShape, u, v, w, x, y
<1> QED
  BY <1>1, <1>2

LEMMA HAddHeadShape ==
  ASSUME NEW n \in Node, NEW b \in Place, NEW a \in Place \cup {Null},
         b # n, a # n
  PROVE  PutShape(HAddHeadStores(n, b, a), n, b, a, {})
<1> DEFINE st == HAddHeadStores(n, b, a)
<1> SUFFICES PutShape(st, n, b, a, {})
  OBVIOUS
<1>1. CASE a = Null
  <2> DEFINE u == Assign("next", n, a)
             v == Assign("next", b, n)
             w == Assign("prev", n, b)
  <2>1. u \in StoreSet /\ v \in StoreSet /\ w \in StoreSet
    BY <1>1, AssignType, Places
  <2>2. st = <<u>> \o <<v, w>>
    BY <1>1 DEF HAddHeadStores, IfNode
  <2> HIDE DEF st, u, v, w
  <2>3. /\ st \in Seq(StoreSet) /\ Len(st) = 3 /\ DOMAIN st = {1, 2, 3}
        /\ st[1] = u /\ st[2] = v /\ st[3] = w
    BY <2>1, <2>2
  <2> QED
    BY <1>1, <2>3, AssignEqual, Places DEF PutShape, u, v, w
<1>2. CASE a # Null
  <2> DEFINE u == Assign("next", n, a)
             v == Assign("prev", a, n)
             w == Assign("next", b, n)
             x == Assign("prev", n, b)
  <2>1. u \in StoreSet /\ v \in StoreSet /\ w \in StoreSet /\ x \in StoreSet
    BY <1>2, AssignType, Places
  <2>2. st = <<u>> \o <<v>> \o <<w, x>>
    BY <1>2 DEF HAddHeadStores, IfNode
  <2> DEFINE r == <<u>> \o <<v>>
  <2> HIDE DEF st, u, v, w, x
  <2> DEFINE q == <<w, x>>
  <2>a. r \in Seq(StoreSet) /\ q \in Seq(StoreSet)
    BY <2>1
  <2>b. /\ Len(r) = 2 /\ r[1] = u /\ r[2] = v
        /\ Len(q) = 2 /\ q[1] = w /\ q[2] = x
    BY <2>1
  <2>c. st = r \o q
    BY <2>2
  <2> HIDE DEF r, q
  <2>d. /\ st \in Seq(StoreSet) /\ Len(st) = Len(r) + Len(q)
        /\ \A i \in 1..Len(r) : st[i] = r[i]
        /\ \A i \in 1..Len(q) : st[Len(r) + i] = q[i]
    BY <2>a, <2>c, Joined
  <2>e. Len(st) = 4 /\ st[1] = u /\ st[2] = v
    BY <2>b, <2>d
  <2>f. st[3] = w /\ st[4] = x
    BY <2>b, <2>d, 1 \in 1..Len(q), 2 \in 1..Len(q)
  <2>g. st \in Seq(StoreSet)
    BY <2>d
  <2>3. /\ st \in Seq(StoreSet) /\ Len(st) = 4 /\ DOMAIN st = {1, 2, 3, 4}
        /\ st[1] = u /\ st[2] = v /\ st[3] = w /\ st[4] = x
    BY <2>e, <2>f, <2>g
  <2> QED
    BY <1>2, <2>3, AssignEqual, Places DEF PutShape, u, v, w, x
<1> QED
  BY <1>1, <1>2

LEMMA HAddHeadRcuShape ==
  ASSUME NEW n \in Node, NEW b \in Place, NEW a \in Place \cup {Null},
         b # n, a # n
  PROVE  PutShape(HAddHeadRcuStores(n, b, a), n, b, a, {})
<1> DEFINE st == HAddHeadRcuStores(n, b, a)
<1> SUFFICES PutShape(st, n, b, a, {})
  OBVIOUS
<1>1. CASE a = Null
  <2> DEFINE u == Assign("next", n, a)
             v == Assign("prev", n, b)
             w == Assign("next", b, n)
  <2>1. u \in StoreSet /\ v \in StoreSet /\ w \in StoreSet
    BY <1>1, AssignType, Places
  <2>2. st = <<u, v>> \o <<w>>
    BY <1>1 DEF HAddHeadRcuStores, IfNode
  <2> HIDE DEF st, u, v, w
  <2>3. /\ st \in Seq(StoreSet) /\ Len(st) = 3 /\ DOMAIN st = {1, 2, 3}
        /\ st[1] = u /\ st[2] = v /\ st[3] = w
    BY <2>1, <2>2
  <2> QED
    BY <1>1, <2>3, AssignEqual, Places DEF PutShape, u, v, w
<1>2. CASE a # Null
  <2> DEFINE u == Assign("next", n, a)
             v == Assign("prev", n, b)
             w == Assign("prev", a, n)
             x == Assign("next", b, n)
  <2>1. u \in StoreSet /\ v \in StoreSet /\ w \in StoreSet /\ x \in StoreSet
    BY <1>2, AssignType, Places
  <2>2. st = <<u, v>> \o <<w>> \o <<x>>
    BY <1>2 DEF HAddHeadRcuStores, IfNode
  <2> DEFINE r == <<u, v>> \o <<w>>
  <2> HIDE DEF st, u, v, w, x
  <2> DEFINE q == <<x>>
  <2>a. r \in Seq(StoreSet) /\ q \in Seq(StoreSet)
    BY <2>1
  <2>b. /\ Len(r) = 3 /\ r[1] = u /\ r[2] = v /\ r[3] = w
        /\ Len(q) = 1 /\ q[1] = x
    BY <2>1
  <2>c. st = r \o q
    BY <2>2
  <2> HIDE DEF r, q
  <2>d. /\ st \in Seq(StoreSet) /\ Len(st) = Len(r) + Len(q)
        /\ \A i \in 1..Len(r) : st[i] = r[i]
        /\ \A i \in 1..Len(q) : st[Len(r) + i] = q[i]
    BY <2>a, <2>c, Joined
  <2>e. Len(st) = 4 /\ st[1] = u /\ st[2] = v /\ st[3] = w
    BY <2>b, <2>d
  <2>f. st[4] = x
    BY <2>b, <2>d, 1 \in 1..Len(q)
  <2>g. st \in Seq(StoreSet)
    BY <2>d
  <2>3. /\ st \in Seq(StoreSet) /\ Len(st) = 4 /\ DOMAIN st = {1, 2, 3, 4}
        /\ st[1] = u /\ st[2] = v /\ st[3] = w /\ st[4] = x
    BY <2>e, <2>f, <2>g
  <2> QED
    BY <1>2, <2>3, AssignEqual, Places DEF PutShape, u, v, w, x
<1> QED
  BY <1>1, <1>2

LEMMA HAddBeforeShape ==
  ASSUME NEW n \in Node, NEW b \in Place, NEW a \in Place,
         b # n, a # n
  PROVE  PutShape(HAddBeforeStores(n, b, a), n, b, a, {})
<1> DEFINE st == HAddBeforeStores(n, b, a)
<1> DEFINE u == Assign("prev", n, b)
           v == Assign("next", n, a)
           w == Assign("prev", a, n)
           x == Assign("next", b, n)
<1>1. u \in StoreSet /\ v \in StoreSet /\ w \in StoreSet /\ x \in StoreSet
  BY AssignType, Places
<1>2. st = <<u, v, w, x>>
  BY DEF HAddBeforeStores
<1> HIDE DEF st, u, v, w, x
<1>3. /\ st \in Seq(StoreSet) /\ Len(st) = 4 /\ DOMAIN st = {1, 2, 3, 4}
      /\ st[1] = u /\ st[2] = v /\ st[3] = w /\ st[4] = x
  BY <1>1, <1>2
<1>4. PutShape(st, n, b, a, {})
  BY <1>3, AssignEqual, Places DEF PutShape, u, v, w, x
<1> QED
  BY <1>4 DEF st

(* b is the node that stays before n. *)
LEMMA HAddAfterShape ==
  ASSUME NEW n \in Node, NEW b \in Place, NEW a \in Place \cup {Null},
         b # n, a # n
  PROVE  PutShape(HAddAfterStores(b, n, a), n, b, a, {})
<1> DEFINE st == HAddAfterStores(b, n, a)
<1> SUFFICES PutShape(st, n, b, a, {})
  OBVIOUS
<1>1. CASE a = Null
  <2> DEFINE u == Assign("next", n, a)
             v == Assign("next", b, n)
             w == Assign("prev", n, b)
  <2>1. u \in StoreSet /\ v \in StoreSet /\ w \in StoreSet
    BY <1>1, AssignType, Places
  <2>2. st = <<u, v, w>>
    BY <1>1 DEF HAddAfterStores, IfNode
  <2> HIDE DEF st, u, v, w
  <2>3. /\ st \in Seq(StoreSet) /\ Len(st) = 3 /\ DOMAIN st = {1, 2, 3}
        /\ st[1] = u /\ st[2] = v /\ st[3] = w
    BY <2>1, <2>2
  <2> QED
    BY <1>1, <2>3, AssignEqual, Places DEF PutShape, u, v, w
<1>2. CASE a # Null
  <2> DEFINE u == Assign("next", n, a)
             v == Assign("next", b, n)
             w == Assign("prev", n, b)
             x == Assign("prev", a, n)
  <2>1. u \in StoreSet /\ v \in StoreSet /\ w \in StoreSet /\ x \in StoreSet
    BY <1>2, AssignType, Places
  <2>2. st = <<u, v, w>> \o <<x>>
    BY <1>2 DEF HAddAfterStores, IfNode
  <2> HIDE DEF st, u, v, w, x
  <2>3. /\ st \in Seq(StoreSet) /\ Len(st) = 4 /\ DOMAIN st = {1, 2, 3, 4}
        /\ st[1] = u /\ st[2] = v /\ st[3] = w /\ st[4] = x
    BY <2>1, <2>2
  <2> QED
    BY <1>2, <2>3, AssignEqual, Places DEF PutShape, u, v, w, x
<1> QED
  BY <1>1, <1>2

LEMMA HAddAfterRcuShape ==
  ASSUME NEW n \in Node, NEW b \in Place, NEW a \in Place \cup {Null},
         b # n, a # n
  PROVE  PutShape(HAddAfterRcuStores(b, n, a), n, b, a, {})
<1> DEFINE st == HAddAfterRcuStores(b, n, a)
<1> SUFFICES PutShape(st, n, b, a, {})
  OBVIOUS
<1>1. CASE a = Null
  <2> DEFINE u == Assign("next", n, a)
             v == Assign("prev", n, b)
             w == Assign("next", b, n)
  <2>1. u \in StoreSet /\ v \in StoreSet /\ w \in StoreSet
    BY <1>1, AssignType, Places
  <2>2. st = <<u, v, w>>
    BY <1>1 DEF HAddAfterRcuStores, IfNode
  <2> HIDE DEF st, u, v, w
  <2>3. /\ st \in Seq(StoreSet) /\ Len(st) = 3 /\ DOMAIN st = {1, 2, 3}
        /\ st[1] = u /\ st[2] = v /\ st[3] = w
    BY <2>1, <2>2
  <2> QED
    BY <1>1, <2>3, AssignEqual, Places DEF PutShape, u, v, w
<1>2. CASE a # Null
  <2> DEFINE u == Assign("next", n, a)
             v == Assign("prev", n, b)
             w == Assign("next", b, n)
             x == Assign("prev", a, n)
  <2>1. u \in StoreSet /\ v \in StoreSet /\ w \in StoreSet /\ x \in StoreSet
    BY <1>2, AssignType, Places
  <2>2. st = <<u, v, w>> \o <<x>>
    BY <1>2 DEF HAddAfterRcuStores, IfNode
  <2> HIDE DEF st, u, v, w, x
  <2>3. /\ st \in Seq(StoreSet) /\ Len(st) = 4 /\ DOMAIN st = {1, 2, 3, 4}
        /\ st[1] = u /\ st[2] = v /\ st[3] = w /\ st[4] = x
    BY <2>1, <2>2
  <2> QED
    BY <1>2, <2>3, AssignEqual, Places DEF PutShape, u, v, w, x
<1> QED
  BY <1>1, <1>2
-----------------------------------------------------------------------------
(* An entry is moved: what takes it off is followed by what puts it back.   *)

LEMMA SwingsDone ==
  ASSUME NEW mem, NEW back, NEW st, Len(st) \in Nat, NEW h, NEW e, NEW s, NEW t,
         Swings(mem, back, st, h, e, s, t)
  PROVE  /\ Leads(Written("next", mem, st, Len(st)), h, t, e)
         /\ Backs(Written("prev", back, st, Len(st)), h, t, e)
<1>1. PICK b \in 1..Len(st) : \A k \in 0..Len(st) :
        Leads(Written("next", mem, st, k), h, IF k < b THEN s ELSE t, e)
  BY DEF Swings
<1>2. Len(st) \in 0..Len(st) /\ ~(Len(st) < b)
  OBVIOUS
<1>3. Leads(Written("next", mem, st, Len(st)), h, t, e)
  BY <1>1, <1>2
<1> QED
  BY <1>3 DEF Swings

LEMMA JoinCourse ==
  ASSUME NEW h \in Heads, NEW u \in Seq(StoreSet), NEW a \in Seq(StoreSet),
         NEW s, NEW t, NEW r,
         Swings(next, prev, u, h, End(h), s, t),
         Swings(Written("next", next, u, Len(u)), Written("prev", prev, u, Len(u)),
                a, h, End(h), t, r),
         NEW nodes, NEW linked, NEW kind,
         OneStep(s, t, nodes, linked, kind), OneStep(t, r, nodes, linked, kind),
         NEW views, s \in views, t \in views, r \in views
  PROVE  /\ HasCourse(u \o a, h, views, r, nodes, linked, kind)
         /\ Backs(Written("prev", prev, u \o a, Len(u \o a)), h, r, End(h))
<1> DEFINE st == u \o a
           d == Len(u)
           c == Len(a)
           e == End(h)
<1>1. Len(st) = d + c /\ d \in Nat /\ c \in Nat
  BY Joined
<1>2. (\A i \in 1..d : st[i] = u[i]) /\ (\A i \in 1..c : a[i] = st[d + i])
  BY Joined
<1>3. PICK b \in 1..d : \A k \in 0..d :
        Leads(Written("next", next, u, k), h, IF k < b THEN s ELSE t, e)
  BY DEF Swings
<1>4. PICK f \in 1..c : \A k \in 0..c :
        Leads(Written("next", Written("next", next, u, d), a, k), h,
              IF k < f THEN t ELSE r, e)
  BY DEF Swings
<1>5. Backs(Written("prev", Written("prev", prev, u, d), a, c), h, r, e)
  BY DEF Swings
<1> HIDE DEF st, d, c, e
<1>6. \A g, mem : \A k \in 0..d : Written(g, mem, st, k) = Written(g, mem, u, k)
  <2> SUFFICES ASSUME NEW g, NEW mem, NEW k \in 0..d
               PROVE  Written(g, mem, st, k) = Written(g, mem, u, k)
    OBVIOUS
  <2>1. k \in Nat /\ \A i \in 1..k : st[i] = u[i]
    BY <1>1, <1>2
  <2> QED
    BY <2>1, WrittenPrefix
<1>7. \A g, mem : \A k \in 0..c :
        Written(g, Written(g, mem, u, d), a, k) = Written(g, mem, st, d + k)
  <2> SUFFICES ASSUME NEW g, NEW mem, NEW k \in 0..c
               PROVE  Written(g, Written(g, mem, u, d), a, k) = Written(g, mem, st, d + k)
    OBVIOUS
  <2>1. k \in Nat /\ \A i \in 1..k : a[i] = st[d + i]
    BY <1>1, <1>2
  <2>2. Written(g, mem, st, d) = Written(g, mem, u, d)
    BY <1>1, <1>6, d \in 0..d
  <2>3. Written(g, Written(g, mem, st, d), a, k) = Written(g, mem, st, d + k)
    BY <1>1, <2>1, WrittenThen
  <2> QED
    BY <2>2, <2>3
<1> DEFINE V == [k \in 0..Len(st) |-> IF k < b THEN s ELSE IF k < d + f THEN t ELSE r]
<1>8. V \in [0..Len(st) -> views]
  OBVIOUS
<1>9. ASSUME NEW k \in 0..Len(st)
      PROVE  Leads(Written("next", next, st, k), h, V[k], e)
  <2>1. CASE k <= d
    <3>1. k \in 0..d /\ k < d + f
      BY <1>1, <2>1
    <3>2. V[k] = IF k < b THEN s ELSE t
      BY <3>1
    <3> HIDE DEF V
    <3> QED
      BY <1>3, <1>6, <3>1, <3>2
  <2>2. CASE k > d
    <3> DEFINE j == k - d
    <3>1. j \in 0..c /\ k = d + j /\ (k < d + f <=> j < f) /\ ~(k < b)
      BY <1>1, <2>2
    <3>2. V[k] = IF j < f THEN t ELSE r
      BY <3>1
    <3> HIDE DEF V, j
    <3>3. Leads(Written("next", Written("next", next, u, d), a, j), h, V[k], e)
      BY <1>4, <3>1, <3>2
    <3> QED
      BY <1>7, <3>1, <3>3
  <2> QED
    BY <1>1, <2>1, <2>2
<1>10. V[Len(st)] = r
  BY <1>1
<1>11. ASSUME NEW k \in 1..Len(st)
       PROVE  OneStep(V[k - 1], V[k], nodes, linked, kind)
  <2>1. k \in 0..Len(st) /\ k - 1 \in 0..Len(st)
    BY <1>1
  <2>2. \/ V[k - 1] = V[k]
        \/ V[k - 1] = s /\ V[k] = t
        \/ V[k - 1] = t /\ V[k] = r
    BY <1>1, <2>1
  <2> HIDE DEF V
  <2>3. \A v : OneStep(v, v, nodes, linked, kind)
    BY DEF OneStep
  <2> QED
    BY <2>2, <2>3
<1> HIDE DEF V
<1>12. HasCourse(st, h, views, r, nodes, linked, kind)
  BY <1>8, <1>9, <1>10, <1>11 DEF HasCourse, e
<1>13. Backs(Written("prev", prev, st, Len(st)), h, r, e)
  BY <1>1, <1>5, <1>7, c \in 0..c
<1> QED
  BY <1>12, <1>13 DEF st, e

LEMMA MoveKeeps ==
  ASSUME IInv, ~hashed, NEW h \in Heads, NEW x \in Heads, NEW i \in 1..Len(lists[x]),
         NEW entry, entry = lists[x][i],
         NEW k \in 1..Len(Without(lists[h], entry)) + 1,
         NEW st,
         st = UnlinkStores(prev[entry], next[entry])
                \o AddStores(entry, Stop(h, Without(lists[h], entry), h, k - 1),
                             Stop(h, Without(lists[h], entry), h, k)),
         Call("plain", st, {entry},
              [[g \in Heads |-> Without(lists[g], entry)]
                 EXCEPT ![h] = InsertAt(@, k, entry)]),
         owed' = owed, retired' = retired
  PROVE  IInv'
<1> DEFINE W == [g \in Heads |-> Without(lists[g], entry)]
           t == InsertAt(W[h], k, entry)
           R == [W EXCEPT ![h] = t]
           u == UnlinkStores(prev[entry], next[entry])
           before == Stop(h, W[h], h, k - 1)
           after == Stop(h, W[h], h, k)
           a == AddStores(entry, before, after)
<1>1. /\ stores = <<>> /\ lists' = R /\ Call("plain", st, {entry}, R) /\ st = u \o a
      /\ ~Reading /\ \A g \in Heads : End(g) = g
  BY DEF Call, MayCall, End
<1>2. /\ TypeOK /\ CallInv /\ WalkInv
      /\ \A g \in Heads :
           /\ lists[g] \in Seq(Node) /\ IsInjective(lists[g])
           /\ Leads(next, g, lists[g], g) /\ Backs(prev, g, lists[g], g)
           /\ Range(lists[g]) \subseteq Linked
      /\ Linked \subseteq Node
  BY <1>1, IdleStart
<1>3. /\ entry \in Range(lists[x]) /\ entry \in Node
      /\ Stop(x, lists[x], x, i - 1) \in ({x} \cup Range(lists[x])) \ {entry}
      /\ Stop(x, lists[x], x, i + 1) \in ({x, Null} \cup Range(lists[x])) \ {entry}
      /\ next[entry] = Stop(x, lists[x], x, i + 1)
      /\ prev[entry] = Stop(x, lists[x], x, i - 1)
  BY <1>2, AroundEntry
<1>4. prev[entry] \in Place /\ next[entry] \in Place
  <2>1. next[entry] # Null
    <3>1. Len(lists[x]) \in Nat /\ i + 1 \in 1..Len(lists[x]) + 1
      BY <1>2
    <3>2. \A l \in 1..Len(lists[x]) : Stop(x, lists[x], x, l) \in Node
      <4>1. lists[x] \in Seq(Node) /\ x \in {x, Null}
        BY <1>2
      <4>2. \A l \in 1..Len(lists[x]) :
              Stop(x, lists[x], x, l) = lists[x][l] /\ lists[x][l] \in Node
        BY <4>1, StopPlaces
      <4> QED
        BY <4>2
    <3>3. Stop(x, lists[x], x, Len(lists[x]) + 1) = x
      BY <1>2, StopPlaces
    <3> QED
      BY <1>3, <3>1, <3>2, <3>3, Places
  <2>2. Range(lists[x]) \subseteq Place
    BY <1>2, Places
  <2> QED
    BY <1>3, <2>1, <2>2, Places
<1>5. \A g \in Heads : /\ W[g] \in Seq(Node) /\ IsInjective(W[g])
                       /\ Range(W[g]) = Range(lists[g]) \ {entry}
  BY <1>2, WithoutType
<1>6. W[x] = RemoveAt(lists[x], i)
  BY <1>2, WithoutIs
<1>7. \A g \in Heads : g # x => W[g] = lists[g] /\ entry \notin Range(lists[g])
  <2> SUFFICES ASSUME NEW g \in Heads, g # x
               PROVE  W[g] = lists[g] /\ entry \notin Range(lists[g])
    OBVIOUS
  <2>1. entry \notin Range(lists[g])
    BY <1>2, <1>3, ListsApart
  <2> QED
    BY <1>2, <2>1, WithoutIs
<1>8. W \in [Heads -> Seq(Node)] /\ k \in 1..Len(W[h]) + 1
  BY <1>5
<1> HIDE DEF W
<1>9. /\ t \in Seq(Node) /\ Range(t) = Range(lists[h]) \cup {entry} /\ IsInjective(t)
  <2>1. t \in Seq(Node) /\ Len(t) = Len(W[h]) + 1
    BY <1>3, <1>5, <1>8, InsertAtElements
  <2>2. Range(t) = Range(W[h]) \cup {entry}
    BY <1>3, <1>5, <1>8, InsertAtLists
  <2>3. IsInjective(t)
    BY <1>3, <1>5, <1>8, InsertAtLists
  <2> HIDE DEF t
  <2> QED
    BY <1>5, <2>1, <2>2, <2>3
<1> HIDE DEF t
<1>10. R[h] = t /\ (\A g \in Heads : g # h => R[g] = W[g]) /\ R \in [Heads -> Seq(Node)]
  BY <1>8, <1>9
<1> HIDE DEF R
<1>11. Linked' = Linked
  <2>1. \A g \in Heads : Range(R[g]) = IF g = h THEN Range(lists[g]) \cup {entry}
                                       ELSE Range(lists[g]) \ {entry}
    BY <1>5, <1>9, <1>10
  <2>2. \A y : y \in Linked' <=> \E g \in Heads : y \in Range(R[g])
    BY <1>1 DEF Linked
  <2>3. \A y : y \in Linked <=> \E g \in Heads : y \in Range(lists[g])
    BY DEF Linked
  <2>4. \A y : y \in Linked' <=> y \in Linked
    <3> SUFFICES ASSUME NEW y PROVE y \in Linked' <=> y \in Linked
      OBVIOUS
    <3>1. CASE y = entry
      <4>1. entry \in Linked /\ entry \in Range(R[h])
        BY <1>3, <2>1, <2>3
      <4> QED
        BY <2>2, <3>1, <4>1
    <3>2. CASE y # entry
      <4>1. \A g \in Heads : y \in Range(R[g]) <=> y \in Range(lists[g])
        BY <2>1, <3>2
      <4> QED
        BY <2>2, <2>3, <4>1
    <3> QED
      BY <3>1, <3>2
  <2> DEFINE linked == Linked'
  <2>5. \A y : y \in linked <=> y \in Linked
    BY <2>4
  <2> HIDE DEF linked
  <2>6. linked = Linked
    BY <2>5
  <2> QED
    BY <2>6 DEF linked
<1>12. TakeShape(u, entry, prev[entry], next[entry])
  BY <1>3, <1>4, UnlinkShape
<1>13. /\ before \in Place \cap ({h} \cup Range(W[h])) /\ before # entry
       /\ after \in Place \cap ({h} \cup Range(W[h])) /\ after # entry
  <2>1. /\ Len(W[h]) \in Nat /\ k - 1 \in 0..Len(W[h]) /\ k - 1 \in 0..Len(W[h]) + 1
        /\ k \in 0..Len(W[h]) + 1 /\ (k \in 0..Len(W[h]) \/ k = Len(W[h]) + 1)
    BY <1>5, <1>8, SMTT(30)
  <2>2. before \in Place /\ before \in {h, Null} \cup Range(W[h])
    BY <1>5, <2>1, StopNear, StopPlaces
  <2>3. after \in {h, Null} \cup Range(W[h])
    BY <1>5, <2>1, StopNear
  <2>4. k \in 0..Len(W[h]) => after \in Place
    BY <1>5, <2>1, StopPlaces
  <2>5. k = Len(W[h]) + 1 => after = h
    BY <1>5, <2>1, StopPlaces, SMTT(30)
  <2> HIDE DEF before, after
  <2>6. after \in Place
    BY <2>1, <2>4, <2>5, Places
  <2> QED
    BY <1>3, <1>5, <2>2, <2>3, <2>6, Places
<1>14. PutShape(a, entry, before, after, {})
  BY <1>3, <1>13, AddShape
<1> HIDE DEF u, a, before, after
<1>15. /\ u \in Seq(StoreSet) /\ u # <<>> /\ Len(u) \in Nat
       /\ a \in Seq(StoreSet) /\ a # <<>> /\ Len(a) \in Nat
  <2>1. u \in Seq(StoreSet) /\ \E y \in DOMAIN u : TRUE
    BY <1>12 DEF TakeShape
  <2>2. a \in Seq(StoreSet) /\ \E y \in DOMAIN a : TRUE
    BY <1>14 DEF PutShape
  <2> QED
    BY <2>1, <2>2
<1>16. \A y \in DOMAIN u : u[y].at \in {x, Null} \cup Range(lists[x])
  <2> SUFFICES ASSUME NEW y \in DOMAIN u
               PROVE  u[y].at \in {x, Null} \cup Range(lists[x])
    OBVIOUS
  <2>0. u[y] \in StoreSet
    BY <1>15
  <2>1. u[y].field \in {"next", "prev"}
    BY <2>0 DEF StoreSet
  <2> QED
    BY <2>1, <1>3, <1>12 DEF TakeShape, Assign
<1>17. \A y \in DOMAIN a : a[y].at \in {h, entry} \cup Range(W[h])
  <2>1. \A y \in DOMAIN a :
          a[y] \in {Assign("next", entry, after), Assign("next", before, entry),
                    Assign("prev", entry, before), Assign("prev", after, entry)}
    BY <1>14 DEF PutShape
  <2> QED
    BY <1>13, <2>1 DEF Assign
<1> DEFINE mem == Written("next", next, u, Len(u))
           back == Written("prev", prev, u, Len(u))
<1>18. ASSUME NEW g \in Heads
       PROVE  Swings(next, prev, u, g, g, lists[g], W[g])
  <2>1. CASE g = x
    <3>1. u \in Seq(StoreSet)
      BY <1>15
    <3> QED
      BY <1>2, <1>3, <1>6, <1>12, <2>1, TakeSwings
  <2>2. CASE g # x
    <3>1. ({x, Null} \cup Range(lists[x])) \cap ({g} \cup Range(lists[g])) = {}
      BY <1>2, <2>2, ListsApart
    <3>2. \A y \in DOMAIN u : u[y].at \notin {g} \cup Range(lists[g])
      BY <1>16, <3>1
    <3>3. Swings(next, prev, u, g, g, lists[g], lists[g])
      BY <1>2, <1>15, <3>2, ApartSwings
    <3> QED
      BY <1>7, <2>2, <3>3
  <2> QED
    BY <2>1, <2>2
<1>19. \A g \in Heads : Leads(mem, g, W[g], g) /\ Backs(back, g, W[g], g)
  BY <1>15, <1>18, SwingsDone
<1> HIDE DEF mem, back
<1>20. ASSUME NEW g \in Heads
       PROVE  Swings(mem, back, a, g, g, W[g], R[g])
  <2>1. CASE g = h
    <3>1. Swings(mem, back, a, h, h, W[h], t)
      <4>1. entry \in Node \ Range(W[h])
        BY <1>3, <1>5
      <4> QED
        BY <1>5, <1>8, <1>14, <1>19, <4>1, PutSwings DEF before, after, t
    <3> QED
      BY <1>10, <2>1, <3>1
  <2>2. CASE g # h
    <3>1. ({h, Null} \cup Range(lists[h])) \cap ({g} \cup Range(lists[g])) = {}
      BY <1>2, <2>2, ListsApart
    <3>2. entry \notin {g} \cup Range(W[g])
      BY <1>3, <1>5, Places
    <3>3. \A y \in DOMAIN a : a[y].at \notin {g} \cup Range(W[g])
      BY <1>5, <1>17, <3>1, <3>2
    <3>4. Swings(mem, back, a, g, g, W[g], W[g])
      BY <1>5, <1>15, <1>19, <3>3, ApartSwings
    <3> QED
      BY <1>10, <2>2, <3>4
  <2> QED
    BY <2>1, <2>2
<1>21. ASSUME NEW g \in Heads
       PROVE  /\ OneStep(lists[g], W[g], {entry}, Linked', "plain")
              /\ OneStep(W[g], R[g], {entry}, Linked', "plain")
  <2>0. \A v : OneStep(v, v, {entry}, Linked', "plain")
    BY DEF OneStep
  <2>1. OneStep(lists[g], W[g], {entry}, Linked', "plain")
    <3>1. CASE g = x
      BY <1>6, <3>1 DEF OneStep
    <3>2. CASE g # x
      BY <1>7, <2>0, <3>2
    <3> QED
      BY <3>1, <3>2
  <2>2. OneStep(W[g], R[g], {entry}, Linked', "plain")
    <3>1. CASE g = h
      <4>1. entry \in Linked' \ Range(W[h])
        BY <1>2, <1>3, <1>5, <1>11
      <4>2. R[g] = InsertAt(W[h], k, entry)
        BY <1>10, <3>1 DEF t
      <4> QED
        BY <1>8, <3>1, <4>1, <4>2 DEF OneStep
    <3>2. CASE g # h
      BY <1>10, <2>0, <3>2
    <3> QED
      BY <3>1, <3>2
  <2> QED
    BY <2>1, <2>2
<1>22. st \in Seq(StoreSet) /\ st # <<>>
  <2>1. u \o a \in Seq(StoreSet) /\ Len(u \o a) = Len(u) + Len(a)
    BY <1>15, Joined
  <2>2. Len(u) # 0 /\ Len(u) + Len(a) # 0
    BY <1>15
  <2>3. st \in Seq(StoreSet) /\ Len(st) # 0
    BY <1>1, <2>1, <2>2
  <2> QED
    BY <2>3
<1>23. ASSUME NEW g \in Heads
       PROVE  /\ HasCourse(st, g, {lists[g], R[g]}
                             \cup {Without(lists[g], n) : n \in {entry} \cap Linked'},
                           R[g], {entry}, Linked', "plain")
              /\ Backs(Written("prev", prev, st, Len(st)), g, R[g], End(g))
  <2> DEFINE views == {lists[g], R[g]} \cup {Without(lists[g], n) : n \in {entry} \cap Linked'}
             nodes == {entry}
             linked == Linked'
  <2>1. entry \in {entry} \cap Linked' /\ W[g] = Without(lists[g], entry)
    BY <1>2, <1>3, <1>11 DEF W
  <2>2. lists[g] \in views /\ R[g] \in views /\ W[g] \in views
    BY <2>1
  <2>3. OneStep(lists[g], W[g], nodes, linked, "plain") /\ OneStep(W[g], R[g], nodes, linked, "plain")
    BY <1>21
  <2>4. Swings(next, prev, u, g, End(g), lists[g], W[g])
    BY <1>1, <1>18
  <2>5. Swings(Written("next", next, u, Len(u)), Written("prev", prev, u, Len(u)),
               a, g, End(g), W[g], R[g])
    BY <1>1, <1>20 DEF mem, back
  <2> HIDE DEF views, nodes, linked
  <2>6. /\ HasCourse(u \o a, g, views, R[g], nodes, linked, "plain")
        /\ Backs(Written("prev", prev, u \o a, Len(u \o a)), g, R[g], End(g))
    BY <1>15, <2>2, <2>3, <2>4, <2>5, JoinCourse
  <2> QED
    BY <1>1, <2>6 DEF views, nodes, linked
<1>24. SpareReader({entry})
  BY <1>1, <1>2 DEF SpareReader, WalkInv
<1>25. \A g \in Heads : IsInjective(R[g])
  BY <1>5, <1>9, <1>10
<1>26. Range(R[ListHead]) \cap Range(R[OtherHead]) = {}
  <2>1. Range(lists[ListHead]) \cap Range(lists[OtherHead]) = {}
    BY <1>2 DEF TypeOK
  <2>2. (h = ListHead /\ OtherHead # h) \/ (h = OtherHead /\ ListHead # h)
    BY KListAssumption DEF Heads
  <2> QED
    BY <1>5, <1>9, <1>10, <2>1, <2>2 DEF Heads
<1>27. {entry} \in SUBSET Node /\ {entry} \ Linked' = {}
  BY <1>2, <1>3, <1>11
<1>28. /\ \A n \in {entry} \ Linked', m \in 0..Len(st) - 1 :
            Written("prev", prev, st, m)[n] # n
       /\ hashed => R[OtherHead] = <<>>
       /\ "plain" \in {"plain", "rcu"} /\ "plain" # "rcu"
  BY <1>27
<1>29. OneStays({entry}, Linked')
  BY DEF OneStays
<1> QED
  BY <1>1, <1>10, <1>22, <1>23, <1>24, <1>25, <1>26, <1>27, <1>28, <1>29, CallKeeps
-----------------------------------------------------------------------------
(* What the calls find in memory are the neighbours in the list. *)

LEMMA NewNeighbours ==
  ASSUME IInv, stores = <<>>, NEW h \in Heads, NEW n \in Node \ Linked,
         NEW k \in 0..Len(lists[h]) + 1
  PROVE  /\ Stop(h, lists[h], End(h), k) # n
         /\ Stop(h, lists[h], End(h), k) \in Place \cup {Null}
         /\ ~hashed \/ k <= Len(lists[h]) => Stop(h, lists[h], End(h), k) \in Place
<1> DEFINE s == lists[h]
           e == End(h)
<1>1. s \in Seq(Node) /\ e \in {h, Null} /\ Range(s) \subseteq Linked /\ Len(s) \in Nat
  BY IdleStart
<1>2. Linked \subseteq Node
  BY IdleStart
<1>3. Stop(h, s, e, k) \in {h, Null} \cup Range(s)
  BY <1>1, StopNear
<1>4. \A l \in 0..Len(s) : Stop(h, s, e, l) \in Place
  BY <1>1, StopPlaces
<1>5. Stop(h, s, e, Len(s) + 1) = e
  BY <1>1, StopPlaces
<1>6. ~hashed => e = h
  BY DEF End
<1> HIDE DEF s, e
<1>7. k <= Len(s) => k \in 0..Len(s)
  BY <1>1 DEF s
<1>8. k <= Len(s) \/ k = Len(s) + 1
  BY <1>1 DEF s
<1>9. ~hashed \/ k <= Len(s) => Stop(h, s, e, k) \in Place
  BY <1>4, <1>5, <1>6, <1>7, <1>8, Places
<1>10. Stop(h, s, e, k) # n /\ Stop(h, s, e, k) \in Place \cup {Null}
  BY <1>1, <1>2, <1>3, Places
<1> QED
  BY <1>9, <1>10 DEF s, e

LEMMA FirstAndLast ==
  ASSUME IInv, stores = <<>>, NEW h \in Heads
  PROVE  /\ Len(lists[h]) \in Nat
         /\ Stop(h, lists[h], End(h), 0) = h
         /\ next[h] = Stop(h, lists[h], End(h), 1)
         /\ Stop(h, lists[h], End(h), Len(lists[h]) + 1) = End(h)
         /\ ~hashed => End(h) = h /\ prev[h] = Stop(h, lists[h], End(h), Len(lists[h]))
<1>1. /\ lists[h] \in Seq(Node) /\ End(h) \in {h, Null}
      /\ Leads(next, h, lists[h], End(h)) /\ Backs(prev, h, lists[h], End(h))
  BY IdleStart
<1>2. /\ Len(lists[h]) \in Nat /\ Stop(h, lists[h], End(h), 0) = h
      /\ Stop(h, lists[h], End(h), Len(lists[h]) + 1) = End(h)
  BY <1>1, StopPlaces
<1>3. next[h] = Stop(h, lists[h], End(h), 1)
  <2>1. 0 \in 0..Len(lists[h]) /\ 0 + 1 = 1
    BY <1>2
  <2> QED
    BY <1>1, <1>2, <2>1 DEF Leads
<1>4. ~hashed => End(h) = h
  BY DEF End
<1>5. ~hashed => prev[h] = Stop(h, lists[h], End(h), Len(lists[h]))
  <2>1. Len(lists[h]) \in 0..Len(lists[h])
    BY <1>2
  <2>2. h # Null
    BY Places
  <2> QED
    BY <1>1, <1>2, <1>4, <2>1, <2>2 DEF Backs
<1> QED
  BY <1>2, <1>3, <1>4, <1>5

LEMMA EntryNeighbours ==
  ASSUME IInv, stores = <<>>, NEW n \in Linked
  PROVE  \E h \in Heads : \E i \in 1..Len(lists[h]) :
           /\ n = lists[h][i] /\ n \in Node
           /\ prev[n] = Stop(h, lists[h], End(h), i - 1)
           /\ next[n] = Stop(h, lists[h], End(h), i + 1)
           /\ prev[n] \in Place \ {n} /\ prev[n] \in {h} \cup Linked
           /\ next[n] \in (Place \cup {Null}) \ {n} /\ next[n] \in {h, Null} \cup Linked
           /\ ~hashed => next[n] \in Place
           /\ hashed => h = ListHead
<1>1. PICK h \in Heads : n \in Range(lists[h])
  BY DEF Linked
<1> DEFINE s == lists[h]
           e == End(h)
<1>2. /\ s \in Seq(Node) /\ IsInjective(s) /\ e \in {h, Null} /\ Range(s) \subseteq Linked
      /\ Leads(next, h, s, e) /\ Backs(prev, h, s, e)
  BY IdleStart
<1>3. PICK i \in 1..Len(s) : s[i] = n
  BY <1>1, <1>2, ListedAt
<1> HIDE DEF s, e
<1>4. /\ s[i] \in Node
      /\ Stop(h, s, e, i - 1) \in ({h} \cup Range(s)) \ {s[i]}
      /\ Stop(h, s, e, i + 1) \in ({h, Null} \cup Range(s)) \ {s[i]}
      /\ next[s[i]] = Stop(h, s, e, i + 1)
      /\ prev[s[i]] = Stop(h, s, e, i - 1)
  BY <1>2, AroundEntry
<1>5. Range(s) \subseteq Node
  BY <1>2, IdleStart
<1>6. ~hashed => next[n] \in Place
  <2> SUFFICES ASSUME ~hashed PROVE next[n] \in Place
    OBVIOUS
  <2>1. e = h
    BY DEF e, End
  <2>2. i + 1 \in 1..Len(s) \/ i + 1 = Len(s) + 1
    BY <1>2
  <2>3. \A l \in 1..Len(s) : Stop(h, s, e, l) = s[l] /\ s[l] \in Node
    BY <1>2, StopPlaces
  <2>4. Stop(h, s, e, Len(s) + 1) = e
    BY <1>2, StopPlaces
  <2> QED
    BY <1>3, <1>4, <2>1, <2>2, <2>3, <2>4, Places
<1>7. hashed => h = ListHead
  <2>1. CallInv
    BY IdleStart
  <2>2. hashed => Len(lists[OtherHead]) = 0
    BY <2>1 DEF CallInv
  <2>3. Len(s) # 0
    BY <1>2
  <2> QED
    BY <2>2, <2>3 DEF Heads, s
<1>8. /\ prev[n] \in Place \ {n} /\ prev[n] \in {h} \cup Linked
      /\ next[n] \in (Place \cup {Null}) \ {n} /\ next[n] \in {h, Null} \cup Linked
  BY <1>2, <1>3, <1>4, <1>5, Places
<1>9. n = lists[h][i] /\ i \in 1..Len(lists[h])
  BY <1>3 DEF s
<1>10. /\ prev[n] = Stop(h, lists[h], End(h), i - 1)
       /\ next[n] = Stop(h, lists[h], End(h), i + 1) /\ n \in Node
  BY <1>3, <1>4 DEF s, e
<1> QED
  BY <1>6, <1>7, <1>8, <1>9, <1>10

(* Each call keeps the invariant. *)
LEMMA AddCalls ==
  ASSUME IInv, ~hashed, NEW n \in Node, NEW h \in Heads,
         \/ list_add(n, h) \/ list_add_tail(n, h)
         \/ list_add_rcu(n, h) \/ list_add_tail_rcu(n, h)
  PROVE  IInv'
<1>1. stores = <<>> /\ n \in Node \ Linked
  BY DEF list_add, list_add_tail, list_add_rcu, list_add_tail_rcu, Add, Fresh, Call, MayCall
<1> DEFINE s == lists[h]
           e == End(h)
<1>2. /\ Len(s) \in Nat /\ Stop(h, s, e, 0) = h /\ next[h] = Stop(h, s, e, 1)
      /\ Stop(h, s, e, Len(s) + 1) = h /\ prev[h] = Stop(h, s, e, Len(s))
  BY <1>1, FirstAndLast
<1>3. \A k \in 0..Len(s) + 1 : Stop(h, s, e, k) # n /\ Stop(h, s, e, k) \in Place
  BY <1>1, NewNeighbours
<1> HIDE DEF s, e
<1>4. ASSUME NEW k \in 0..Len(s)
      PROVE  /\ PutShape(AddStores(n, Stop(h, s, e, k), Stop(h, s, e, k + 1)),
                         n, Stop(h, s, e, k), Stop(h, s, e, k + 1), {})
             /\ PutShape(AddRcuStores(n, Stop(h, s, e, k), Stop(h, s, e, k + 1)),
                         n, Stop(h, s, e, k), Stop(h, s, e, k + 1), {})
  <2>1. k \in 0..Len(s) + 1 /\ k + 1 \in 0..Len(s) + 1
    BY <1>2
  <2> QED
    BY <1>3, <2>1, AddShape, AddRcuShape
<1>5. ASSUME NEW kind \in {"plain", "rcu"}, NEW st, NEW i \in 1..Len(s) + 1,
             Add(kind, st, n, h, i),
             PutShape(st, n, Stop(h, s, e, i - 1), Stop(h, s, e, i), {})
      PROVE  IInv'
  BY <1>5, AddKeeps DEF s, e
<1>6. 0 \in 0..Len(s) /\ Len(s) \in 0..Len(s) /\ 1 \in 1..Len(s) + 1
      /\ Len(s) + 1 \in 1..Len(s) + 1 /\ 1 - 1 = 0 /\ 0 + 1 = 1 /\ (Len(s) + 1) - 1 = Len(s)
  BY <1>2
<1>7. CASE list_add(n, h)
  <2>1. Add("plain", AddStores(n, h, next[h]), n, h, 1)
    BY <1>7 DEF list_add
  <2>2. PutShape(AddStores(n, h, next[h]), n, Stop(h, s, e, 0), Stop(h, s, e, 1), {})
    BY <1>2, <1>4, <1>6
  <2> QED
    BY <1>5, <1>6, <2>1, <2>2
<1>8. CASE list_add_rcu(n, h)
  <2>1. Add("rcu", AddRcuStores(n, h, next[h]), n, h, 1)
    BY <1>8 DEF list_add_rcu
  <2>2. PutShape(AddRcuStores(n, h, next[h]), n, Stop(h, s, e, 0), Stop(h, s, e, 1), {})
    BY <1>2, <1>4, <1>6
  <2> QED
    BY <1>5, <1>6, <2>1, <2>2
<1>9. CASE list_add_tail(n, h)
  <2>1. Add("plain", AddStores(n, prev[h], h), n, h, Len(s) + 1)
    BY <1>9 DEF list_add_tail, s
  <2>2. PutShape(AddStores(n, prev[h], h), n, Stop(h, s, e, Len(s)),
                 Stop(h, s, e, Len(s) + 1), {})
    BY <1>2, <1>4, <1>6
  <2> QED
    BY <1>5, <1>6, <2>1, <2>2
<1>10. CASE list_add_tail_rcu(n, h)
  <2>1. Add("rcu", AddRcuStores(n, prev[h], h), n, h, Len(s) + 1)
    BY <1>10 DEF list_add_tail_rcu, s
  <2>2. PutShape(AddRcuStores(n, prev[h], h), n, Stop(h, s, e, Len(s)),
                 Stop(h, s, e, Len(s) + 1), {})
    BY <1>2, <1>4, <1>6
  <2> QED
    BY <1>5, <1>6, <2>1, <2>2
<1> QED
  BY <1>7, <1>8, <1>9, <1>10

LEMMA DelCalls ==
  ASSUME IInv, NEW n,
         \/ ~hashed /\ (list_del(n) \/ list_del_rcu(n) \/ list_del_init(n))
         \/ hashed /\ (hlist_del(n) \/ hlist_del_rcu(n) \/ hlist_del_init(n))
  PROVE  IInv'
<1>1. n \in Linked /\ stores = <<>>
  BY DEF list_del, list_del_rcu, list_del_init, hlist_del, hlist_del_rcu, hlist_del_init,
         Del, Call, MayCall
<1>a. PICK h \in Heads :
        \E i \in 1..Len(lists[h]) :
           /\ n = lists[h][i] /\ n \in Node
           /\ prev[n] = Stop(h, lists[h], End(h), i - 1)
           /\ next[n] = Stop(h, lists[h], End(h), i + 1)
           /\ prev[n] \in Place \ {n}
           /\ next[n] \in (Place \cup {Null}) \ {n}
           /\ ~hashed => next[n] \in Place
  BY <1>1, EntryNeighbours
<1>2. PICK i \in 1..Len(lists[h]) :
           /\ n = lists[h][i] /\ n \in Node
           /\ prev[n] = Stop(h, lists[h], End(h), i - 1)
           /\ next[n] = Stop(h, lists[h], End(h), i + 1)
           /\ prev[n] \in Place \ {n}
           /\ next[n] \in (Place \cup {Null}) \ {n}
           /\ ~hashed => next[n] \in Place
  BY <1>a
<1>3. ASSUME NEW kind \in {"plain", "rcu"}, NEW st,
             Del(kind, st, n), TakeShape(st, n, prev[n], next[n]),
             kind = "rcu" => \A k \in DOMAIN st : st[k].field = "next" => st[k].at # n
      PROVE  IInv'
  BY <1>2, <1>3, DelKeeps
<1>4. CASE ~hashed
  <2>0. prev[n] \in Place /\ next[n] \in Place /\ n \in Node /\ prev[n] # n /\ next[n] # n
    BY <1>2, <1>4
  <2>1. CASE list_del(n)
    <3>1. Del("plain", DelStores(n, prev[n], next[n]), n)
      BY <2>1 DEF list_del
    <3>2. TakeShape(DelStores(n, prev[n], next[n]), n, prev[n], next[n])
      BY <2>0, DelShape
    <3> QED
      BY <1>3, <3>1, <3>2
  <2>2. CASE list_del_rcu(n)
    <3>1. Del("rcu", DelRcuStores(n, prev[n], next[n]), n)
      BY <2>2 DEF list_del_rcu
    <3>2. /\ TakeShape(DelRcuStores(n, prev[n], next[n]), n, prev[n], next[n])
          /\ \A k \in DOMAIN DelRcuStores(n, prev[n], next[n]) :
               DelRcuStores(n, prev[n], next[n])[k].field = "next" =>
                 DelRcuStores(n, prev[n], next[n])[k].at # n
      BY <2>0, DelRcuShape
    <3> QED
      BY <1>3, <3>1, <3>2
  <2>3. CASE list_del_init(n)
    <3>1. Del("plain", DelInitStores(n, prev[n], next[n]), n)
      BY <2>3 DEF list_del_init
    <3>2. TakeShape(DelInitStores(n, prev[n], next[n]), n, prev[n], next[n])
      BY <2>0, DelInitShape
    <3> QED
      BY <1>3, <3>1, <3>2
  <2> QED
    BY <1>4, <2>1, <2>2, <2>3
<1>5. CASE hashed
  <2>0. /\ prev[n] \in Place /\ next[n] \in Place \cup {Null} /\ n \in Node
        /\ prev[n] # n /\ next[n] # n
    BY <1>2
  <2>1. CASE hlist_del(n)
    <3>1. Del("plain", HDelStores(n, prev[n], next[n]), n)
      BY <2>1 DEF hlist_del
    <3>2. TakeShape(HDelStores(n, prev[n], next[n]), n, prev[n], next[n])
      BY <2>0, HDelShape
    <3> QED
      BY <1>3, <3>1, <3>2
  <2>2. CASE hlist_del_rcu(n)
    <3>1. Del("rcu", HDelRcuStores(n, prev[n], next[n]), n)
      BY <2>2 DEF hlist_del_rcu
    <3>2. /\ TakeShape(HDelRcuStores(n, prev[n], next[n]), n, prev[n], next[n])
          /\ \A k \in DOMAIN HDelRcuStores(n, prev[n], next[n]) :
               HDelRcuStores(n, prev[n], next[n])[k].field = "next" =>
                 HDelRcuStores(n, prev[n], next[n])[k].at # n
      BY <2>0, HDelRcuShape
    <3> QED
      BY <1>3, <3>1, <3>2
  <2>3. CASE hlist_del_init(n)
    <3>1. Del("plain", HDelInitStores(n, prev[n], next[n]), n)
      BY <2>3 DEF hlist_del_init
    <3>2. TakeShape(HDelInitStores(n, prev[n], next[n]), n, prev[n], next[n])
      BY <2>0, HDelInitShape
    <3> QED
      BY <1>3, <3>1, <3>2
  <2> QED
    BY <1>5, <2>1, <2>2, <2>3
<1> QED
  BY <1>4, <1>5

LEMMA ReplaceCalls ==
  ASSUME IInv, NEW m, NEW n,
         \/ ~hashed /\ list_replace_rcu(m, n)
         \/ hashed /\ hlist_replace_rcu(m, n)
  PROVE  IInv'
<1>1. m \in Linked /\ n \in Node \ Linked /\ stores = <<>>
  BY DEF list_replace_rcu, hlist_replace_rcu, Replace, Fresh, Call, MayCall
<1>a. PICK h \in Heads :
        \E i \in 1..Len(lists[h]) :
           /\ m = lists[h][i] /\ m \in Node
           /\ prev[m] = Stop(h, lists[h], End(h), i - 1)
           /\ next[m] = Stop(h, lists[h], End(h), i + 1)
           /\ prev[m] \in Place \ {m} /\ prev[m] \in {h} \cup Linked
           /\ next[m] \in (Place \cup {Null}) \ {m} /\ next[m] \in {h, Null} \cup Linked
           /\ ~hashed => next[m] \in Place
  BY <1>1, EntryNeighbours
<1>2. PICK i \in 1..Len(lists[h]) :
           /\ m = lists[h][i] /\ m \in Node
           /\ prev[m] = Stop(h, lists[h], End(h), i - 1)
           /\ next[m] = Stop(h, lists[h], End(h), i + 1)
           /\ prev[m] \in Place \ {m} /\ prev[m] \in {h} \cup Linked
           /\ next[m] \in (Place \cup {Null}) \ {m} /\ next[m] \in {h, Null} \cup Linked
           /\ ~hashed => next[m] \in Place
  BY <1>a
<1>3. ASSUME NEW st, Replace(st, m, n),
             PutShape(st, n, prev[m], next[m], {Assign("prev", m, Poison)}),
             \A k \in DOMAIN st : st[k].at = m => k = Len(st)
      PROVE  IInv'
  <2>1. Replace(st, lists[h][i], n)
    BY <1>2, <1>3
  <2>2. PutShape(st, n, Stop(h, lists[h], End(h), i - 1), Stop(h, lists[h], End(h), i + 1),
                 {Assign("prev", lists[h][i], Poison)})
    BY <1>2, <1>3
  <2>3. \A k \in DOMAIN st : st[k].at = lists[h][i] => k = Len(st)
    BY <1>2, <1>3
  <2> QED
    BY <2>1, <2>2, <2>3, ReplaceKeeps
<1>4. /\ n # m /\ prev[m] # n /\ next[m] # n /\ prev[m] # m /\ next[m] # m
      /\ m \in Node /\ n \in Node
      /\ prev[m] \in Place /\ next[m] \in Place \cup {Null}
  BY <1>1, <1>2, Places
<1>5. CASE ~hashed /\ list_replace_rcu(m, n)
  <2>0. next[m] \in Place
    BY <1>2, <1>5
  <2>1. Replace(ReplaceRcuStores(m, n, prev[m], next[m]), m, n)
    BY <1>5 DEF list_replace_rcu
  <2> DEFINE st == ReplaceRcuStores(m, n, prev[m], next[m])
  <2>2. /\ PutShape(st, n, prev[m], next[m], {Assign("prev", m, Poison)})
        /\ \A k \in DOMAIN st : st[k].at = m => k = Len(st)
    BY <1>4, <2>0, ReplaceShape
  <2> QED
    BY <1>3, <2>1, <2>2
<1>6. CASE hashed /\ hlist_replace_rcu(m, n)
  <2>1. Replace(HReplaceRcuStores(m, n, prev[m], next[m]), m, n)
    BY <1>6 DEF hlist_replace_rcu
  <2> DEFINE st == HReplaceRcuStores(m, n, prev[m], next[m])
  <2>2. /\ PutShape(st, n, prev[m], next[m], {Assign("prev", m, Poison)})
        /\ \A k \in DOMAIN st : st[k].at = m => k = Len(st)
    BY <1>4, HReplaceShape
  <2> QED
    BY <1>3, <2>1, <2>2
<1> QED
  BY <1>5, <1>6

LEMMA HAddCalls ==
  ASSUME IInv, hashed, NEW n \in Node, NEW m \in Node,
         \/ hlist_add_head(n) \/ hlist_add_head_rcu(n)
         \/ hlist_add_before(n, m) \/ hlist_add_before_rcu(n, m)
         \/ hlist_add_after(n, m) \/ hlist_add_after_rcu(n, m)
  PROVE  IInv'
<1>1. stores = <<>>
  BY DEF hlist_add_head, hlist_add_head_rcu, hlist_add_before, hlist_add_before_rcu,
         hlist_add_after, hlist_add_after_rcu, Add, Call, MayCall
<1> DEFINE h == ListHead
           s == lists[h]
           e == End(h)
<1>2. h \in Heads /\ s \in Seq(Node) /\ IsInjective(s)
  BY <1>1, IdleStart DEF Heads
<1>3. /\ Len(s) \in Nat /\ Stop(h, s, e, 0) = h /\ next[h] = Stop(h, s, e, 1)
  BY <1>1, <1>2, FirstAndLast
<1>4. \A x \in Node \ Linked : \A k \in 0..Len(s) + 1 :
        /\ Stop(h, s, e, k) # x /\ Stop(h, s, e, k) \in Place \cup {Null}
        /\ k <= Len(s) => Stop(h, s, e, k) \in Place
  BY <1>1, <1>2, NewNeighbours
<1>5. ASSUME NEW x \in Linked
      PROVE  \E i \in 1..Len(s) :
               /\ IndexOf(x) = i /\ x = Stop(h, s, e, i) /\ x \in Node
               /\ prev[x] = Stop(h, s, e, i - 1) /\ next[x] = Stop(h, s, e, i + 1)
  <2>a. PICK g \in Heads : \E i \in 1..Len(lists[g]) :
           /\ x = lists[g][i] /\ x \in Node
           /\ prev[x] = Stop(g, lists[g], End(g), i - 1)
           /\ next[x] = Stop(g, lists[g], End(g), i + 1)
           /\ hashed => g = ListHead
    BY <1>1, EntryNeighbours
  <2>1. PICK i \in 1..Len(s) : /\ x = s[i] /\ x \in Node
                               /\ prev[x] = Stop(h, s, e, i - 1)
                               /\ next[x] = Stop(h, s, e, i + 1)
    BY <2>a
  <2>2. IndexOf(x) = i
    BY <1>2, <2>1, WithoutIs DEF IndexOf
  <2>3. Stop(h, s, e, i) = s[i]
    BY <1>2, <2>1, StopPlaces, Ends
  <2> QED
    BY <2>1, <2>2, <2>3
<1> HIDE DEF h, s, e
<1>6. ASSUME NEW kind \in {"plain", "rcu"}, NEW st, NEW x, NEW i \in 1..Len(s) + 1,
             Add(kind, st, x, h, i),
             PutShape(st, x, Stop(h, s, e, i - 1), Stop(h, s, e, i), {})
      PROVE  IInv'
  BY <1>2, <1>6, AddKeeps DEF s, e, h
<1>7. ASSUME NEW x \in Node \ Linked, NEW i \in 1..Len(s) + 1
      PROVE  /\ Stop(h, s, e, i - 1) \in Place /\ Stop(h, s, e, i - 1) # x
             /\ Stop(h, s, e, i) \in Place \cup {Null} /\ Stop(h, s, e, i) # x
  <2>1. i - 1 \in 0..Len(s) + 1 /\ i - 1 <= Len(s) /\ i \in 0..Len(s) + 1
    BY <1>3
  <2> QED
    BY <1>4, <2>1
<1>8. CASE hlist_add_head(n) \/ hlist_add_head_rcu(n)
  <2>1. n \in Node \ Linked
    BY <1>8 DEF hlist_add_head, hlist_add_head_rcu, Add, Fresh
  <2>2. 1 \in 1..Len(s) + 1 /\ 1 - 1 = 0
    BY <1>3
  <2>3. h \in Place /\ h # n /\ next[h] \in Place \cup {Null} /\ next[h] # n
    BY <1>3, <1>7, <2>1, <2>2
  <2>4. CASE hlist_add_head(n)
    <3>1. Add("plain", HAddHeadStores(n, h, next[h]), n, h, 1)
      BY <2>4 DEF hlist_add_head, h
    <3>2. PutShape(HAddHeadStores(n, h, next[h]), n, h, next[h], {})
      BY <2>3, HAddHeadShape
    <3> QED
      BY <1>3, <1>6, <2>2, <3>1, <3>2
  <2>5. CASE hlist_add_head_rcu(n)
    <3>1. Add("rcu", HAddHeadRcuStores(n, h, next[h]), n, h, 1)
      BY <2>5 DEF hlist_add_head_rcu, h
    <3>2. PutShape(HAddHeadRcuStores(n, h, next[h]), n, h, next[h], {})
      BY <2>3, HAddHeadRcuShape
    <3> QED
      BY <1>3, <1>6, <2>2, <3>1, <3>2
  <2> QED
    BY <1>8, <2>4, <2>5
<1>9. CASE hlist_add_before(n, m) \/ hlist_add_before_rcu(n, m)
  <2>1. n \in Node \ Linked /\ m \in Linked
    BY <1>9 DEF hlist_add_before, hlist_add_before_rcu, Add, Fresh
  <2>2. PICK i \in 1..Len(s) : /\ IndexOf(m) = i /\ m = Stop(h, s, e, i) /\ m \in Node
                               /\ prev[m] = Stop(h, s, e, i - 1)
    BY <1>5, <2>1
  <2>3. i \in 1..Len(s) + 1
    BY <1>3
  <2>4. prev[m] \in Place /\ prev[m] # n /\ m # n /\ m \in Place
    BY <1>7, <2>1, <2>2, <2>3, Places
  <2>5. PutShape(HAddBeforeStores(n, prev[m], m), n, prev[m], m, {})
    BY <2>4, HAddBeforeShape
  <2>6. PICK kind \in {"plain", "rcu"} :
          Add(kind, HAddBeforeStores(n, prev[m], m), n, h, i)
    BY <1>9, <2>2 DEF hlist_add_before, hlist_add_before_rcu, h
  <2> QED
    BY <1>6, <2>2, <2>3, <2>5, <2>6
<1>10. CASE hlist_add_after(n, m)
  <2>1. m \in Node \ Linked /\ n \in Linked
    BY <1>10 DEF hlist_add_after, Add, Fresh
  <2>2. PICK i \in 1..Len(s) : /\ IndexOf(n) = i /\ n = Stop(h, s, e, i)
                               /\ next[n] = Stop(h, s, e, i + 1)
    BY <1>5, <2>1
  <2>3. i + 1 \in 1..Len(s) + 1 /\ (i + 1) - 1 = i
    BY <1>3
  <2>4. n \in Place /\ n # m /\ next[n] \in Place \cup {Null} /\ next[n] # m
    BY <1>7, <2>1, <2>2, <2>3
  <2>5. PutShape(HAddAfterStores(n, m, next[n]), m, n, next[n], {})
    BY <2>4, HAddAfterShape
  <2>6. Add("plain", HAddAfterStores(n, m, next[n]), m, h, i + 1)
    BY <1>10, <2>2 DEF hlist_add_after, h
  <2> QED
    BY <1>6, <2>2, <2>3, <2>5, <2>6
<1>11. CASE hlist_add_after_rcu(n, m)
  <2>1. m \in Node \ Linked /\ n \in Linked
    BY <1>11 DEF hlist_add_after_rcu, Add, Fresh
  <2>2. PICK i \in 1..Len(s) : /\ IndexOf(n) = i /\ n = Stop(h, s, e, i)
                               /\ next[n] = Stop(h, s, e, i + 1)
    BY <1>5, <2>1
  <2>3. i + 1 \in 1..Len(s) + 1 /\ (i + 1) - 1 = i
    BY <1>3
  <2>4. n \in Place /\ n # m /\ next[n] \in Place \cup {Null} /\ next[n] # m
    BY <1>7, <2>1, <2>2, <2>3
  <2>5. PutShape(HAddAfterRcuStores(n, m, next[n]), m, n, next[n], {})
    BY <2>4, HAddAfterRcuShape
  <2>6. Add("rcu", HAddAfterRcuStores(n, m, next[n]), m, h, i + 1)
    BY <1>11, <2>2 DEF hlist_add_after_rcu, h
  <2> QED
    BY <1>6, <2>2, <2>3, <2>5, <2>6
<1> QED
  BY <1>8, <1>9, <1>10, <1>11

LEMMA MoveCalls ==
  ASSUME IInv, ~hashed, NEW n \in Node, NEW h \in Heads,
         list_move(n, h) \/ list_move_tail(n, h)
  PROVE  IInv'
<1>1. n \in Linked /\ stores = <<>> /\ owed' = owed /\ retired' = retired
  BY DEF list_move, list_move_tail, Call, MayCall
<1>a. PICK x \in Heads : \E i \in 1..Len(lists[x]) :
        /\ n = lists[x][i]
        /\ prev[n] = Stop(x, lists[x], End(x), i - 1)
        /\ next[n] = Stop(x, lists[x], End(x), i + 1)
  BY <1>1, EntryNeighbours
<1>2. PICK i \in 1..Len(lists[x]) :
        /\ n = lists[x][i]
        /\ prev[n] = Stop(x, lists[x], End(x), i - 1)
        /\ next[n] = Stop(x, lists[x], End(x), i + 1)
  BY <1>a
<1> DEFINE s == lists[h]
           w == Without(s, n)
<1>3. /\ s \in Seq(Node) /\ IsInjective(s) /\ w \in Seq(Node) /\ Len(w) \in Nat /\ End(h) = h
      /\ \A g \in Heads : lists[g] \in Seq(Node) /\ IsInjective(lists[g])
      /\ TypeOK
  BY <1>1, IdleStart, WithoutType DEF End
<1>4. /\ Len(s) \in Nat /\ Stop(h, s, h, 0) = h /\ next[h] = Stop(h, s, h, 1)
      /\ Stop(h, s, h, Len(s) + 1) = h /\ prev[h] = Stop(h, s, h, Len(s))
  BY <1>1, <1>3, FirstAndLast
<1>5. Stop(h, w, h, 0) = h /\ Stop(h, w, h, Len(w) + 1) = h
  BY <1>3, StopPlaces
<1>6. ASSUME h # x
      PROVE  w = s /\ next[h] # n /\ prev[h] # n
  <2>1. n \notin {h, Null} \cup Range(s)
    <3>1. n \in Range(lists[x])
      BY <1>2, <1>3, AroundEntry
    <3> QED
      BY <1>3, <1>6, <3>1, ListsApart
  <2>2. w = s
    BY <1>3, <2>1, WithoutIs
  <2>3. 1 \in 0..Len(s) + 1 /\ Len(s) \in 0..Len(s) + 1
    BY <1>4
  <2> QED
    BY <1>3, <1>4, <2>1, <2>2, <2>3, StopNear
<1>7. ASSUME h = x
      PROVE  /\ s[i] = n /\ i \in 1..Len(s) /\ w = RemoveAt(s, i) /\ Len(w) = Len(s) - 1
             /\ prev[n] = Stop(h, s, h, i - 1) /\ next[n] = Stop(h, s, h, i + 1)
             /\ Stop(h, s, h, i) = n
             /\ \A k \in 1..Len(s) : Stop(h, s, h, k) = n => k = i
             /\ \A k \in 0..i - 1 : Stop(h, w, h, k) = Stop(h, s, h, k)
             /\ \A k \in i..Len(s) : Stop(h, w, h, k) = Stop(h, s, h, k + 1)
  <2>1. /\ s[i] = n /\ i \in 1..Len(s)
        /\ prev[n] = Stop(h, s, h, i - 1) /\ next[n] = Stop(h, s, h, i + 1)
    BY <1>2, <1>3, <1>7
  <2>2. w = RemoveAt(s, i)
    BY <1>3, <2>1, WithoutIs
  <2>3. Stop(h, s, h, i) = s[i]
    BY <1>3, <2>1, StopPlaces
  <2>4. \A k \in 1..Len(s) : Stop(h, s, h, k) = n => k = i
    <3>1. \A j, k \in 0..Len(s) : Stop(h, s, h, j) = Stop(h, s, h, k) => j = k
      BY <1>3, StopInjective
    <3>2. 1..Len(s) \subseteq 0..Len(s)
      BY <1>4
    <3> QED
      BY <2>1, <2>3, <3>1, <3>2
  <2>5. /\ Len(RemoveAt(s, i)) = Len(s) - 1
        /\ \A k \in 0..i - 1 : Stop(h, RemoveAt(s, i), h, k) = Stop(h, s, h, k)
        /\ \A k \in i..Len(s) : Stop(h, RemoveAt(s, i), h, k) = Stop(h, s, h, k + 1)
    BY <1>3, <2>1, StopRemove
  <2> QED
    BY <2>1, <2>2, <2>3, <2>4, <2>5
<1> DEFINE after == IF next[h] = n THEN next[n] ELSE next[h]
           last == IF prev[h] = n THEN prev[n] ELSE prev[h]
<1>8. after = Stop(h, w, h, 1)
  <2>1. CASE h # x
    BY <1>4, <1>6, <2>1
  <2>2. CASE h = x
    <3> HIDE DEF s, w
    <3>1. CASE i = 1
      <4>1. 1 \in i..Len(s) /\ i + 1 = 1 + 1
        BY <1>7, <2>2, <3>1
      <4>2. next[h] = n /\ next[n] = Stop(h, s, h, 1 + 1)
        BY <1>4, <1>7, <2>2, <3>1
      <4> QED
        BY <1>7, <2>2, <4>1, <4>2
    <3>2. CASE i # 1
      <4>1. 1 \in 0..i - 1 /\ 1 \in 1..Len(s)
        BY <1>4, <1>7, <2>2, <3>2
      <4>2. next[h] # n
        BY <1>4, <1>7, <2>2, <3>2, <4>1
      <4> QED
        BY <1>4, <1>7, <2>2, <4>1, <4>2
    <3> QED
      BY <3>1, <3>2
  <2> QED
    BY <2>1, <2>2
<1>9. last = Stop(h, w, h, Len(w))
  <2>1. CASE h # x
    BY <1>4, <1>6, <2>1
  <2>2. CASE h = x
    <3> HIDE DEF s, w
    <3>1. CASE i = Len(s)
      <4>1. Len(w) \in 0..i - 1 /\ Len(w) = i - 1
        BY <1>3, <1>7, <2>2, <3>1
      <4>2. prev[h] = n /\ prev[n] = Stop(h, s, h, i - 1)
        BY <1>4, <1>7, <2>2, <3>1
      <4> QED
        BY <1>7, <2>2, <4>1, <4>2
    <3>2. CASE i # Len(s)
      <4>1. Len(w) \in i..Len(s) /\ Len(w) + 1 = Len(s) /\ Len(s) \in 1..Len(s)
        BY <1>4, <1>7, <2>2, <3>2
      <4>2. prev[h] # n
        BY <1>4, <1>7, <2>2, <3>2, <4>1
      <4> QED
        BY <1>4, <1>7, <2>2, <4>1, <4>2
    <3> QED
      BY <3>1, <3>2
  <2> QED
    BY <2>1, <2>2
<1> DEFINE W == [g \in Heads |-> Without(lists[g], n)]
<1>10. ASSUME NEW k \in 1..Len(w) + 1,
              Call("plain", UnlinkStores(prev[n], next[n])
                              \o AddStores(n, Stop(h, w, h, k - 1), Stop(h, w, h, k)),
                   {n}, [W EXCEPT ![h] = InsertAt(@, k, n)])
       PROVE  IInv'
  BY <1>1, <1>2, <1>10, MoveKeeps
<1>11. W[h] = w /\ 1 \in 1..Len(w) + 1 /\ 1 - 1 = 0
       /\ Len(w) + 1 \in 1..Len(w) + 1 /\ (Len(w) + 1) - 1 = Len(w)
  BY <1>3
<1>12. CASE list_move(n, h)
  <2>1. Call("plain", UnlinkStores(prev[n], next[n]) \o AddStores(n, h, after),
             {n}, [W EXCEPT ![h] = InsertAt(@, 1, n)])
    BY <1>12 DEF list_move, Moved
  <2> HIDE DEF W, w, after
  <2> QED
    BY <1>5, <1>8, <1>10, <1>11, <2>1
<1>13. CASE list_move_tail(n, h)
  <2>1. Call("plain", UnlinkStores(prev[n], next[n]) \o AddStores(n, last, h),
             {n}, [W EXCEPT ![h] = InsertAt(@, Len(@) + 1, n)])
    BY <1>13 DEF list_move_tail, Moved
  <2>2. [W EXCEPT ![h] = InsertAt(@, Len(@) + 1, n)]
          = [W EXCEPT ![h] = InsertAt(@, Len(w) + 1, n)]
    BY <1>11
  <2> HIDE DEF W, w, last
  <2> QED
    BY <1>5, <1>9, <1>10, <1>11, <2>1, <2>2
<1> QED
  BY <1>12, <1>13
-----------------------------------------------------------------------------
(* One list is put in front of the other. *)

LEMMA StopJoin ==
  ASSUME NEW h \in Heads, NEW e \in {h, Null}, NEW s \in Seq(Node), NEW t \in Seq(Node)
  PROVE  /\ t \o s \in Seq(Node) /\ Len(t \o s) = Len(t) + Len(s)
         /\ \A k \in 1..Len(t) : Stop(h, t \o s, e, k) = t[k]
         /\ \A k \in 1..Len(s) + 1 : Stop(h, t \o s, e, Len(t) + k) = Stop(h, s, e, k)
<1> DEFINE r == t \o s
<1>1. /\ r \in Seq(Node) /\ Len(r) = Len(t) + Len(s)
      /\ \A k \in 1..Len(t) : r[k] = t[k]
      /\ \A k \in 1..Len(s) : r[Len(t) + k] = s[k]
  BY Joined
<1>2. Len(t) \in Nat /\ Len(s) \in Nat
  OBVIOUS
<1> HIDE DEF r
<1>3. ASSUME NEW k \in 1..Len(t) PROVE Stop(h, r, e, k) = t[k]
  BY <1>1, <1>2 DEF Stop
<1>4. ASSUME NEW k \in 1..Len(s) + 1 PROVE Stop(h, r, e, Len(t) + k) = Stop(h, s, e, k)
  <2>1. CASE k \in 1..Len(s)
    <3>1. Len(t) + k # 0 /\ Len(t) + k <= Len(r) /\ k # 0 /\ k <= Len(s)
      BY <1>1, <1>2, <2>1
    <3>2. Stop(h, r, e, Len(t) + k) = r[Len(t) + k] /\ Stop(h, s, e, k) = s[k]
      BY <3>1 DEF Stop
    <3> QED
      BY <1>1, <2>1, <3>2
  <2>2. CASE k = Len(s) + 1
    <3>1. Len(t) + k # 0 /\ ~(Len(t) + k <= Len(r)) /\ k # 0 /\ ~(k <= Len(s))
      BY <1>1, <1>2, <2>2
    <3> QED
      BY <3>1 DEF Stop
  <2> QED
    BY <1>2, <2>1, <2>2
<1> QED
  BY <1>1, <1>3, <1>4 DEF r

LEMMA JoinLists ==
  ASSUME NEW S, NEW s \in Seq(S), NEW t \in Seq(S)
  PROVE  /\ Range(t \o s) = Range(t) \cup Range(s)
         /\ IsInjective(s) /\ IsInjective(t) /\ Range(t) \cap Range(s) = {} =>
              IsInjective(t \o s)
<1> DEFINE r == t \o s
<1>1. /\ r \in Seq(S) /\ Len(r) = Len(t) + Len(s)
      /\ \A k \in 1..Len(t) : r[k] = t[k]
      /\ \A k \in 1..Len(s) : r[Len(t) + k] = s[k]
  BY Joined
<1>2. Len(t) \in Nat /\ Len(s) \in Nat /\ DOMAIN t = 1..Len(t) /\ DOMAIN s = 1..Len(s)
  OBVIOUS
<1> HIDE DEF r
<1>3. DOMAIN r = 1..Len(r)
  BY <1>1
<1>4. \A k \in DOMAIN r : \/ k \in DOMAIN t /\ r[k] = t[k]
                          \/ k - Len(t) \in DOMAIN s /\ r[k] = s[k - Len(t)]
  <2> SUFFICES ASSUME NEW k \in DOMAIN r
               PROVE  \/ k \in DOMAIN t /\ r[k] = t[k]
                      \/ k - Len(t) \in DOMAIN s /\ r[k] = s[k - Len(t)]
    OBVIOUS
  <2>1. CASE k <= Len(t)
    BY <1>1, <1>2, <1>3, <2>1
  <2>2. CASE k > Len(t)
    <3>1. k - Len(t) \in 1..Len(s) /\ k = Len(t) + (k - Len(t))
      BY <1>1, <1>2, <1>3, <2>2
    <3> QED
      BY <1>1, <1>2, <3>1
  <2> QED
    BY <1>1, <1>2, <1>3, <2>1, <2>2
<1>5. Range(t) \subseteq Range(r)
  BY <1>1, <1>2, <1>3 DEF Range
<1>6. Range(s) \subseteq Range(r)
  <2> SUFFICES ASSUME NEW k \in DOMAIN s PROVE s[k] \in Range(r)
    BY DEF Range
  <2>1. Len(t) + k \in DOMAIN r /\ r[Len(t) + k] = s[k]
    BY <1>1, <1>2, <1>3
  <2> QED
    BY <2>1 DEF Range
<1>7. Range(r) \subseteq Range(t) \cup Range(s)
  BY <1>4 DEF Range
<1>8. ASSUME IsInjective(s), IsInjective(t), Range(t) \cap Range(s) = {}
      PROVE  IsInjective(r)
  <2> SUFFICES ASSUME NEW j \in DOMAIN r, NEW k \in DOMAIN r, r[j] = r[k]
               PROVE  j = k
    BY DEF IsInjective
  <2>1. \A x \in DOMAIN t, y \in DOMAIN s : t[x] # s[y]
    BY <1>8 DEF Range
  <2>2. CASE j \in DOMAIN t /\ r[j] = t[j]
    BY <1>4, <1>8, <2>1, <2>2 DEF IsInjective
  <2>3. CASE j - Len(t) \in DOMAIN s /\ r[j] = s[j - Len(t)]
    <3>1. k - Len(t) \in DOMAIN s /\ r[k] = s[k - Len(t)]
      BY <1>4, <2>1, <2>3
    <3>2. j - Len(t) = k - Len(t)
      BY <1>8, <2>3, <3>1 DEF IsInjective
    <3> QED
      BY <1>1, <1>2, <1>3, <3>2
  <2> QED
    BY <1>4, <2>2, <2>3
<1> QED
  BY <1>5, <1>6, <1>7, <1>8 DEF r

(* What the stores leave in memory: b is what was the first entry, l the    *)
(* last, of the list of OtherHead, a the first of the list of ListHead.     *)
Spliced(mem, back, new, old, b, l, a) ==
  /\ new[ListHead] = b /\ new[l] = a /\ new[OtherHead] = OtherHead
  /\ \A p \in Place \ {ListHead, l, OtherHead} : new[p] = mem[p]
  /\ old[b] = ListHead /\ old[a] = l /\ old[OtherHead] = OtherHead
  /\ \A p \in Place \ {b, a, OtherHead} : old[p] = back[p]

(* The six stores of a splice, however they were put together. *)
LEMMA SixWrites ==
  ASSUME NEW mem, NEW back, NEW b \in Node, NEW l \in Node, NEW a \in Place,
         a # OtherHead, a # b,
         NEW st, Len(st) = 6,
         st[1] = Assign("prev", b, ListHead), st[2] = Assign("next", ListHead, b),
         st[3] = Assign("next", l, a), st[4] = Assign("prev", a, l),
         st[5] = Assign("next", OtherHead, OtherHead),
         st[6] = Assign("prev", OtherHead, OtherHead)
  PROVE  Spliced(mem, back, Written("next", mem, st, Len(st)),
                 Written("prev", back, st, Len(st)), b, l, a)
<1> DEFINE s1 == Assign("prev", b, ListHead)
           s2 == Assign("next", ListHead, b)
           s3 == Assign("next", l, a)
           s4 == Assign("prev", a, l)
           s5 == Assign("next", OtherHead, OtherHead)
           s6 == Assign("prev", OtherHead, OtherHead)
<1>0. ListHead \in Heads /\ OtherHead \in Heads /\ ListHead # OtherHead
  BY KListAssumption DEF Heads
<1>6. Len(st) = 6 /\ st[1] = s1 /\ st[2] = s2 /\ st[3] = s3 /\ st[4] = s4
  OBVIOUS
<1>7. st[5] = s5 /\ st[6] = s6
  OBVIOUS
<1> HIDE DEF s1, s2, s3, s4, s5, s6
<1>8. ASSUME NEW i \in 1..6 PROVE i \in {1, 2, 3, 4, 5, 6}
  OBVIOUS
<1>b. ListHead # l /\ ListHead # b /\ OtherHead # l /\ OtherHead # b
  BY <1>0, Places
<1> DEFINE H(f, p) == Hits(f, p, st, 6)
           new == Written("next", mem, st, 6)
           old == Written("prev", back, st, 6)
<1>9. ASSUME NEW f, NEW p, NEW i \in H(f, p)
      PROVE  \/ f = "prev" /\ p = b /\ st[i].value = ListHead
             \/ f = "next" /\ p = ListHead /\ st[i].value = b
             \/ f = "next" /\ p = l /\ st[i].value = a
             \/ f = "prev" /\ p = a /\ st[i].value = l
             \/ f = "next" /\ p = OtherHead /\ st[i].value = OtherHead
             \/ f = "prev" /\ p = OtherHead /\ st[i].value = OtherHead
  <2>1. i \in {1, 2, 3, 4, 5, 6} /\ st[i].field = f /\ st[i].at = p
    BY <1>8 DEF Hits
  <2> QED
    BY <1>6, <1>7, <2>1, AssignEqual DEF s1, s2, s3, s4, s5, s6
<1>10. /\ 1 \in H("prev", b) /\ 2 \in H("next", ListHead) /\ 3 \in H("next", l)
       /\ 4 \in H("prev", a) /\ 5 \in H("next", OtherHead) /\ 6 \in H("prev", OtherHead)
  BY <1>6, <1>7, AssignEqual DEF Hits, s1, s2, s3, s4, s5, s6
<1>11. /\ \A i \in H("next", ListHead) : st[i].value = b
       /\ \A i \in H("next", l) : st[i].value = a
       /\ \A i \in H("next", OtherHead) : st[i].value = OtherHead
       /\ \A p \in Place \ {ListHead, l, OtherHead} : H("next", p) = {}
  BY <1>0, <1>9, <1>b
<1>12. /\ \A i \in H("prev", b) : st[i].value = ListHead
       /\ \A i \in H("prev", a) : st[i].value = l
       /\ \A i \in H("prev", OtherHead) : st[i].value = OtherHead
       /\ \A p \in Place \ {b, a, OtherHead} : H("prev", p) = {}
  BY <1>0, <1>9, <1>b
<1>c. ListHead \in Place /\ OtherHead \in Place /\ b \in Place /\ l \in Place /\ 6 \in Nat
  BY <1>0, Places
<1>d. ASSUME NEW f, NEW m, NEW p \in Place, H(f, p) # {}
      PROVE  \E i \in H(f, p) : Written(f, m, st, 6)[p] = st[i].value
  BY <1>c, <1>d, WrittenHit
<1>13. new[ListHead] = b /\ new[l] = a /\ new[OtherHead] = OtherHead
  <2>1. H("next", ListHead) # {} /\ H("next", l) # {} /\ H("next", OtherHead) # {}
    BY <1>10
  <2> HIDE DEF H
  <2> QED
    BY <1>c, <1>d, <1>11, <2>1
<1>14. \A p \in Place \ {ListHead, l, OtherHead} : new[p] = mem[p]
  BY <1>c, <1>11, WrittenMiss
<1>15. old[b] = ListHead /\ old[a] = l /\ old[OtherHead] = OtherHead
  <2>1. H("prev", b) # {} /\ H("prev", a) # {} /\ H("prev", OtherHead) # {}
    BY <1>10
  <2> HIDE DEF H
  <2> QED
    BY <1>c, <1>d, <1>12, <2>1
<1>16. \A p \in Place \ {b, a, OtherHead} : old[p] = back[p]
  BY <1>c, <1>12, WrittenMiss
<1> HIDE DEF new, old
<1>17. Written("next", mem, st, Len(st)) = new /\ Written("prev", back, st, Len(st)) = old
  BY <1>6 DEF new, old
<1>18. Spliced(mem, back, new, old, b, l, a)
  BY <1>13, <1>14, <1>15, <1>16 DEF Spliced
<1> QED
  BY <1>17, <1>18

LEMMA SpliceWrites ==
  ASSUME NEW mem, NEW back, NEW b \in Node, NEW l \in Node, NEW a \in Place,
         a # OtherHead, a # b,
         NEW st, st = SpliceStores(ListHead, b, l, a) \o InitStores(OtherHead)
  PROVE  Spliced(mem, back, Written("next", mem, st, Len(st)),
                 Written("prev", back, st, Len(st)), b, l, a)
<1> DEFINE r == SpliceStores(ListHead, b, l, a)
           q == InitStores(OtherHead)
           s1 == Assign("prev", b, ListHead)
           s2 == Assign("next", ListHead, b)
           s3 == Assign("next", l, a)
           s4 == Assign("prev", a, l)
           s5 == Assign("next", OtherHead, OtherHead)
           s6 == Assign("prev", OtherHead, OtherHead)
<1>0. ListHead \in Heads /\ OtherHead \in Heads /\ ListHead # OtherHead
  BY KListAssumption DEF Heads
<1>1. /\ s1 \in StoreSet /\ s2 \in StoreSet /\ s3 \in StoreSet
      /\ s4 \in StoreSet /\ s5 \in StoreSet /\ s6 \in StoreSet
  BY <1>0, AssignType, Places
<1>2. r = <<s1, s2, s3, s4>> /\ q = <<s5, s6>> /\ st = r \o q
  BY DEF SpliceStores, InitStores
<1> HIDE DEF s1, s2, s3, s4, s5, s6, r, q
<1>3. r \in Seq(StoreSet) /\ q \in Seq(StoreSet)
  BY <1>1, <1>2
<1>4. /\ Len(r) = 4 /\ r[1] = s1 /\ r[2] = s2 /\ r[3] = s3 /\ r[4] = s4
      /\ Len(q) = 2 /\ q[1] = s5 /\ q[2] = s6
  BY <1>2
<1>a. st = r \o q
  BY <1>2
<1>5. /\ st \in Seq(StoreSet) /\ Len(st) = Len(r) + Len(q)
      /\ \A i \in 1..Len(r) : st[i] = r[i]
      /\ \A i \in 1..Len(q) : st[Len(r) + i] = q[i]
  BY <1>3, <1>a, Joined
<1>6. Len(st) = 6 /\ st[1] = s1 /\ st[2] = s2 /\ st[3] = s3 /\ st[4] = s4
  BY <1>4, <1>5
<1>7. st[5] = s5 /\ st[6] = s6
  BY <1>4, <1>5, 1 \in 1..Len(q), 2 \in 1..Len(q)
<1> QED
  BY <1>6, <1>7, SixWrites DEF s1, s2, s3, s4, s5, s6

LEMMA SpliceLeads ==
  ASSUME IInv, list_splice_init
  PROVE  \A h \in Heads : Leads(next', h, lists'[h], h) /\ Backs(prev', h, lists'[h], h)
<1> DEFINE L == ListHead
           O == OtherHead
           s == lists[L]
           t == lists[O]
           b == next[O]
           l == prev[O]
           a == next[L]
           st == SpliceStores(L, b, l, a) \o InitStores(O)
<1>1. /\ stores = <<>> /\ ~hashed /\ b # O
      /\ next' = Written("next", next, st, Len(st))
      /\ prev' = Written("prev", prev, st, Len(st))
      /\ lists' = [lists EXCEPT ![L] = t \o @, ![O] = <<>>]
  BY DEF list_splice_init, MayCall, list_empty
<1>2. L \in Heads /\ O \in Heads /\ L # O
  BY KListAssumption DEF Heads
<1>3. /\ TypeOK /\ s \in Seq(Node) /\ IsInjective(s) /\ t \in Seq(Node) /\ IsInjective(t)
      /\ End(L) = L /\ End(O) = O
      /\ Leads(next, L, s, L) /\ Backs(prev, L, s, L)
      /\ Leads(next, O, t, O) /\ Backs(prev, O, t, O)
  BY <1>1, <1>2, IdleStart DEF End
<1>4. lists'[L] = t \o s /\ lists'[O] = <<>>
  BY <1>1, <1>2, <1>3 DEF TypeOK
<1>5. /\ Len(s) \in Nat /\ Stop(L, s, L, 0) = L /\ a = Stop(L, s, L, 1)
      /\ Stop(L, s, L, Len(s) + 1) = L
  BY <1>1, <1>2, <1>3, FirstAndLast
<1>6. /\ Len(t) \in Nat /\ Stop(O, t, O, 0) = O /\ b = Stop(O, t, O, 1)
      /\ Stop(O, t, O, Len(t) + 1) = O /\ l = Stop(O, t, O, Len(t))
  BY <1>1, <1>2, <1>3, FirstAndLast
<1>7. Len(t) # 0
  BY <1>1, <1>6
<1>8. \A k \in 1..Len(t) : Stop(O, t, O, k) = t[k] /\ t[k] \in Node /\ t[k] \in Range(t)
  <2>1. \A k \in 1..Len(t) : t[k] \in Range(t)
    BY <1>3 DEF Range
  <2> QED
    BY <1>2, <1>3, <2>1, StopPlaces
<1>9. b = t[1] /\ l = t[Len(t)] /\ b \in Range(t) /\ l \in Range(t) /\ b \in Node /\ l \in Node
  BY <1>6, <1>7, <1>8
<1>10. /\ ({L, Null} \cup Range(s)) \cap ({O} \cup Range(t)) = {}
       /\ ({O, Null} \cup Range(t)) \cap ({L} \cup Range(s)) = {}
  BY <1>2, <1>3, ListsApart
<1>11. a \in Place /\ a \in {L} \cup Range(s)
  <2>1. 1 \in 0..Len(s) + 1 /\ (1 \in 0..Len(s) \/ 1 = Len(s) + 1)
    BY <1>5
  <2>2. Stop(L, s, L, 1) \in {L, Null} \cup Range(s)
    BY <1>2, <1>3, <2>1, StopNear
  <2>3. Stop(L, s, L, 1) \in Place
    <3>1. 1 \in 0..Len(s) => Stop(L, s, L, 1) \in Place
      BY <1>2, <1>3, StopPlaces
    <3> QED
      BY <1>2, <1>5, <2>1, <3>1, Places
  <2> QED
    BY <1>5, <2>2, <2>3, Places
<1>12. a # O /\ a # b
  BY <1>9, <1>10, <1>11
<1>13. /\ next'[L] = b /\ next'[l] = a /\ next'[O] = O
       /\ \A p \in Place \ {L, l, O} : next'[p] = next[p]
       /\ prev'[b] = L /\ prev'[a] = l /\ prev'[O] = O
       /\ \A p \in Place \ {b, a, O} : prev'[p] = prev[p]
  <2>0. st = SpliceStores(ListHead, b, l, a) \o InitStores(OtherHead)
    OBVIOUS
  <2>1. next' = Written("next", next, st, Len(st)) /\ prev' = Written("prev", prev, st, Len(st))
    BY <1>1
  <2> HIDE DEF s, t, b, l, a, st
  <2>2. /\ b \in Node /\ l \in Node /\ a \in Place /\ a # OtherHead /\ a # b
    BY <1>9, <1>11, <1>12
  <2> HIDE DEF L, O
  <2>3. Spliced(next, prev, next', prev', b, l, a)
    BY <2>0, <2>1, <2>2, SpliceWrites
  <2> QED
    BY <2>3 DEF L, O, Spliced
<1>14. \A k \in 1..Len(s) : Stop(L, s, L, k) = s[k] /\ s[k] \in Node /\ s[k] \in Range(s)
  <2>1. \A k \in 1..Len(s) : s[k] \in Range(s)
    BY <1>3 DEF Range
  <2> QED
    BY <1>2, <1>3, <2>1, StopPlaces
<1> DEFINE r == t \o s
<1>15. /\ Len(r) = Len(t) + Len(s)
       /\ \A k \in 1..Len(t) : Stop(L, r, L, k) = t[k]
       /\ \A k \in 1..Len(s) + 1 : Stop(L, r, L, Len(t) + k) = Stop(L, s, L, k)
  BY <1>2, <1>3, StopJoin
<1>16. Stop(L, r, L, 0) = L
  BY DEF Stop
<1> HIDE DEF r, s, t, a, b, l, L, O
<1>17. ASSUME NEW k \in 1..Len(t) - 1
       PROVE  next'[t[k]] = t[k + 1] /\ prev'[t[k + 1]] = t[k]
  <2>1. /\ k \in 1..Len(t) /\ k + 1 \in 1..Len(t) /\ k \in 0..Len(t)
        /\ k # Len(t) /\ k + 1 # 1 /\ Len(t) \in 1..Len(t) /\ 1 \in 1..Len(t)
    BY <1>6, <1>7
  <2>2. next[t[k]] = t[k + 1] /\ prev[t[k + 1]] = t[k]
    <3>1. next[Stop(O, t, O, k)] = Stop(O, t, O, k + 1)
      BY <1>3, <2>1 DEF Leads
    <3>2. Stop(O, t, O, k + 1) # Null =>
            prev[Stop(O, t, O, k + 1)] = Stop(O, t, O, k)
      BY <1>3, <2>1 DEF Backs
    <3> QED
      BY <1>8, <2>1, <3>1, <3>2, Places
  <2>3. t[k] # l /\ t[k + 1] # b
    BY <1>3, <1>9, <2>1 DEF IsInjective
  <2>4. t[k] \in Node /\ t[k + 1] \in Node /\ t[k] \in Range(t) /\ t[k + 1] \in Range(t)
    BY <1>8, <2>1
  <2> QED
    BY <1>2, <1>10, <1>11, <1>13, <2>2, <2>3, <2>4, Places
<1>18. ASSUME NEW k \in 1..Len(s)
       PROVE  /\ next'[s[k]] = Stop(L, s, L, k + 1)
              /\ prev'[Stop(L, s, L, k + 1)] = s[k]
  <2>1. /\ k \in 0..Len(s) /\ k + 1 \in 1..Len(s) + 1 /\ 1 \in 1..Len(s) + 1 /\ k + 1 # 1
        /\ k + 1 \in 0..Len(s) + 1
    BY <1>5
  <2>2. next[s[k]] = Stop(L, s, L, k + 1)
    BY <1>3, <1>14, <2>1 DEF Leads
  <2>3. Stop(L, s, L, k + 1) \in Place /\ Stop(L, s, L, k + 1) \in {L} \cup Range(s)
    <3>1. k + 1 \in 1..Len(s) \/ k + 1 = Len(s) + 1
      BY <1>5
    <3> QED
      BY <1>2, <1>5, <1>14, <3>1, Places
  <2>4. prev[Stop(L, s, L, k + 1)] = s[k]
    BY <1>3, <1>14, <2>1, <2>3, Places DEF Backs
  <2>5. Stop(L, s, L, k + 1) # a
    <3>1. \A i, j \in 1..Len(s) + 1 : Stop(L, s, L, i) = Stop(L, s, L, j) => i = j
      BY <1>2, <1>3, StopInjective
    <3> QED
      BY <1>5, <2>1, <3>1
  <2>6. Stop(L, s, L, k + 1) # b /\ Stop(L, s, L, k + 1) # O
    BY <1>9, <1>10, <2>3
  <2>7. s[k] \in Place /\ s[k] # L /\ s[k] # l /\ s[k] # O
    BY <1>2, <1>9, <1>10, <1>14, Places
  <2> QED
    BY <1>13, <2>2, <2>3, <2>4, <2>5, <2>6, <2>7
<1>19. ASSUME NEW k \in 0..Len(r)
       PROVE  /\ next'[Stop(L, r, L, k)] = Stop(L, r, L, k + 1)
              /\ prev'[Stop(L, r, L, k + 1)] = Stop(L, r, L, k)
  <2>1. CASE k = 0
    <3>1. Stop(L, r, L, 0) = L /\ Stop(L, r, L, 0 + 1) = b
      BY <1>6, <1>7, <1>9, <1>15, <1>16
    <3> QED
      BY <1>13, <2>1, <3>1
  <2>2. CASE k \in 1..Len(t) - 1
    <3>1. k \in 1..Len(t) /\ k + 1 \in 1..Len(t)
      BY <1>6, <2>2
    <3> QED
      BY <1>15, <1>17, <2>2, <3>1
  <2>3. CASE k = Len(t)
    <3>1. k \in 1..Len(t) /\ 1 \in 1..Len(s) + 1
      BY <1>5, <1>6, <1>7, <2>3
    <3>2. Stop(L, r, L, k) = l /\ Stop(L, r, L, k + 1) = a
      BY <1>5, <1>9, <1>15, <2>3, <3>1
    <3> QED
      BY <1>13, <3>2
  <2>4. CASE k > Len(t)
    <3> DEFINE j == k - Len(t)
    <3>1. /\ j \in 1..Len(s) /\ j \in 1..Len(s) + 1 /\ j + 1 \in 1..Len(s) + 1
          /\ k = Len(t) + j /\ k + 1 = Len(t) + (j + 1)
      BY <1>5, <1>6, <1>15, <2>4
    <3> HIDE DEF j
    <3>2. Stop(L, r, L, k) = s[j] /\ Stop(L, r, L, k + 1) = Stop(L, s, L, j + 1)
      BY <1>14, <1>15, <3>1
    <3> QED
      BY <1>18, <3>1, <3>2
  <2> QED
    BY <1>5, <1>6, <1>15, <2>1, <2>2, <2>3, <2>4
<1>20. Leads(next', L, r, L) /\ Backs(prev', L, r, L)
  BY <1>19 DEF Leads, Backs
<1>21. Leads(next', O, <<>>, O) /\ Backs(prev', O, <<>>, O)
  <2>1. Len(<<>>) = 0 /\ \A i \in 0..0 : i = 0
    OBVIOUS
  <2>2. Stop(O, <<>>, O, 0) = O /\ Stop(O, <<>>, O, 0 + 1) = O
    BY DEF Stop
  <2> QED
    BY <1>13, <2>1, <2>2 DEF Leads, Backs
<1> QED
  BY <1>4, <1>20, <1>21 DEF Heads, L, O, r

LEMMA SpliceKeeps ==
  ASSUME IInv, list_splice_init
  PROVE  IInv'
<1> DEFINE L == ListHead
           O == OtherHead
           st == SpliceStores(L, next[O], prev[O], next[L]) \o InitStores(O)
<1>1. /\ stores = <<>> /\ ~hashed /\ walk = "none"
      /\ next' = Written("next", next, st, Len(st))
      /\ prev' = Written("prev", prev, st, Len(st))
      /\ lists' = [lists EXCEPT ![L] = lists[O] \o @, ![O] = <<>>]
      /\ former' = lists'
      /\ hashed' = hashed /\ stores' = stores /\ call' = call /\ touched' = touched
      /\ walk' = walk /\ pos' = pos /\ ahead' = ahead /\ seen' = seen
      /\ owed' = owed /\ retired' = retired
  BY DEF list_splice_init, MayCall, walker
<1>2. L \in Heads /\ O \in Heads /\ L # O /\ Heads = {L, O}
  BY KListAssumption DEF Heads
<1>3. /\ TypeOK /\ CallInv /\ WalkInv /\ touched = {}
      /\ \A h \in Heads : lists[h] \in Seq(Node) /\ IsInjective(lists[h])
  BY <1>1, IdleStart
<1>4. lists'[L] = lists[O] \o lists[L] /\ lists'[O] = <<>>
      /\ lists' = [h \in Heads |-> lists'[h]]
  BY <1>1, <1>2, <1>3 DEF TypeOK
<1>5. Range(lists[O]) \cap Range(lists[L]) = {}
  BY <1>3 DEF TypeOK
<1>6. \A h \in Heads : lists'[h] \in Seq(Node) /\ IsInjective(lists'[h])
  <2>1. lists[O] \o lists[L] \in Seq(Node)
    BY <1>2, <1>3
  <2>2. IsInjective(lists[O] \o lists[L])
    BY <1>2, <1>3, <1>5, JoinLists
  <2>3. <<>> \in Seq(Node) /\ IsInjective(<<>>)
    BY DEF IsInjective
  <2> HIDE DEF L, O
  <2> QED
    BY <1>2, <1>4, <2>1, <2>2, <2>3
<1>7. lists' \in [Heads -> Seq(Node)]
  BY <1>4, <1>6
<1>8. next' \in [Place -> Pointer] /\ prev' \in [Place -> Pointer]
  <2>1. st \in Seq(StoreSet)
    <3>1. next \in [Place -> Pointer] /\ prev \in [Place -> Pointer] /\ next[O] # O
      BY <1>1, <1>3 DEF TypeOK, list_splice_init, list_empty
    <3>2. L \in Place /\ O \in Place
      BY <1>2, Places
    <3>3. next[O] \in Place /\ prev[O] \in Place /\ next[L] \in Place
      <4>1. ~hashed /\ stores = <<>>
        BY <1>1
      <4>2. \A h \in Heads : \A k \in 0..Len(lists[h]) + 1 :
              Stop(h, lists[h], h, k) \in Place
        <5> SUFFICES ASSUME NEW h \in Heads, NEW k \in 0..Len(lists[h]) + 1
                     PROVE  Stop(h, lists[h], h, k) \in Place
          OBVIOUS
        <5>1. lists[h] \in Seq(Node) /\ h \in {h, Null}
          BY <1>3
        <5>2. \A i \in 0..Len(lists[h]) : Stop(h, lists[h], h, i) \in Place
          BY <5>1, StopPlaces
        <5>3. Stop(h, lists[h], h, Len(lists[h]) + 1) = h
          BY <5>1, StopPlaces
        <5>4. k \in 0..Len(lists[h]) \/ k = Len(lists[h]) + 1
          BY <5>1
        <5> QED
          BY <5>2, <5>3, <5>4, Places
      <4>3. \A h \in Heads : /\ Len(lists[h]) \in Nat
                             /\ next[h] = Stop(h, lists[h], h, 1)
                             /\ prev[h] = Stop(h, lists[h], h, Len(lists[h]))
        BY <4>1, FirstAndLast
      <4>4. \A h \in Heads : 1 \in 0..Len(lists[h]) + 1
                             /\ Len(lists[h]) \in 0..Len(lists[h]) + 1
        BY <4>3
      <4> QED
        BY <1>2, <4>2, <4>3, <4>4
    <3> DEFINE b == next[O]
               l == prev[O]
               a == next[L]
    <3>4. SpliceStores(L, b, l, a) \in Seq(StoreSet) /\ InitStores(O) \in Seq(StoreSet)
      <4> HIDE DEF b, l, a
      <4>1. b \in Place /\ l \in Place /\ a \in Place
        BY <3>3 DEF b, l, a
      <4> QED
        BY <3>2, <4>1, AssignType, Places DEF SpliceStores, InitStores
    <3> QED
      BY <3>4, ConcatProperties
  <2> HIDE DEF st
  <2>2. Len(st) \in 0..Len(st)
    BY <2>1
  <2> QED
    BY <1>1, <1>3, <2>1, <2>2, WrittenType DEF TypeOK
<1>9. TypeOK'
  <2>1. Range(lists'[L]) \cap Range(lists'[O]) = {}
    BY <1>4 DEF Range
  <2> QED
    BY <1>1, <1>3, <1>6, <1>7, <1>8, <2>1 DEF TypeOK
<1>10. CallInv'
  BY <1>1, <1>3, <1>4, <1>6 DEF CallInv, OneStays
<1>11. \A h \in Heads : /\ Leads(next', h, lists'[h], h) /\ Backs(prev', h, lists'[h], h)
                        /\ End(h)' = h /\ lists'[h] \in Views(h)'
  BY <1>1, SpliceLeads DEF End, Views
<1> HIDE DEF st
<1>12. PlanInv'
  <2> SUFFICES ASSUME NEW h \in Heads
               PROVE  /\ \E V \in [0..Len(stores') -> Views(h)'] : Course(h, V)'
                      /\ Backs(Written("prev", prev', stores', Len(stores')), h, lists'[h], h)
    BY <1>11 DEF PlanInv
  <2>0. stores' = <<>> /\ Len(stores') = 0
    BY <1>1
  <2>1. /\ Written("next", next', stores', 0) = next'
        /\ Written("prev", prev', stores', 0) = prev'
    <3> DEFINE n == next'
               p == prev'
               s == stores'
    <3>1. n \in [Place -> Pointer] /\ p \in [Place -> Pointer]
      BY <1>8
    <3> HIDE DEF n, p, s
    <3>2. Written("next", n, s, 0) = n /\ Written("prev", p, s, 0) = p
      BY <3>1, WrittenNone
    <3> QED
      BY <3>2 DEF n, p, s
  <2>2. PICK V \in [0..0 -> Views(h)'] : V[0] = lists'[h]
    <3> DEFINE W == [k \in 0..0 |-> lists'[h]]
    <3>1. W \in [0..0 -> Views(h)'] /\ W[0] = lists'[h]
      BY <1>11
    <3> HIDE DEF W
    <3> QED
      BY <3>1
  <2>3. Course(h, V)'
    <3>1. \A k \in 0..0 : Leads(Written("next", next', stores', k), h, V[k], h)
      BY <1>11, <2>1, <2>2
    <3>2. \A k \in 0..Len(stores') :
            Leads(Written("next", next', stores', k), h, V[k], End(h)')
      BY <1>11, <2>0, <3>1
    <3>3. V[Len(stores')] = lists'[h]
      BY <2>0, <2>2
    <3>4. \A k \in 1..Len(stores') : OneStep(V[k - 1], V[k], touched', Linked', call')
      BY <2>0
    <3> QED
      BY <3>2, <3>3, <3>4 DEF Course
  <2> QED
    BY <1>11, <2>0, <2>1, <2>2, <2>3
<1>13. CarefulInv' /\ RcuInv'
  <2>1. touched' = {} /\ stores' = <<>> /\ DOMAIN stores' = {}
    BY <1>1, <1>3
  <2> QED
    BY <2>1 DEF CarefulInv, RcuInv
<1>14. ~Reading' /\ ~Reading
  BY <1>1 DEF Reading
<1>15. WalkInv'
  BY <1>1, <1>3, <1>14 DEF WalkInv
<1>16. WalkVisitsList' /\ ReaderInv'
  BY <1>1, <1>14 DEF WalkVisitsList, ReaderInv
<1> QED
  BY <1>9, <1>10, <1>12, <1>13, <1>15, <1>16 DEF IInv

(* All the calls. *)
LEMMA ListCallKeeps ==
  ASSUME IInv, ListCall
  PROVE  IInv'
<1>1. ~hashed
  BY DEF ListCall
<1>2. PICK n \in Node :
       \/ \E h \in Heads :
            \/ list_add(n, h) \/ list_add_tail(n, h)
            \/ list_add_rcu(n, h) \/ list_add_tail_rcu(n, h)
            \/ list_move(n, h) \/ list_move_tail(n, h)
       \/ list_del(n) \/ list_del_rcu(n) \/ list_del_init(n)
       \/ \E old \in Node : list_replace_rcu(old, n)
  BY DEF ListCall
<1>3. ASSUME NEW h \in Heads,
             \/ list_add(n, h) \/ list_add_tail(n, h)
             \/ list_add_rcu(n, h) \/ list_add_tail_rcu(n, h)
      PROVE  IInv'
  BY <1>1, <1>3, AddCalls
<1>4. ASSUME NEW h \in Heads, list_move(n, h) \/ list_move_tail(n, h)
      PROVE  IInv'
  BY <1>1, <1>4, MoveCalls
<1>5. CASE list_del(n) \/ list_del_rcu(n) \/ list_del_init(n)
  BY <1>1, <1>5, DelCalls
<1>6. ASSUME NEW old \in Node, list_replace_rcu(old, n)
      PROVE  IInv'
  BY <1>1, <1>6, ReplaceCalls
<1> QED
  BY <1>2, <1>3, <1>4, <1>5, <1>6

LEMMA HlistCallKeeps ==
  ASSUME IInv, HlistCall
  PROVE  IInv'
<1>1. hashed
  BY DEF HlistCall
<1>2. PICK n \in Node :
       \/ hlist_add_head(n) \/ hlist_add_head_rcu(n)
       \/ hlist_del(n) \/ hlist_del_rcu(n) \/ hlist_del_init(n)
       \/ \E m \in Node :
            \/ hlist_add_before(n, m) \/ hlist_add_before_rcu(n, m)
            \/ hlist_add_after(n, m) \/ hlist_add_after_rcu(n, m)
            \/ hlist_replace_rcu(n, m)
  BY DEF HlistCall
<1>3. CASE hlist_add_head(n) \/ hlist_add_head_rcu(n)
  BY <1>1, <1>3, HAddCalls
<1>4. ASSUME NEW m \in Node,
             \/ hlist_add_before(n, m) \/ hlist_add_before_rcu(n, m)
             \/ hlist_add_after(n, m) \/ hlist_add_after_rcu(n, m)
      PROVE  IInv'
  BY <1>1, <1>4, HAddCalls
<1>5. CASE hlist_del(n) \/ hlist_del_rcu(n) \/ hlist_del_init(n)
  BY <1>1, <1>5, DelCalls
<1>6. ASSUME NEW m \in Node, hlist_replace_rcu(n, m)
      PROVE  IInv'
  BY <1>1, <1>6, ReplaceCalls
<1> QED
  BY <1>2, <1>3, <1>4, <1>5, <1>6
-----------------------------------------------------------------------------
(* What a reader will visit, and how a store changes it. *)

(* OnPath, without what is owed, for pointers mem and retired nodes out.    *)
Way(mem, out, p, m, v, j, e) ==
  /\ Range(p) \subseteq Range(v) \cup out
  /\ m <= j + Len(p) - Len(v)
  /\ \A k \in j..Len(v) : p[k + Len(p) - Len(v)] = v[k]
  /\ \A k \in m..j + Len(p) - Len(v) - 1 :
       p[k] \in out /\ mem[p[k]] = Stop(ListHead, p, e, k + 1)

(* The path q is the path p up to where the reader is. *)
Continues(q, p, m, e) ==
  /\ m \in 1..Len(q) + 1
  /\ \A k \in 1..m - 1 : q[k] = p[k]
  /\ Stop(ListHead, q, e, m) = Stop(ListHead, p, e, m)

LEMMA AtStopKept ==
  ASSUME NEW p \in Seq(Node), NEW q \in Seq(Node), NEW m \in 1..Len(p) + 1,
         Continues(q, p, m, End(ListHead)), AtStop(p, m)
  PROVE  AtStop(q, m)
<1>1. /\ m \in 1..Len(q) + 1 /\ \A k \in 1..m - 1 : q[k] = p[k]
      /\ Stop(ListHead, q, End(ListHead), m) = Stop(ListHead, p, End(ListHead), m)
  BY DEF Continues
<1>2. \A k \in 1..m - 1 : SubSeq(q, 1, k) = SubSeq(p, 1, k)
  <2> SUFFICES ASSUME NEW k \in 1..m - 1 PROVE SubSeq(q, 1, k) = SubSeq(p, 1, k)
    OBVIOUS
  <2>1. \A i \in 1..k : q[i] = p[i]
    BY <1>1
  <2>2. k \in 0..Len(p) /\ k \in 0..Len(q)
    BY <1>1
  <2> QED
    BY <2>1, <2>2
<1>3. SubSeq(q, 1, 0) = SubSeq(p, 1, 0)
  OBVIOUS
<1>4. CASE ahead = Poison
  <2>1. m - 1 \in 1..m - 1 \/ m - 1 = 0
    BY <1>1
  <2>2. SubSeq(q, 1, m - 1) = SubSeq(p, 1, m - 1)
    BY <1>2, <1>3, <2>1
  <2> QED
    BY <1>1, <1>4, <2>2 DEF AtStop
<1>5. CASE ahead # Poison
  <2>1. m > 1 /\ (m - 2 \in 1..m - 1 \/ m - 2 = 0) /\ m - 1 \in 1..m - 1
    BY <1>1, <1>5 DEF AtStop
  <2>2. SubSeq(q, 1, m - 2) = SubSeq(p, 1, m - 2)
    BY <1>2, <1>3, <2>1
  <2> QED
    BY <1>1, <1>5, <2>1, <2>2 DEF AtStop
<1> QED
  BY <1>4, <1>5

(* A node comes: before it or after it on the way, or where the way goes on *)
(* to what was taken off.                                                   *)
LEMMA WayInsert ==
  ASSUME NEW e \in {ListHead, Null}, NEW mem, NEW out,
         NEW v \in Seq(Node), NEW p \in Seq(Node), IsInjective(p),
         NEW m \in 1..Len(p) + 1, NEW j \in 1..Len(v) + 1, Way(mem, out, p, m, v, j, e),
         NEW i \in 1..Len(v) + 1, NEW n \in Node, n \notin Range(v), n \notin out
  PROVE  \E q \in Seq(Node) : \E k \in 1..Len(InsertAt(v, i, n)) + 1 :
           /\ IsInjective(q) /\ Range(q) \cup {n} = Range(p) \cup {n}
           /\ Continues(q, p, m, e) /\ Way(mem, out, q, m, InsertAt(v, i, n), k, e)
<1> DEFINE w == InsertAt(v, i, n)
<1>0. ListHead \in Heads
  BY DEF Heads
<1>1. Len(v) \in Nat /\ Len(p) \in Nat
  OBVIOUS
<1>2. /\ w \in Seq(Node) /\ Len(w) = Len(v) + 1 /\ Range(w) = Range(v) \cup {n}
      /\ \A k \in 1..Len(v) + 1 : w[k] = IF k < i THEN v[k] ELSE IF k = i THEN n ELSE v[k - 1]
  <2> HIDE DEF w
  <2>1. w \in Seq(Node)
    BY InsertAtElements DEF w
  <2>3. Len(w) = Len(v) + 1
    BY InsertAtElements DEF w
  <2>4. \A k \in 1..Len(v) + 1 :
          w[k] = IF k < i THEN v[k] ELSE IF k = i THEN n ELSE v[k - 1]
    BY InsertAtElements DEF w
  <2>2. Range(w) = Range(v) \cup {n}
    BY InsertAtLists DEF w
  <2> QED
    BY <2>1, <2>2, <2>3, <2>4
<1> HIDE DEF w
<1>3. PICK c \in Int : c = Len(p) - Len(v)
  BY <1>1, SMTT(30)
<1>4. /\ Range(p) \subseteq Range(v) \cup out /\ m <= j + c
      /\ \A k \in j..Len(v) : p[k + c] = v[k]
      /\ \A k \in m..j + c - 1 : p[k] \in out /\ mem[p[k]] = Stop(ListHead, p, e, k + 1)
  <2>1. j + Len(p) - Len(v) = j + c /\ j + Len(p) - Len(v) - 1 = j + c - 1
    BY <1>1, <1>3
  <2>2. Range(p) \subseteq Range(v) \cup out /\ m <= j + c
    BY <2>1 DEF Way
  <2>3. \A k \in j..Len(v) : p[k + c] = v[k]
    <3> SUFFICES ASSUME NEW k \in j..Len(v) PROVE p[k + c] = v[k]
      OBVIOUS
    <3>1. k + Len(p) - Len(v) = k + c
      BY <1>1, <1>3
    <3>2. p[k + Len(p) - Len(v)] = v[k]
      BY DEF Way
    <3> QED
      BY <3>1, <3>2
  <2>4. \A k \in m..j + c - 1 : p[k] \in out /\ mem[p[k]] = Stop(ListHead, p, e, k + 1)
    BY <2>1 DEF Way
  <2> QED
    BY <2>2, <2>3, <2>4
<1>5. CASE i <= j
  <2>1. j + 1 \in 1..Len(w) + 1 /\ Len(w) \in Nat
    BY <1>1, <1>2
  <2>2. Continues(p, p, m, e)
    BY DEF Continues
  <2>3. /\ Range(p) \subseteq Range(w) \cup out
        /\ m <= (j + 1) + Len(p) - Len(w)
    BY <1>1, <1>2, <1>3, <1>4
  <2>4. ASSUME NEW k \in j + 1..Len(w)
        PROVE  p[k + Len(p) - Len(w)] = w[k]
    <3>1. /\ k - 1 \in j..Len(v) /\ k \in 1..Len(v) + 1 /\ ~(k < i) /\ k # i
          /\ k + Len(p) - Len(w) = (k - 1) + c
      BY <1>1, <1>2, <1>3, <1>5
    <3> QED
      BY <1>2, <1>4, <3>1
  <2>5. ASSUME NEW k \in m..(j + 1) + Len(p) - Len(w) - 1
        PROVE  p[k] \in out /\ mem[p[k]] = Stop(ListHead, p, e, k + 1)
    <3>1. k \in m..j + c - 1
      BY <1>1, <1>2, <1>3
    <3> QED
      BY <1>4, <3>1
  <2>6. Way(mem, out, p, m, w, j + 1, e)
    BY <2>3, <2>4, <2>5 DEF Way
  <2> QED
    BY <2>1, <2>2, <2>6 DEF w
<1>6. CASE i > j
  <2> DEFINE q == InsertAt(p, i + c, n)
  <2>1. i + c \in 1..Len(p) + 1 /\ n \notin Range(p)
    BY <1>1, <1>3, <1>4, <1>6
  <2>2. /\ q \in Seq(Node) /\ Len(q) = Len(p) + 1
        /\ \A k \in 1..Len(p) + 1 :
             q[k] = IF k < i + c THEN p[k] ELSE IF k = i + c THEN n ELSE p[k - 1]
    BY <2>1, InsertAtElements
  <2>3. Range(q) = Range(p) \cup {n} /\ IsInjective(q)
    BY <2>1, InsertAtLists
  <2>4. \A k \in 0..i + c - 1 : Stop(ListHead, q, e, k) = Stop(ListHead, p, e, k)
    BY <1>0, <2>1, StopInsert
  <2> HIDE DEF q
  <2>5. Len(q) - Len(w) = c /\ Len(q) \in Nat /\ Len(w) \in Nat /\ Len(w) = Len(v) + 1
    BY <1>1, <1>2, <1>3, <2>2
  <2>6. Continues(q, p, m, e)
    <3>1. m \in 1..Len(q) + 1
      BY <1>1, <2>2
    <3>2. \A k \in 1..m - 1 : k \in 1..Len(p) + 1 /\ k < i + c
      BY <1>1, <1>3, <1>4, <1>6
    <3>3. m \in 0..i + c - 1
      BY <1>1, <1>3, <1>4, <1>6
    <3> QED
      BY <2>2, <2>4, <3>1, <3>2, <3>3 DEF Continues
  <2>7. /\ Range(q) \subseteq Range(w) \cup out
        /\ m <= j + Len(q) - Len(w)
    BY <1>1, <1>2, <1>3, <1>4, <2>2, <2>3
  <2>8. ASSUME NEW k \in j..Len(w)
        PROVE  q[k + Len(q) - Len(w)] = w[k]
    <3>1. k + Len(q) - Len(w) = k + c /\ k \in 1..Len(v) + 1
      <4>1. k \in Int /\ j \in 1..Len(v) + 1 /\ j <= k /\ k <= Len(w)
        BY <2>5
      <4> QED
        BY <1>1, <2>5, <4>1
    <3>a. 1 <= m /\ m <= j + c /\ m \in Int /\ k >= j /\ j \in Int
      BY <1>1, <1>4
    <3>2. k + c \in 1..Len(p) + 1
      BY <1>1, <1>3, <3>1, <3>a
    <3>3. CASE k < i
      <4>1. k + c < i + c /\ k \in j..Len(v)
        BY <1>1, <1>3, <3>1, <3>3
      <4>2. q[k + c] = p[k + c] /\ w[k] = v[k]
        BY <1>2, <2>2, <3>1, <3>2, <3>3, <4>1
      <4> QED
        BY <1>4, <3>1, <4>1, <4>2
    <3>4. CASE k = i
      BY <1>2, <2>2, <3>1, <3>2, <3>4
    <3>5. CASE k > i
      <4>1. ~(k + c < i + c) /\ k + c # i + c /\ k - 1 \in j..Len(v) /\ (k + c) - 1 = (k - 1) + c
        BY <1>1, <1>3, <1>6, <3>1, <3>5
      <4>2. q[k + c] = p[(k + c) - 1] /\ w[k] = v[k - 1]
        BY <1>2, <2>2, <3>1, <3>2, <3>5, <4>1
      <4>3. p[(k - 1) + c] = v[k - 1]
        BY <1>4, <4>1
      <4> QED
        BY <3>1, <4>1, <4>2, <4>3
    <3> QED
      BY <3>1, <3>3, <3>4, <3>5
  <2>9. ASSUME NEW k \in m..j + Len(q) - Len(w) - 1
        PROVE  q[k] \in out /\ mem[q[k]] = Stop(ListHead, q, e, k + 1)
    <3>1. /\ k \in m..j + c - 1 /\ k \in 1..Len(p) + 1 /\ k < i + c
          /\ k + 1 \in 0..i + c - 1
      BY <1>1, <1>3, <1>4, <1>6, <2>1, <2>5, SMTT(30)
    <3> QED
      BY <1>4, <2>2, <2>4, <3>1
  <2>10. Way(mem, out, q, m, w, j, e)
    BY <2>7, <2>8, <2>9 DEF Way
  <2>11. j \in 1..Len(w) + 1
    BY <1>1, <1>2
  <2> QED
    BY <2>2, <2>3, <2>6, <2>10, <2>11 DEF w
<1> QED
  BY <1>5, <1>6

(* The same, with the distance of the two lists as a number. *)
WayBy(mem, out, p, m, v, j, c, e) ==
  /\ Range(p) \subseteq Range(v) \cup out
  /\ m <= j + c
  /\ \A k \in j..Len(v) : p[k + c] = v[k]
  /\ \A k \in m..j + c - 1 : p[k] \in out /\ mem[p[k]] = Stop(ListHead, p, e, k + 1)

LEMMA WayParts ==
  ASSUME NEW e, NEW mem, NEW out, NEW v \in Seq(Node), NEW p \in Seq(Node),
         NEW m \in Int, NEW j \in Int
  PROVE  Way(mem, out, p, m, v, j, e) <=> WayBy(mem, out, p, m, v, j, Len(p) - Len(v), e)
<1> DEFINE c == Len(p) - Len(v)
<1>1. Len(v) \in Nat /\ Len(p) \in Nat
  OBVIOUS
<1>2. j + Len(p) - Len(v) = j + c /\ j + Len(p) - Len(v) - 1 = j + c - 1
  BY <1>1
<1>3. ASSUME NEW k \in j..Len(v) PROVE k + Len(p) - Len(v) = k + c
  BY <1>1
<1>4. (\A k \in j..Len(v) : p[k + Len(p) - Len(v)] = v[k])
        <=> \A k \in j..Len(v) : p[k + c] = v[k]
  BY <1>3
<1> HIDE DEF c
<1>5. Way(mem, out, p, m, v, j, e) <=> WayBy(mem, out, p, m, v, j, c, e)
  BY <1>2, <1>4 DEF Way, WayBy
<1> QED
  BY <1>5 DEF c

(* A node is taken off: the reader is on it or behind it, where the way     *)
(* leads back to the list, or has it before it.                             *)
LEMMA WayRemove ==
  ASSUME NEW e \in {ListHead, Null}, NEW mem, NEW out,
         NEW v \in Seq(Node), IsInjective(v), Leads(mem, ListHead, v, e),
         NEW p \in Seq(Node), IsInjective(p),
         NEW m \in 1..Len(p) + 1, NEW j \in 1..Len(v) + 1, Way(mem, out, p, m, v, j, e),
         NEW i \in 1..Len(v), v[i] \in out
  PROVE  \E q \in Seq(Node) : \E k \in 1..Len(RemoveAt(v, i)) + 1 :
           /\ IsInjective(q) /\ Range(q) \cup {v[i]} = Range(p) \cup {v[i]}
           /\ Continues(q, p, m, e) /\ Way(mem, out, q, m, RemoveAt(v, i), k, e)
<1> DEFINE w == RemoveAt(v, i)
<1>0. ListHead \in Heads /\ i \in DOMAIN v
  BY DEF Heads
<1>1. Len(v) \in Nat /\ Len(p) \in Nat /\ m \in Int /\ j \in Int
  OBVIOUS
<1>2. /\ w \in Seq(Node) /\ Len(w) = Len(v) - 1 /\ Range(w) = Range(v) \ {v[i]}
      /\ \A k \in 1..Len(v) - 1 : w[k] = IF k < i THEN v[k] ELSE v[k + 1]
  <2>1. \A k \in 1..Len(v) - 1 : w[k] = IF k < i THEN v[k] ELSE v[k + 1]
    BY <1>0, RemoveAtElements
  <2>2. w \in Seq(Node) /\ Len(w) = Len(v) - 1 /\ Range(w) = Range(v) \ {v[i]}
    BY <1>0, RemoveAtUnlists
  <2> QED
    BY <2>1, <2>2
<1> HIDE DEF w
<1>3. PICK c \in Int : c = Len(p) - Len(v)
  BY <1>1
<1>4. /\ Range(p) \subseteq Range(v) \cup out /\ m <= j + c
      /\ \A k \in j..Len(v) : p[k + c] = v[k]
      /\ \A k \in m..j + c - 1 : p[k] \in out /\ mem[p[k]] = Stop(ListHead, p, e, k + 1)
  <2>1. WayBy(mem, out, p, m, v, j, c, e)
    BY <1>1, <1>3, WayParts
  <2> QED
    BY <2>1 DEF WayBy
<1>a. m <= j + c /\ 1 <= m /\ 1 <= j /\ j <= Len(v) + 1 /\ 1 <= i /\ i <= Len(v) /\ i \in Int
      /\ Len(w) = Len(v) - 1 /\ Len(w) \in Int
  BY <1>1, <1>2, <1>4
<1>b. c + 1 = Len(p) - Len(w) /\ c + 1 \in Int
  BY <1>1, <1>3, <1>a
<1>5. ASSUME NEW l \in Int, l = IF i < j THEN j - 1 ELSE j, i <= j
      PROVE  Way(mem, out, p, m, w, l, e)
  <2>1. Range(p) \subseteq Range(w) \cup out /\ m <= l + (c + 1)
    BY <1>1, <1>2, <1>4, <1>5, <1>a
  <2>2. ASSUME NEW k \in l..Len(w) PROVE p[k + (c + 1)] = w[k]
    <3>1. /\ k \in 1..Len(v) - 1 /\ ~(k < i) /\ k + 1 \in j..Len(v)
          /\ k + (c + 1) = (k + 1) + c
      BY <1>1, <1>5, <1>a
    <3>2. w[k] = v[k + 1]
      BY <1>2, <3>1
    <3>3. p[(k + 1) + c] = v[k + 1]
      BY <1>4, <3>1
    <3> QED
      BY <3>1, <3>2, <3>3
  <2>3. ASSUME NEW k \in m..l + (c + 1) - 1
        PROVE  p[k] \in out /\ mem[p[k]] = Stop(ListHead, p, e, k + 1)
    <3>1. k \in m..j + c - 1 \/ (k = j + c /\ i = j)
      BY <1>1, <1>5, <1>a
    <3>2. CASE k \in m..j + c - 1
      BY <1>4, <3>2
    <3>3. CASE k = j + c /\ i = j
      <4>1. p[k] = v[i] /\ j \in 0..Len(v) /\ j \in 1..Len(v) /\ j \in j..Len(v)
        <5>1. j \in 0..Len(v) /\ j \in 1..Len(v) /\ j \in j..Len(v)
          BY <1>1, <1>a, <3>3
        <5> QED
          BY <1>4, <3>3, <5>1
      <4>2. Stop(ListHead, v, e, j) = v[j]
        BY <1>0, <4>1, StopPlaces
      <4>3. mem[v[j]] = Stop(ListHead, v, e, j + 1)
        BY <4>1, <4>2 DEF Leads
      <4>4. Stop(ListHead, v, e, j + 1) = Stop(ListHead, p, e, k + 1)
        <5>1. CASE j + 1 \in 1..Len(v)
          <6>1. /\ j + 1 \in j..Len(v) /\ k + 1 = (j + 1) + c /\ k + 1 # 0 /\ k + 1 <= Len(p)
                /\ j + 1 # 0 /\ j + 1 <= Len(v)
            BY <1>1, <1>3, <1>a, <3>3, <5>1
          <6>2. p[(j + 1) + c] = v[j + 1]
            BY <1>4, <6>1
          <6> QED
            BY <6>1, <6>2 DEF Stop
        <5>2. CASE j + 1 = Len(v) + 1
          <6>1. j + 1 # 0 /\ ~(j + 1 <= Len(v)) /\ k + 1 # 0 /\ ~(k + 1 <= Len(p))
            BY <1>1, <1>3, <1>a, <3>3, <5>2
          <6> QED
            BY <6>1 DEF Stop
        <5> QED
          BY <1>1, <4>1, <5>1, <5>2
      <4> QED
        BY <3>3, <4>1, <4>3, <4>4
    <3> QED
      BY <3>1, <3>2, <3>3
  <2> QED
    <3>1. WayBy(mem, out, p, m, w, l, c + 1, e)
      BY <2>1, <2>2, <2>3 DEF WayBy
    <3> QED
      BY <1>1, <1>2, <1>b, <1>5, <3>1, WayParts
<1>6. CASE i <= j
  <2> DEFINE l == IF i < j THEN j - 1 ELSE j
  <2>1. l \in Int /\ l \in 1..Len(w) + 1
    BY <1>1, <1>6, <1>a
  <2> HIDE DEF l
  <2>2. Way(mem, out, p, m, w, l, e)
    BY <1>5, <1>6, <2>1 DEF l
  <2>3. Continues(p, p, m, e)
    BY DEF Continues
  <2> QED
    BY <2>1, <2>2, <2>3 DEF w
<1>7. CASE i > j
  <2> DEFINE q == RemoveAt(p, i + c)
  <2>1. i + c \in 1..Len(p) /\ i + c \in DOMAIN p /\ p[i + c] = v[i]
    <3>1. i + c \in 1..Len(p) /\ i \in j..Len(v)
      BY <1>1, <1>3, <1>7, <1>a
    <3> QED
      BY <1>4, <3>1
  <2>2. /\ q \in Seq(Node) /\ Len(q) = Len(p) - 1
        /\ \A k \in 1..Len(p) - 1 : q[k] = IF k < i + c THEN p[k] ELSE p[k + 1]
    BY <2>1, RemoveAtElements
  <2>3. Range(q) = Range(p) \ {v[i]} /\ IsInjective(q)
    BY <2>1, RemoveAtUnlists
  <2>4. \A k \in 0..i + c - 1 : Stop(ListHead, q, e, k) = Stop(ListHead, p, e, k)
    <3>1. ASSUME NEW x \in 1..Len(p)
          PROVE  \A k \in 0..x - 1 : Stop(ListHead, RemoveAt(p, x), e, k) = Stop(ListHead, p, e, k)
      BY <1>0, StopRemove
    <3> QED
      BY <2>1, <3>1
  <2> HIDE DEF q
  <2>5. c = Len(q) - Len(w) /\ Len(q) \in Int
    BY <1>1, <1>3, <1>a, <2>2
  <2>6. Continues(q, p, m, e)
    <3>1. m \in 1..Len(q) + 1
      BY <1>1, <1>3, <1>7, <1>a, <2>2
    <3>2. \A k \in 1..m - 1 : k \in 1..Len(p) - 1 /\ k < i + c
      BY <1>1, <1>3, <1>7, <1>a
    <3>3. m \in 0..i + c - 1
      BY <1>1, <1>7, <1>a
    <3> QED
      BY <2>2, <2>4, <3>1, <3>2, <3>3 DEF Continues
  <2>7. Range(q) \subseteq Range(w) \cup out
    BY <1>2, <1>4, <2>3
  <2>8. ASSUME NEW k \in j..Len(w) PROVE q[k + c] = w[k]
    <3>1. k \in 1..Len(v) - 1 /\ k + c \in 1..Len(p) - 1 /\ (k < i <=> k + c < i + c)
          /\ k \in j..Len(v) /\ k + 1 \in j..Len(v) /\ (k + c) + 1 = (k + 1) + c
      BY <1>1, <1>3, <1>a
    <3>2. w[k] = IF k < i THEN v[k] ELSE v[k + 1]
      BY <1>2, <3>1
    <3>3. q[k + c] = IF k < i THEN p[k + c] ELSE p[(k + 1) + c]
      BY <2>2, <3>1
    <3>4. p[k + c] = v[k] /\ p[(k + 1) + c] = v[k + 1]
      BY <1>4, <3>1
    <3> QED
      BY <3>2, <3>3, <3>4
  <2>9. ASSUME NEW k \in m..j + c - 1
        PROVE  q[k] \in out /\ mem[q[k]] = Stop(ListHead, q, e, k + 1)
    <3>1. k \in 1..Len(p) - 1 /\ k < i + c /\ k + 1 \in 0..i + c - 1
      BY <1>1, <1>3, <1>7, <1>a
    <3> QED
      BY <1>4, <2>2, <2>4, <3>1
  <2>10. Way(mem, out, q, m, w, j, e)
    <3>1. WayBy(mem, out, q, m, w, j, c, e)
      BY <1>4, <2>7, <2>8, <2>9 DEF WayBy
    <3> QED
      BY <1>1, <1>2, <2>2, <2>5, <3>1, WayParts
  <2>11. j \in 1..Len(w) + 1
    BY <1>1, <1>7, <1>a
  <2>12. Range(q) \cup {v[i]} = Range(p) \cup {v[i]}
    BY <2>3
  <2> QED
    BY <2>2, <2>3, <2>6, <2>10, <2>11, <2>12 DEF w
<1> QED
  BY <1>1, <1>a, <1>6, <1>7

LEMMA StopBeside ==
  ASSUME NEW h \in Heads, NEW e \in {h, Null}, NEW s \in Seq(Node),
         NEW i \in 1..Len(s), NEW n \in Node, NEW k \in 0..Len(s) + 1, k # i
  PROVE  Stop(h, ReplaceAt(s, i, n), e, k) = Stop(h, s, e, k)
<1>1. \A l \in 0..Len(s) + 1 : l # i => Stop(h, ReplaceAt(s, i, n), e, l) = Stop(h, s, e, l)
  BY StopReplace, ZenonT(30)
<1> QED
  BY <1>1

(* A node takes the place of another. *)
LEMMA WayReplace ==
  ASSUME NEW e \in {ListHead, Null}, NEW mem, NEW out,
         NEW v \in Seq(Node), IsInjective(v), Leads(mem, ListHead, v, e),
         NEW p \in Seq(Node), IsInjective(p),
         NEW m \in 1..Len(p) + 1, NEW j \in 1..Len(v) + 1, Way(mem, out, p, m, v, j, e),
         NEW i \in 1..Len(v), v[i] \in out,
         NEW n \in Node, n \notin Range(v), n \notin out
  PROVE  \E q \in Seq(Node) : \E k \in 1..Len(ReplaceAt(v, i, n)) + 1 :
           /\ IsInjective(q)
           /\ q = p \/ (v[i] \in Range(p) /\ Range(q) = (Range(p) \ {v[i]}) \cup {n})
           /\ Continues(q, p, m, e) /\ Way(mem, out, q, m, ReplaceAt(v, i, n), k, e)
<1> DEFINE w == ReplaceAt(v, i, n)
<1>0. ListHead \in Heads /\ i \in DOMAIN v
  BY DEF Heads
<1>1. Len(v) \in Nat /\ Len(p) \in Nat /\ m \in Int /\ j \in Int
  OBVIOUS
<1>2. /\ w \in Seq(Node) /\ Len(w) = Len(v) /\ Range(w) = (Range(v) \ {v[i]}) \cup {n}
      /\ \A k \in 1..Len(v) : w[k] = IF k = i THEN n ELSE v[k]
  BY <1>0, ReplaceAtLists
<1> HIDE DEF w
<1>3. PICK c \in Int : c = Len(p) - Len(v)
  BY <1>1, SMTT(30)
<1>4. /\ Range(p) \subseteq Range(v) \cup out /\ m <= j + c
      /\ \A k \in j..Len(v) : p[k + c] = v[k]
      /\ \A k \in m..j + c - 1 : p[k] \in out /\ mem[p[k]] = Stop(ListHead, p, e, k + 1)
  <2>1. WayBy(mem, out, p, m, v, j, c, e)
    BY <1>1, <1>3, WayParts
  <2> QED
    BY <2>1 DEF WayBy
<1>a. m <= j + c /\ 1 <= m /\ 1 <= j /\ j <= Len(v) + 1 /\ 1 <= i /\ i <= Len(v) /\ i \in Int
      /\ Len(w) = Len(v) /\ c = Len(p) - Len(w)
  BY <1>1, <1>2, <1>3, <1>4
<1>5. ASSUME NEW l \in Int, l = IF i = j THEN j + 1 ELSE j, i <= j
      PROVE  Way(mem, out, p, m, w, l, e)
  <2>1. Range(p) \subseteq Range(w) \cup out /\ m <= l + c
    BY <1>1, <1>2, <1>4, <1>5, <1>a
  <2>2. ASSUME NEW k \in l..Len(w) PROVE p[k + c] = w[k]
    <3>1. k \in 1..Len(v) /\ k # i /\ k \in j..Len(v)
      BY <1>1, <1>5, <1>a
    <3> QED
      BY <1>2, <1>4, <3>1
  <2>3. ASSUME NEW k \in m..l + c - 1
        PROVE  p[k] \in out /\ mem[p[k]] = Stop(ListHead, p, e, k + 1)
    <3>1. k \in m..j + c - 1 \/ (k = j + c /\ i = j)
      BY <1>1, <1>5, <1>a
    <3>2. CASE k \in m..j + c - 1
      BY <1>4, <3>2
    <3>3. CASE k = j + c /\ i = j
      <4>1. p[k] = v[i] /\ j \in 0..Len(v) /\ j \in 1..Len(v) /\ j \in j..Len(v)
        <5>1. j \in 0..Len(v) /\ j \in 1..Len(v) /\ j \in j..Len(v)
          BY <1>1, <1>a, <3>3
        <5> QED
          BY <1>4, <3>3, <5>1
      <4>2. Stop(ListHead, v, e, j) = v[j]
        BY <1>0, <4>1, StopPlaces
      <4>3. mem[v[j]] = Stop(ListHead, v, e, j + 1)
        BY <4>1, <4>2 DEF Leads
      <4>4. Stop(ListHead, v, e, j + 1) = Stop(ListHead, p, e, k + 1)
        <5>1. CASE j + 1 \in 1..Len(v)
          <6>1. /\ j + 1 \in j..Len(v) /\ k + 1 = (j + 1) + c /\ k + 1 # 0 /\ k + 1 <= Len(p)
                /\ j + 1 # 0 /\ j + 1 <= Len(v)
            BY <1>1, <1>3, <1>a, <3>3, <5>1
          <6>2. p[(j + 1) + c] = v[j + 1]
            BY <1>4, <6>1
          <6> QED
            BY <6>1, <6>2 DEF Stop
        <5>2. CASE j + 1 = Len(v) + 1
          <6>1. j + 1 # 0 /\ ~(j + 1 <= Len(v)) /\ k + 1 # 0 /\ ~(k + 1 <= Len(p))
            BY <1>1, <1>3, <1>a, <3>3, <5>2
          <6> QED
            BY <6>1 DEF Stop
        <5> QED
          BY <1>1, <4>1, <5>1, <5>2
      <4> QED
        BY <3>3, <4>1, <4>3, <4>4
    <3> QED
      BY <3>1, <3>2, <3>3
  <2> QED
    <3>1. WayBy(mem, out, p, m, w, l, c, e)
      BY <2>1, <2>2, <2>3 DEF WayBy
    <3> QED
      BY <1>1, <1>2, <1>a, <1>5, <3>1, WayParts
<1>6. CASE i <= j
  <2> DEFINE l == IF i = j THEN j + 1 ELSE j
  <2>1. l \in Int /\ l \in 1..Len(w) + 1
    BY <1>1, <1>6, <1>a
  <2> HIDE DEF l
  <2>2. Way(mem, out, p, m, w, l, e)
    BY <1>5, <1>6, <2>1 DEF l
  <2>3. Continues(p, p, m, e)
    BY DEF Continues
  <2> QED
    BY <2>1, <2>2, <2>3 DEF w
<1>7. CASE i > j
  <2> DEFINE q == ReplaceAt(p, i + c, n)
  <2>1. i + c \in 1..Len(p) /\ i + c \in DOMAIN p /\ p[i + c] = v[i] /\ v[i] \in Range(p)
    <3>1. i + c \in 1..Len(p) /\ i \in j..Len(v)
      BY <1>1, <1>3, <1>7, <1>a
    <3> QED
      BY <1>4, <3>1 DEF Range
  <2>a. n \notin Range(p)
    BY <1>4
  <2>2. /\ q \in Seq(Node) /\ Len(q) = Len(p)
        /\ \A k \in 1..Len(p) : q[k] = IF k = i + c THEN n ELSE p[k]
    BY <2>1, <2>a, ReplaceAtLists
  <2>3. Range(q) = (Range(p) \ {v[i]}) \cup {n} /\ IsInjective(q)
    BY <2>1, <2>a, ReplaceAtLists
  <2>4. \A k \in 0..Len(p) + 1 :
          k # i + c => Stop(ListHead, q, e, k) = Stop(ListHead, p, e, k)
    BY <1>0, <2>1, StopBeside
  <2> HIDE DEF q
  <2>5. c = Len(q) - Len(w)
    BY <1>a, <2>2
  <2>6. Continues(q, p, m, e)
    <3>1. m \in 1..Len(q) + 1
      BY <2>2
    <3>2. \A k \in 1..m - 1 : k \in 1..Len(p) /\ k # i + c
      BY <1>1, <1>3, <1>7, <1>a
    <3>3. m \in 0..Len(p) + 1 /\ m # i + c
      BY <1>1, <1>7, <1>a
    <3> QED
      BY <2>2, <2>4, <3>1, <3>2, <3>3 DEF Continues
  <2>7. Range(q) \subseteq Range(w) \cup out
    BY <1>2, <1>4, <2>3
  <2>8. ASSUME NEW k \in j..Len(w) PROVE q[k + c] = w[k]
    <3>1. k \in 1..Len(v) /\ k + c \in 1..Len(p) /\ (k = i <=> k + c = i + c)
          /\ k \in j..Len(v)
      BY <1>1, <1>3, <1>a
    <3>2. w[k] = IF k = i THEN n ELSE v[k]
      BY <1>2, <3>1
    <3>3. q[k + c] = IF k = i THEN n ELSE p[k + c]
      BY <2>2, <3>1
    <3> QED
      BY <1>4, <3>1, <3>2, <3>3
  <2>9. ASSUME NEW k \in m..j + c - 1
        PROVE  q[k] \in out /\ mem[q[k]] = Stop(ListHead, q, e, k + 1)
    <3>1. /\ k \in 1..Len(p) /\ k # i + c
          /\ k + 1 \in 0..Len(p) + 1 /\ k + 1 # i + c
      BY <1>1, <1>3, <1>7, <1>a
    <3> QED
      BY <1>4, <2>2, <2>4, <3>1
  <2>10. Way(mem, out, q, m, w, j, e)
    <3>1. WayBy(mem, out, q, m, w, j, c, e)
      BY <1>4, <2>7, <2>8, <2>9 DEF WayBy
    <3> QED
      BY <1>1, <1>2, <2>2, <2>5, <3>1, WayParts
  <2>11. j \in 1..Len(w) + 1
    BY <1>a
  <2> QED
    BY <2>1, <2>2, <2>3, <2>6, <2>10, <2>11 DEF w
<1> QED
  BY <1>1, <1>a, <1>6, <1>7

(* Only the forward pointers of what was taken off count.                   *)
LEMMA WaySame ==
  ASSUME NEW e, NEW mem, NEW new, NEW out, NEW v \in Seq(Node), NEW p \in Seq(Node),
         NEW m, NEW j, Way(mem, out, p, m, v, j, e), \A n \in out : new[n] = mem[n]
  PROVE  Way(new, out, p, m, v, j, e)
BY DEF Way

(* A path is as long as it may be. *)
LEMMA PathIs ==
  ASSUME NEW p
  PROVE  p \in Path <=> p \in Seq(Node) /\ IsInjective(p)
<1>1. Cardinality(Node) \in Nat
  BY KListAssumption, FS_CardinalityType
<1>2. ASSUME p \in Path PROVE p \in Seq(Node) /\ IsInjective(p)
  BY <1>1, <1>2 DEF Path, SeqOf
<1>3. ASSUME p \in Seq(Node), IsInjective(p) PROVE p \in Path
  <2>1. Len(p) \in Nat /\ p \in [1..Len(p) -> Node] /\ DOMAIN p = 1..Len(p)
    BY <1>3
  <2>2. p \in Injection(1..Len(p), Node)
    BY <1>3, <2>1 DEF Injection
  <2>3. Cardinality(1..Len(p)) <= Cardinality(Node)
    BY <2>2, KListAssumption, FS_Injection
  <2>4. Cardinality(1..Len(p)) = Len(p)
    <3>1. Cardinality(1..Len(p)) = IF 1 > Len(p) THEN 0 ELSE Len(p) - 1 + 1
      BY <2>1, FS_Interval
    <3> QED
      BY <2>1, <3>1
  <2>5. Len(p) \in 0..Cardinality(Node)
    BY <1>1, <2>1, <2>3, <2>4
  <2> QED
    BY <1>3, <2>1, <2>5 DEF Path, SeqOf
<1> QED
  BY <1>2, <1>3
-----------------------------------------------------------------------------
(* One store of the call in progress. *)

LEMMA StoreStep ==
  ASSUME IInv, Store
  PROVE  /\ Len(stores) \in Nat /\ stores' \in Seq(StoreSet)
         /\ Len(stores) >= 1 /\ Len(stores') = Len(stores) - 1
         /\ \A i \in 1..Len(stores') : stores'[i] = stores[1 + i]
         /\ \A k \in 0..Len(stores') :
              /\ Written("next", next', stores', k) = Written("next", next, stores, 1 + k)
              /\ Written("prev", prev', stores', k) = Written("prev", prev, stores, 1 + k)
         /\ hashed' = hashed /\ lists' = lists /\ Linked' = Linked
         /\ walk' = walk /\ walk # "handler" /\ (Reading' <=> Reading)
         /\ pos' = pos /\ ahead' = ahead /\ seen' = seen
         /\ owed' = owed /\ retired' = retired /\ \A h \in Heads : End(h)' = End(h)
         /\ Len(stores) = 1 => call' = "none" /\ touched' = {} /\ former' = lists
         /\ Len(stores) # 1 => /\ call' = call /\ touched' = touched /\ former' = former
                               /\ \A h \in Heads : Views(h)' = Views(h)
         /\ TypeOK'
<1>1. /\ stores # <<>> /\ stores' = Tail(stores)
      /\ next' = Written("next", next, stores, 1)
      /\ prev' = Written("prev", prev, stores, 1)
      /\ hashed' = hashed /\ lists' = lists
      /\ walk' = walk /\ walk # "handler" /\ pos' = pos /\ ahead' = ahead /\ seen' = seen
      /\ owed' = owed /\ retired' = retired
      /\ Len(stores) = 1 => call' = "none" /\ touched' = {} /\ former' = lists
      /\ Len(stores) # 1 => call' = call /\ touched' = touched /\ former' = former
  BY DEF Store, walker
<1>2. TypeOK /\ stores \in Seq(StoreSet)
  BY DEF IInv, TypeOK, StoreSet
<1>3. /\ Len(stores) \in Nat /\ Len(stores) >= 1 /\ Len(stores') = Len(stores) - 1
      /\ stores' \in Seq(StoreSet)
      /\ \A i \in 1..Len(stores') : stores'[i] = stores[1 + i]
  <2> DEFINE s == stores
             t == stores'
  <2>1. s \in Seq(StoreSet) /\ s # <<>> /\ t = Tail(s)
    BY <1>1, <1>2
  <2> HIDE DEF s, t
  <2>2. Len(s) \in Nat /\ Len(s) >= 1 /\ Len(t) = Len(s) - 1 /\ t \in Seq(StoreSet)
    BY <2>1
  <2>3. \A i \in 1..Len(t) : t[i] = s[1 + i]
    BY <2>1
  <2> QED
    BY <2>2, <2>3 DEF s, t
<1>4. ASSUME NEW k \in 0..Len(stores')
      PROVE  /\ Written("next", next', stores', k) = Written("next", next, stores, 1 + k)
             /\ Written("prev", prev', stores', k) = Written("prev", prev, stores, 1 + k)
  <2> DEFINE b == stores'
  <2>1. k \in Nat /\ 1 \in Nat /\ \A i \in 1..k : b[i] = stores[1 + i]
    BY <1>3
  <2> HIDE DEF b
  <2>2. /\ Written("next", Written("next", next, stores, 1), b, k)
             = Written("next", next, stores, 1 + k)
        /\ Written("prev", Written("prev", prev, stores, 1), b, k)
             = Written("prev", prev, stores, 1 + k)
    BY <2>1, WrittenThen
  <2> QED
    BY <1>1, <2>2 DEF b
<1>5. Linked' = Linked /\ (Reading' <=> Reading) /\ \A h \in Heads : End(h)' = End(h)
  BY <1>1 DEF Linked, Reading, End
<1>6. Len(stores) # 1 => \A h \in Heads : Views(h)' = Views(h)
  BY <1>1, <1>5 DEF Views
<1>7. TypeOK'
  <2>1. 1 \in 0..Len(stores) /\ lists \in [Heads -> Seq(Node)]
    BY <1>2, <1>3 DEF TypeOK
  <2>2. next' \in [Place -> Pointer] /\ prev' \in [Place -> Pointer]
    BY <1>1, <1>2, <2>1, WrittenType DEF TypeOK
  <2>3. stores' \in Seq([field : {"next", "prev"}, at : Place, value : Pointer])
    BY <1>3 DEF StoreSet
  <2>4. call' \in {"none", "plain", "rcu"} /\ touched' \subseteq Node
        /\ former' \in [Heads -> Seq(Node)]
    BY <1>1, <1>2, <2>1 DEF TypeOK
  <2> QED
    BY <1>1, <1>2, <2>2, <2>3, <2>4 DEF TypeOK
<1> QED
  BY <1>1, <1>3, <1>4, <1>5, <1>6, <1>7

LEMMA StorePlan ==
  ASSUME IInv, Store
  PROVE  CallInv' /\ PlanInv' /\ CarefulInv' /\ RcuInv'
<1>1. TypeOK /\ CallInv /\ PlanInv /\ CarefulInv /\ RcuInv
  BY DEF IInv
<1>2. /\ Len(stores) \in Nat /\ Len(stores) >= 1 /\ Len(stores') = Len(stores) - 1
      /\ stores' \in Seq(StoreSet) /\ stores # <<>>
  BY StoreStep DEF Store
<1>3. stores' = <<>> <=> Len(stores) = 1
  BY <1>2
<1>4. CallInv'
  <2>1. \A h \in Heads : IsInjective(former'[h])
    BY <1>1, StoreStep DEF CallInv, TypeOK
  <2>2. call # "none"
    BY <1>1, <1>2 DEF CallInv
  <2>3. hashed' => lists'[OtherHead] = <<>>
    BY <1>1, StoreStep DEF CallInv
  <2>4. /\ Len(stores) = 1 => call' = "none" /\ touched' = {} /\ former' = lists'
        /\ Len(stores) # 1 => call' = call
    BY StoreStep
  <2>5. OneStays(touched', Linked')
    <3>1. touched' \subseteq touched /\ Linked' = Linked
      BY StoreStep
    <3>2. OneStays(touched, Linked)
      BY <1>1 DEF CallInv
    <3> QED
      BY <3>1, <3>2 DEF OneStays
  <2> QED
    BY <1>3, <2>1, <2>2, <2>3, <2>4, <2>5 DEF CallInv
<1>5. \A k \in 0..Len(stores') : 1 + k \in 1..Len(stores)
  BY <1>2
<1>6. PlanInv'
  <2> SUFFICES ASSUME NEW h \in Heads
               PROVE  /\ \E U \in [0..Len(stores') -> Views(h)'] : Course(h, U)'
                      /\ Backs(Written("prev", prev', stores', Len(stores')), h, lists'[h],
                               End(h)')
    BY DEF PlanInv
  <2>1. PICK V \in [0..Len(stores) -> Views(h)] :
          /\ \A k \in 0..Len(stores) :
               Leads(Written("next", next, stores, k), h, V[k], End(h))
          /\ V[Len(stores)] = lists[h]
          /\ \A k \in 1..Len(stores) : OneStep(V[k - 1], V[k], touched, Linked, call)
    BY <1>1 DEF PlanInv, Course
  <2>2. \A k \in 1..Len(stores) : V[k] \in Views(h)'
    <3>1. CASE Len(stores) = 1
      <4>1. V[1] = lists'[h] /\ \A k \in 1..Len(stores) : k = 1
        BY <2>1, <3>1, StoreStep
      <4> QED
        BY <4>1 DEF Views
    <3>2. CASE Len(stores) # 1
      <4>1. Views(h)' = Views(h)
        BY <3>2, StoreStep
      <4>2. \A k \in 1..Len(stores) : k \in 0..Len(stores)
        BY <1>2
      <4> QED
        BY <2>1, <4>1, <4>2
    <3> QED
      BY <3>1, <3>2
  <2>3. PICK U \in [0..Len(stores') -> Views(h)'] : \A k \in 0..Len(stores') : U[k] = V[1 + k]
    <3> DEFINE W == [k \in 0..Len(stores') |-> V[1 + k]]
    <3>1. W \in [0..Len(stores') -> Views(h)'] /\ \A k \in 0..Len(stores') : W[k] = V[1 + k]
      BY <1>5, <2>2
    <3> HIDE DEF W
    <3> QED
      BY <3>1
  <2>4. \A k \in 0..Len(stores') :
          Leads(Written("next", next', stores', k), h, U[k], End(h)')
    <3> SUFFICES ASSUME NEW k \in 0..Len(stores')
                 PROVE  Leads(Written("next", next', stores', k), h, U[k], End(h)')
      OBVIOUS
    <3>1. Written("next", next', stores', k) = Written("next", next, stores, 1 + k)
          /\ End(h)' = End(h)
      BY StoreStep
    <3>2. Leads(Written("next", next, stores, 1 + k), h, V[1 + k], End(h))
      <4>1. 1 + k \in 0..Len(stores)
        BY <1>2
      <4> QED
        BY <2>1, <4>1
    <3> QED
      BY <2>3, <3>1, <3>2
  <2>5. U[Len(stores')] = lists'[h]
    <3>1. Len(stores') \in 0..Len(stores') /\ 1 + Len(stores') = Len(stores)
      BY <1>2
    <3> QED
      BY <2>1, <2>3, <3>1, StoreStep
  <2>6. \A k \in 1..Len(stores') : OneStep(U[k - 1], U[k], touched', Linked', call')
    <3> SUFFICES ASSUME NEW k \in 1..Len(stores')
                 PROVE  OneStep(U[k - 1], U[k], touched', Linked', call')
      OBVIOUS
    <3>1. /\ Len(stores) # 1 /\ k - 1 \in 0..Len(stores') /\ k \in 0..Len(stores')
          /\ 1 + (k - 1) = k /\ 1 + k \in 1..Len(stores) /\ (1 + k) - 1 = k
      BY <1>2
    <3>2. touched' = touched /\ Linked' = Linked /\ call' = call
      BY <3>1, StoreStep
    <3>3. U[k - 1] = V[k] /\ U[k] = V[1 + k]
      BY <2>3, <3>1
    <3>4. OneStep(V[k], V[1 + k], touched, Linked, call)
      BY <2>1, <3>1
    <3> QED
      BY <3>2, <3>3, <3>4
  <2>7. Course(h, U)'
    BY <2>4, <2>5, <2>6 DEF Course
  <2>8. Backs(Written("prev", prev', stores', Len(stores')), h, lists'[h], End(h)')
    <3>1. Len(stores') \in 0..Len(stores') /\ 1 + Len(stores') = Len(stores)
      BY <1>2
    <3>2. Written("prev", prev', stores', Len(stores'))
            = Written("prev", prev, stores, Len(stores))
      BY <3>1, StoreStep
    <3>3. Backs(Written("prev", prev, stores, Len(stores)), h, lists[h], End(h))
      BY <1>1 DEF PlanInv
    <3> QED
      BY <3>2, <3>3, StoreStep
  <2> QED
    BY <2>7, <2>8
<1>7. CarefulInv'
  <2> SUFFICES ASSUME NEW n \in touched' \ Linked', NEW k \in 0..Len(stores') - 1
               PROVE  Written("prev", prev', stores', k)[n] # n
    BY DEF CarefulInv
  <2>1. k \in 0..Len(stores') /\ 1 + k \in 0..Len(stores) - 1
    BY <1>2
  <2>2. n \in touched \ Linked
    BY StoreStep
  <2>3. Written("prev", prev', stores', k) = Written("prev", prev, stores, 1 + k)
    BY <2>1, StoreStep
  <2> QED
    BY <1>1, <2>1, <2>2, <2>3 DEF CarefulInv
<1>8. RcuInv'
  <2> SUFFICES ASSUME call' = "rcu", NEW i \in DOMAIN stores', stores'[i].field = "next"
               PROVE  stores'[i].at \in Heads \cup Linked'
    BY DEF RcuInv
  <2>1. i \in 1..Len(stores') /\ 1 + i \in DOMAIN stores
    BY <1>2, <1>1 DEF TypeOK
  <2>2. stores'[i] = stores[1 + i] /\ Linked' = Linked
    BY <2>1, StoreStep
  <2>3. call = "rcu"
    BY StoreStep
  <2> QED
    BY <1>1, <2>1, <2>2, <2>3 DEF RcuInv
<1> QED
  BY <1>4, <1>6, <1>7, <1>8

(* The list that pointers lead along changes in one step of the course, and *)
(* the forward pointers of what was taken off stay.                         *)
LEMMA StoreLeads ==
  ASSUME IInv, Store, NEW v \in Views(ListHead), Leads(next, ListHead, v, End(ListHead))
  PROVE  \E w \in Views(ListHead)' :
           /\ Leads(next', ListHead, w, End(ListHead)) /\ w \in Seq(Node)
           /\ OneStep(v, w, touched, Linked, call)
<1>1. TypeOK /\ CallInv /\ PlanInv
  BY DEF IInv
<1>2. ListHead \in Heads
  BY DEF Heads
<1>3. PICK V \in [0..Len(stores) -> Views(ListHead)] :
        /\ \A k \in 0..Len(stores) :
             Leads(Written("next", next, stores, k), ListHead, V[k], End(ListHead))
        /\ V[Len(stores)] = lists[ListHead]
        /\ \A k \in 1..Len(stores) : OneStep(V[k - 1], V[k], touched, Linked, call)
  BY <1>1, <1>2 DEF PlanInv, Course
<1>4. Len(stores) \in Nat /\ Len(stores) >= 1
  BY StoreStep
<1>5. 0 \in 0..Len(stores) /\ 1 \in 0..Len(stores) /\ 1 \in 1..Len(stores) /\ 1 - 1 = 0
  BY <1>4
<1>6. V[0] = v
  <2>1. Written("next", next, stores, 0) = next
    BY <1>1, WrittenNone DEF TypeOK
  <2>2. Leads(next, ListHead, V[0], End(ListHead)) /\ V[0] \in Views(ListHead)
    BY <1>3, <1>5, <2>1
  <2>3. v \in Seq(Node) /\ V[0] \in Seq(Node) /\ End(ListHead) \in {ListHead, Null}
    BY <1>1, <1>2, <2>2, ViewsType, Ends
  <2> QED
    BY <1>2, <2>2, <2>3, LeadsOne
<1>7. Leads(next', ListHead, V[1], End(ListHead))
  BY <1>3, <1>5 DEF Store
<1>8. OneStep(v, V[1], touched, Linked, call)
  BY <1>3, <1>5, <1>6
<1>9. V[1] \in Views(ListHead)'
  <2>1. CASE Len(stores) = 1
    BY <1>3, <2>1, StoreStep DEF Views
  <2>2. CASE Len(stores) # 1
    <3>1. Views(ListHead)' = Views(ListHead)
      BY <1>2, <2>2, StoreStep
    <3> QED
      BY <1>3, <1>5, <3>1
  <2> QED
    BY <2>1, <2>2
<1>10. V[1] \in Seq(Node)
  BY <1>1, <1>2, <1>3, <1>5, ViewsType
<1> QED
  BY <1>7, <1>8, <1>9, <1>10

LEMMA StoreSpares ==
  ASSUME IInv, Store, Reading
  PROVE  call = "rcu" /\ \A n \in retired : next'[n] = next[n]
<1>1. TypeOK /\ CallInv /\ RcuInv /\ WalkInv
  BY DEF IInv
<1>2. Len(stores) \in Nat /\ Len(stores) >= 1 /\ stores # <<>>
  BY StoreStep DEF Store
<1>3. call = "rcu"
  BY <1>1, <1>2 DEF TypeOK, CallInv, WalkInv
<1>4. ASSUME NEW n \in retired PROVE next'[n] = next[n]
  <2>1. n \in Place /\ n \notin Heads /\ n \notin Linked
    BY <1>1, Places DEF TypeOK, WalkInv
  <2>2. Hits("next", n, stores, 1) = {}
    <3> SUFFICES ASSUME NEW i \in 1..1, stores[i].field = "next", stores[i].at = n
                 PROVE  FALSE
      BY DEF Hits
    <3>1. i \in DOMAIN stores
      BY <1>1, <1>2 DEF TypeOK
    <3> QED
      BY <1>1, <1>3, <2>1, <3>1 DEF RcuInv
  <2> QED
    BY <2>1, <2>2, WrittenMiss DEF Store
<1> QED
  BY <1>3, <1>4

(* What the store does to the way of a reader: nothing behind it, and what  *)
(* is owed is still met once.                                               *)
MetOnce(due, s) == \A S \in due : \E n \in Node : S \cap Range(s) = {n}

Replaced(due, nodes) ==
  \A S \in due : S \cap nodes # {} => nodes \subseteq S /\ \A n \in Node : nodes # {n}

LEMMA StoreWay ==
  ASSUME NEW e \in {ListHead, Null}, NEW mem, NEW out, NEW due, NEW nodes, NEW linked,
         NEW v \in Seq(Node), IsInjective(v), Leads(mem, ListHead, v, e),
         NEW w, OneStep(v, w, nodes, linked, "rcu"),
         linked \subseteq Node, linked \cap out = {}, nodes \ linked \subseteq out,
         Replaced(due, nodes),
         NEW p \in Seq(Node), IsInjective(p),
         NEW m \in 1..Len(p) + 1, NEW j \in 1..Len(v) + 1, Way(mem, out, p, m, v, j, e),
         MetOnce(due, p)
  PROVE  \E q \in Seq(Node) : \E k \in 1..Len(w) + 1 :
           /\ IsInjective(q) /\ Continues(q, p, m, e) /\ Way(mem, out, q, m, w, k, e)
           /\ MetOnce(due, q)
<1>1. CASE w = v
  <2>1. Continues(p, p, m, e)
    BY DEF Continues
  <2> QED
    BY <1>1, <2>1
<1>2. ASSUME NEW n \in linked \ Range(v), NEW i \in 1..Len(v) + 1,
             nodes = {n}, w = InsertAt(v, i, n)
      PROVE  \E q \in Seq(Node) : \E k \in 1..Len(w) + 1 :
               /\ IsInjective(q) /\ Continues(q, p, m, e) /\ Way(mem, out, q, m, w, k, e)
               /\ MetOnce(due, q)
  <2>1. n \in Node /\ n \notin Range(v) /\ n \notin out
    BY <1>2
  <2>2. PICK q \in Seq(Node) : \E k \in 1..Len(InsertAt(v, i, n)) + 1 :
          /\ IsInjective(q) /\ Range(q) \cup {n} = Range(p) \cup {n}
          /\ Continues(q, p, m, e) /\ Way(mem, out, q, m, InsertAt(v, i, n), k, e)
    BY <2>1, WayInsert
  <2>3. ASSUME NEW S \in due PROVE \E x \in Node : S \cap Range(q) = {x}
    <3>1. n \notin S
      BY <1>2, <2>1 DEF Replaced
    <3>2. S \cap Range(q) = S \cap Range(p)
      BY <2>2, <3>1
    <3> QED
      BY <3>2 DEF MetOnce
  <2> QED
    BY <1>2, <2>2, <2>3 DEF MetOnce
<1>3. ASSUME NEW i \in 1..Len(v), nodes = {v[i]}, w = RemoveAt(v, i), v[i] \notin linked
      PROVE  \E q \in Seq(Node) : \E k \in 1..Len(w) + 1 :
               /\ IsInjective(q) /\ Continues(q, p, m, e) /\ Way(mem, out, q, m, w, k, e)
               /\ MetOnce(due, q)
  <2>1. v[i] \in out /\ v[i] \in Node
    BY <1>3
  <2>2. PICK q \in Seq(Node) : \E k \in 1..Len(RemoveAt(v, i)) + 1 :
          /\ IsInjective(q) /\ Range(q) \cup {v[i]} = Range(p) \cup {v[i]}
          /\ Continues(q, p, m, e) /\ Way(mem, out, q, m, RemoveAt(v, i), k, e)
    BY <2>1, WayRemove
  <2>3. ASSUME NEW S \in due PROVE \E x \in Node : S \cap Range(q) = {x}
    <3>1. v[i] \notin S
      BY <1>3, <2>1 DEF Replaced
    <3>2. S \cap Range(q) = S \cap Range(p)
      BY <2>2, <3>1
    <3> QED
      BY <3>2 DEF MetOnce
  <2> QED
    BY <1>3, <2>2, <2>3 DEF MetOnce
<1>4. ASSUME NEW n \in linked \ Range(v), NEW i \in 1..Len(v),
             nodes = {v[i], n}, v[i] \notin linked, w = ReplaceAt(v, i, n)
      PROVE  \E q \in Seq(Node) : \E k \in 1..Len(w) + 1 :
               /\ IsInjective(q) /\ Continues(q, p, m, e) /\ Way(mem, out, q, m, w, k, e)
               /\ MetOnce(due, q)
  <2>1. n \in Node /\ n \notin Range(v) /\ n \notin out /\ v[i] \in out
    BY <1>4
  <2>2. PICK q \in Seq(Node) : \E k \in 1..Len(ReplaceAt(v, i, n)) + 1 :
          /\ IsInjective(q)
          /\ q = p \/ (v[i] \in Range(p) /\ Range(q) = (Range(p) \ {v[i]}) \cup {n})
          /\ Continues(q, p, m, e) /\ Way(mem, out, q, m, ReplaceAt(v, i, n), k, e)
    BY <2>1, WayReplace
  <2>3. ASSUME NEW S \in due PROVE \E x \in Node : S \cap Range(q) = {x}
    <3>1. CASE q = p
      BY <3>1 DEF MetOnce
    <3>2. CASE v[i] \in Range(p) /\ Range(q) = (Range(p) \ {v[i]}) \cup {n}
      <4>1. PICK x \in Node : S \cap Range(p) = {x}
        BY DEF MetOnce
      <4>2. CASE S \cap nodes = {}
        <5>1. S \cap Range(q) = S \cap Range(p)
          BY <1>4, <3>2, <4>2
        <5> QED
          BY <4>1, <5>1
      <4>3. CASE S \cap nodes # {}
        <5>1. v[i] \in S /\ n \in S
          BY <1>4, <4>3 DEF Replaced
        <5>2. x = v[i]
          BY <3>2, <4>1, <5>1
        <5>3. S \cap Range(q) = {n}
          BY <3>2, <4>1, <5>1, <5>2
        <5> QED
          BY <2>1, <5>3
      <4> QED
        BY <4>2, <4>3
    <3> QED
      BY <2>2, <3>1, <3>2
  <2> QED
    BY <1>4, <2>2, <2>3 DEF MetOnce
<1> QED
  BY <1>1, <1>2, <1>3, <1>4 DEF OneStep

LEMMA StoreReader ==
  ASSUME IInv, Store
  PROVE  ReaderInv'
<1> SUFFICES ASSUME Reading
             PROVE  \E p \in Path, v \in Views(ListHead)' :
                      \E m \in 1..Len(p) + 1, j \in 1..Len(v) + 1 :
                        OnPath(p, m, v, j)' /\ AtStop(p, m)'
  BY StoreStep DEF ReaderInv
<1> DEFINE e == End(ListHead)
<1>1. TypeOK /\ CallInv /\ WalkInv /\ ReaderInv
  BY DEF IInv
<1>2. ListHead \in Heads /\ e \in {ListHead, Null} /\ End(ListHead)' = e
  BY StoreStep, Ends DEF Heads
<1>3. PICK p \in Path, v \in Views(ListHead) :
        \E m \in 1..Len(p) + 1, j \in 1..Len(v) + 1 : OnPath(p, m, v, j) /\ AtStop(p, m)
  BY <1>1 DEF ReaderInv
<1>4. PICK m \in 1..Len(p) + 1, j \in 1..Len(v) + 1 : OnPath(p, m, v, j) /\ AtStop(p, m)
  BY <1>3
<1>5. /\ Leads(next, ListHead, v, e) /\ Way(next, retired, p, m, v, j, e)
      /\ MetOnce(owed, p)
  BY <1>4 DEF OnPath, Way, MetOnce
<1>6. v \in Seq(Node) /\ IsInjective(v) /\ p \in Seq(Node) /\ IsInjective(p)
  BY <1>1, <1>2, ViewsType, PathIs
<1>7. PICK w \in Views(ListHead)' :
        /\ Leads(next', ListHead, w, e) /\ w \in Seq(Node)
        /\ OneStep(v, w, touched, Linked, call)
  BY <1>5, StoreLeads
<1>8. OneStep(v, w, touched, Linked, "rcu") /\ \A n \in retired : next'[n] = next[n]
  BY <1>7, StoreSpares
<1>9. /\ Linked \subseteq Node /\ Linked \cap retired = {}
      /\ touched \ Linked \subseteq retired
      /\ Replaced(owed, touched)
  <2>1. Linked \subseteq Node
    BY <1>1, ListedAt DEF Linked, TypeOK
  <2> QED
    BY <1>1, <2>1 DEF WalkInv, Replaced
<1> HIDE DEF e
<1>10. PICK q \in Seq(Node) : \E k \in 1..Len(w) + 1 :
         /\ IsInjective(q) /\ Continues(q, p, m, e) /\ Way(next, retired, q, m, w, k, e)
         /\ MetOnce(owed, q)
  BY <1>2, <1>5, <1>6, <1>7, <1>8, <1>9, StoreWay
<1>11. PICK k \in 1..Len(w) + 1 :
         /\ IsInjective(q) /\ Continues(q, p, m, e) /\ Way(next, retired, q, m, w, k, e)
         /\ MetOnce(owed, q)
  BY <1>10
<1>12. q \in Path
  BY <1>11, PathIs
<1>13. w \in Seq(Node)
  BY <1>7
<1>14. Way(next', retired, q, m, w, k, e)
  <2> DEFINE new == next'
  <2>1. \A n \in retired : new[n] = next[n]
    BY <1>8
  <2> HIDE DEF new
  <2>2. Way(new, retired, q, m, w, k, e)
    BY <1>11, <1>13, <2>1, WaySame
  <2> QED
    BY <2>2 DEF new
<1>15. OnPath(q, m, w, k)'
  <2>1. retired' = retired /\ owed' = owed
    BY StoreStep
  <2>2. /\ Range(q) \subseteq Range(w) \cup retired'
        /\ m <= k + Len(q) - Len(w)
        /\ \A l \in k..Len(w) : q[l + Len(q) - Len(w)] = w[l]
        /\ \A l \in m..k + Len(q) - Len(w) - 1 :
             q[l] \in retired' /\ next'[q[l]] = Stop(ListHead, q, e, l + 1)
    BY <1>14, <2>1 DEF Way
  <2> QED
    BY <1>2, <1>7, <1>11, <2>1, <2>2 DEF OnPath, MetOnce
<1>16. AtStop(q, m)'
  <2>1. AtStop(q, m)
    BY <1>4, <1>6, <1>11, AtStopKept DEF e
  <2>2. ahead' = ahead /\ seen' = seen /\ pos' = pos
    BY StoreStep
  <2> QED
    BY <1>2, <2>1, <2>2 DEF AtStop, e
<1>17. m \in 1..Len(q) + 1
  BY <1>11 DEF Continues
<1> QED
  BY <1>7, <1>11, <1>12, <1>15, <1>16, <1>17

LEMMA StoreKeeps ==
  ASSUME IInv, Store
  PROVE  IInv'
<1>1. TypeOK' /\ CallInv' /\ PlanInv' /\ CarefulInv' /\ RcuInv' /\ ReaderInv'
  BY StoreStep, StorePlan, StoreReader
<1>2. WalkInv
  BY DEF IInv
<1>3. /\ walk' = walk /\ (Reading' <=> Reading) /\ ahead' = ahead /\ seen' = seen
      /\ owed' = owed /\ retired' = retired /\ Linked' = Linked /\ walk # "handler"
      /\ touched' = touched \/ touched' = {}
      /\ call' = call \/ call' = "none"
  BY StoreStep
<1>4. WalkInv'
  BY <1>2, <1>3 DEF WalkInv
<1>5. WalkVisitsList'
  BY <1>3 DEF WalkVisitsList
<1> QED
  BY <1>1, <1>4, <1>5 DEF IInv
-----------------------------------------------------------------------------
(* The steps of a walk. *)

(* They leave alone what the calls are about. *)
LEMMA WalkFrame ==
  ASSUME IInv, UNCHANGED <<hashed, memory, stores, call, touched, lists, former>>
  PROVE  /\ CallInv' /\ PlanInv' /\ CarefulInv' /\ RcuInv'
         /\ next' = next /\ prev' = prev /\ touched' = touched /\ call' = call
         /\ Linked' = Linked /\ Views(ListHead)' = Views(ListHead)
         /\ End(ListHead)' = End(ListHead) /\ lists' = lists
<1>1. /\ hashed' = hashed /\ next' = next /\ prev' = prev /\ stores' = stores
      /\ call' = call /\ touched' = touched /\ lists' = lists /\ former' = former
  BY DEF memory
<1>2. CallInv /\ PlanInv /\ CarefulInv /\ RcuInv
  BY DEF IInv
<1>3. Linked' = Linked
  BY <1>1 DEF Linked
<1>4. \A h \in Heads : Views(h)' = Views(h) /\ End(h)' = End(h)
  BY <1>1, <1>3 DEF Views, End
<1>5. CallInv'
  BY <1>1, <1>2, <1>3 DEF CallInv
<1>6. PlanInv'
  <2> SUFFICES ASSUME NEW h \in Heads
               PROVE  /\ \E V \in [0..Len(stores') -> Views(h)'] : Course(h, V)'
                      /\ Backs(Written("prev", prev', stores', Len(stores')), h, lists'[h],
                               End(h)')
    BY DEF PlanInv
  <2>1. PICK V \in [0..Len(stores) -> Views(h)] : Course(h, V)
    BY <1>2 DEF PlanInv
  <2>2. Course(h, V)'
    BY <1>1, <1>3, <1>4, <2>1 DEF Course
  <2>3. Backs(Written("prev", prev, stores, Len(stores)), h, lists[h], End(h))
    BY <1>2 DEF PlanInv
  <2> QED
    BY <1>1, <1>4, <2>1, <2>2, <2>3
<1>7. CarefulInv'
  BY <1>1, <1>2, <1>3 DEF CarefulInv
<1>8. RcuInv'
  BY <1>1, <1>2, <1>3 DEF RcuInv
<1> QED
  BY <1>1, <1>3, <1>4, <1>5, <1>6, <1>7, <1>8 DEF Heads

(* There is a view along which the pointers lead now. *)
LEMMA NowLeads ==
  ASSUME IInv, NEW h \in Heads
  PROVE  \E V \in [0..Len(stores) -> Views(h)] :
           /\ Course(h, V) /\ Leads(next, h, V[0], End(h)) /\ Len(stores) \in Nat
           /\ \A k \in 0..Len(stores) : V[k] \in Seq(Node) /\ IsInjective(V[k])
<1>1. TypeOK /\ CallInv /\ PlanInv
  BY DEF IInv
<1>2. PICK V \in [0..Len(stores) -> Views(h)] : Course(h, V)
  BY <1>1 DEF PlanInv
<1>3. Len(stores) \in Nat /\ 0 \in 0..Len(stores)
  BY <1>1 DEF TypeOK
<1>4. Written("next", next, stores, 0) = next
  BY <1>1, WrittenNone DEF TypeOK
<1>5. Leads(next, h, V[0], End(h))
  BY <1>2, <1>3, <1>4 DEF Course
<1>6. \A k \in 0..Len(stores) : V[k] \in Seq(Node) /\ IsInjective(V[k])
  BY <1>1, <1>2, ViewsType
<1> QED
  BY <1>2, <1>3, <1>5, <1>6

LEMMA HandlerBegins ==
  ASSUME IInv, HandlerBegin
  PROVE  IInv'
<1> DEFINE e == End(ListHead)
<1>1. /\ walk = "none" /\ walk' = "handler" /\ pos' = next[ListHead]
      /\ hashed' = hashed /\ ahead' = ahead /\ seen' = seen /\ owed' = owed
      /\ retired' = retired /\ stores' = stores /\ former' = former
      /\ UNCHANGED <<hashed, memory, stores, call, touched, lists, former>>
  BY DEF HandlerBegin, WalkBegin
<1>2. TypeOK /\ CallInv /\ WalkInv
  BY DEF IInv
<1>3. ListHead \in Heads /\ e \in {ListHead, Null} /\ ListHead \in Place
  BY Ends, Places DEF Heads
<1>4. seen = <<>> /\ ahead = Poison /\ ~Reading /\ owed = {} /\ retired = {} /\ ~Reading'
  BY <1>1, <1>2 DEF WalkInv, Reading
<1>5. TypeOK'
  BY <1>1, <1>2, <1>3, WalkFrame DEF TypeOK
<1>6. WalkInv'
  BY <1>1, <1>4 DEF WalkInv
<1>7. ReaderInv'
  BY <1>4 DEF ReaderInv
<1>8. WalkVisitsList'
  <2>1. PICK v \in Views(ListHead) : v \in Seq(Node) /\ Leads(next, ListHead, v, e)
    <3>1. PICK V \in [0..Len(stores) -> Views(ListHead)] :
            /\ Leads(next, ListHead, V[0], e) /\ Len(stores) \in Nat
            /\ \A k \in 0..Len(stores) : V[k] \in Seq(Node)
      BY <1>3, NowLeads
    <3>2. 0 \in 0..Len(stores)
      BY <3>1
    <3> QED
      BY <3>1, <3>2
  <2>2. next[ListHead] = Stop(ListHead, v, e, 1)
    <3>1. 0 \in 0..Len(v) /\ Stop(ListHead, v, e, 0) = ListHead /\ 0 + 1 = 1
      BY <1>3, <2>1, StopPlaces
    <3> QED
      BY <2>1, <3>1 DEF Leads
  <2>3. Len(<<>>) = 0 /\ SubSeq(v, 1, 0) = <<>> /\ Len(v) \in Nat
    BY <2>1
  <2>4. /\ Leads(next', ListHead, v, End(ListHead)')
        /\ Len(seen') <= Len(v)
        /\ seen' = SubSeq(v, 1, Len(seen'))
        /\ pos' = Stop(ListHead, v, End(ListHead)', Len(seen') + 1)
    BY <1>1, <1>4, <2>1, <2>2, <2>3, WalkFrame
  <2> QED
    BY <2>1, <2>4, WalkFrame, <1>1 DEF WalkVisitsList
<1> QED
  BY <1>1, <1>5, <1>6, <1>7, <1>8, WalkFrame DEF IInv

(* Before a step of the course, too, a list had one node of those that are  *)
(* touched, if there are two of them; and the others have not changed.      *)
LEMMA StepBack ==
  ASSUME NEW v \in Seq(Node), IsInjective(v), NEW w, NEW nodes, NEW linked, NEW kind,
         linked \subseteq Node, OneStep(v, w, nodes, linked, kind)
  PROVE  /\ Range(v) \ nodes = Range(w) \ nodes
         /\ (\A n \in Node : nodes # {n}) /\ (\E n \in Node : nodes \cap Range(w) = {n})
              => \E n \in Node : nodes \cap Range(v) = {n}
<1>0. \A i \in 1..Len(v) : v[i] \in Node /\ v[i] \in Range(v) /\ i \in DOMAIN v
  BY DEF Range
<1>1. CASE w = v
  BY <1>1
<1>2. ASSUME NEW n \in linked \ Range(v), NEW i \in 1..Len(v) + 1,
             nodes = {n}, w = InsertAt(v, i, n)
      PROVE  Range(v) \ nodes = Range(w) \ nodes /\ n \in Node
  <2>1. n \in Node /\ n \notin Range(v)
    OBVIOUS
  <2>2. Range(w) = Range(v) \cup {n}
    BY <1>2, <2>1, InsertAtLists
  <2> QED
    BY <1>2, <2>1, <2>2
<1>3. ASSUME NEW i \in 1..Len(v), nodes = {v[i]}, w = RemoveAt(v, i)
      PROVE  Range(v) \ nodes = Range(w) \ nodes /\ v[i] \in Node
  <2>1. Range(w) = Range(v) \ {v[i]}
    BY <1>0, <1>3, RemoveAtUnlists
  <2> QED
    BY <1>0, <1>3, <2>1
<1>4. ASSUME NEW n \in linked \ Range(v), NEW i \in 1..Len(v),
             nodes = {v[i], n}, w = ReplaceAt(v, i, n)
      PROVE  /\ Range(v) \ nodes = Range(w) \ nodes
             /\ \E x \in Node : nodes \cap Range(v) = {x}
  <2>1. n \in Node /\ n \notin Range(v)
    OBVIOUS
  <2>2. Range(w) = (Range(v) \ {v[i]}) \cup {n}
    BY <1>0, <1>4, <2>1, ReplaceAtLists
  <2>3. nodes \cap Range(v) = {v[i]}
    BY <1>0, <1>4, <2>1
  <2> QED
    BY <1>0, <1>4, <2>1, <2>2, <2>3
<1> QED
  BY <1>1, <1>2, <1>3, <1>4 DEF OneStep

(* What a walk that begins now is owed it will meet once.                   *)
LEMMA DueAtBegin ==
  ASSUME IInv
  PROVE  \E v \in Views(ListHead) :
           /\ v \in Seq(Node) /\ IsInjective(v)
           /\ Leads(next, ListHead, v, End(ListHead))
           /\ Range(v) \ touched = Range(lists[ListHead]) \ touched
           /\ /\ \A n \in Node : touched # {n}
              /\ touched \cap Range(lists[ListHead]) # {}
              => \E n \in Node : touched \cap Range(v) = {n}
<1>1. TypeOK /\ CallInv
  BY DEF IInv
<1>2. ListHead \in Heads
  BY DEF Heads
<1>3. PICK V \in [0..Len(stores) -> Views(ListHead)] :
        /\ Course(ListHead, V) /\ Leads(next, ListHead, V[0], End(ListHead))
        /\ Len(stores) \in Nat
        /\ \A k \in 0..Len(stores) : V[k] \in Seq(Node) /\ IsInjective(V[k])
  BY <1>2, NowLeads
<1>4. /\ V[Len(stores)] = lists[ListHead]
      /\ \A k \in 1..Len(stores) : OneStep(V[k - 1], V[k], touched, Linked, call)
  BY <1>3 DEF Course
<1>5. Linked \subseteq Node /\ Range(lists[ListHead]) \subseteq Linked
  BY <1>1, <1>2, ListedAt DEF Linked, TypeOK
<1> DEFINE Good(w) ==
             /\ Range(w) \ touched = Range(lists[ListHead]) \ touched
             /\ /\ \A n \in Node : touched # {n}
                /\ touched \cap Range(lists[ListHead]) # {}
                => \E n \in Node : touched \cap Range(w) = {n}
           P == {k \in Nat : k <= Len(stores) => Good(V[Len(stores) - k])}
<1>6. 0 \in P
  <2>1. Len(stores) - 0 = Len(stores)
    BY <1>3
  <2>2. ASSUME NEW x \in touched \cap Range(lists[ListHead])
        PROVE  x \in Node /\ touched \cap Range(lists[ListHead]) = {x}
    BY <1>1, <1>5 DEF CallInv, OneStays
  <2>3. Good(lists[ListHead])
    BY <2>2
  <2> HIDE DEF Good
  <2> QED
    BY <1>4, <2>1, <2>3
<1>7. ASSUME NEW k \in Nat, k \in P PROVE k + 1 \in P
  <2> SUFFICES ASSUME k + 1 <= Len(stores) PROVE Good(V[Len(stores) - (k + 1)])
    BY DEF P
  <2> DEFINE i == Len(stores) - k
  <2>1. /\ i \in 1..Len(stores) /\ i - 1 = Len(stores) - (k + 1) /\ i - 1 \in 0..Len(stores)
        /\ k <= Len(stores)
    BY <1>3
  <2>2. Good(V[i])
    BY <1>7, <2>1
  <2> HIDE DEF i
  <2>3. /\ V[i - 1] \in Seq(Node) /\ IsInjective(V[i - 1])
        /\ OneStep(V[i - 1], V[i], touched, Linked, call)
    BY <1>3, <1>4, <2>1
  <2>4. /\ Range(V[i - 1]) \ touched = Range(V[i]) \ touched
        /\ (\A n \in Node : touched # {n}) /\ (\E n \in Node : touched \cap Range(V[i]) = {n})
             => \E n \in Node : touched \cap Range(V[i - 1]) = {n}
    BY <1>5, <2>3, StepBack
  <2>5. Good(V[i - 1])
    BY <2>2, <2>4
  <2> HIDE DEF Good
  <2> QED
    BY <2>1, <2>5
<1> HIDE DEF P
<1>8. P = Nat
  BY <1>6, <1>7, Induction DEF P
<1>9. Good(V[0])
  <2>1. Len(stores) \in P /\ Len(stores) - Len(stores) = 0 /\ Len(stores) <= Len(stores)
    BY <1>3, <1>8
  <2> HIDE DEF Good
  <2> QED
    BY <2>1 DEF P
<1>10. 0 \in 0..Len(stores)
  BY <1>3
<1> QED
  BY <1>3, <1>9, <1>10

LEMMA ReaderBegins ==
  ASSUME IInv, ReaderBegin
  PROVE  IInv'
<1> DEFINE e == End(ListHead)
           listed == Range(lists[ListHead])
<1>1. /\ walk = "none" /\ walk' \in {"reader", "safe"} /\ pos' = next[ListHead]
      /\ ahead' = ahead /\ seen' = seen /\ call # "plain"
      /\ UNCHANGED <<hashed, memory, stores, call, touched, lists, former>>
      /\ hashed' = hashed /\ stores' = stores /\ former' = former
      /\ retired' = touched \ Linked
      /\ owed' = {{n} : n \in listed \ touched}
                   \cup {S \in {touched} : Cardinality(S) = 2 /\ S \cap listed # {}}
  BY DEF ReaderBegin, WalkBegin
<1>2. TypeOK /\ CallInv /\ WalkInv
  BY DEF IInv
<1>3. ListHead \in Heads /\ e \in {ListHead, Null} /\ ListHead \in Place
  BY Ends, Places DEF Heads
<1>4. seen = <<>> /\ ahead = Poison /\ Reading'
  BY <1>1, <1>2 DEF WalkInv, Reading
<1>5. Linked \subseteq Node /\ listed \subseteq Linked /\ touched \subseteq Node
  BY <1>2, <1>3, ListedAt DEF Linked, TypeOK
<1>6. ASSUME NEW S \in owed'
      PROVE  \/ \E n \in listed \ touched : S = {n}
             \/ S = touched /\ touched \cap listed # {} /\ \A n \in Node : touched # {n}
  <2>1. ASSUME Cardinality(touched) = 2, NEW n, touched = {n} PROVE FALSE
    <3>1. Cardinality({n}) = 1
      BY FS_Singleton
    <3> QED
      BY <2>1, <3>1
  <2> QED
    BY <1>1, <2>1
<1>7. TypeOK'
  <2>1. owed' \subseteq SUBSET Node /\ retired' \subseteq Node
    BY <1>1, <1>5, <1>6
  <2>2. pos' \in Pointer
    BY <1>1, <1>2, <1>3 DEF TypeOK
  <2> QED
    BY <1>1, <1>2, <2>1, <2>2, WalkFrame DEF TypeOK
<1>8. WalkInv'
  <2>1. ASSUME NEW S \in owed'
        PROVE  /\ S \subseteq Linked \cup retired'
               /\ S \cap touched # {} => touched \subseteq S /\ \A n \in Node : touched # {n}
    BY <1>1, <1>5, <1>6
  <2>2. touched' = touched /\ Linked' = Linked /\ call' = call
    BY <1>1, WalkFrame
  <2> QED
    BY <1>1, <1>4, <2>1, <2>2 DEF WalkInv
<1>9. WalkVisitsList'
  BY <1>1 DEF WalkVisitsList
<1>10. ReaderInv'
  <2>1. PICK v \in Views(ListHead) :
           /\ v \in Seq(Node) /\ IsInjective(v) /\ Leads(next, ListHead, v, e)
           /\ Range(v) \ touched = listed \ touched
           /\ /\ \A n \in Node : touched # {n}
              /\ touched \cap listed # {}
              => \E n \in Node : touched \cap Range(v) = {n}
    BY DueAtBegin
  <2>2. v \in Path /\ v \in Views(ListHead)'
    BY <1>1, <2>1, PathIs, WalkFrame
  <2>3. Len(v) \in Nat
    BY <2>1
  <2>4. 1 \in 1..Len(v) + 1
    BY <2>3
  <2>5. ASSUME NEW S \in owed' PROVE \E n \in Node : S \cap Range(v) = {n}
    <3>1. ASSUME NEW n \in listed \ touched, S = {n} PROVE n \in Node /\ S \cap Range(v) = {n}
      BY <1>5, <2>1, <3>1
    <3> QED
      BY <1>6, <2>1, <3>1
  <2>6. OnPath(v, 1, v, 1)'
    <3>1. /\ \A k \in 1..Len(v) : k + Len(v) - Len(v) = k
          /\ 1 <= 1 + Len(v) - Len(v) /\ 1..1 + Len(v) - Len(v) - 1 = {}
      BY <2>3
    <3>2. next' = next /\ End(ListHead)' = e
      BY <1>1, WalkFrame
    <3> QED
      BY <2>1, <2>5, <3>1, <3>2 DEF OnPath
  <2>7. AtStop(v, 1)'
    <3>1. next[ListHead] = Stop(ListHead, v, e, 1)
      <4>1. 0 \in 0..Len(v) /\ Stop(ListHead, v, e, 0) = ListHead /\ 0 + 1 = 1
        BY <1>3, <2>1, StopPlaces
      <4> QED
        BY <2>1, <4>1 DEF Leads
    <3>2. SubSeq(v, 1, 1 - 1) = <<>>
      BY <2>1
    <3>3. End(ListHead)' = e
      BY <1>1, WalkFrame
    <3> QED
      BY <1>1, <1>4, <3>1, <3>2, <3>3 DEF AtStop
  <2> QED
    BY <2>2, <2>4, <2>6, <2>7 DEF ReaderInv
<1> QED
  BY <1>1, <1>7, <1>8, <1>9, <1>10, WalkFrame DEF IInv

(* One step further on the way. *)
LEMMA Advance ==
  ASSUME NEW e \in {ListHead, Null}, NEW mem, NEW out,
         NEW v \in Seq(Node), Leads(mem, ListHead, v, e), NEW p \in Seq(Node),
         NEW m \in 1..Len(p), NEW j \in 1..Len(v) + 1, Way(mem, out, p, m, v, j, e)
  PROVE  /\ mem[p[m]] = Stop(ListHead, p, e, m + 1)
         /\ \E k \in 1..Len(v) + 1 : Way(mem, out, p, m + 1, v, k, e)
<1>0. ListHead \in Heads
  BY DEF Heads
<1>1. Len(v) \in Nat /\ Len(p) \in Nat /\ m \in Int /\ j \in Int /\ m + 1 \in Int /\ j + 1 \in Int
  OBVIOUS
<1>2. PICK c \in Int : c = Len(p) - Len(v)
  BY <1>1, SMTT(30)
<1>3. /\ Range(p) \subseteq Range(v) \cup out /\ m <= j + c
      /\ \A k \in j..Len(v) : p[k + c] = v[k]
      /\ \A k \in m..j + c - 1 : p[k] \in out /\ mem[p[k]] = Stop(ListHead, p, e, k + 1)
  <2>1. WayBy(mem, out, p, m, v, j, c, e)
    BY <1>1, <1>2, WayParts
  <2> QED
    BY <2>1 DEF WayBy
<1>a. m <= j + c /\ 1 <= m /\ m <= Len(p) /\ 1 <= j /\ j <= Len(v) + 1
  BY <1>1, <1>3
<1>4. CASE m < j + c
  <2>1. m \in m..j + c - 1 /\ m + 1 <= j + c
    BY <1>1, <1>4
  <2>2. mem[p[m]] = Stop(ListHead, p, e, m + 1)
    BY <1>3, <2>1
  <2>3. \A k \in m + 1..j + c - 1 : k \in m..j + c - 1
    BY <1>1
  <2>4. WayBy(mem, out, p, m + 1, v, j, c, e)
    BY <1>3, <2>1, <2>3 DEF WayBy
  <2>5. Way(mem, out, p, m + 1, v, j, e)
    BY <1>1, <1>2, <2>4, WayParts
  <2> QED
    BY <2>2, <2>5
<1>5. CASE m = j + c
  <2>1. j \in 0..Len(v) /\ j \in 1..Len(v) /\ j \in j..Len(v) /\ j + 1 \in 1..Len(v) + 1
    BY <1>1, <1>2, <1>5, <1>a
  <2>2. p[m] = v[j]
    BY <1>3, <1>5, <2>1
  <2>3. Stop(ListHead, v, e, j) = v[j]
    BY <1>0, <2>1, StopPlaces
  <2>4. mem[v[j]] = Stop(ListHead, v, e, j + 1)
    BY <2>1, <2>3 DEF Leads
  <2>5. Stop(ListHead, v, e, j + 1) = Stop(ListHead, p, e, m + 1)
    <3>1. CASE j + 1 \in 1..Len(v)
      <4>1. /\ j + 1 \in j..Len(v) /\ m + 1 = (j + 1) + c /\ m + 1 # 0 /\ m + 1 <= Len(p)
            /\ j + 1 # 0 /\ j + 1 <= Len(v)
        BY <1>1, <1>2, <1>5, <1>a, <3>1
      <4>2. p[(j + 1) + c] = v[j + 1]
        BY <1>3, <4>1
      <4> QED
        BY <4>1, <4>2 DEF Stop
    <3>2. CASE j + 1 = Len(v) + 1
      <4>1. j + 1 # 0 /\ ~(j + 1 <= Len(v)) /\ m + 1 # 0 /\ ~(m + 1 <= Len(p))
        BY <1>1, <1>2, <1>5, <1>a, <3>2
      <4> QED
        BY <4>1 DEF Stop
    <3> QED
      BY <1>1, <2>1, <3>1, <3>2
  <2>6. /\ m + 1 <= (j + 1) + c /\ m + 1..(j + 1) + c - 1 = {}
        /\ \A k \in j + 1..Len(v) : k \in j..Len(v)
    BY <1>1, <1>5
  <2>7. WayBy(mem, out, p, m + 1, v, j + 1, c, e)
    BY <1>3, <2>6 DEF WayBy
  <2>8. Way(mem, out, p, m + 1, v, j + 1, e)
    BY <1>1, <1>2, <2>7, WayParts
  <2> QED
    BY <2>1, <2>2, <2>4, <2>5, <2>8
<1> QED
  BY <1>1, <1>a, <1>4, <1>5

(* A reader as it is before a step of it. *)
LEMMA ReaderNow ==
  ASSUME IInv, Reading
  PROVE  \E p \in Path, v \in Views(ListHead) : \E m \in 1..Len(p) + 1, j \in 1..Len(v) + 1 :
           /\ p \in Seq(Node) /\ IsInjective(p) /\ v \in Seq(Node) /\ Len(p) <= Cardinality(Node)
           /\ Leads(next, ListHead, v, End(ListHead)) /\ MetOnce(owed, p)
           /\ Way(next, retired, p, m, v, j, End(ListHead)) /\ AtStop(p, m)
<1>1. TypeOK /\ CallInv /\ ReaderInv
  BY DEF IInv
<1>2. PICK p \in Path, v \in Views(ListHead) :
        \E m \in 1..Len(p) + 1, j \in 1..Len(v) + 1 : OnPath(p, m, v, j) /\ AtStop(p, m)
  BY <1>1 DEF ReaderInv
<1>3. PICK m \in 1..Len(p) + 1, j \in 1..Len(v) + 1 : OnPath(p, m, v, j) /\ AtStop(p, m)
  BY <1>2
<1>4. ListHead \in Heads
  BY DEF Heads
<1>5. v \in Seq(Node) /\ p \in Seq(Node) /\ IsInjective(p)
  BY <1>1, <1>4, ViewsType, PathIs
<1>6. Len(p) <= Cardinality(Node)
  <2>1. Cardinality(Node) \in Nat
    BY KListAssumption, FS_CardinalityType
  <2> QED
    BY <2>1 DEF Path, SeqOf
<1>7. /\ Leads(next, ListHead, v, End(ListHead)) /\ MetOnce(owed, p)
      /\ Way(next, retired, p, m, v, j, End(ListHead))
  BY <1>3 DEF OnPath, Way, MetOnce
<1> QED
  BY <1>3, <1>5, <1>6, <1>7

(* And after it: it may be further on its way. *)
LEMMA ReaderThen ==
  ASSUME IInv, UNCHANGED <<hashed, memory, stores, call, touched, lists, former>>,
         owed' = owed, retired' = retired, Reading,
         NEW p \in Path, NEW v \in Views(ListHead), v \in Seq(Node),
         Leads(next, ListHead, v, End(ListHead)), MetOnce(owed, p),
         NEW m \in 1..Len(p) + 1, NEW j \in 1..Len(v) + 1,
         Way(next, retired, p, m, v, j, End(ListHead)), AtStop(p, m)'
  PROVE  ReaderInv'
<1>1. /\ Views(ListHead)' = Views(ListHead) /\ next' = next
      /\ End(ListHead)' = End(ListHead)
  BY WalkFrame
<1>2. OnPath(p, m, v, j)'
  BY <1>1 DEF OnPath, Way, MetOnce
<1> QED
  BY <1>1, <1>2 DEF ReaderInv

(* What Visit does as long as a walk is no longer than a list can be. *)
LEMMA VisitNext ==
  ASSUME Visit, NEW p \in Seq(Node), Len(p) <= Cardinality(Node), NEW k \in 1..Len(p),
         seen = SubSeq(p, 1, k - 1), pos = p[k]
  PROVE  seen' = SubSeq(p, 1, k)
<1>1. Len(p) \in Nat /\ Cardinality(Node) \in Nat
  BY KListAssumption, FS_CardinalityType
<1>2. Len(seen) = k - 1
  BY <1>1
<1>3. ~(Len(seen) > Cardinality(Node))
  BY <1>1, <1>2
<1>4. seen' = Append(SubSeq(p, 1, k - 1), p[k])
  BY <1>3 DEF Visit
<1>5. Append(SubSeq(p, 1, k - 1), p[k]) = SubSeq(p, 1, k)
  <2> DEFINE a == SubSeq(p, 1, k - 1)
             b == SubSeq(p, 1, k)
  <2>1. a \in Seq(Node) /\ Len(a) = k - 1 /\ \A i \in 1..k - 1 : a[i] = p[i]
    BY <1>1
  <2>2. b \in Seq(Node) /\ Len(b) = k /\ \A i \in 1..k : b[i] = p[i]
    BY <1>1
  <2>3. p[k] \in Node
    OBVIOUS
  <2> HIDE DEF a, b
  <2>4. Append(a, p[k]) \in Seq(Node) /\ Len(Append(a, p[k])) = k
    BY <2>1, <2>3
  <2>5. ASSUME NEW i \in 1..k PROVE Append(a, p[k])[i] = b[i]
    <3>1. i \in 1..k - 1 \/ i = k
      OBVIOUS
    <3> QED
      BY <2>1, <2>2, <2>3, <3>1
  <2>6. Append(a, p[k]) = b
    BY <2>2, <2>4, <2>5
  <2> QED
    BY <2>6 DEF a, b
<1> QED
  BY <1>4, <1>5

(* Where a stop that is a node lies. *)
LEMMA StopNode ==
  ASSUME NEW h \in Heads, NEW e \in {h, Null}, NEW s \in Seq(Node), NEW m \in 1..Len(s) + 1,
         Stop(h, s, e, m) \in Node
  PROVE  m \in 1..Len(s) /\ Stop(h, s, e, m) = s[m]
<1>1. Len(s) \in Nat /\ Stop(h, s, e, Len(s) + 1) = e /\ e \notin Node
  BY StopPlaces, Places
<1>2. m \in 1..Len(s)
  BY <1>1
<1> QED
  BY <1>2, StopPlaces

LEMMA WalkType ==
  ASSUME IInv, UNCHANGED <<hashed, memory, stores, call, touched, lists, former>>,
         owed' = owed, retired' = retired, walk' = walk,
         seen' = seen \/ Visit, pos' = pos \/ pos' = ahead \/ pos' = next[pos],
         ahead' = ahead \/ ahead' = Poison \/ ahead' = next[pos], pos \in Node
  PROVE  TypeOK'
<1>1. TypeOK /\ pos \in Place
  BY Places DEF IInv
<1>2. /\ hashed' = hashed /\ next' = next /\ prev' = prev /\ stores' = stores
      /\ call' = call /\ touched' = touched /\ lists' = lists /\ former' = former
  BY DEF memory
<1>3. seen' \in Seq(Node)
  <2>1. seen \in Seq(Node)
    BY <1>1 DEF TypeOK
  <2>2. Append(seen, pos) \in Seq(Node)
    BY <2>1
  <2>3. seen' = seen \/ seen' = Append(seen, pos)
    BY DEF Visit
  <2> QED
    BY <2>1, <2>2, <2>3
<1>4. pos' \in Pointer /\ ahead' \in Pointer
  BY <1>1, Places DEF TypeOK
<1> QED
  BY <1>1, <1>2, <1>3, <1>4 DEF TypeOK

LEMMA WalkSteps ==
  ASSUME IInv, WalkStep
  PROVE  IInv'
<1> DEFINE e == End(ListHead)
<1>1. /\ walk \in {"handler", "reader"} /\ pos \in Node /\ Visit /\ pos' = next[pos]
      /\ UNCHANGED <<hashed, memory, stores, call, touched, lists, former>>
      /\ walk' = walk /\ ahead' = ahead /\ owed' = owed /\ retired' = retired
  BY DEF WalkStep
<1>2. /\ TypeOK /\ CallInv /\ WalkInv /\ WalkVisitsList
      /\ ListHead \in Heads /\ e \in {ListHead, Null}
  BY Ends DEF IInv, Heads
<1>3. TypeOK'
  BY <1>1, WalkType
<1>4. ahead = Poison /\ (Reading' <=> Reading)
  BY <1>1, <1>2 DEF WalkInv, Reading
<1>5. WalkInv'
  BY <1>1, <1>2, <1>4, WalkFrame DEF WalkInv
<1>6. WalkVisitsList'
  <2> SUFFICES ASSUME walk = "handler"
               PROVE  \E s \in Views(ListHead)' :
                        /\ Leads(next', ListHead, s, End(ListHead)')
                        /\ Len(seen') <= Len(s)
                        /\ seen' = SubSeq(s, 1, Len(seen'))
                        /\ pos' = Stop(ListHead, s, End(ListHead)', Len(seen') + 1)
    BY <1>1 DEF WalkVisitsList
  <2>1. PICK s \in Views(ListHead) :
          /\ Leads(next, ListHead, s, e)
          /\ Len(seen) <= Len(s)
          /\ seen = SubSeq(s, 1, Len(seen))
          /\ pos = Stop(ListHead, s, e, Len(seen) + 1)
    BY <1>2 DEF WalkVisitsList
  <2>2. s \in Seq(Node) /\ IsInjective(s) /\ Len(s) \in Nat /\ Len(seen) \in Nat
    BY <1>2, ViewsType DEF TypeOK
  <2> DEFINE k == Len(seen) + 1
  <2>3. k \in 1..Len(s) + 1 /\ k - 1 = Len(seen)
    BY <2>1, <2>2
  <2> HIDE DEF k
  <2>4. k \in 1..Len(s) /\ Stop(ListHead, s, e, k) = s[k] /\ pos = s[k]
    BY <1>1, <1>2, <2>1, <2>2, <2>3, StopNode DEF k
  <2>5. seen' = SubSeq(s, 1, k)
    <3>1. Len(s) <= Cardinality(Node)
      <4>1. Cardinality(Node) \in Nat
        BY KListAssumption, FS_CardinalityType
      <4> QED
        BY <2>2, <4>1, PathIs DEF Path, SeqOf
    <3>2. seen = SubSeq(s, 1, k - 1)
      BY <2>1, <2>3
    <3> QED
      BY <1>1, <2>2, <2>4, <3>1, <3>2, VisitNext
  <2>6. Len(seen') = k
    BY <2>2, <2>4, <2>5
  <2>7. pos' = Stop(ListHead, s, e, k + 1)
    <3>1. k \in 0..Len(s)
      BY <2>4
    <3> QED
      BY <1>1, <2>1, <2>4, <3>1 DEF Leads
  <2>8. k <= Len(s)
    BY <2>2, <2>4
  <2> QED
    BY <1>1, <2>1, <2>5, <2>6, <2>7, <2>8, WalkFrame
<1>7. ReaderInv'
  <2> SUFFICES ASSUME Reading PROVE ReaderInv'
    BY <1>4 DEF ReaderInv
  <2>1. PICK p \in Path, v \in Views(ListHead) :
          \E m \in 1..Len(p) + 1, j \in 1..Len(v) + 1 :
            /\ p \in Seq(Node) /\ IsInjective(p) /\ v \in Seq(Node)
            /\ Len(p) <= Cardinality(Node)
            /\ Leads(next, ListHead, v, e) /\ MetOnce(owed, p)
            /\ Way(next, retired, p, m, v, j, e) /\ AtStop(p, m)
    BY ReaderNow
  <2>2. PICK m \in 1..Len(p) + 1, j \in 1..Len(v) + 1 :
            /\ p \in Seq(Node) /\ IsInjective(p) /\ v \in Seq(Node)
            /\ Len(p) <= Cardinality(Node)
            /\ Leads(next, ListHead, v, e) /\ MetOnce(owed, p)
            /\ Way(next, retired, p, m, v, j, e) /\ AtStop(p, m)
    BY <2>1
  <2>3. seen = SubSeq(p, 1, m - 1) /\ pos = Stop(ListHead, p, e, m)
    BY <1>4, <2>2 DEF AtStop
  <2>4. m \in 1..Len(p) /\ pos = p[m]
    BY <1>1, <1>2, <2>2, <2>3, StopNode
  <2>5. PICK k \in 1..Len(v) + 1 :
          next[p[m]] = Stop(ListHead, p, e, m + 1) /\ Way(next, retired, p, m + 1, v, k, e)
    BY <1>2, <2>2, <2>4, Advance
  <2>6. seen' = SubSeq(p, 1, m)
    BY <1>1, <2>2, <2>3, <2>4, VisitNext
  <2>7. m + 1 \in 1..Len(p) + 1 /\ (m + 1) - 1 = m
    BY <2>2, <2>4
  <2>8. AtStop(p, m + 1)'
    <3>1. End(ListHead)' = e
      BY <1>1, WalkFrame
    <3> QED
      BY <1>1, <1>4, <2>4, <2>5, <2>6, <2>7, <3>1 DEF AtStop
  <2> QED
    BY <1>1, <2>1, <2>2, <2>5, <2>7, <2>8, ReaderThen
<1> QED
  BY <1>1, <1>3, <1>5, <1>6, <1>7, WalkFrame DEF IInv

LEMMA SafePeeks ==
  ASSUME IInv, SafePeek
  PROVE  IInv'
<1> DEFINE e == End(ListHead)
<1>1. /\ walk = "safe" /\ pos \in Node /\ ahead = Poison /\ ahead' = next[pos]
      /\ UNCHANGED <<hashed, memory, stores, call, touched, lists, former>>
      /\ walk' = walk /\ pos' = pos /\ seen' = seen /\ owed' = owed /\ retired' = retired
  BY DEF SafePeek
<1>2. /\ TypeOK /\ CallInv /\ WalkInv
      /\ ListHead \in Heads /\ e \in {ListHead, Null}
  BY Ends DEF IInv, Heads
<1>3. TypeOK'
  BY <1>1, WalkType
<1>4. Reading' /\ Reading
  BY <1>1 DEF Reading
<1>5. WalkInv'
  BY <1>1, <1>2, <1>4, WalkFrame DEF WalkInv
<1>6. WalkVisitsList'
  BY <1>1 DEF WalkVisitsList
<1>7. ReaderInv'
  <2>1. PICK p \in Path, v \in Views(ListHead) :
          \E m \in 1..Len(p) + 1, j \in 1..Len(v) + 1 :
            /\ p \in Seq(Node) /\ IsInjective(p) /\ v \in Seq(Node)
            /\ Len(p) <= Cardinality(Node)
            /\ Leads(next, ListHead, v, e) /\ MetOnce(owed, p)
            /\ Way(next, retired, p, m, v, j, e) /\ AtStop(p, m)
    BY <1>4, ReaderNow
  <2>2. PICK m \in 1..Len(p) + 1, j \in 1..Len(v) + 1 :
            /\ p \in Seq(Node) /\ IsInjective(p) /\ v \in Seq(Node)
            /\ Len(p) <= Cardinality(Node)
            /\ Leads(next, ListHead, v, e) /\ MetOnce(owed, p)
            /\ Way(next, retired, p, m, v, j, e) /\ AtStop(p, m)
    BY <2>1
  <2>3. seen = SubSeq(p, 1, m - 1) /\ pos = Stop(ListHead, p, e, m)
    BY <1>1, <2>2 DEF AtStop
  <2>4. m \in 1..Len(p) /\ pos = p[m]
    BY <1>1, <1>2, <2>2, <2>3, StopNode
  <2>5. PICK k \in 1..Len(v) + 1 :
          next[p[m]] = Stop(ListHead, p, e, m + 1) /\ Way(next, retired, p, m + 1, v, k, e)
    BY <1>2, <2>2, <2>4, Advance
  <2>6. /\ m + 1 \in 1..Len(p) + 1 /\ m + 1 > 1 /\ (m + 1) - 1 = m /\ (m + 1) - 2 = m - 1
        /\ m + 1 \in 0..Len(p) + 1
    BY <2>2, <2>4
  <2>7. ahead' # Poison
    <3>1. Stop(ListHead, p, e, m + 1) \in {ListHead, Null} \cup Range(p)
      BY <1>2, <2>2, <2>6, StopNear
    <3>2. Range(p) \subseteq Node
      BY <2>2, ListedAt
    <3> QED
      BY <1>1, <1>2, <2>4, <2>5, <3>1, <3>2, Places
  <2>8. AtStop(p, m + 1)'
    <3>1. End(ListHead)' = e
      BY <1>1, WalkFrame
    <3> QED
      BY <1>1, <2>3, <2>4, <2>5, <2>6, <2>7, <3>1 DEF AtStop
  <2> QED
    BY <1>1, <1>4, <2>1, <2>2, <2>5, <2>6, <2>8, ReaderThen
<1> QED
  BY <1>1, <1>3, <1>5, <1>6, <1>7, WalkFrame DEF IInv

LEMMA SafeSteps ==
  ASSUME IInv, SafeStep
  PROVE  IInv'
<1> DEFINE e == End(ListHead)
<1>1. /\ ahead # Poison /\ Visit /\ pos' = ahead /\ ahead' = Poison
      /\ UNCHANGED <<hashed, memory, stores, call, touched, lists, former>>
      /\ walk' = walk /\ owed' = owed /\ retired' = retired
  BY DEF SafeStep
<1>2. TypeOK /\ CallInv /\ WalkInv
  BY DEF IInv
<1>3. walk = "safe" /\ Reading' /\ Reading
  BY <1>1, <1>2 DEF WalkInv, Reading
<1>4. WalkInv'
  BY <1>1, <1>2, <1>3, WalkFrame DEF WalkInv
<1>5. WalkVisitsList'
  BY <1>1, <1>3 DEF WalkVisitsList
<1>6. PICK p \in Path, v \in Views(ListHead) :
          \E m \in 1..Len(p) + 1, j \in 1..Len(v) + 1 :
            /\ p \in Seq(Node) /\ IsInjective(p) /\ v \in Seq(Node)
            /\ Len(p) <= Cardinality(Node)
            /\ Leads(next, ListHead, v, e) /\ MetOnce(owed, p)
            /\ Way(next, retired, p, m, v, j, e) /\ AtStop(p, m)
  BY <1>3, ReaderNow
<1>7. PICK m \in 1..Len(p) + 1, j \in 1..Len(v) + 1 :
            /\ p \in Seq(Node) /\ IsInjective(p) /\ v \in Seq(Node)
            /\ Len(p) <= Cardinality(Node)
            /\ Leads(next, ListHead, v, e) /\ MetOnce(owed, p)
            /\ Way(next, retired, p, m, v, j, e) /\ AtStop(p, m)
  BY <1>6
<1>8. /\ m > 1 /\ seen = SubSeq(p, 1, m - 2) /\ pos = p[m - 1]
      /\ ahead = Stop(ListHead, p, e, m)
  BY <1>1, <1>7 DEF AtStop
<1>9. m - 1 \in 1..Len(p) /\ (m - 1) - 1 = m - 2
  BY <1>7, <1>8
<1>10. TypeOK'
  <2>1. pos \in Node
    BY <1>7, <1>8, <1>9
  <2> QED
    BY <1>1, <2>1, WalkType
<1>11. seen' = SubSeq(p, 1, m - 1)
  BY <1>1, <1>7, <1>8, <1>9, VisitNext
<1>12. AtStop(p, m)'
  <2>1. End(ListHead)' = e
    BY <1>1, WalkFrame
  <2> QED
    BY <1>1, <1>8, <1>11, <2>1 DEF AtStop
<1>13. ReaderInv'
  BY <1>1, <1>3, <1>6, <1>7, <1>12, ReaderThen
<1> QED
  BY <1>1, <1>4, <1>5, <1>10, <1>13, WalkFrame DEF IInv

LEMMA WalkEnded ==
  ASSUME IInv, WalkEnd
  PROVE  IInv'
<1>1. /\ pos = End(ListHead) /\ walk' = "none" /\ pos' = ListHead /\ seen' = <<>>
      /\ owed' = {} /\ retired' = {} /\ ahead' = ahead
      /\ UNCHANGED <<hashed, memory, stores, call, touched, lists, former>>
      /\ hashed' = hashed /\ next' = next /\ prev' = prev /\ stores' = stores
      /\ call' = call /\ touched' = touched /\ lists' = lists /\ former' = former
  BY DEF WalkEnd, memory
<1>2. /\ TypeOK /\ WalkInv /\ ListHead \in Heads /\ ListHead \in Pointer
  BY Places DEF IInv, Heads
<1>3. TypeOK'
  BY <1>1, <1>2 DEF TypeOK
<1>4. ahead = Poison
  <2> SUFFICES ASSUME ahead # Poison PROVE FALSE
    OBVIOUS
  <2>1. Reading
    BY <1>2 DEF WalkInv, Reading
  <2>2. PICK p \in Path, v \in Views(ListHead) :
          \E m \in 1..Len(p) + 1, j \in 1..Len(v) + 1 : p \in Seq(Node) /\ AtStop(p, m)
    BY <2>1, ReaderNow
  <2>3. PICK m \in 1..Len(p) + 1 : p \in Seq(Node) /\ AtStop(p, m)
    BY <2>2
  <2>4. m > 1 /\ pos = p[m - 1]
    BY <2>3 DEF AtStop
  <2>5. m - 1 \in 1..Len(p)
    BY <2>3, <2>4
  <2>6. pos \in Node
    BY <2>3, <2>4, <2>5
  <2> QED
    BY <1>1, <1>2, <2>6, Ends, Places
<1>5. ~Reading'
  BY <1>1 DEF Reading
<1>6. WalkInv' /\ WalkVisitsList' /\ ReaderInv'
  BY <1>1, <1>4, <1>5 DEF WalkInv, WalkVisitsList, ReaderInv
<1> QED
  BY <1>1, <1>3, <1>6, WalkFrame DEF IInv
-----------------------------------------------------------------------------
LEMMA InitHolds ==
  ASSUME Init
  PROVE  IInv
<1>1. /\ hashed \in BOOLEAN /\ stores = <<>> /\ call = "none" /\ touched = {}
      /\ lists = [h \in Heads |-> <<>>] /\ former = lists /\ walk = "none"
      /\ pos = ListHead /\ ahead = Poison /\ seen = <<>> /\ owed = {} /\ retired = {}
      /\ next = [p \in Place |-> IF p \in Node THEN Poison ELSE IF hashed THEN Null ELSE p]
      /\ prev = [p \in Place |-> IF p \in Node THEN Poison ELSE IF hashed THEN Null ELSE p]
  BY DEF Init
<1>2. next \in [Place -> Pointer] /\ prev \in [Place -> Pointer]
  BY <1>1, Places
<1>3. \A h \in Heads : lists[h] = <<>> /\ next[h] = End(h) /\ prev[h] = End(h)
  BY <1>1, Places DEF End
<1>4. <<>> \in Seq(Node) /\ IsInjective(<<>>) /\ Range(<<>>) = {} /\ Len(<<>>) = 0
  BY DEF IsInjective, Range
<1>5. TypeOK
  <2>1. lists \in [Heads -> Seq(Node)] /\ former \in [Heads -> Seq(Node)]
    BY <1>1, <1>4
  <2>2. Range(lists[ListHead]) \cap Range(lists[OtherHead]) = {}
    BY <1>3, <1>4 DEF Heads
  <2>3. stores \in Seq([field : {"next", "prev"}, at : Place, value : Pointer])
    BY <1>1
  <2>4. pos \in Pointer /\ ahead \in Pointer
    BY <1>1, Places DEF Heads
  <2> QED
    BY <1>1, <1>2, <1>3, <1>4, <2>1, <2>2, <2>3, <2>4 DEF TypeOK
<1>6. CallInv
  BY <1>1, <1>3, <1>4 DEF CallInv, OneStays, Heads
<1>7. \A h \in Heads : Leads(next, h, <<>>, End(h)) /\ Backs(prev, h, <<>>, End(h))
  <2> SUFFICES ASSUME NEW h \in Heads
               PROVE  Leads(next, h, <<>>, End(h)) /\ Backs(prev, h, <<>>, End(h))
    OBVIOUS
  <2>1. Stop(h, <<>>, End(h), 0) = h /\ Stop(h, <<>>, End(h), 0 + 1) = End(h)
    BY <1>4 DEF Stop
  <2>2. \A i \in 0..Len(<<>>) : i = 0
    BY <1>4
  <2>3. End(h) # Null => End(h) = h /\ prev[h] = h
    BY <1>3, Ends
  <2> QED
    BY <1>3, <2>1, <2>2, <2>3 DEF Leads, Backs
<1>8. PlanInv
  <2> SUFFICES ASSUME NEW h \in Heads
               PROVE  /\ \E V \in [0..Len(stores) -> Views(h)] : Course(h, V)
                      /\ Backs(Written("prev", prev, stores, Len(stores)), h, lists[h], End(h))
    BY DEF PlanInv
  <2>1. Len(stores) = 0 /\ 0 \in 0..0 /\ \A k \in 0..0 : k = 0
    BY <1>1
  <2>2. Written("next", next, stores, 0) = next /\ Written("prev", prev, stores, 0) = prev
    BY <1>2, WrittenNone
  <2>3. PICK V \in [0..0 -> Views(h)] : V[0] = <<>>
    <3> DEFINE W == [k \in 0..0 |-> lists[h]]
    <3>1. W \in [0..0 -> Views(h)] /\ W[0] = lists[h]
      BY DEF Views
    <3> HIDE DEF W
    <3> QED
      BY <1>3, <3>1
  <2>4. Course(h, V)
    BY <1>3, <1>7, <2>1, <2>2, <2>3 DEF Course
  <2> QED
    BY <1>3, <1>7, <2>1, <2>2, <2>3, <2>4
<1>9. CarefulInv /\ RcuInv
  BY <1>1 DEF CarefulInv, RcuInv
<1>10. WalkInv /\ WalkVisitsList /\ ReaderInv
  BY <1>1 DEF WalkInv, WalkVisitsList, ReaderInv, Reading
<1> QED
  BY <1>5, <1>6, <1>8, <1>9, <1>10 DEF IInv

LEMMA StutterKeeps ==
  ASSUME IInv, UNCHANGED vars
  PROVE  IInv'
<1>1. /\ hashed' = hashed /\ next' = next /\ prev' = prev /\ stores' = stores
      /\ call' = call /\ touched' = touched /\ lists' = lists /\ former' = former
      /\ walk' = walk /\ pos' = pos /\ ahead' = ahead /\ seen' = seen
      /\ owed' = owed /\ retired' = retired
      /\ UNCHANGED <<hashed, memory, stores, call, touched, lists, former>>
  BY DEF vars, memory, walker
<1>2. (Reading' <=> Reading) /\ Linked' = Linked /\ Views(ListHead)' = Views(ListHead)
      /\ End(ListHead)' = End(ListHead)
  BY <1>1, WalkFrame DEF Reading
<1>3. TypeOK'
  BY <1>1 DEF IInv, TypeOK
<1>4. WalkInv'
  BY <1>1, <1>2 DEF IInv, WalkInv
<1>5. WalkVisitsList'
  BY <1>1, <1>2 DEF IInv, WalkVisitsList
<1>6. ReaderInv'
  <2> SUFFICES ASSUME Reading PROVE ReaderInv'
    BY <1>2 DEF ReaderInv
  <2>1. PICK p \in Path, v \in Views(ListHead) :
          \E m \in 1..Len(p) + 1, j \in 1..Len(v) + 1 :
            /\ v \in Seq(Node) /\ Leads(next, ListHead, v, End(ListHead)) /\ MetOnce(owed, p)
            /\ Way(next, retired, p, m, v, j, End(ListHead)) /\ AtStop(p, m)
    BY ReaderNow
  <2>2. PICK m \in 1..Len(p) + 1, j \in 1..Len(v) + 1 :
            /\ v \in Seq(Node) /\ Leads(next, ListHead, v, End(ListHead)) /\ MetOnce(owed, p)
            /\ Way(next, retired, p, m, v, j, End(ListHead)) /\ AtStop(p, m)
    BY <2>1
  <2>3. AtStop(p, m)'
    BY <1>1, <1>2, <2>2 DEF AtStop
  <2> QED
    BY <1>1, <2>1, <2>2, <2>3, ReaderThen
<1> QED
  BY <1>1, <1>3, <1>4, <1>5, <1>6, WalkFrame DEF IInv

LEMMA NextKeeps ==
  ASSUME IInv, [Next]_vars
  PROVE  IInv'
<1>1. CASE ListCall
  BY <1>1, ListCallKeeps
<1>2. CASE list_splice_init
  BY <1>2, SpliceKeeps
<1>3. CASE HlistCall
  BY <1>3, HlistCallKeeps
<1>4. CASE Store
  BY <1>4, StoreKeeps
<1>5. CASE HandlerBegin
  BY <1>5, HandlerBegins
<1>6. CASE ReaderBegin
  BY <1>6, ReaderBegins
<1>7. CASE WalkStep
  BY <1>7, WalkSteps
<1>8. CASE SafePeek
  BY <1>8, SafePeeks
<1>9. CASE SafeStep
  BY <1>9, SafeSteps
<1>10. CASE WalkEnd
  BY <1>10, WalkEnded
<1>11. CASE UNCHANGED vars
  BY <1>11, StutterKeeps
<1> QED
  BY <1>1, <1>2, <1>3, <1>4, <1>5, <1>6, <1>7, <1>8, <1>9, <1>10, <1>11 DEF Next

(* However the calls, their stores and a walk interleave, for any number of *)
(* nodes: what IInv says of the pointers, of the stores still to come and   *)
(* of the walk holds.                                                       *)
THEOREM Invariant == Spec => []IInv
<1>1. Init => IInv
  BY InitHolds
<1>2. IInv /\ [Next]_vars => IInv'
  BY NextKeeps
<1> QED
  BY <1>1, <1>2, PTL DEF Spec

(* The handler that interrupts list_add_tail() or list_del() at any store   *)
(* visits the nodes of one list in their order, misses none and never meets *)
(* poison.                                                                  *)
THEOREM HandlerWalks == Spec => []WalkVisitsList
<1>1. IInv => WalkVisitsList
  BY DEF IInv
<1> QED
  BY <1>1, Invariant, PTL

(* Whoever walks the list meanwhile with __list_for_each_rcu() or           *)
(* list_for_each_safe_rcu(), the two walks that only load, meets no poison  *)
(* and no node twice, and every node once that stayed on the list.          *)
THEOREM ReadersAreSafe == Spec => []ReaderSound
<1>1. ASSUME IInv PROVE ReaderSound
  <2> SUFFICES ASSUME Reading
               PROVE  /\ pos \in Node \cup {End(ListHead)}
                      /\ IsInjective(seen)
                      /\ pos = End(ListHead) =>
                           \A S \in owed : Cardinality(S \cap Range(seen)) = 1
    BY DEF ReaderSound
  <2> DEFINE e == End(ListHead)
  <2>1. ListHead \in Heads /\ e \in {ListHead, Null} /\ e \notin Node
    BY Ends, Places DEF Heads
  <2>2. PICK p \in Path, v \in Views(ListHead) : \E m \in 1..Len(p) + 1 :
          /\ p \in Seq(Node) /\ IsInjective(p) /\ MetOnce(owed, p) /\ AtStop(p, m)
    BY <1>1, ReaderNow
  <2>3. PICK m \in 1..Len(p) + 1 :
          /\ p \in Seq(Node) /\ IsInjective(p) /\ MetOnce(owed, p) /\ AtStop(p, m)
    BY <2>2
  <2>4. Len(p) \in Nat /\ DOMAIN p = 1..Len(p)
    BY <2>3
  <2>5. ASSUME NEW k \in 0..Len(p)
        PROVE  IsInjective(SubSeq(p, 1, k)) /\ (k = Len(p) => SubSeq(p, 1, k) = p)
    <3> DEFINE s == SubSeq(p, 1, k)
    <3>1. s \in Seq(Node) /\ Len(s) = k /\ DOMAIN s = 1..k /\ \A i \in 1..k : s[i] = p[i]
      BY <2>3
    <3>2. \A i \in 1..k : i \in DOMAIN p
      BY <2>4
    <3> HIDE DEF s
    <3>3. IsInjective(s)
      BY <2>3, <3>1, <3>2 DEF IsInjective
    <3>4. ASSUME k = Len(p) PROVE s = p
      BY <2>3, <2>4, <3>1, <3>4
    <3> QED
      BY <3>3, <3>4 DEF s
  <2>6. CASE ahead = Poison
    <3>1. seen = SubSeq(p, 1, m - 1) /\ pos = Stop(ListHead, p, e, m)
      BY <2>3, <2>6 DEF AtStop
    <3>2. m - 1 \in 0..Len(p) /\ (m \in 1..Len(p) \/ m = Len(p) + 1)
      BY <2>4
    <3>3. IsInjective(seen)
      BY <2>5, <3>1, <3>2
    <3>4. CASE m \in 1..Len(p)
      <4>1. pos \in Node
        BY <2>1, <2>3, <3>1, <3>4, StopPlaces
      <4> QED
        BY <2>1, <3>3, <4>1
    <3>5. CASE m = Len(p) + 1
      <4>1. pos = e
        BY <2>1, <2>3, <3>1, <3>5, StopPlaces
      <4>2. seen = p
        <5>1. m - 1 = Len(p) /\ Len(p) \in 0..Len(p)
          BY <2>4, <3>5
        <5>2. SubSeq(p, 1, Len(p)) = p
          BY <2>5, <5>1
        <5> QED
          BY <3>1, <5>1, <5>2
      <4>3. ASSUME NEW S \in owed PROVE Cardinality(S \cap Range(seen)) = 1
        <5>1. PICK n \in Node : S \cap Range(p) = {n}
          BY <2>3 DEF MetOnce
        <5> QED
          BY <4>2, <5>1, FS_Singleton
      <4> QED
        BY <3>3, <4>1, <4>3
    <3> QED
      BY <3>2, <3>4, <3>5
  <2>7. CASE ahead # Poison
    <3>1. m > 1 /\ seen = SubSeq(p, 1, m - 2) /\ pos = p[m - 1]
      BY <2>3, <2>7 DEF AtStop
    <3>2. m - 2 \in 0..Len(p) /\ m - 1 \in 1..Len(p)
      BY <2>4, <3>1
    <3>3. IsInjective(seen)
      BY <2>5, <3>1, <3>2
    <3>4. pos \in Node
      BY <2>3, <3>1, <3>2
    <3> QED
      BY <2>1, <3>3, <3>4
  <2> QED
    BY <2>6, <2>7
<1> QED
  BY <1>1, Invariant, PTL

(* At any time the forward pointers of each list lead along the list before *)
(* the call in progress, the one after it, or for a moved node the list     *)
(* without it.                                                              *)
THEOREM ListsAreAsAsked == Spec => []ListAsAsked
<1>1. ASSUME IInv PROVE ListAsAsked
  <2> SUFFICES ASSUME NEW h \in Heads
               PROVE  /\ \E s \in Views(h) : Leads(next, h, s, End(h))
                      /\ stores = <<>> => Leads(next, h, lists[h], End(h))
    BY DEF ListAsAsked
  <2>1. PICK V \in [0..Len(stores) -> Views(h)] :
          Leads(next, h, V[0], End(h)) /\ Len(stores) \in Nat
    BY <1>1, NowLeads
  <2>2. 0 \in 0..Len(stores)
    BY <2>1
  <2>3. stores = <<>> => Leads(next, h, lists[h], End(h))
    BY <1>1, IdleLeads DEF IInv
  <2> QED
    BY <2>1, <2>2, <2>3
<1> QED
  BY <1>1, Invariant, PTL

(* Between calls the backward pointers give the same lists. *)
THEOREM PointersAgree == Spec => []BackwardAgrees
<1>1. ASSUME IInv PROVE BackwardAgrees
  BY <1>1, IdleLeads DEF IInv, BackwardAgrees
<1> QED
  BY <1>1, Invariant, PTL

(* list_empty_careful() of an entry that list_del_init() is taking off is   *)
(* false until the call is done.                                            *)
THEOREM EmptyIsDone == Spec => []CarefulMeansDone
<1>1. ASSUME IInv PROVE CarefulMeansDone
  <2> SUFFICES ASSUME NEW n \in touched \ Linked, ~hashed, list_empty_careful(n)
               PROVE  FALSE
    BY DEF CarefulMeansDone
  <2>1. TypeOK /\ CallInv /\ CarefulInv
    BY <1>1 DEF IInv
  <2>2. stores # <<>>
    BY <2>1 DEF CallInv
  <2>3. 0 \in 0..Len(stores) - 1
    BY <2>1, <2>2 DEF TypeOK
  <2>4. Written("prev", prev, stores, 0) = prev
    BY <2>1, WrittenNone DEF TypeOK
  <2>5. prev[n] # n
    BY <2>1, <2>3, <2>4 DEF CarefulInv
  <2> QED
    BY <2>5 DEF list_empty_careful
<1> QED
  BY <1>1, Invariant, PTL
-----------------------------------------------------------------------------
(* Each step changes the list as AtomicList says. *)

CurrentLeads ==
  Current \in Seq(Node) /\ Leads(next, ListHead, Current, End(ListHead))

LEMMA CurrentIs == IInv => CurrentLeads
<1> SUFFICES ASSUME IInv PROVE CurrentLeads
  OBVIOUS
<1>1. ListHead \in Heads /\ TypeOK /\ CallInv
  BY DEF Heads, IInv
<1>2. PICK V \in [0..Len(stores) -> Views(ListHead)] :
        Leads(next, ListHead, V[0], End(ListHead)) /\ Len(stores) \in Nat
  BY <1>1, NowLeads
<1>3. V[0] \in Views(ListHead)
  BY <1>2
<1>4. Current \in Views(ListHead) /\ Leads(next, ListHead, Current, End(ListHead))
  BY <1>2, <1>3 DEF Current
<1>5. Current \in Seq(Node)
  BY <1>1, <1>4, ViewsType
<1> QED
  BY <1>4, <1>5 DEF CurrentLeads

(* Only one list can be the current one. *)
LEMMA CurrentOne ==
  ASSUME CurrentLeads, NEW s \in Seq(Node), Leads(next, ListHead, s, End(ListHead))
  PROVE  Current = s
<1>1. ListHead \in Heads /\ End(ListHead) \in {ListHead, Null}
  BY Ends DEF Heads
<1> QED
  BY <1>1, LeadsOne DEF CurrentLeads

LEMMA CurrentThen ==
  ASSUME CurrentLeads', hashed' = hashed,
         NEW s \in Seq(Node), Leads(next', ListHead, s, End(ListHead))
  PROVE  Current' = s
<1> DEFINE c == Current'
           mem == next'
           e == End(ListHead)
<1>1. ListHead \in Heads /\ e \in {ListHead, Null} /\ End(ListHead)' = e
  BY Ends DEF Heads, End
<1>2. c \in Seq(Node) /\ Leads(mem, ListHead, c, e) /\ Leads(mem, ListHead, s, e)
  BY <1>1 DEF CurrentLeads
<1> HIDE DEF c, mem, e
<1>3. c = s
  BY <1>1, <1>2, LeadsOne
<1> QED
  BY <1>3 DEF c

LEMMA InsertLast ==
  ASSUME NEW s \in Seq(Node), NEW n \in Node
  PROVE  InsertAt(s, Len(s) + 1, n) = Append(s, n)
<1> DEFINE t == InsertAt(s, Len(s) + 1, n)
<1>1. Len(s) \in Nat /\ Len(s) + 1 \in 1..Len(s) + 1
  OBVIOUS
<1>2. /\ t \in Seq(Node) /\ Len(t) = Len(s) + 1
      /\ \A k \in 1..Len(s) + 1 : t[k] = IF k < Len(s) + 1 THEN s[k]
                                       ELSE IF k = Len(s) + 1 THEN n ELSE s[k - 1]
  BY <1>1, InsertAtElements, SMTT(30)
<1> HIDE DEF t
<1>3. Append(s, n) \in Seq(Node) /\ Len(Append(s, n)) = Len(s) + 1
  OBVIOUS
<1>4. ASSUME NEW k \in 1..Len(s) + 1 PROVE t[k] = Append(s, n)[k]
  <2>1. k \in 1..Len(s) \/ k = Len(s) + 1
    BY <1>1
  <2> QED
    BY <1>1, <1>2, <2>1
<1>5. t = Append(s, n)
  BY <1>2, <1>3, <1>4
<1> QED
  BY <1>5 DEF t

LEMMA StepIsAtomic ==
  ASSUME NEW v \in Seq(Node), Current = v, OneStep(v, Current', touched, Linked, call),
         Linked \subseteq Node
  PROVE  [Atomic!Next]_Current
<1>0. DOMAIN v = 1..Len(v) /\ Len(v) \in Nat
  OBVIOUS
<1>1. CASE Current' = v
  BY <1>1
<1>2. ASSUME NEW n \in Linked \ Range(v), NEW i \in 1..Len(v) + 1,
             Current' = InsertAt(v, i, n)
      PROVE  Atomic!Next
  <2>1. n \in Node /\ Atomic!New(n)
    BY DEF Atomic!New, Atomic!Range, Range
  <2>2. CASE i \in 1..Len(v)
    <3>1. Atomic!AddNextTo(n)
      BY <1>0, <1>2, <2>1, <2>2 DEF Atomic!AddNextTo, Atomic!InsertAt, InsertAt
    <3> QED
      BY <2>1, <3>1 DEF Atomic!Next
  <2>3. CASE i = Len(v) + 1
    <3>1. Atomic!AddTail(n)
      BY <1>2, <2>1, <2>3, InsertLast DEF Atomic!AddTail
    <3> QED
      BY <2>1, <3>1 DEF Atomic!Next
  <2> QED
    BY <1>0, <2>2, <2>3
<1>3. ASSUME NEW i \in 1..Len(v), Current' = RemoveAt(v, i)
      PROVE  Atomic!Next
  <2>1. Atomic!RemoveAt(v, i) = RemoveAt(v, i)
    BY DEF Atomic!RemoveAt, RemoveAt
  <2>2. v[i] \in Node
    OBVIOUS
  <2>3. Atomic!Del(v[i])
    BY <1>0, <1>3, <2>1 DEF Atomic!Del
  <2> QED
    BY <2>2, <2>3 DEF Atomic!Next
<1>4. ASSUME NEW n \in Linked \ Range(v), NEW i \in 1..Len(v), Current' = ReplaceAt(v, i, n)
      PROVE  Atomic!Next
  <2>1. n \in Node /\ v[i] \in Node /\ Atomic!New(n)
    BY DEF Atomic!New, Atomic!Range, Range
  <2>2. Atomic!Replace(v[i], n)
    BY <1>0, <1>4, <2>1 DEF Atomic!Replace, Atomic!ReplaceAt, ReplaceAt
  <2> QED
    BY <2>1, <2>2 DEF Atomic!Next
<1> QED
  BY <1>1, <1>2, <1>3, <1>4 DEF OneStep

LEMMA JoinEnd ==
  ASSUME NEW t \in Seq(Node), NEW s \in Seq(Node)
  PROVE  SubSeq(t \o s, Len(t) + 1, Len(t \o s)) = s
<1> DEFINE u == t \o s
<1>1. /\ Len(t) \in Nat /\ Len(s) \in Nat /\ u \in Seq(Node) /\ Len(u) = Len(t) + Len(s)
      /\ \A k \in 1..Len(s) : u[Len(t) + k] = s[k]
  OBVIOUS
<1> HIDE DEF u
<1> DEFINE r == SubSeq(u, Len(t) + 1, Len(u))
<1>2. r = [k \in 1..Len(s) |-> u[Len(t) + k]]
  <2>1. (Len(u) - (Len(t) + 1)) + 1 = Len(s) /\ \A k \in 1..Len(s) : (Len(t) + 1 + k) - 1 = Len(t) + k
    BY <1>1
  <2>2. r \in Seq(Node) /\ Len(r) = Len(s)
    BY <1>1
  <2>3. \A k \in 1..Len(s) : r[k] = u[Len(t) + k]
    BY <1>1, <2>1
  <2> HIDE DEF r
  <2> QED
    BY <2>2, <2>3
<1>3. s = [k \in 1..Len(s) |-> s[k]]
  OBVIOUS
<1>4. r = s
  BY <1>1, <1>2, <1>3
<1> QED
  BY <1>4 DEF u

(* The whole other list comes to the front in one step. *)
LEMMA SpliceIsAtomic ==
  ASSUME IInv, list_splice_init, CurrentLeads, CurrentLeads'
  PROVE  Atomic!Next
<1> DEFINE s == lists[ListHead]
           t == lists[OtherHead]
<1>1. /\ stores = <<>> /\ ~hashed /\ hashed' = hashed /\ next[OtherHead] # OtherHead
      /\ lists' = [lists EXCEPT ![ListHead] = lists[OtherHead] \o @, ![OtherHead] = <<>>]
  BY DEF list_splice_init, MayCall, list_empty
<1>2. ListHead \in Heads /\ OtherHead \in Heads /\ ListHead # OtherHead
  BY KListAssumption DEF Heads
<1>3. /\ s \in Seq(Node) /\ t \in Seq(Node) /\ TypeOK
      /\ Leads(next, ListHead, s, End(ListHead))
  BY <1>1, <1>2, IdleStart
<1>4. Current = s
  BY <1>3, CurrentOne
<1>5. Current' = t \o s
  <2>1. lists'[ListHead] = t \o s /\ t \o s \in Seq(Node)
    BY <1>1, <1>2, <1>3 DEF TypeOK
  <2>2. End(ListHead) = ListHead
    BY <1>1 DEF End
  <2>3. Leads(next', ListHead, t \o s, End(ListHead))
    BY <1>2, <2>1, <2>2, SpliceLeads
  <2> HIDE DEF s, t
  <2> QED
    BY <1>1, <2>1, <2>3, CurrentThen
<1>6. Len(t) \in Nat /\ Len(t) # 0 /\ Len(s) \in Nat
  <2>1. Len(t) \in Nat /\ next[OtherHead] = Stop(OtherHead, t, OtherHead, 1)
        /\ Stop(OtherHead, t, OtherHead, Len(t) + 1) = OtherHead
    BY <1>1, <1>2, FirstAndLast
  <2>2. Len(t) + 1 # 1
    BY <1>1, <2>1
  <2> QED
    BY <1>3, <2>1, <2>2
<1>7. Len(t \o s) = Len(t) + Len(s)
  BY <1>3
<1> HIDE DEF s, t
<1>8. Len(t) + 1 \in 2..Len(t \o s) + 1
  BY <1>6, <1>7
<1>9. s = SubSeq(t \o s, Len(t) + 1, Len(t \o s))
  BY <1>3, JoinEnd
<1>10. Atomic!Splice
  BY <1>4, <1>5, <1>8, <1>9 DEF Atomic!Splice
<1> QED
  BY <1>10 DEF Atomic!Next

(* No other step but a store changes a pointer.                             *)
LEMMA QuietSteps ==
  ASSUME [Next]_vars
  PROVE  Store \/ list_splice_init \/ (next' = next /\ hashed' = hashed)
<1>1. CASE ListCall
  <2>1. PICK n \in Node :
       \/ \E h \in Heads :
            \/ list_add(n, h) \/ list_add_tail(n, h)
            \/ list_add_rcu(n, h) \/ list_add_tail_rcu(n, h)
            \/ list_move(n, h) \/ list_move_tail(n, h)
       \/ list_del(n) \/ list_del_rcu(n) \/ list_del_init(n)
       \/ \E old \in Node : list_replace_rcu(old, n)
    BY <1>1 DEF ListCall
  <2>2. \E kind, st, nodes, result : Call(kind, st, nodes, result)
    BY <2>1 DEF list_add, list_add_tail, list_add_rcu, list_add_tail_rcu, list_move,
                list_move_tail, list_del, list_del_rcu, list_del_init, list_replace_rcu,
                Add, Del, Replace
  <2> QED
    BY <2>2 DEF Call, memory
<1>2. CASE HlistCall
  <2>1. PICK n \in Node :
       \/ hlist_add_head(n) \/ hlist_add_head_rcu(n)
       \/ hlist_del(n) \/ hlist_del_rcu(n) \/ hlist_del_init(n)
       \/ \E m \in Node :
            \/ hlist_add_before(n, m) \/ hlist_add_before_rcu(n, m)
            \/ hlist_add_after(n, m) \/ hlist_add_after_rcu(n, m)
            \/ hlist_replace_rcu(n, m)
    BY <1>2 DEF HlistCall
  <2>2. \E kind, st, nodes, result : Call(kind, st, nodes, result)
    BY <2>1 DEF hlist_add_head, hlist_add_head_rcu, hlist_add_before, hlist_add_before_rcu,
                hlist_add_after, hlist_add_after_rcu, hlist_del, hlist_del_rcu,
                hlist_del_init, hlist_replace_rcu, Add, Del, Replace
  <2> QED
    BY <2>2 DEF Call, memory
<1>3. CASE HandlerBegin \/ ReaderBegin
  BY <1>3 DEF HandlerBegin, ReaderBegin, WalkBegin, memory
<1>4. CASE WalkStep \/ SafePeek \/ SafeStep \/ WalkEnd
  BY <1>4 DEF WalkStep, SafePeek, SafeStep, WalkEnd, memory
<1>5. CASE UNCHANGED vars
  BY <1>5 DEF vars, memory
<1> QED
  BY <1>1, <1>2, <1>3, <1>4, <1>5 DEF Next

LEMMA StepsAreAtomic ==
  ASSUME IInv, IInv', CurrentLeads, CurrentLeads', [Next]_vars
  PROVE  [Atomic!Next]_Current
<1>1. ListHead \in Heads /\ TypeOK /\ CallInv
  BY DEF Heads, IInv
<1>2. CASE list_splice_init
  BY <1>2, SpliceIsAtomic
<1>3. CASE Store
  <2> DEFINE v == Current
  <2>1. v \in Seq(Node) /\ Leads(next, ListHead, v, End(ListHead))
    BY DEF CurrentLeads
  <2>2. v \in Views(ListHead)
    <3>1. PICK V \in [0..Len(stores) -> Views(ListHead)] :
            /\ Leads(next, ListHead, V[0], End(ListHead)) /\ Len(stores) \in Nat
            /\ \A k \in 0..Len(stores) : V[k] \in Seq(Node)
      BY <1>1, NowLeads
    <3>2. 0 \in 0..Len(stores)
      BY <3>1
    <3>3. v = V[0]
      BY <3>1, <3>2, CurrentOne
    <3> QED
      BY <3>1, <3>2, <3>3
  <2> HIDE DEF v
  <2>3. PICK w \in Seq(Node) : Leads(next', ListHead, w, End(ListHead))
                                /\ OneStep(v, w, touched, Linked, call)
    BY <1>3, <2>1, <2>2, StoreLeads
  <2>4. Current' = w
    <3>1. hashed' = hashed
      BY <1>3 DEF Store
    <3> QED
      BY <2>3, <3>1, CurrentThen
  <2>5. Linked \subseteq Node
    BY <1>1, ListedAt DEF Linked, TypeOK
  <2>6. Current = v
    BY DEF v
  <2> QED
    BY <2>1, <2>3, <2>4, <2>5, <2>6, StepIsAtomic
<1>4. CASE next' = next /\ hashed' = hashed
  <2>1. Current' = Current
    <3> DEFINE v == Current
    <3>1. v \in Seq(Node) /\ Leads(next', ListHead, v, End(ListHead))
      BY <1>4 DEF CurrentLeads
    <3> HIDE DEF v
    <3>2. Current' = v
      BY <1>4, <3>1, CurrentThen
    <3> QED
      BY <3>2 DEF v
  <2> QED
    BY <2>1
<1> QED
  BY <1>2, <1>3, <1>4, QuietSteps

LEMMA StartsAtomic ==
  ASSUME Init, CurrentLeads
  PROVE  Atomic!Init
<1>1. /\ ListHead \in Heads /\ IInv /\ stores = <<>> /\ lists[ListHead] = <<>>
  BY InitHolds DEF Heads, Init
<1>2. Leads(next, ListHead, <<>>, End(ListHead)) /\ <<>> \in Seq(Node)
  BY <1>1, IdleStart
<1>3. Current = <<>>
  BY <1>2, CurrentOne
<1> QED
  BY <1>3 DEF Atomic!Init

(* To a walk the list changes in one step at a time, by a node that comes,  *)
(* goes or is replaced or by a whole list put in front: stores in between,  *)
(* in whatever order klist.h does them, change nothing that can be seen.    *)
(* That is the list that Loader uses.                                       *)
THEOREM Implements == Spec => ActsAtomically
<1>1. Init => IInv
  BY InitHolds
<1>2. IInv /\ [Next]_vars => IInv'
  BY NextKeeps
<1>3. IInv => CurrentLeads
  BY CurrentIs
<1>4. Init /\ CurrentLeads => Atomic!Init
  BY StartsAtomic
<1>5. IInv /\ IInv' /\ CurrentLeads /\ CurrentLeads' /\ [Next]_vars => [Atomic!Next]_Current
  BY StepsAreAtomic
<1> QED
  BY <1>1, <1>2, <1>3, <1>4, <1>5, PTL DEF Spec, ActsAtomically, Atomic!Spec
=============================================================================
