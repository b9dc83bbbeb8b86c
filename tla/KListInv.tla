------------------------------ MODULE KListInv ------------------------------
(***************************************************************************)
(* What holds of KList between any two of its steps, strong enough that    *)
(* every step keeps it.                                                    *)
(***************************************************************************)
EXTENDS KList

(* Of the nodes that a call touches one at most is on a list after it.      *)
OneStays(nodes, linked) == \A m, n \in nodes \cap linked : m = n

(* What the call in progress is about is known from its begin to its end.   *)
CallInv ==
  /\ stores = <<>> => touched = {} /\ former = lists
  /\ call = "none" <=> stores = <<>>
  /\ \A h \in Heads : IsInjective(former[h])
  /\ hashed => lists[OtherHead] = <<>>
  /\ OneStays(touched, Linked)

(* One store makes v of the list w: one node comes, or goes, or takes the   *)
(* place of another.  In an _rcu call the one that goes has left for good.  *)
OneStep(v, w, nodes, linked, kind) ==
  \/ w = v
  \/ \E n \in linked \ Range(v), i \in 1..Len(v) + 1 :
       nodes = {n} /\ w = InsertAt(v, i, n)
  \/ \E i \in 1..Len(v) :
       /\ nodes = {v[i]} /\ w = RemoveAt(v, i)
       /\ kind = "rcu" => v[i] \notin linked
  \/ \E n \in linked \ Range(v), i \in 1..Len(v) :
       nodes = {v[i], n} /\ v[i] \notin linked /\ w = ReplaceAt(v, i, n)

(* V tells what the list of h is after each of the stores still to come.    *)
Course(h, V) ==
  /\ \A k \in 0..Len(stores) :
       Leads(Written("next", next, stores, k), h, V[k], End(h))
  /\ V[Len(stores)] = lists[h]
  /\ \A k \in 1..Len(stores) : OneStep(V[k - 1], V[k], touched, Linked, call)

(* There is such a course to the list the call is to make, and when it is   *)
(* there the backward pointers agree.                                       *)
PlanInv ==
  \A h \in Heads :
    /\ \E V \in [0..Len(stores) -> Views(h)] : Course(h, V)
    /\ Backs(Written("prev", prev, stores, Len(stores)), h, lists[h], End(h))

(* The last store of a call that takes an entry off is the one that writes  *)
(* its backward pointer.                                                    *)
CarefulInv ==
  \A n \in touched \ Linked, k \in 0..Len(stores) - 1 :
    Written("prev", prev, stores, k)[n] # n

(* An _rcu call does not write the forward pointer of what it took off.     *)
RcuInv ==
  call = "rcu" =>
    \A i \in DOMAIN stores :
      stores[i].field = "next" => stores[i].at \in Heads \cup Linked

(* What a walk keeps besides its position. *)
WalkInv ==
  /\ walk = "none" => seen = <<>>
  /\ ahead # Poison => walk = "safe"
  /\ ~Reading => owed = {} /\ retired = {}
  /\ Reading =>
       /\ call # "plain"
       /\ Linked \cap retired = {}
       /\ touched \ Linked \subseteq retired
       /\ \A S \in owed :
            /\ S \subseteq Linked \cup retired
            /\ S \cap touched # {} => touched \subseteq S /\ \A n \in Node : touched # {n}

(* What a walk can visit: each node once at most. *)
Path == {p \in SeqOf(Node, Cardinality(Node)) : IsInjective(p)}

(* A reader is at m of a path p that it will go to the end if nothing more  *)
(* changes.  From j on the list v lies before it.  What else it has still   *)
(* to visit was taken off and leads to there.  Of each set that is owed one *)
(* node is on the path.                                                     *)
OnPath(p, m, v, j) ==
  /\ Leads(next, ListHead, v, End(ListHead))
  /\ Range(p) \subseteq Range(v) \cup retired
  /\ m <= j + Len(p) - Len(v)
  /\ \A k \in j..Len(v) : p[k + Len(p) - Len(v)] = v[k]
  /\ \A k \in m..j + Len(p) - Len(v) - 1 :
       p[k] \in retired /\ next[p[k]] = Stop(ListHead, p, End(ListHead), k + 1)
  /\ \A S \in owed : \E n \in Node : S \cap Range(p) = {n}

(* Where the loop variables of the reader then are. *)
AtStop(p, m) ==
  IF ahead = Poison
  THEN seen = SubSeq(p, 1, m - 1) /\ pos = Stop(ListHead, p, End(ListHead), m)
  ELSE /\ m > 1 /\ seen = SubSeq(p, 1, m - 2) /\ pos = p[m - 1]
       /\ ahead = Stop(ListHead, p, End(ListHead), m)

ReaderInv ==
  Reading =>
    \E p \in Path, v \in Views(ListHead) :
      \E m \in 1..Len(p) + 1, j \in 1..Len(v) + 1 :
        OnPath(p, m, v, j) /\ AtStop(p, m)

(* All of it.  No step of a call, of the store it is at, or of a walk can   *)
(* be known to keep the properties of KList without the others.             *)
IInv ==
  /\ TypeOK
  /\ CallInv
  /\ PlanInv
  /\ CarefulInv
  /\ RcuInv
  /\ WalkInv
  /\ WalkVisitsList
  /\ ReaderInv
=============================================================================
