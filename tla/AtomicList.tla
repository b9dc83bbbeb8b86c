----------------------------- MODULE AtomicList -----------------------------
(***************************************************************************)
(* A list that changes in one step at a time.  Loader uses AddTail and     *)
(* Del.                                                                    *)
(***************************************************************************)
EXTENDS Naturals, SequencesExt

CONSTANT Node         \* the structs that can be on the list

VARIABLE list         \* the nodes on the list, first to last

Init == list = <<>>

New(n) == n \in Node \ Range(list)

AddHead(n) == New(n) /\ list' = <<n>> \o list

AddTail(n) == New(n) /\ list' = Append(list, n)

AddNextTo(n) ==
  New(n) /\ \E i \in DOMAIN list : list' = InsertAt(list, i, n)

Del(n) == \E i \in DOMAIN list : list[i] = n /\ list' = RemoveAt(list, i)

Replace(old, n) ==
  New(n) /\ \E i \in DOMAIN list : list[i] = old /\ list' = ReplaceAt(list, i, n)

(* The nodes of another list come to the front. *)
Splice == \E k \in 2..Len(list') + 1 : list = SubSeq(list', k, Len(list'))

Next ==
  \/ \E n \in Node : \/ AddHead(n) \/ AddTail(n) \/ AddNextTo(n) \/ Del(n)
                     \/ \E old \in Node : Replace(old, n)
  \/ Splice

Spec == Init /\ [][Next]_list
=============================================================================
