----------------------------- MODULE KListCalls -----------------------------
(***************************************************************************)
(* The calls of klist.h as the stores they perform, in the order of the    *)
(* source.  A pointer to a struct list_head or hlist_node is the node it   *)
(* is in; pprev of an hlist_node, which points to the pointer that points  *)
(* to it, is the node or head that holds that pointer, and first of an     *)
(* hlist_head is its "next".  What a call reads before it stores are the   *)
(* parameters before, after, first and last.                               *)
(***************************************************************************)
EXTENDS Naturals, SequencesExt

CONSTANTS
  Node,           \* what can be on a list
  ListHead,       \* the head of the list that is walked (jpl_g_children)
  OtherHead,      \* the head of a second list
  Poison,         \* LIST_POISON1, LIST_POISON2, or memory never written
  Null            \* NULL

Heads == {ListHead, OtherHead}

ASSUME KListAssumption ==
  /\ IsFiniteSet(Node)
  /\ ListHead # OtherHead /\ Node \cap Heads = {}
  /\ Poison # Null /\ {Poison, Null} \cap (Node \cup Heads) = {}

Place == Node \cup Heads
Pointer == Place \cup {Poison, Null}

(* Storing value in a field of the struct at a place. *)
Assign(field, at, value) == [field |-> field, at |-> at, value |-> value]

(* A store that is only done if the node is not NULL. *)
IfNode(p, store) == IF p = Null THEN <<>> ELSE <<store>>

(* "field" of all places once the first k stores were done: what the last   *)
(* of them to a place has left there.                                      *)
Written(field, mem, stores, k) ==
  [p \in Place |->
    LET hits == {i \in 1..k : stores[i].field = field /\ stores[i].at = p}
    IN  IF hits = {} THEN mem[p] ELSE stores[Max(hits)].value]
-----------------------------------------------------------------------------
(* struct list_head *)

(* INIT_LIST_HEAD() *)
InitStores(list) == << Assign("next", list, list), Assign("prev", list, list) >>

(* Mutant: the node is made reachable before its own pointers are set. *)
AddStoresEarlyLink(new, before, after) ==
  << Assign("next", before, new), Assign("prev", after, new),
     Assign("next", new, after), Assign("prev", new, before) >>

(* __list_add() *)
AddStores(new, before, after) ==
  << Assign("prev", after, new), Assign("next", new, after),
     Assign("prev", new, before), Assign("next", before, new) >>

(* __list_add_rcu() *)
AddRcuStores(new, before, after) ==
  << Assign("next", new, after), Assign("prev", new, before),
     Assign("prev", after, new), Assign("next", before, new) >>

(* __list_del() *)
UnlinkStores(before, after) ==
  << Assign("prev", after, before), Assign("next", before, after) >>

(* Mutant: the entry is poisoned first, and its neighbours are then looked  *)
(* up in it.                                                                *)
DelStoresPoisonFirst(entry, before, after) ==
  << Assign("next", entry, Poison), Assign("prev", entry, Poison),
     Assign("prev", Poison, Poison), Assign("next", Poison, Poison) >>

(* Mutant: the backward pointer of the next entry is left alone. *)
DelStoresForwardOnly(entry, before, after) ==
  << Assign("next", before, after),
     Assign("next", entry, Poison), Assign("prev", entry, Poison) >>

(* Mutant: the entry is made a list of its own before it is taken off. *)
DelStoresInitFirst(entry, before, after) ==
  InitStores(entry) \o UnlinkStores(before, after)

(* list_del() *)
DelStores(entry, before, after) ==
  UnlinkStores(before, after)
    \o << Assign("next", entry, Poison), Assign("prev", entry, Poison) >>

(* Mutant: the forward pointer is poisoned, too. *)
DelRcuStoresPoisonNext(entry, before, after) == DelStores(entry, before, after)

(* list_del_rcu() *)
DelRcuStores(entry, before, after) ==
  UnlinkStores(before, after) \o << Assign("prev", entry, Poison) >>

(* Mutant: the old entry is taken off before the new one is put in. *)
ReplaceRcuStoresInTurn(old, new, before, after) ==
  UnlinkStores(before, after) \o AddRcuStores(new, before, after)
    \o << Assign("prev", old, Poison) >>

(* list_replace_rcu() *)
ReplaceRcuStores(old, new, before, after) ==
  << Assign("next", new, after), Assign("prev", new, before),
     Assign("prev", after, new), Assign("next", before, new),
     Assign("prev", old, Poison) >>

(* list_del_init() *)
DelInitStores(entry, before, after) ==
  UnlinkStores(before, after) \o InitStores(entry)

(* __list_splice(): first to last come after head, before "at". *)
SpliceStores(head, first, last, at) ==
  << Assign("prev", first, head), Assign("next", head, first),
     Assign("next", last, at), Assign("prev", at, last) >>
-----------------------------------------------------------------------------
(* struct hlist_head and hlist_node *)

(* __hlist_del() *)
HUnlinkStores(before, after) ==
  << Assign("next", before, after) >>
    \o IfNode(after, Assign("prev", after, before))

(* hlist_del() *)
HDelStores(n, before, after) ==
  HUnlinkStores(before, after)
    \o << Assign("next", n, Poison), Assign("prev", n, Poison) >>

(* hlist_del_rcu() *)
HDelRcuStores(n, before, after) ==
  HUnlinkStores(before, after) \o << Assign("prev", n, Poison) >>

(* hlist_del_init(), INIT_HLIST_NODE() *)
HDelInitStores(n, before, after) ==
  HUnlinkStores(before, after)
    \o << Assign("next", n, Null), Assign("prev", n, Null) >>

(* hlist_replace_rcu() *)
HReplaceRcuStores(old, new, before, after) ==
  << Assign("next", new, after), Assign("prev", new, before) >>
    \o IfNode(after, Assign("prev", after, new))
    \o << Assign("next", before, new), Assign("prev", old, Poison) >>

(* hlist_add_head() *)
HAddHeadStores(n, head, first) ==
  << Assign("next", n, first) >>
    \o IfNode(first, Assign("prev", first, n))
    \o << Assign("next", head, n), Assign("prev", n, head) >>

(* hlist_add_head_rcu() *)
HAddHeadRcuStores(n, head, first) ==
  << Assign("next", n, first), Assign("prev", n, head) >>
    \o IfNode(first, Assign("prev", first, n))
    \o << Assign("next", head, n) >>

(* hlist_add_before(), and hlist_add_before_rcu(), whose stores are the    *)
(* same.                                                                   *)
HAddBeforeStores(n, before, succ) ==
  << Assign("prev", n, before), Assign("next", n, succ),
     Assign("prev", succ, n), Assign("next", before, n) >>

(* hlist_add_after(): succ comes after n. *)
HAddAfterStores(n, succ, after) ==
  << Assign("next", succ, after), Assign("next", n, succ), Assign("prev", succ, n) >>
    \o IfNode(after, Assign("prev", after, succ))

(* hlist_add_after_rcu() *)
HAddAfterRcuStores(before, n, after) ==
  << Assign("next", n, after), Assign("prev", n, before), Assign("next", before, n) >>
    \o IfNode(after, Assign("prev", after, n))
=============================================================================
