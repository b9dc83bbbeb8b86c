-------------------------------- MODULE KList --------------------------------
(***************************************************************************)
(* The two lists of klist.h, struct list_head and struct hlist_head, at    *)
(* the level of single stores.  One thread, the writer, runs the calls; a  *)
(* walk over the list of ListHead is in progress or not, and is of one of  *)
(* two kinds:                                                              *)
(*   - the handler: SIGCHLD makes the thread itself run jpl_child_find()   *)
(*     between any two stores, and the thread stands still until it is     *)
(*     over.  This is what loader.c does, with list_add_tail() and         *)
(*     list_del();                                                         *)
(*   - a reader: another thread, whose loads come between the stores of    *)
(*     the _rcu calls, which do not reuse what they took off before the    *)
(*     walk is over (rcu_read_lock()).  Nothing in the repository makes    *)
(*     such a walk; klist.h offers them.                                   *)
(*                                                                         *)
(* The stores happen in the order in which klist.h writes them.  Nothing   *)
(* in klist.h (no barrier, no volatile) makes a compiler keep it; gcc does *)
(* at -O0, -O1 and -O2.  The readers are those of __list_for_each_rcu()    *)
(* and list_for_each_safe_rcu(), which only load.  The other walks, and    *)
(* all those over an hlist that are meant for another thread, call         *)
(* prefetch(), which klist.h:41 defines as x = x: at -O0 they store what   *)
(* they loaded back into the node, which a handler may do and another      *)
(* thread may not.  Nothing is said about them as readers.                 *)
(***************************************************************************)
EXTENDS KListCalls

VARIABLES
  hashed,         \* the list of ListHead is an hlist
  next, prev,     \* the two pointers of every node (first of an hlist_head is next)
  stores,         \* what remains to store of the call in progress
  call,           \* "none", or whether that call is a "plain" or an "rcu" one
  touched,        \* the nodes that call puts on a list or takes off one
  lists, former,  \* the nodes of each list as the calls say, and before the last
  walk,           \* "none", "handler", "reader", or "safe": a reader that has
                  \* read the next node before it is done with one
  pos, ahead,     \* its loop counter and that next node
  seen,           \* the nodes it has visited, in order
  owed,           \* a reader's due: of each of these sets it visits one node
  retired         \* what was taken off since that reader began

memory == <<next, prev>>
walker == <<walk, pos, ahead, seen>>
vars == <<hashed, memory, stores, call, touched, lists, former, walker, owed, retired>>

TypeOK ==
  /\ hashed \in BOOLEAN
  /\ next \in [Place -> Pointer]
  /\ prev \in [Place -> Pointer]
  /\ stores \in Seq([field : {"next", "prev"}, at : Place, value : Pointer])
  /\ call \in {"none", "plain", "rcu"}
  /\ touched \subseteq Node
  /\ lists \in [Heads -> Seq(Node)]
  /\ \A h \in Heads : IsInjective(lists[h])
  /\ Range(lists[ListHead]) \cap Range(lists[OtherHead]) = {}
  /\ former \in [Heads -> Seq(Node)]
  /\ walk \in {"none", "handler", "reader", "safe"}
  /\ pos \in Pointer
  /\ ahead \in Pointer
  /\ seen \in Seq(Node)
  /\ owed \subseteq SUBSET Node
  /\ retired \subseteq Node

(* INIT_LIST_HEAD() or INIT_HLIST_HEAD() has run; no node was written yet.  *)
(* An hlist has no second list.                                            *)
Init ==
  /\ hashed \in BOOLEAN
  /\ next = [p \in Place |-> IF p \in Node THEN Poison
                             ELSE IF hashed THEN Null ELSE p]
  /\ prev = [p \in Place |-> IF p \in Node THEN Poison
                             ELSE IF hashed THEN Null ELSE p]
  /\ stores = <<>>
  /\ call = "none"
  /\ touched = {}
  /\ lists = [h \in Heads |-> <<>>]
  /\ former = lists
  /\ walk = "none"
  /\ pos = ListHead
  /\ ahead = Poison
  /\ seen = <<>>
  /\ owed = {}
  /\ retired = {}

(* A walk by another thread. *)
Reading == walk \in {"reader", "safe"}

(* Where a walk over the list of a head ends. *)
End(h) == IF hashed THEN Null ELSE h

IndexIn(s, n) == CHOOSE i \in DOMAIN s : s[i] = n

Without(s, n) == IF n \in Range(s) THEN RemoveAt(s, IndexIn(s, n)) ELSE s

Linked == UNION {Range(lists[h]) : h \in Heads}
-----------------------------------------------------------------------------
(* The calls.  Each is given the nodes it touches and the lists as they     *)
(* are when it is done.                                                    *)

(* The writer may make a call of this kind now. *)
MayCall(kind) ==
  /\ stores = <<>>
  /\ walk # "handler"
  /\ Reading => kind = "rcu"

Call(kind, s, nodes, result) ==
  /\ MayCall(kind)
  /\ stores' = s
  /\ call' = kind
  /\ touched' = nodes
  /\ lists' = result
  /\ UNCHANGED <<hashed, memory, former, walker>>

(* "new" may be put on a list: it is on none, and no reader can be on it. *)
Fresh(new) == new \in Node \ (Linked \cup retired)

(* Nothing is owed on account of a node that is taken off; nor may it be   *)
(* reused as long as the reader may be on it.                              *)
Retire(nodes) ==
  /\ owed' = {S \in owed : S \cap nodes = {}}
  /\ retired' = IF Reading THEN retired \cup nodes ELSE {}

Add(kind, s, new, h, i) ==
  /\ Fresh(new)
  /\ Call(kind, s, {new}, [lists EXCEPT ![h] = InsertAt(@, i, new)])
  /\ UNCHANGED <<owed, retired>>

Del(kind, s, entry) ==
  /\ entry \in Linked
  /\ Call(kind, s, {entry}, [h \in Heads |-> Without(lists[h], entry)])
  /\ Retire({entry})

(* Who visits one of the two has had what is owed. *)
Replace(s, old, new) ==
  /\ old \in Linked
  /\ Fresh(new)
  /\ Call("rcu", s, {old, new}, [h \in Heads |-> ReplaceAll(lists[h], old, new)])
  /\ owed' = {IF old \in S THEN S \cup {new} ELSE S : S \in owed}
  /\ retired' = IF Reading THEN retired \cup {old} ELSE {}
-----------------------------------------------------------------------------
(* struct list_head *)

list_add(new, h) == Add("plain", AddStores(new, h, next[h]), new, h, 1)

list_add_tail(new, h) ==
  Add("plain", AddStores(new, prev[h], h), new, h, Len(lists[h]) + 1)

list_add_rcu(new, h) == Add("rcu", AddRcuStores(new, h, next[h]), new, h, 1)

list_add_tail_rcu(new, h) ==
  Add("rcu", AddRcuStores(new, prev[h], h), new, h, Len(lists[h]) + 1)

list_del(entry) == Del("plain", DelStores(entry, prev[entry], next[entry]), entry)

list_del_rcu(entry) == Del("rcu", DelRcuStores(entry, prev[entry], next[entry]), entry)

list_del_init(entry) ==
  Del("plain", DelInitStores(entry, prev[entry], next[entry]), entry)

list_replace_rcu(old, new) ==
  Replace(ReplaceRcuStores(old, new, prev[old], next[old]), old, new)

Moved(entry, h, at) ==
  LET without == [g \in Heads |-> Without(lists[g], entry)]
  IN  [without EXCEPT ![h] = InsertAt(@, IF at = "head" THEN 1 ELSE Len(@) + 1, entry)]

(* The neighbours in the new place are read when the entry is off the old. *)
list_move(entry, h) ==
  /\ entry \in Linked
  /\ LET after == IF next[h] = entry THEN next[entry] ELSE next[h]
     IN  Call("plain", UnlinkStores(prev[entry], next[entry]) \o AddStores(entry, h, after),
              {entry}, Moved(entry, h, "head"))
  /\ UNCHANGED <<owed, retired>>

list_move_tail(entry, h) ==
  /\ entry \in Linked
  /\ LET last == IF prev[h] = entry THEN prev[entry] ELSE prev[h]
     IN  Call("plain", UnlinkStores(prev[entry], next[entry]) \o AddStores(entry, last, h),
              {entry}, Moved(entry, h, "tail"))
  /\ UNCHANGED <<owed, retired>>

list_empty(h) == next[h] = h

(* Mutant: the other pointer is not looked at. *)
list_empty_hasty(h) == next[h] = h

list_empty_careful(h) == next[h] = h /\ next[h] = prev[h]

(* The stores are one step: a walk begun between them would leave the list  *)
(* for the other one and not come back, so none may be (nothing in klist.h *)
(* says that it could).                                                    *)
list_splice_init ==
  /\ ~hashed
  /\ MayCall("plain")
  /\ walk = "none"
  /\ ~list_empty(OtherHead)
  /\ LET s == SpliceStores(ListHead, next[OtherHead], prev[OtherHead], next[ListHead])
                \o InitStores(OtherHead)
     IN  /\ next' = Written("next", next, s, Len(s))
         /\ prev' = Written("prev", prev, s, Len(s))
  /\ lists' = [lists EXCEPT ![ListHead] = lists[OtherHead] \o @, ![OtherHead] = <<>>]
  /\ former' = lists'
  /\ UNCHANGED <<hashed, stores, call, touched, walker, owed, retired>>

ListCall ==
  /\ ~hashed
  /\ \E n \in Node :
       \/ \E h \in Heads :
            \/ list_add(n, h) \/ list_add_tail(n, h)
            \/ list_add_rcu(n, h) \/ list_add_tail_rcu(n, h)
            \/ list_move(n, h) \/ list_move_tail(n, h)
       \/ list_del(n) \/ list_del_rcu(n) \/ list_del_init(n)
       \/ \E old \in Node : list_replace_rcu(old, n)
-----------------------------------------------------------------------------
(* struct hlist_head; n stands where the calls say in the list. *)

IndexOf(n) == IndexIn(lists[ListHead], n)

hlist_add_head(n) ==
  Add("plain", HAddHeadStores(n, ListHead, next[ListHead]), n, ListHead, 1)

hlist_add_head_rcu(n) ==
  Add("rcu", HAddHeadRcuStores(n, ListHead, next[ListHead]), n, ListHead, 1)

hlist_add_before(n, succ) ==
  /\ succ \in Linked
  /\ Add("plain", HAddBeforeStores(n, prev[succ], succ), n, ListHead, IndexOf(succ))

hlist_add_before_rcu(n, succ) ==
  /\ succ \in Linked
  /\ Add("rcu", HAddBeforeStores(n, prev[succ], succ), n, ListHead, IndexOf(succ))

hlist_add_after(n, succ) ==
  /\ n \in Linked
  /\ Add("plain", HAddAfterStores(n, succ, next[n]), succ, ListHead, IndexOf(n) + 1)

hlist_add_after_rcu(pred, n) ==
  /\ pred \in Linked
  /\ Add("rcu", HAddAfterRcuStores(pred, n, next[pred]), n, ListHead, IndexOf(pred) + 1)

hlist_del(n) == Del("plain", HDelStores(n, prev[n], next[n]), n)

hlist_del_rcu(n) == Del("rcu", HDelRcuStores(n, prev[n], next[n]), n)

hlist_unhashed(n) == prev[n] = Null

hlist_del_init(n) ==
  /\ ~hlist_unhashed(n)
  /\ Del("plain", HDelInitStores(n, prev[n], next[n]), n)

hlist_replace_rcu(old, new) ==
  Replace(HReplaceRcuStores(old, new, prev[old], next[old]), old, new)

HlistCall ==
  /\ hashed
  /\ \E n \in Node :
       \/ hlist_add_head(n) \/ hlist_add_head_rcu(n)
       \/ hlist_del(n) \/ hlist_del_rcu(n) \/ hlist_del_init(n)
       \/ \E m \in Node :
            \/ hlist_add_before(n, m) \/ hlist_add_before_rcu(n, m)
            \/ hlist_add_after(n, m) \/ hlist_add_after_rcu(n, m)
            \/ hlist_replace_rcu(n, m)
-----------------------------------------------------------------------------
(* The next store of the call in progress. *)
Store ==
  /\ walk # "handler"
  /\ stores # <<>>
  /\ next' = Written("next", next, stores, 1)
  /\ prev' = Written("prev", prev, stores, 1)
  /\ stores' = Tail(stores)
  /\ IF Len(stores) = 1
     THEN call' = "none" /\ touched' = {} /\ former' = lists
     ELSE UNCHANGED <<call, touched, former>>
  /\ UNCHANGED <<hashed, lists, walker, owed, retired>>

(* list_for_each(), hlist_for_each() begin at the first node. *)
WalkBegin(kind) ==
  /\ walk = "none"
  /\ walk' = kind
  /\ pos' = next[ListHead]
  /\ UNCHANGED <<hashed, memory, stores, call, touched, lists, former, ahead, seen>>

HandlerBegin == WalkBegin("handler") /\ UNCHANGED <<owed, retired>>

(* The reader owes a visit to each node on the list, and one to the two of  *)
(* which one replaces the other just now.                                  *)
ReaderBegin ==
  /\ ~hashed
  /\ call # "plain"
  /\ WalkBegin("reader") \/ WalkBegin("safe")
  /\ LET listed == Range(lists[ListHead])
     IN  owed' = {{n} : n \in listed \ touched}
                   \cup {S \in {touched} : Cardinality(S) = 2 /\ S \cap listed # {}}
  /\ retired' = touched \ Linked

(* Bound: "seen" stops growing when it is longer than any list; a walk that *)
(* long has gone in circles.                                               *)
Visit ==
  seen' = IF Len(seen) > Cardinality(Node) THEN seen ELSE Append(seen, pos)

(* pos = pos->next *)
WalkStep ==
  /\ walk \in {"handler", "reader"}
  /\ pos \in Node
  /\ Visit
  /\ pos' = next[pos]
  /\ UNCHANGED <<hashed, memory, stores, call, touched, lists, former, walk, ahead,
                 owed, retired>>

(* n = pos->next *)
SafePeek ==
  /\ walk = "safe"
  /\ pos \in Node
  /\ ahead = Poison
  /\ ahead' = next[pos]
  /\ UNCHANGED <<hashed, memory, stores, call, touched, lists, former, walk, pos, seen,
                 owed, retired>>

(* pos = n *)
SafeStep ==
  /\ ahead # Poison
  /\ Visit
  /\ pos' = ahead
  /\ ahead' = Poison
  /\ UNCHANGED <<hashed, memory, stores, call, touched, lists, former, walk,
                 owed, retired>>

WalkEnd ==
  /\ walk # "none"
  /\ pos = End(ListHead)
  /\ walk' = "none"
  /\ pos' = ListHead
  /\ seen' = <<>>
  /\ owed' = {}
  /\ retired' = {}
  /\ UNCHANGED <<hashed, memory, stores, call, touched, lists, former, ahead>>

Next ==
  \/ ListCall \/ list_splice_init
  \/ HlistCall
  \/ Store
  \/ HandlerBegin \/ ReaderBegin
  \/ WalkStep \/ SafePeek \/ SafeStep \/ WalkEnd

Spec == Init /\ [][Next]_vars

(* A walk that was begun goes on. *)
FairSpec == Spec /\ WF_vars(WalkStep \/ SafePeek \/ SafeStep \/ WalkEnd)
-----------------------------------------------------------------------------
(* Where a walk over s is after i steps from head h, if it ends at e. *)
Stop(h, s, e, i) == IF i = 0 THEN h ELSE IF i <= Len(s) THEN s[i] ELSE e

(* A walk along these pointers from h visits the nodes of s in order and    *)
(* ends at e.                                                               *)
Leads(mem, h, s, e) ==
  \A i \in 0..Len(s) : mem[Stop(h, s, e, i)] = Stop(h, s, e, i + 1)

(* The backward pointers lead back the same way. *)
Backs(mem, h, s, e) ==
  \A i \in 0..Len(s) :
    Stop(h, s, e, i + 1) # Null => mem[Stop(h, s, e, i + 1)] = Stop(h, s, e, i)

(* What a list may be while a call is in progress: what it was before or    *)
(* what it is to be after it, for a replaced node nothing in between ("will *)
(* be replaced with the new entry atomically", klist.h:238), and for a     *)
(* moved one the list without it.                                          *)
Views(h) == {former[h], lists[h]} \cup {Without(former[h], n) : n \in touched \cap Linked}

(* Wherever the main thread was interrupted, the handler has only visited   *)
(* nodes of the list in their order, each once, and stands on the next of   *)
(* them: it never meets poison or memory not written yet, and when it is    *)
(* over it has missed none.                                                 *)
WalkVisitsList ==
  walk = "handler" =>
    \E s \in Views(ListHead) :
      /\ Leads(next, ListHead, s, End(ListHead))
      /\ Len(seen) <= Len(s)
      /\ seen = SubSeq(s, 1, Len(seen))
      /\ pos = Stop(ListHead, s, End(ListHead), Len(seen) + 1)

(* klist.h:537 says that list_for_each_safe_rcu() "may safely run           *)
(* concurrently with the _rcu list-mutation primitives"; so may             *)
(* __list_for_each_rcu(), the other walk that only loads.  Such a reader    *)
(* never meets poison or a node twice, and has, when it is over, visited    *)
(* every node that was on the list from its begin to its end once, and one  *)
(* of the two where one was replaced.                                       *)
ReaderSound ==
  Reading =>
    /\ pos \in Node \cup {End(ListHead)}
    /\ IsInjective(seen)
    /\ pos = End(ListHead) => \A S \in owed : Cardinality(S \cap Range(seen)) = 1

(* At any time each list is one of its views; between calls it is what the  *)
(* calls say.                                                               *)
ListAsAsked ==
  \A h \in Heads :
    /\ \E s \in Views(h) : Leads(next, h, s, End(h))
    /\ stores = <<>> => Leads(next, h, lists[h], End(h))

(* Between calls the backward pointers give the same lists: that is where   *)
(* the next call finds the neighbours it must change.                       *)
BackwardAgrees == stores = <<>> => \A h \in Heads : Backs(prev, h, lists[h], End(h))

(* klist.h:295: list_empty_careful() "checks that no other CPU might be in  *)
(* the process of still modifying either member": whoever finds an entry    *)
(* empty that is being taken off with list_del_init() finds the call done.  *)
CarefulMeansDone ==
  \A n \in touched \ Linked : ~hashed => ~list_empty_careful(n)

(* Every walk comes to an end, however the list was left and whatever is    *)
(* added to it meanwhile.                                                   *)
WalkEnds == walk # "none" ~> walk = "none"

(* The list as a walk finds it now. *)
Current ==
  IF \E s \in Views(ListHead) : Leads(next, ListHead, s, End(ListHead))
  THEN CHOOSE s \in Views(ListHead) : Leads(next, ListHead, s, End(ListHead))
  ELSE <<Poison>>

Atomic == INSTANCE AtomicList WITH list <- Current

(* The list changes in one store at a time, by one node that comes, goes or *)
(* is replaced, or by a whole list put in front: the atomic list that       *)
(* Loader uses.                                                             *)
ActsAtomically == Atomic!Spec
=============================================================================
