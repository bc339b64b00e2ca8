------------------------------ MODULE Masstree ------------------------------
(***************************************************************************)
(* One layer of the Masstree index (masstree/*.hh, masstree_btree.h): the  *)
(* linked leaves below one internode, lock-free readers, and writers that  *)
(* lock a leaf, insert into it or remove from it, split it or delete it.   *)
(*                                                                         *)
(* Readers validate with a leaf's version.  An insertion or a removal does *)
(* not change the version: only a switch between inserting and removing    *)
(* does (modstate_), a split, and a deletion.  The permutation publishes   *)
(* keys and hides them, and free slots keep the keys they last held.  A    *)
(* transaction protects what a search missed, and the ranges it scanned,   *)
(* with the leaf's version and size.                                       *)
(*                                                                         *)
(* Keys are one slice long, so that there are no suffixes and no further   *)
(* layers, and a key's value is the key.  The internode (width 15) never   *)
(* fills up.  Leaves are not reused: freeing them is module Rcu's.         *)
(***************************************************************************)
EXTENDS Integers, Sequences, FiniteSets, SequencesExt

CONSTANTS
  Width,      \* leaf::width (15 in the code)
  MaxKey,
  InitKeys,   \* the keys inserted first, in that order
  Writers,
  Scripts,    \* what the writers may do: each a function from Writers to
              \* sequences of insertions and removals
  Getters,    \* each runs one search
  Scanners,   \* each runs one scan of the whole range
  MaxLeaves   \* bound: leaves ever allocated

Keys == 1..MaxKey
Slots == 0..(Width - 1)
Leaves == 1..MaxLeaves
Threads == Writers \cup Getters \cup Scanners
null == 0
first == 1                      \* the leaf of basic_table::initialize

ASSUME MasstreeAssumption ==
  /\ Width \in 2..15
  /\ MaxKey \in Nat \ {0}
  /\ MaxLeaves \in Nat \ {0}
  /\ InitKeys \in Seq(Keys) /\ Len(InitKeys) <= Width /\ IsInjective(InitKeys)
  /\ \A f \in Scripts : \A t \in Writers : f[t] \in Seq({"insert", "remove"} \X Keys)

VARIABLES
  leaf,     \* per leaf: its slots, permutation, links, version and lock
  inner,    \* the internode: its keys and children, version and lock
  nleaves,  \* leaves allocated so far
  th,       \* per thread: the operation it is in
  todo,     \* per writer: the operations left of its script
  present   \* the keys the permutations publish: what the index contains

vars == <<leaf, inner, nleaves, th, todo, present>>

-----------------------------------------------------------------------------
(* kpermuter: all the slots, those in use first and in key order.  s[i + 1] *)
(* is the element at position i.                                            *)

Descending(hi, lo) == [i \in 1..(hi - lo + 1) |-> hi - i + 1]

make_sorted(n) == [s |-> [i \in 1..n |-> i - 1] \o Descending(Width - 1, n), n |-> n]

back(perm) == perm.s[Width]

insert_from_back(perm, i) ==
  [s |-> SubSeq(perm.s, 1, i) \o <<back(perm)>> \o SubSeq(perm.s, i + 1, Width - 1),
   n |-> perm.n + 1]

\* Mutant: the removed slot is not rotated to the free ones.
removeUnrotated(perm, i) ==
  [s |-> SubSeq(perm.s, 1, i) \o SubSeq(perm.s, i + 2, perm.n) \o SubSeq(perm.s, perm.n, Width),
   n |-> perm.n - 1]

remove(perm, i) ==
  [s |-> SubSeq(perm.s, 1, i) \o SubSeq(perm.s, i + 2, perm.n)
           \o <<perm.s[i + 1]>> \o SubSeq(perm.s, perm.n + 1, Width),
   n |-> perm.n - 1]

remove_to_back(perm, i) ==
  [s |-> SubSeq(perm.s, 1, i) \o SubSeq(perm.s, i + 2, Width) \o <<perm.s[i + 1]>>,
   n |-> perm.n - 1]

exchange(perm, i, j) ==
  [perm EXCEPT !.s = [@ EXCEPT ![i + 1] = perm.s[j + 1], ![j + 1] = perm.s[i + 1]]]

\* operator[] at position -1 reads the nibble that holds the size.
At(perm, i) == IF i < 0 THEN perm.n ELSE perm.s[i + 1]

-----------------------------------------------------------------------------
(* nodeversion: the two counters and the flags.  has_changed ignores the    *)
(* lock bit, which is the owner lk of the leaf.                             *)

Dirty(v) == v.ins \/ v.spl

has_split(v, w) == v.vs # w.vs \/ v.del # w.del \/ v.root # w.root

has_changed(n, v) == leaf[n].ver # v

\* nodeversion::unlock on the version.
Unlocked(v) ==
  IF v.spl
    THEN [v EXCEPT !.vs = @ + 1, !.vi = 0, !.ins = FALSE, !.spl = FALSE, !.root = FALSE]
    ELSE [v EXCEPT !.vi = @ + (IF v.ins THEN 1 ELSE 0), !.ins = FALSE]

FirstVersion == [vi |-> 0, vs |-> 0, ins |-> FALSE, spl |-> FALSE, del |-> FALSE, root |-> TRUE]

\* full_version_value: the version and the size.  The top four bits, the
\* root and deleted bits among them, are shifted out.
FullVersion(v, locked, size) == <<v.vi, v.vs, v.ins, v.spl, locked, size>>

FullVersionOf(n) == FullVersion(leaf[n].ver, leaf[n].lk # null, leaf[n].perm.n)

-----------------------------------------------------------------------------
(* Leaves.                                                                  *)

size(n) == leaf[n].perm.n

ikey_bound(n) == leaf[n].key[0]

\* The position where k is or belongs, seen through a permutation.
Lower(l, perm, k) == Cardinality({i \in 1..perm.n : l.key[perm.s[i]] < k})

\* The slot of k, or -1.
SlotOf(l, perm, k) ==
  LET at == {i \in 1..perm.n : l.key[perm.s[i]] = k}
  IN  IF at = {} THEN -1 ELSE perm.s[CHOOSE i \in at : TRUE]

\* leaf::assign
Assign(l, slot, k) == [l EXCEPT !.key[slot] = k, !.lv[slot] = null]

NewLeaf ==
  [key |-> [s \in Slots |-> null], lv |-> [s \in Slots |-> null], perm |-> make_sorted(0),
   next |-> null, mark |-> FALSE, prev |-> null, ver |-> FirstVersion, lk |-> null,
   mod |-> "insert"]

\* The first leaf after the insertions of InitKeys.
InitLeaf ==
  LET n == Len(InitKeys)
      order == SortSeq([i \in 1..n |-> i - 1], LAMBDA a, b : InitKeys[a + 1] < InitKeys[b + 1])
      keys == [s \in Slots |-> IF s < n THEN InitKeys[s + 1] ELSE null]
  IN  [NewLeaf EXCEPT !.key = keys, !.lv = keys,
                      !.perm = [s |-> order \o Descending(Width - 1, n), n |-> n]]

\* stable_last_key_compare > 0
PastLastKey(k, l) == k > l.key[At(l.perm, l.perm.n - 1)]

-----------------------------------------------------------------------------
(* The internode: leaf 1 and the children with the keys that lead to them.  *)

\* internode::bound_type::upper
Upper(k) == Cardinality({i \in DOMAIN inner.kids : inner.kids[i].key <= k})

\* child_[upper]
Child(k) == IF Upper(k) = 0 THEN first ELSE inner.kids[Upper(k)].n

Idle == [pc |-> "idle", op |-> "none", k |-> 0, n |-> null, v |-> FirstVersion, lk |-> FALSE,
         perm |-> make_sorted(0), p |-> -1, lv |-> null, pv |-> 0, i |-> 0, nr |-> null,
         resp |-> FALSE, out |-> {}, nodes |-> {}, always |-> {}, ever |-> {}]

Init ==
  /\ leaf = [n \in Leaves |-> IF n = first THEN InitLeaf ELSE NewLeaf]
  /\ inner = [exists |-> FALSE, kids |-> <<>>, vi |-> 0, ins |-> FALSE, lk |-> null]
  /\ nleaves = 1
  /\ th = [t \in Threads |-> Idle]
  /\ todo \in Scripts
  /\ present = Range(InitKeys)

-----------------------------------------------------------------------------
(* Small steps on a thread's record, and the start of an operation.         *)

At_(t, pc) == th[t].pc = pc

Goto(t, pc) == th' = [th EXCEPT ![t].pc = pc]

\* Only the thread's own record changes.
Local == UNCHANGED <<leaf, inner, nleaves, todo, present>>

Begin(t, op, k) ==
  /\ At_(t, "idle")
  /\ th' = [th EXCEPT ![t] = [Idle EXCEPT !.pc = "root", !.op = op, !.k = k,
                                          !.always = present, !.ever = present]]
  /\ UNCHANGED <<leaf, inner, nleaves, present>>

\* mbtree::search
StartGet(t) == t \in Getters /\ (\E k \in Keys : Begin(t, "get", k)) /\ UNCHANGED todo

\* mbtree::search_range_call from the empty key, without an upper bound.
StartScan(t) == t \in Scanners /\ Begin(t, "scan", 0) /\ UNCHANGED todo

\* mbtree::insert and mbtree::remove
StartWrite(t) ==
  /\ t \in Writers
  /\ todo[t] # <<>>
  /\ Begin(t, Head(todo[t])[1], Head(todo[t])[2])
  /\ todo' = [todo EXCEPT ![t] = Tail(@)]

\* The keys published change: what the readers may see changes with them.
Publish(keys, t, pc) ==
  /\ present' = keys
  /\ th' = [u \in Threads |->
              LET r == [th[u] EXCEPT !.always = @ \cap keys, !.ever = @ \cup keys]
              IN  IF u = t THEN [Idle EXCEPT !.pc = pc, !.op = th[t].op, !.k = th[t].k,
                                             !.n = th[t].n]
                  ELSE IF th[u].op \in {"get", "scan"} /\ th[u].pc # "done" THEN r ELSE th[u]]

-----------------------------------------------------------------------------
(* node_base::reach_leaf.                                                   *)

\* The root is the first leaf until its split is unlocked, then the
\* internode.  stable() waits for a clean version.
ReachRoot(t) ==
  /\ At_(t, "root")
  /\ IF leaf[first].ver.root
       THEN /\ ~Dirty(leaf[first].ver)
            /\ th' = [th EXCEPT ![t].n = first, ![t].v = leaf[first].ver,
                                ![t].lk = leaf[first].lk # null, ![t].pc = "leaf"]
       ELSE /\ ~inner.ins
            /\ th' = [th EXCEPT ![t].pv = inner.vi, ![t].pc = "inner"]
  /\ Local

\* While the internode is being changed, any child may be found.
ReachChild(t) ==
  /\ At_(t, "inner")
  /\ \E n \in IF inner.ins THEN 1..nleaves ELSE {Child(th[t].k)} :
       th' = [th EXCEPT ![t].n = n, ![t].pc = "child"]
  /\ Local

ReachStable(t) ==
  /\ At_(t, "child")
  /\ ~Dirty(leaf[th[t].n].ver)
  /\ th' = [th EXCEPT ![t].v = leaf[th[t].n].ver, ![t].lk = leaf[th[t].n].lk # null,
                      ![t].pc = "childcheck"]
  /\ Local

\* Mutant: the internode's version is not checked again.
InnerUnchangedAssumed(t) == TRUE

\* The internode must not have changed since its version was read.
InnerUnchanged(t) == ~inner.ins /\ inner.vi = th[t].pv

ReachCheck(t) ==
  /\ At_(t, "childcheck")
  /\ IF InnerUnchanged(t)
       THEN Goto(t, "leaf")
       ELSE /\ ~inner.ins
            /\ th' = [th EXCEPT ![t].pv = inner.vi, ![t].pc = "inner"]
  /\ Local

-----------------------------------------------------------------------------
(* leaf::advance_to_key: the leaf has changed since its version was read.   *)

AdvanceStable(t) ==
  LET l == leaf[th[t].n]
  IN  /\ At_(t, "advance")
      /\ ~Dirty(l.ver)
      /\ th' = [th EXCEPT ![t].v = l.ver, ![t].lk = l.lk # null,
                          ![t].pc = IF has_split(th[t].v, l.ver) THEN "lastkey" ELSE "leaf"]
      /\ Local

AdvanceLastKey(t) ==
  /\ At_(t, "lastkey")
  /\ ~Dirty(leaf[th[t].n].ver)
  /\ Goto(t, IF PastLastKey(th[t].k, leaf[th[t].n]) THEN "walk" ELSE "leaf")
  /\ Local

AdvanceWalk(t) ==
  LET next == leaf[th[t].n].next
  IN  /\ At_(t, "walk")
      /\ IF ~th[t].v.del /\ next # null /\ (next # null => th[t].k >= ikey_bound(next))
           THEN th' = [th EXCEPT ![t].n = next, ![t].pc = "walkstable"]
           ELSE Goto(t, "leaf")
      /\ Local

AdvanceWalkStable(t) ==
  LET l == leaf[th[t].n]
  IN  /\ At_(t, "walkstable")
      /\ ~Dirty(l.ver)
      /\ th' = [th EXCEPT ![t].v = l.ver, ![t].lk = l.lk # null, ![t].pc = "walk"]
      /\ Local

Deleted(t) ==
  /\ At_(t, "leaf")
  /\ th[t].v.del
  /\ Goto(t, "root")
  /\ Local

Descend(t) ==
  \/ ReachRoot(t) \/ ReachChild(t) \/ ReachStable(t) \/ ReachCheck(t)
  \/ AdvanceStable(t) \/ AdvanceLastKey(t) \/ AdvanceWalk(t) \/ AdvanceWalkStable(t)
  \/ Deleted(t)

-----------------------------------------------------------------------------
(* unlocked_tcursor::find_unlocked.                                         *)

\* The permutation, then the keys, then the value, then the version.
GetPermutation(t) ==
  /\ At_(t, "leaf") /\ th[t].op = "get" /\ ~th[t].v.del
  /\ th' = [th EXCEPT ![t].perm = leaf[th[t].n].perm, ![t].pc = "lower"]
  /\ Local

GetLower(t) ==
  /\ At_(t, "lower") /\ th[t].op = "get"
  /\ th' = [th EXCEPT ![t].p = SlotOf(leaf[th[t].n], th[t].perm, th[t].k), ![t].pc = "value"]
  /\ Local

GetValue(t) ==
  /\ At_(t, "value")
  /\ th' = [th EXCEPT ![t].lv = IF th[t].p >= 0 THEN leaf[th[t].n].lv[th[t].p] ELSE null,
                      ![t].pc = "check"]
  /\ Local

GetCheck(t) ==
  /\ At_(t, "check")
  /\ IF has_changed(th[t].n, th[t].v)
       THEN Goto(t, "advance")
       ELSE th' = [th EXCEPT ![t].pc = "done",
                             ![t].out = IF th[t].p >= 0 THEN {th[t].lv} ELSE {},
                             ![t].nodes = {[n |-> th[t].n,
                                 fv |-> FullVersion(th[t].v, th[t].lk, th[t].perm.n)]}]
  /\ Local

Get(t) == GetPermutation(t) \/ GetLower(t) \/ GetValue(t) \/ GetCheck(t)

-----------------------------------------------------------------------------
(* basic_table::scan with forward_scan_helper.  k is the last key emitted,  *)
(* i the position in the permutation; resp says that find_next was called   *)
(* from the case scan_find_next, which ends with a visit_leaf.              *)

\* visit_leaf, and on_resp_node from there.
Visited(t, n, v, lk, perm) == th[t].nodes \cup {[n |-> n, fv |-> FullVersion(v, lk, perm.n)]}

\* find_initial and find_retry read the permutation and the position;
\* only the first checks the version and visits the leaf.  Nothing equals
\* the empty first key.
ScanPermutation(t) ==
  /\ At_(t, "leaf") /\ th[t].op = "scan" /\ ~th[t].v.del
  /\ th' = [th EXCEPT ![t].perm = leaf[th[t].n].perm,
                      ![t].pc = IF th[t].nodes = {} THEN "scanfirst" ELSE "scanlower"]
  /\ Local

ScanLower(t) ==
  /\ At_(t, "scanlower")
  /\ th' = [th EXCEPT ![t].i = Lower(leaf[th[t].n], th[t].perm, th[t].k), ![t].pc = "next",
                      ![t].resp = TRUE]
  /\ Local

ScanFirst(t) ==
  /\ At_(t, "scanfirst")
  /\ IF has_changed(th[t].n, th[t].v)
       THEN Goto(t, "advance")
       ELSE th' = [th EXCEPT ![t].i = 0, ![t].resp = TRUE, ![t].pc = "next",
                             ![t].nodes = Visited(t, th[t].n, th[t].v, th[t].lk, th[t].perm)]
  /\ Local

\* find_next, and from there: a retry from the root, an entry, or the end of
\* the leaf.
ScanNext(t) ==
  LET r == th[t]
      l == leaf[r.n]
  IN  /\ At_(t, "next")
      /\ IF r.v.del THEN Goto(t, "root")
         ELSE IF r.i < r.perm.n
           THEN th' = [th EXCEPT ![t].p = l.key[r.perm.s[r.i + 1]],
                                 ![t].lv = l.lv[r.perm.s[r.i + 1]], ![t].pc = "entry"]
           ELSE IF has_changed(r.n, r.v) THEN Goto(t, "scanstable")
           ELSE IF l.next = null THEN Goto(t, "done")                    \* scan_up
           ELSE th' = [th EXCEPT ![t].n = l.next, ![t].pc = "scanstable"]
      /\ Local

\* The entry counts when the version has not changed; what was seen before
\* is skipped; the rest is emitted.
ScanEntry(t) ==
  LET r == th[t]
  IN  /\ At_(t, "entry")
      /\ IF has_changed(r.n, r.v) THEN Goto(t, "scanstable")
         ELSE IF r.p <= r.k
           THEN th' = [th EXCEPT ![t].i = @ + 1, ![t].pc = "next"]
           ELSE th' = [th EXCEPT ![t].k = r.p, ![t].out = @ \cup {r.lv}, ![t].i = @ + 1,
                                 ![t].resp = FALSE, ![t].pc = "next",
                                 ![t].nodes = IF r.resp THEN Visited(t, r.n, r.v, r.lk, r.perm)
                                              ELSE @]
      /\ Local

\* The label changed: a new version and permutation of the leaf.
ScanStable(t) ==
  LET l == leaf[th[t].n]
  IN  /\ At_(t, "scanstable")
      /\ ~Dirty(l.ver)
      /\ th' = [th EXCEPT ![t].v = l.ver, ![t].lk = l.lk # null, ![t].pc = "scanperm"]
      /\ Local

ScanReload(t) ==
  LET r == th[t]
      perm == leaf[r.n].perm
  IN  /\ At_(t, "scanperm")
      /\ th' = [th EXCEPT ![t].perm = perm, ![t].i = Lower(leaf[r.n], perm, r.k),
                          ![t].resp = TRUE, ![t].pc = "next",
                          ![t].nodes = IF r.resp THEN Visited(t, r.n, r.v, r.lk, perm) ELSE @]
      /\ Local

Scan(t) ==
  \/ ScanPermutation(t) \/ ScanLower(t) \/ ScanFirst(t) \/ ScanNext(t) \/ ScanEntry(t)
  \/ ScanStable(t) \/ ScanReload(t)

-----------------------------------------------------------------------------
(* tcursor::find_locked: search, lock, and check again under the lock.      *)

FindPosition(t) ==
  LET l == leaf[th[t].n]
  IN  /\ At_(t, "leaf") /\ th[t].op \in {"insert", "remove"} /\ ~th[t].v.del
      /\ th' = [th EXCEPT ![t].perm = l.perm, ![t].i = Lower(l, l.perm, th[t].k),
                          ![t].p = SlotOf(l, l.perm, th[t].k), ![t].pc = "lock"]
      /\ Local

\* Mutant: insertions and removals of others are overlooked.
StillRightByVersion(t) == ~has_changed(th[t].n, th[t].v)

\* What find_locked found still holds.
StillRight(t) == ~has_changed(th[t].n, th[t].v) /\ leaf[th[t].n].perm = th[t].perm

\* A key that is there gets its new value, which is the same here; one that
\* is not is inserted.  There is nothing to do to remove a key that is not.
LockLeaf(t) ==
  LET r == th[t]
      after == IF (r.p >= 0) = (r.op = "insert") THEN "unlock" ELSE r.op
  IN  /\ At_(t, "lock")
      /\ leaf[r.n].lk = null
      /\ IF StillRight(t)
           THEN leaf' = [leaf EXCEPT ![r.n].lk = t] /\ Goto(t, after)
           ELSE UNCHANGED leaf /\ Goto(t, "advance")
      /\ UNCHANGED <<inner, nleaves, todo, present>>

UnlockLeaf(t) ==
  /\ At_(t, "unlock")
  /\ leaf' = [leaf EXCEPT ![th[t].n].ver = Unlocked(@), ![th[t].n].lk = null]
  /\ th' = [th EXCEPT ![t] = Idle]
  /\ UNCHANGED <<inner, nleaves, todo, present>>

-----------------------------------------------------------------------------
(* tcursor::find_insert and finish_insert.                                  *)

\* Mutant: a removed slot may be filled without a new version.
RemarkSilently(l, mod) == [l EXCEPT !.mod = mod]

\* The leaf goes from one kind of modification to the other.
Remark(l, mod) == [l EXCEPT !.mod = mod, !.ver.ins = TRUE]

InsertMark(t) ==
  LET n == th[t].n
  IN  /\ At_(t, "insert") /\ leaf[n].mod # "insert"
      /\ leaf' = [leaf EXCEPT ![n] = Remark(@, "insert")]
      /\ UNCHANGED <<th, inner, nleaves, todo, present>>

\* Slot 0 holds ikey_bound, which the first leaf does not need.
SlotFits(l, perm, k) == back(perm) # 0 \/ l.prev = null \/ l.key[0] = k

InsertPermutation(l, k) ==
  IF SlotFits(l, l.perm, k) THEN l.perm ELSE exchange(l.perm, l.perm.n, Width - 1)

HasRoom(l, k) == l.perm.n < Width /\ SlotFits(l, InsertPermutation(l, k), k)

InsertAssign(t) ==
  LET n == th[t].n
      perm == InsertPermutation(leaf[n], th[t].k)
  IN  /\ At_(t, "insert") /\ leaf[n].mod = "insert" /\ HasRoom(leaf[n], th[t].k)
      /\ leaf' = [leaf EXCEPT ![n] = Assign([@ EXCEPT !.perm = perm], back(perm), th[t].k)]
      /\ Goto(t, "publish")
      /\ UNCHANGED <<inner, nleaves, todo, present>>

\* The value, then the permutation that shows the key.
finish_insert(t) ==
  LET n == th[t].n
      slot == back(leaf[n].perm)
  IN  /\ At_(t, "publish")
      /\ leaf' = [leaf EXCEPT ![n].lv[slot] = th[t].k,
                              ![n].perm = insert_from_back(@, th[t].i)]
      /\ Publish(present \cup {th[t].k}, t, "unlock")
      /\ UNCHANGED <<inner, nleaves, todo>>

-----------------------------------------------------------------------------
(* tcursor::make_split.                                                     *)

\* The first position that moves to the new leaf.
SplitAt(l, i) ==
  IF i = 0 /\ l.prev = null THEN 1
  ELSE IF i = l.perm.n /\ l.next = null THEN l.perm.n
  ELSE (Width \div 2) + 1

\* leaf::split_into: the new leaf, with room for the key if it goes there.
SplitInto(l, i, k) ==
  LET w == l.perm.n
      mid == SplitAt(l, i)
      slotOf(x) == l.perm.s[(IF x < i THEN x ELSE x - 1) + 1]
      moved == 0..(w - mid)
      key == [s \in Slots |-> IF s \notin moved THEN null
                              ELSE IF mid + s = i THEN k ELSE l.key[slotOf(mid + s)]]
      lv == [s \in Slots |-> IF s \notin moved \/ mid + s = i THEN null
                             ELSE l.lv[slotOf(mid + s)]]
      sorted == make_sorted(w + 1 - mid)
  IN  [NewLeaf EXCEPT !.key = key, !.lv = lv, !.ver = l.ver, !.lk = l.lk,
                      !.perm = IF i >= mid THEN remove_to_back(sorted, i - mid) ELSE sorted]

\* The leaf is copied and linked while the old one still shows every key.
\* link_split waits while next_ is marked.
SplitLink(t) ==
  LET n == th[t].n
      l == leaf[n]
      nr == nleaves + 1
      new == [SplitInto(l, th[t].i, th[t].k) EXCEPT !.next = l.next, !.prev = n]
  IN  /\ At_(t, "insert") /\ l.mod = "insert" /\ ~HasRoom(l, th[t].k)
      /\ ~l.mark
      /\ leaf' = [m \in Leaves |-> IF m = nr THEN new
                                   ELSE IF m = n THEN [l EXCEPT !.next = nr]
                                   ELSE IF m = l.next THEN [leaf[m] EXCEPT !.prev = nr]
                                   ELSE leaf[m]]
      /\ nleaves' = nr
      /\ th' = [th EXCEPT ![t].nr = nr, ![t].p = SplitAt(l, th[t].i), ![t].pc = "splitparent"]
      /\ UNCHANGED <<inner, todo, present>>

NewChild(t) == [key |-> ikey_bound(th[t].nr), n |-> th[t].nr]

\* The root leaf gets an internode above it; another leaf's is locked and
\* marked.
SplitParent(t) ==
  /\ At_(t, "splitparent")
  /\ IF ~inner.exists
       THEN /\ inner' = [inner EXCEPT !.exists = TRUE, !.kids = <<NewChild(t)>>]
            /\ Goto(t, "splitmark")
       ELSE /\ inner.lk = null
            /\ inner' = [inner EXCEPT !.lk = t, !.ins = TRUE]
            /\ Goto(t, "splitchild")
  /\ UNCHANGED <<leaf, nleaves, todo, present>>

SplitChild(t) ==
  /\ At_(t, "splitchild")
  /\ inner' = [inner EXCEPT !.kids = InsertAt(@, Upper(NewChild(t).key) + 1, NewChild(t))]
  /\ Goto(t, "splitmark")
  /\ UNCHANGED <<leaf, nleaves, todo, present>>

SplitMark(t) ==
  /\ At_(t, "splitmark")
  /\ leaf' = [leaf EXCEPT ![th[t].n].ver.spl = TRUE]
  /\ Goto(t, "splitshrink")
  /\ UNCHANGED <<inner, nleaves, todo, present>>

\* The old leaf hides what the new one has; the key goes into one of them.
SplitShrink(t) ==
  LET r == th[t]
      l == leaf[r.n]
      left == l.perm.n - leaf[r.nr].perm.n
      shorter == [l.perm EXCEPT !.n = left]
      perml == IF l.perm.n # Width THEN exchange(shorter, left, Width - 1) ELSE shorter
      l2 == [l EXCEPT !.perm = perml]
  IN  /\ At_(t, "splitshrink")
      /\ IF r.i < r.p                        \* split type 0
           THEN leaf' = [leaf EXCEPT ![r.n] = Assign(l2, back(perml), r.k)]
                /\ Goto(t, "splitunlock")
           ELSE leaf' = [leaf EXCEPT ![r.n] = l2]
                /\ th' = [th EXCEPT ![t].n = r.nr, ![t].nr = r.n, ![t].i = @ - left,
                                    ![t].pc = "splitunlock"]
      /\ UNCHANGED <<inner, nleaves, todo, present>>

\* The leaf the key did not go into is unlocked, then the internode.
SplitUnlock(t) ==
  /\ At_(t, "splitunlock")
  /\ leaf' = [leaf EXCEPT ![th[t].nr].ver = Unlocked(@), ![th[t].nr].lk = null]
  /\ Goto(t, IF inner.lk = t THEN "innerunlock" ELSE "publish")
  /\ UNCHANGED <<inner, nleaves, todo, present>>

SplitInnerUnlock(t) ==
  /\ At_(t, "innerunlock")
  /\ inner' = [inner EXCEPT !.vi = @ + 1, !.ins = FALSE, !.lk = null]
  /\ Goto(t, "publish")
  /\ UNCHANGED <<leaf, nleaves, todo, present>>

Split(t) ==
  \/ SplitLink(t) \/ SplitParent(t) \/ SplitChild(t) \/ SplitMark(t) \/ SplitShrink(t)
  \/ SplitUnlock(t) \/ SplitInnerUnlock(t)

-----------------------------------------------------------------------------
(* tcursor::finish_remove and remove_leaf.                                  *)

RemoveMark(t) ==
  LET n == th[t].n
  IN  /\ At_(t, "remove") /\ leaf[n].mod = "insert"
      /\ leaf' = [leaf EXCEPT ![n] = Remark(@, "remove")]
      /\ UNCHANGED <<th, inner, nleaves, todo, present>>

\* An empty leaf is deleted, unless it is the first.
RemovePermutation(t) ==
  LET n == th[t].n
      perm == remove(leaf[n].perm, th[t].i)
  IN  /\ At_(t, "remove") /\ leaf[n].mod # "insert"
      /\ leaf' = [leaf EXCEPT ![n].perm = perm]
      /\ Publish(present \ {th[t].k}, t,
                 IF perm.n > 0 \/ leaf[n].prev = null THEN "unlock" ELSE "delete")
      /\ UNCHANGED <<inner, nleaves, todo>>

DeleteMark(t) ==
  /\ At_(t, "delete")
  /\ leaf' = [leaf EXCEPT ![th[t].n].ver.del = TRUE, ![th[t].n].ver.spl = TRUE]
  /\ Goto(t, "unlinknext")
  /\ UNCHANGED <<inner, nleaves, todo, present>>

\* btree_leaflink::unlink marks its own next_, then waits for its
\* predecessor's.
UnlinkNext(t) ==
  LET l == leaf[th[t].n]
  IN  /\ At_(t, "unlinknext")
      /\ ~l.mark
      /\ leaf' = [leaf EXCEPT ![th[t].n].mark = l.next # null]
      /\ Goto(t, "unlink")
      /\ UNCHANGED <<inner, nleaves, todo, present>>

Unlink(t) ==
  LET n == th[t].n
      l == leaf[n]
  IN  /\ At_(t, "unlink")
      /\ leaf[l.prev].next = n /\ ~leaf[l.prev].mark
      /\ leaf' = [m \in Leaves |-> IF m = l.prev THEN [leaf[m] EXCEPT !.next = l.next]
                                   ELSE IF m = l.next THEN [leaf[m] EXCEPT !.prev = l.prev]
                                   ELSE leaf[m]]
      /\ Goto(t, "deletelock")
      /\ UNCHANGED <<inner, nleaves, todo, present>>

DeleteLockInner(t) ==
  LET n == th[t].n
  IN  /\ At_(t, "deletelock")
      /\ inner.lk = null
      /\ inner' = [inner EXCEPT !.lk = t]
      /\ leaf' = [leaf EXCEPT ![n].ver = Unlocked(@), ![n].lk = null]
      /\ Goto(t, "deleteinner")
      /\ UNCHANGED <<nleaves, todo, present>>

DeleteMarkInner(t) ==
  /\ At_(t, "deleteinner")
  /\ inner' = [inner EXCEPT !.ins = TRUE]
  /\ Goto(t, "deletechild")
  /\ UNCHANGED <<leaf, nleaves, todo, present>>

\* collapse finds nothing more to do: an internode without keys stays.
DeleteChild(t) ==
  /\ At_(t, "deletechild")
  /\ inner' = [inner EXCEPT !.kids = RemoveAt(@, Upper(ikey_bound(th[t].n))),
                            !.vi = @ + 1, !.ins = FALSE, !.lk = null]
  /\ th' = [th EXCEPT ![t] = Idle]
  /\ UNCHANGED <<leaf, nleaves, todo, present>>

RemoveKey(t) ==
  \/ RemoveMark(t) \/ RemovePermutation(t) \/ DeleteMark(t) \/ UnlinkNext(t) \/ Unlink(t)
  \/ DeleteLockInner(t) \/ DeleteMarkInner(t) \/ DeleteChild(t)

Write(t) ==
  \/ FindPosition(t) \/ LockLeaf(t) \/ UnlockLeaf(t)
  \/ InsertMark(t) \/ InsertAssign(t) \/ finish_insert(t) \/ Split(t) \/ RemoveKey(t)

Start(t) == StartGet(t) \/ StartScan(t) \/ StartWrite(t)

Step(t) == Descend(t) \/ Get(t) \/ Scan(t) \/ Write(t)

Idling == \A t \in Writers : At_(t, "idle")

\* The scripts have been run and the reads are over.
Finished ==
  /\ Idling
  /\ \A t \in Writers : todo[t] = <<>>
  /\ \A t \in Threads \ Writers : At_(t, "done")
  /\ UNCHANGED vars

Next == (\E t \in Threads : Start(t) \/ Step(t)) \/ Finished

Spec == Init /\ [][Next]_vars

-----------------------------------------------------------------------------
(* Properties.                                                              *)

Version == [vi : Nat, vs : Nat, ins : BOOLEAN, spl : BOOLEAN, del : BOOLEAN, root : BOOLEAN]

Permuters == {q \in [s : [1..Width -> Slots], n : 0..Width] : IsInjective(q.s)}

\* Every variable has its type; in particular a permutation is always one
\* of all the slots, whatever inserts, removals and splits do to it.
TypeOK ==
  /\ \A n \in Leaves :
       /\ leaf[n].perm \in Permuters
       /\ leaf[n].ver \in Version
       /\ leaf[n].lk \in Threads \cup {null}
       /\ leaf[n].next \in Leaves \cup {null} /\ leaf[n].prev \in Leaves \cup {null}
       /\ leaf[n].mod \in {"insert", "remove"}
  /\ inner.kids \in Seq([key : Keys, n : Leaves])
  /\ nleaves \in Leaves
  /\ present \subseteq Keys

\* find_unlocked and scan against concurrent inserts, removals, splits and
\* deletions: a key that was in the index all along is found, and what is
\* found was in the index at some time, with its own value.
ReadsAreRight ==
  \A t \in Threads : At_(t, "done") =>
    LET r == th[t]
        asked == IF r.op = "get" THEN {r.k} ELSE Keys
    IN  r.always \cap asked \subseteq r.out /\ r.out \subseteq r.ever \cap asked

\* What commit() validates for a key a search did not find
\* (txn_impl.h:366-384): while the leaf still has the version and the size
\* the search returned, the key has not been inserted.
MissIsGuarded ==
  \A t \in Getters : At_(t, "done") /\ th[t].out = {} =>
    \A x \in th[t].nodes : FullVersionOf(x.n) = x.fv => th[t].k \notin present

\* masstree_btree.h:265-267 says of a scan that "on_resp_node() is called at
\* least once per node which has a responibility range that overlaps with
\* the scan range": while all the nodes reported are unchanged, no key can
\* have appeared in the range.
ScanIsGuarded ==
  \A t \in Scanners : At_(t, "done")
    /\ (\A x \in th[t].nodes : FullVersionOf(x.n) = x.fv) => present \subseteq th[t].out

\* remove_leaf and make_split against each other: once the writers are
\* through, the internode leads to no deleted leaf ("Remove leaf from tree.
\* This is simple unless the leaf is the first child of its parent",
\* masstree_remove.hh:192-194).
DeletedLeavesAreGone ==
  Idling => \A c \in Range(inner.kids) : ~leaf[c.n].ver.del

\* Once the writers are through, reach_leaf finds every key in the leaf that
\* holds it, the links visit the same leaves in the same order, and nothing
\* is left locked or marked.
TreeIsRight ==
  Idling =>
    /\ inner.lk = null /\ ~inner.ins
    /\ \A k \in Keys :
         (k \in present) = (SlotOf(leaf[Child(k)], leaf[Child(k)].perm, k) >= 0)
    /\ LET live == <<first>> \o [i \in DOMAIN inner.kids |-> inner.kids[i].n]
       IN  \A i \in DOMAIN live :
             /\ leaf[live[i]].next = IF i = Len(live) THEN null ELSE live[i + 1]
             /\ leaf[live[i]].prev = IF i = 1 THEN null ELSE live[i - 1]
             /\ leaf[live[i]].lk = null /\ ~leaf[live[i]].mark /\ ~Dirty(leaf[live[i]].ver)
=============================================================================
