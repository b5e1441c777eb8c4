----------------------------- MODULE Jet4Index -----------------------------
(***************************************************************************)
(* The writer of Microsoft Access files: rows of a table and one of its    *)
(* indexes, a B-tree of linked pages (BTreeEngine).                        *)
(*                                                                         *)
(* An entry is <<key, row>>: keys repeat, row ids break the ties.  A leaf  *)
(* holds entries, a node dividers: the largest entry below a child, and    *)
(* the child.  The last child of a node may have no divider and hang on    *)
(* its tail.  Pages of one level are linked both ways.                     *)
(*                                                                         *)
(* Pages are read, written and compared as the code does; bytes are left   *)
(* out, so a page holds a number of entries instead of 3616 bytes, and the *)
(* checks of bytes cannot fail, nor can I/O.  Other indexes of the table   *)
(* are left out.  The number of a page means nothing: a new page gets a    *)
(* free one, and a page that was removed, which the file keeps and never   *)
(* uses again, is free.  The limits of loops (12 levels of a search, 100000*)
(* leaves of a walk) are left out: files do not come near them.            *)
(* The file is written by one thread.                                      *)
(***************************************************************************)
EXTENDS Integers, FiniteSets, SequencesExt

CONSTANTS
    Keys,      \* the keys rows may have in the index
    MaxRows,   \* bound on the slots of rows
    PageSize,  \* entries of a page
    MaxRepair  \* bound on the rows of an index that is repaired; 0 if keys are numbers

ASSUME IndexConstants ==
    /\ Keys \subseteq Nat \ {0}
    /\ {MaxRows, MaxRepair} \subseteq Nat
    /\ PageSize \in Nat \ {0, 1}

VARIABLES
    rows,    \* the keys of the rows that are not flagged deleted, by slot
    pages,   \* the pages of the index
    ghosts,  \* history: the deleted slots whose entries were left behind
    repaired \* history: whether the command line has repaired the index

vars == <<rows, pages, ghosts, repaired>>

\* What the key of an empty text is, before every other.
EmptyKey == 0

Root == 1
Leaf(p) == p.level = 0

\* The native shape of an empty index.
EmptyLeaf == [level |-> 0, prev |-> 0, next |-> 0, tail |-> 0, entries |-> << >>]

Init ==
    /\ rows = << >>
    /\ pages = [p \in {Root} |-> EmptyLeaf]
    /\ ghosts = {}
    /\ repaired = FALSE
-----------------------------------------------------------------------------
(* Entries in their order *)

\* cmpIndexEntries: the key, then the row.
Less(a, b) == a[1] < b[1] \/ (a[1] = b[1] /\ a[2] < b[2])

Item(e, child) == [e |-> e, child |-> child]

\* The sorted insertion of every caller: behind what is not larger.
Inserted(s, x) ==
    LET at == {i \in DOMAIN s : Less(x.e, s[i].e)}
    IN  InsertAt(s, IF at = {} THEN Len(s) + 1 ELSE Min(at), x)

None == << >>

\* getSubtreeMax: down the tails; a node without one answers with its last
\* divider.
TailOf(P, pg) == IF P[pg].tail # 0 THEN P[pg].tail ELSE pg

SubtreeMax(P, pg) ==
    LET n == P[pg].level
        down[i \in 0 .. n] == IF i = 0 THEN pg ELSE TailOf(P, down[i - 1])
        s == P[down[n]].entries
    IN  IF s = << >> THEN None ELSE Last(s).e

\* findLeaf: the pages from the root to the leaf of e.  What is above every
\* divider goes to the tail, or to the last child when there is none.
Toward(p, e) ==
    LET at == {i \in DOMAIN p.entries : ~ Less(p.entries[i].e, e)}
    IN  IF at # {} THEN p.entries[Min(at)].child
        ELSE IF p.tail # 0 THEN p.tail ELSE Last(p.entries).child

FindLeaf(P, e) ==
    LET path[i \in 1 .. P[Root].level + 1] == IF i = 1 THEN Root ELSE Toward(P[path[i - 1]], e)
    IN  SubSeq(path, 1, P[Root].level + 1)
-----------------------------------------------------------------------------
(* insertIntoPage, splitPage, propagateMaxChange and removeIndexPage, of the *)
(* i-th page of a path, call one another last: each answers with the pages   *)
(* it has written, the calls it ends with, the page it will unlink when they *)
(* return, and whether it does not refuse.                                   *)

ToInsert(i, list) == [op |-> "insert", at |-> i, list |-> list, max |-> None]
ToPropagate(i, max) == [op |-> "propagate", at |-> i, list |-> << >>, max |-> max]
ToRemove(i) == [op |-> "remove", at |-> i, list |-> << >>, max |-> None]

Wrote(P, calls) == [pages |-> P, calls |-> calls, gone |-> {}, ok |-> TRUE]
Refused(P) == [pages |-> P, calls |-> << >>, gone |-> {}, ok |-> FALSE]

\* The smallest free number.
NewPage(used) == CHOOSE q \in 1 .. Cardinality(used) + 1 : q \notin used

\* Mutant: the upper half of a root loses the tail.
TailLost(old) == 0

\* The last half keeps the tail.
TailKept(old) == old.tail

\* Mutant: the page before a split keeps its link.
PeersKept(P, old, new) == P

\* The page before the halves now leads to them.
Peers(P, old, new) == [q \in DOMAIN P |-> IF q = old.prev THEN [P[q] EXCEPT !.next = new] ELSE P[q]]

\* A list is one entry too long at most, and its halves fit.  The root becomes
\* a node over two new pages.
SplitRoot(P, s) ==
    LET old == P[Root]
        mid == (Len(s) + 1) \div 2
        m == NewPage(DOMAIN P)
        n == NewPage(DOMAIN P \cup {m})
        low == [level |-> old.level, prev |-> 0, next |-> n, tail |-> 0, entries |-> SubSeq(s, 1, mid)]
        high == [level |-> old.level, prev |-> m, next |-> 0, tail |-> TailKept(old),
                 entries |-> SubSeq(s, mid + 1, Len(s))]
        node == [EmptyLeaf EXCEPT !.level = old.level + 1, !.tail = n,
                                  !.entries = <<Item(s[mid].e, m)>>]
    IN  Wrote([q \in DOMAIN P \cup {m, n} |->
                  IF q = m THEN low ELSE IF q = n THEN high ELSE IF q = Root THEN node ELSE P[q]],
              << >>)

\* Another page keeps the upper half, its divider and its tail; the lower one
\* goes to a new page before it.  Its divider follows its largest entry.
SplitPage(P, path, i, s) ==
    LET pg == path[i]
        old == P[pg]
        mid == (Len(s) + 1) \div 2
        new == NewPage(DOMAIN P)
        low == [old EXCEPT !.next = pg, !.tail = 0, !.entries = SubSeq(s, 1, mid)]
        high == [old EXCEPT !.prev = new, !.entries = SubSeq(s, mid + 1, Len(s))]
        Q == [q \in DOMAIN P \cup {new} |->
                 IF q = new THEN low ELSE IF q = pg THEN high ELSE Peers(P, old, new)[q]]
        max == SubtreeMax(Q, pg)
        d == P[path[i - 1]].entries
        kept == IF SubtreeMax(P, pg) \in {None, max} THEN d
                ELSE [j \in DOMAIN d |-> IF d[j].child = pg THEN Item(max, pg) ELSE d[j]]
    IN  Wrote(Q, <<ToInsert(i - 1, Inserted(kept, Item(s[mid].e, new)))>>)

\* The page is rewritten, and its ancestors learn its new largest entry.
InsertIntoPage(P, path, i, s) ==
    LET Q == [P EXCEPT ![path[i]].entries = s]
        old == SubtreeMax(P, path[i])
        new == SubtreeMax(Q, path[i])
    IN  IF Len(s) > PageSize THEN IF i = 1 THEN SplitRoot(P, s) ELSE SplitPage(P, path, i, s)
        ELSE Wrote(Q, IF i > 1 /\ old # None /\ new # old THEN <<ToPropagate(i, new)>> ELSE << >>)

\* The dividers of the child, one at most.
DividersOf(d, child) == {j \in DOMAIN d : d[j].child = child}

\* The divider of the child is taken out and inserted again; a child without
\* one hangs on the tail, whose largest entry is its parent's.
PropagateMaxChange(P, path, i, max) ==
    LET parent == P[path[i - 1]]
        d == parent.entries
        at == DividersOf(d, path[i])
        new == Item(max, path[i])
    IN  IF i = 1 THEN Wrote(P, << >>)
        ELSE IF at # {}
        THEN Wrote(P, IF d[Min(at)] = new THEN << >>
                      ELSE <<ToInsert(i - 1, Inserted(RemoveAt(d, Min(at)), new))>>)
        ELSE IF parent.tail = path[i] THEN Wrote(P, <<ToPropagate(i - 1, max)>>)
        \* "Historical damage: heal by inserting at sorted position."
        ELSE Wrote(P, <<ToInsert(i - 1, Inserted(d, new))>> \o
                      IF Last(Inserted(d, new)) = new THEN <<ToPropagate(i - 1, max)>> ELSE << >>)

\* An emptied page loses its divider or its parent's tail; a parent without
\* dividers goes too, but not if it has a tail.
RemoveIndexPage(P, path, i) ==
    LET pg == path[i]
        parent == path[i - 1]
        d == P[parent].entries
        at == DividersOf(d, pg)
        rest == IF at = {} THEN d ELSE RemoveAt(d, Min(at))
        Q == IF P[parent].tail = pg THEN [P EXCEPT ![parent].tail = 0] ELSE P
    IN  IF P[pg].tail # 0 THEN Refused(P)
        ELSE IF i = 1 THEN Wrote([P EXCEPT ![pg] = EmptyLeaf], << >>)
        ELSE IF at = {} /\ P[parent].tail # pg THEN Refused(P)
        ELSE [Wrote(Q, IF rest = << >> THEN <<ToRemove(i - 1)>> ELSE <<ToInsert(i - 1, rest)>>)
                 EXCEPT !.gone = {pg}]

After(P, path, c) ==
    CASE c.op = "insert" -> InsertIntoPage(P, path, c.at, c.list)
      [] c.op = "propagate" -> PropagateMaxChange(P, path, c.at, c.max)
      [] c.op = "remove" -> RemoveIndexPage(P, path, c.at)

\* What a call answers, and the calls that are left.
Answer(s, r) ==
    [pages |-> r.pages, calls |-> IF r.ok THEN r.calls \o Tail(s.calls) ELSE << >>,
     gone |-> s.gone \cup r.gone, ok |-> r.ok]

Called(s, path) == IF s.calls = << >> THEN s ELSE Answer(s, After(s.pages, path, Head(s.calls)))

\* Two calls a page are enough.
Run(P, path, call) ==
    LET n == 2 * Len(path)
        run[j \in 0 .. n] == IF j = 0 THEN Wrote(P, <<call>>) ELSE Called(run[j - 1], path)
    IN  run[n]

LeafInsert(P, e) ==
    LET path == FindLeaf(P, e)
        i == Len(path)
    IN  Run(P, path, ToInsert(i, Inserted(P[path[i]].entries, Item(e, 0)))).pages
-----------------------------------------------------------------------------
(* Deletion: [ok, pages], the pages as they were when it was refused *)

\* The peers of removed pages close ranks, and no page leads to them.
Unlinked(P, gone) ==
    [q \in DOMAIN P \ gone |->
        [P[q] EXCEPT !.next = IF @ \in gone THEN P[@].next ELSE @,
                     !.prev = IF @ \in gone THEN P[@].prev ELSE @]]

Removed(r) == [ok |-> r.ok, pages |-> IF r.ok THEN Unlinked(r.pages, r.gone) ELSE r.pages]

EraseEntry(P, e) ==
    LET path == FindLeaf(P, e)
        i == Len(path)
        s == P[path[i]].entries
        at == {j \in DOMAIN s : s[j].e = e}
        rest == RemoveAt(s, Min(at))
        Q == [P EXCEPT ![path[i]].entries = rest]
    IN  IF at = {} THEN [ok |-> FALSE, pages |-> P]
        ELSE IF rest # << >>
        THEN [ok |-> TRUE, pages |-> IF Last(s).e = e /\ i > 1
                                     THEN Run(Q, path, ToPropagate(i, Last(rest).e)).pages ELSE Q]
        ELSE Removed(Run(P, path, ToRemove(i)))
-----------------------------------------------------------------------------
(* walkIndex: the first leaf, by first dividers, and the chain behind it *)

FirstLeaf(P) ==
    LET left[i \in 0 .. P[Root].level] ==
            IF i = 0 THEN Root ELSE Head(P[left[i - 1]].entries).child
    IN  left[P[Root].level]

Hopped(P, hop) ==
    LET s == P[hop.at].entries
    IN  IF hop.at = 0 THEN hop
        ELSE [at |-> P[hop.at].next, seen |-> hop.seen \o [i \in DOMAIN s |-> s[i].e]]

Walk(P) ==
    LET n == Cardinality(DOMAIN P)
        hop[i \in 0 .. n] ==
            IF i = 0 THEN [at |-> FirstLeaf(P), seen |-> << >>] ELSE Hopped(P, hop[i - 1])
    IN  hop[n].seen

\* Every entry of the row, one after the other, up to one that is refused.
ErasedNext(was, r, e) == IF was.ok /\ e[2] = r THEN EraseEntry(was.pages, e) ELSE was

EraseRowRefs(P, r) ==
    LET w == Walk(P)
        erased[i \in 0 .. Len(w)] ==
            IF i = 0 THEN [ok |-> TRUE, pages |-> P] ELSE ErasedNext(erased[i - 1], r, w[i])
    IN  erased[Len(w)]
-----------------------------------------------------------------------------
(* Rows *)

\* insertRowData: the next slot of some page.
InsertRow(r, k) ==
    /\ r \notin DOMAIN rows \cup ghosts
    /\ repaired => Cardinality(DOMAIN rows \cup ghosts) < MaxRepair
    /\ rows' = [x \in DOMAIN rows \cup {r} |-> IF x = r THEN k ELSE rows[x]]
    /\ pages' = LeafInsert(pages, <<k, r>>)
    /\ UNCHANGED <<ghosts, repaired>>

\* reindexRowData, of a row whose key changes: its entries are erased, the row
\* rewritten and the new entry inserted.  Nothing is written when the erasure is
\* refused, or when the row has outgrown its page before: rows that are no longer
\* rewritten are not told apart from those that could be.
ReindexRow(r, k) ==
    /\ r \in DOMAIN rows /\ rows[r] # k
    /\ \E erased \in {EraseRowRefs(pages, r)} : erased.ok /\ pages' = LeafInsert(erased.pages, <<k, r>>)
    /\ rows' = [rows EXCEPT ![r] = k]
    /\ UNCHANGED <<ghosts, repaired>>

\* Repairing a table retires rows whose code another row has: nobody looks
\* whether the erasure was refused.
RetireRow(r) ==
    /\ r \in DOMAIN rows
    /\ rows' = Restrict(rows, DOMAIN rows \ {r})
    /\ \E erased \in {EraseRowRefs(pages, r)} :
        /\ pages' = erased.pages
        /\ ghosts' = IF erased.ok THEN ghosts ELSE ghosts \cup {r}
    /\ UNCHANGED repaired

\* An entry is compared with the entry of its row, which is not read: its fields
\* are empty.  Of numbers no key can be built then, and nothing is done; of texts
\* every entry is replaced.
Replaced(P, e) ==
    LET want == <<EmptyKey, e[2]>>
        have == \E x \in ToSet(P[Last(FindLeaf(P, want))].entries) : x.e = want
        Q == EraseEntry(P, e).pages
    IN  IF e = want THEN P ELSE IF have THEN Q ELSE LeafInsert(Q, want)

RepairedPages(P) ==
    LET w == Walk(P)
        replaced[i \in 0 .. Len(w)] == IF i = 0 THEN P ELSE Replaced(replaced[i - 1], w[i])
    IN  replaced[Len(w)]

RepairIndex ==
    /\ Len(Walk(pages)) \in 1 .. MaxRepair
    /\ pages' = RepairedPages(pages)
    /\ repaired' = TRUE
    /\ UNCHANGED <<rows, ghosts>>

Next ==
    \/ \E r \in 1 .. MaxRows, k \in Keys : InsertRow(r, k) \/ ReindexRow(r, k)
    \/ \E r \in 1 .. MaxRows : RetireRow(r)
    \/ RepairIndex

Spec == Init /\ [][Next]_vars
-----------------------------------------------------------------------------
(* Properties *)

Entry == (Keys \cup {EmptyKey}) \X (1 .. MaxRows)
Page == [level : Nat, prev : Nat, next : Nat, tail : Nat, entries : Seq([e : Entry, child : Nat])]

\* The children of a node: those of its dividers, and the one on its tail.
ChildNos(p) == IF Leaf(p) THEN {} ELSE 1 .. Len(p.entries) + (IF p.tail = 0 THEN 0 ELSE 1)
Child(p, i) == IF i <= Len(p.entries) THEN p.entries[i].child ELSE p.tail

\* The page behind the i-th child of q, across the border of q if it is the last.
Behind(P, q, i) ==
    IF i + 1 \in ChildNos(P[q]) THEN Child(P[q], i + 1)
    ELSE IF P[q].next = 0 THEN 0 ELSE Child(P[P[q].next], 1)

\* Only a root can be empty, and only the last page of a level has a tail.
PagesOK(P) ==
    /\ DOMAIN P \subseteq Nat \ {0} /\ IsFiniteSet(DOMAIN P)
    /\ P \in [DOMAIN P -> Page]
    /\ \A q \in DOMAIN P :
        /\ P[q].entries = << >> => q = Root /\ P[q] = EmptyLeaf
        /\ P[q].tail # 0 => ~ Leaf(P[q]) /\ P[q].next = 0

\* The pages of a level lead to each other, both ways.
Linked(P) ==
    /\ Root \in DOMAIN P /\ P[Root].prev = 0 /\ P[Root].next = 0
    /\ \A q \in DOMAIN P :
        LET p == P[q]
        IN  /\ p.next # 0 => p.next \in DOMAIN P /\ P[p.next].prev = q /\ P[p.next].level = p.level
            /\ p.prev # 0 => p.prev \in DOMAIN P /\ P[p.prev].next = q

\* Every page but the root is once the child of a node of the level above, and
\* the children of a node, and of the nodes of a level, lead to each other.
Hung(P) ==
    /\ \A q \in DOMAIN P : \A i \in ChildNos(P[q]) :
        LET c == Child(P[q], i)
        IN  /\ c \in DOMAIN P \ {Root}
            /\ P[c].level + 1 = P[q].level
            /\ P[c].next = Behind(P, q, i)
            /\ i <= Len(P[q].entries) => P[c].tail = 0
    /\ \A c \in DOMAIN P \ {Root} : \E q \in DOMAIN P : \E i \in ChildNos(P[q]) : Child(P[q], i) = c
    /\ \A q, x \in DOMAIN P : \A i \in ChildNos(P[q]), j \in ChildNos(P[x]) :
        Child(P[q], i) = Child(P[x], j) => q = x /\ i = j

\* The entries of a level increase, from page to page too.
Sorted(P) ==
    \A q \in DOMAIN P :
        LET s == P[q].entries
        IN  /\ \A i, j \in DOMAIN s : i < j => Less(s[i].e, s[j].e)
            /\ P[q].next # 0 => Less(Last(s).e, Head(P[P[q].next].entries).e)

\* A divider is the largest entry of its child: between the calls of an
\* insertion, of every child but one.
Divided(P, stale) ==
    \A q \in DOMAIN P :
        LET s == P[q].entries
        IN  \A i \in DOMAIN s : Leaf(P[q]) \/ s[i].child = stale
                               \/ s[i].e = Last(P[s[i].child].entries).e

BTree(P, stale) == PagesOK(P) /\ Linked(P) /\ Hung(P) /\ Sorted(P) /\ Divided(P, stale)

Fits(P) == \A q \in DOMAIN P : Len(P[q].entries) <= PageSize

\* The index is a B-tree: every page is in it once, at the height it says,
\* linked to its neighbours, and its dividers lead to what is searched.
\* Splits, removals and the repair of dividers each write pages one by one.
IndexTypeOK ==
    /\ DOMAIN rows \subseteq 1 .. MaxRows /\ rows \in [DOMAIN rows -> Keys]
    /\ ghosts \subseteq (1 .. MaxRows) \ DOMAIN rows
    /\ repaired \in BOOLEAN
    /\ BTree(pages, 0) /\ Fits(pages)

\* What verifyDatabase promises to find, "walked entries == data rows, strictly
\* sorted", but for the entries a refused erasure has left.  A walk that lost
\* a page would hide its rows from every reader of the file.  After a repair
\* rows are seen still, if under the empty key.
WalkSeesRows ==
    LET w == Walk(pages)
        keys(r) == {rows[r]} \cup (IF repaired THEN {EmptyKey} ELSE {})
    IN  /\ \A i \in 1 .. Len(w) - 1 : Less(w[i], w[i + 1])
        /\ \A r \in DOMAIN rows : ToSet(w) \cap (keys(r) \X {r}) # {}
        /\ \A e \in ToSet(w) : e[2] \in ghosts \/ (e[2] \in DOMAIN rows /\ e[1] \in keys(e[2]))

\* On the way to e there is a page that would be emptied, and cannot go because
\* its last child hangs on its tail.
TailStays(path) ==
    \E i \in 1 .. Len(path) - 1 :
        /\ pages[path[i]].tail # 0
        /\ \A j \in i .. Len(path) : Len(pages[path[j]].entries) = 1
        /\ pages[path[i]].tail # path[i + 1]

\* The search leads to every entry, and an entry can be erased unless it is the
\* last one below the only divider of a node with a tail.  Stale dividers would
\* lead elsewhere, and the row could not be altered any more.
EntriesErasable ==
    \A e \in ToSet(Walk(pages)) :
        LET path == FindLeaf(pages, e)
        IN  /\ \E x \in ToSet(pages[Last(path)].entries) : x.e = e
            /\ EraseEntry(pages, e).ok <=> ~ TailStays(path)

\* The index serves its table, whatever was inserted, re-keyed, retired or
\* repaired: a walk shows every row once, and a search leads to every entry.
IndexServes == WalkSeesRows /\ EntriesErasable
=============================================================================
