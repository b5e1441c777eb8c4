----------------------------- MODULE MCJetFiles -----------------------------
EXTENDS JetFiles

\* One party is known to the other program by another number than its id here.
ImportedCodes == <<3>>

\* The pages in the order of the tree, level by level.
NextLevel(pgs) ==
    FlattenSeq([i \in DOMAIN pgs |-> LET p == pages[pgs[i]]
                                    IN  [j \in 1 .. Cardinality(ChildNos(p)) |-> Child(p, j)]])

TreeOrder ==
    LET level[i \in 0 .. pages[Root].level] == IF i = 0 THEN <<Root>> ELSE NextLevel(level[i - 1])
    IN  FlattenSeq([i \in 1 .. pages[Root].level + 1 |-> level[i - 1]])

\* The number of a page means nothing: pages are numbered as the tree has them.
\* The comparisons are there for TLC, which has to evaluate what it keeps.
Renumbered ==
    LET order == TreeOrder
        No(pg) == IF pg \in ToSet(order) THEN CHOOSE i \in DOMAIN order : order[i] = pg ELSE -pg
        Moved(p) == [p EXCEPT !.prev = No(@), !.next = No(@), !.tail = No(@),
                              !.entries = [i \in DOMAIN @ |-> [@[i] EXCEPT !.child = No(@)]]]
    IN  <<rows = rows, pages = pages, rows, ghosts, repaired, [i \in DOMAIN order |-> Moved(pages[order[i]])]>>

FilesView == <<part, exportVars, Renumbered>>
=============================================================================
