------------------------------ MODULE AvlStore ------------------------------
(***************************************************************************)
(* The tree of project-3/avl.c in the memory of project-3/scm.c: the nodes *)
(* and words are chunks of the mapped file, linked by pointers, and the    *)
(* process may be killed between any two writes.  Module Avl has the same  *)
(* tree as a value, module Scm the allocator for any client.               *)
(*                                                                         *)
(* What the file holds is a record, memory.  A call is the sequence of the *)
(* memories it goes through, one per assignment, in the order of the code  *)
(* (the program is compiled without optimisation): a call that is not cut  *)
(* short leaves the last one, a killed one any other.                      *)
(*                                                                         *)
(* Words are shorter than a node, so that the chunk of a freed word is     *)
(* never used again, and scm_malloc() takes the lowest free node.          *)
(***************************************************************************)
EXTENDS Integers, Sequences, FiniteSets, FiniteSetsExt

CONSTANTS
    Words,      \* the words the client inserts: integers, for their order
    MaxCount,   \* bound: MaxCount[w], how often w may be in the tree
    WordLen,    \* WordLen[w], the length of w with its NUL
    NodeLen,    \* sizeof (struct node)
    StateLen,   \* sizeof (struct state)
    Wrap,       \* size_t counts modulo Wrap
    MaxStrings, \* bound: words copied to the file before it is truncated
    MaxKills    \* bound: times the process is killed

ASSUME AvlStoreAssumption ==
    /\ Words \subseteq Int
    /\ MaxCount \in [Words -> Nat]
    /\ WordLen \in [Words -> Nat \ {0}]
    /\ \A w \in Words : WordLen[w] < StateLen
    /\ StateLen \in Nat /\ NodeLen \in Nat /\ StateLen <= NodeLen
    /\ Wrap \in Nat /\ MaxStrings * (NodeLen + StateLen) + StateLen < Wrap
    /\ MaxKills \in Nat

NULL == 0

\* The root that an earlier content of the file has left behind.
Wild == -1

VARIABLES
    pc,      \* "idle" (no call is in progress), "closed" or killed, "aborted" (the
             \* assertion of avl_open() has failed), "undefined"
    memory,  \* the file: has it a chunk, size_info[2], *state, the chunks of nodes
             \* and words in address order; turning: a rotation is not linked yet
    damage,  \* history: what killed calls have done since the file was truncated:
             \* "none", "leak" (memory is lost), "broken"
    kills    \* times the process was killed

vars == <<pc, memory, damage, kills>>
-----------------------------------------------------------------------------
(***************************************************************************)
(* Writes to the file.  t is what a call has gone through so far.          *)
(***************************************************************************)
Now(t) == t[Len(t)]

\* One assignment, to a field of *state or of a node, or to the mark of a chunk.
Set(t, f, v) == Append(t, [Now(t) EXCEPT ![f] = v])
SetNode(t, p, f, v) == Append(t, [Now(t) EXCEPT !.nodes[p][f] = v])

\* A pointer to a subtree is written: a rotation of it is complete.
Link(t, p, f, q) == Append(t, [Now(t) EXCEPT !.nodes[p][f] = q, !.turning = FALSE])
LinkRoot(t, q)   == Append(t, [Now(t) EXCEPT !.root = q, !.turning = FALSE])

\* Mutant of Add: the counters are signed.
Add_Signed(t, f, n) == Set(t, f, Now(t)[f] + n)

\* A counter of the width of size_t.
Add(t, f, n) == Set(t, f, (Now(t)[f] + n) % Wrap)
Count(t, n)  == Add(t, "user", n)

FreeNodes(m) == {p \in DOMAIN m.nodes : m.nodes[p].inuse = 0}

ZeroNode == [inuse |-> 1, depth |-> 0, count |-> 0, item |-> NULL,
             left |-> NULL, right |-> NULL]

\* scm_malloc() of a node, and what it returns.
NewNode(m) == IF FreeNodes(m) = {} THEN Len(m.nodes) + 1 ELSE Min(FreeNodes(m))

\* Mutant of MallocNode: a chunk that is used again is not marked.
MallocNode_NotMarked(t) ==
    IF FreeNodes(Now(t)) = {}
    THEN Count(Set(t, "nodes", Append(Now(t).nodes, ZeroNode)), NodeLen)
    ELSE t

MallocNode(t) ==
    LET m == Now(t)
    IN  IF FreeNodes(m) = {}
        THEN Count(Set(t, "nodes", Append(m.nodes, ZeroNode)), NodeLen)
        ELSE SetNode(t, NewNode(m), "inuse", 1)

scm_strdup(t, w) ==
    Count(Set(t, "strings", Append(Now(t).strings, [inuse |-> 1, word |-> w])), WordLen[w])

FreeNode(t, p) == Count(SetNode(t, p, "inuse", 0), -NodeLen)

\* Mutant of FreeString: the word of a deleted node is not given back.
FreeString_Forgotten(t, s) == t

FreeString(t, s) ==
    Count(Append(t, [Now(t) EXCEPT !.strings[s].inuse = 0]),
          -WordLen[Now(t).strings[s].word])
-----------------------------------------------------------------------------
(***************************************************************************)
(* The functions of avl.c: ...Writes is what memory goes through, and a    *)
(* function that returns a pointer yields a record of both.                *)
(***************************************************************************)
Word(m, p)  == m.strings[m.nodes[p].item].word
delta(m, p) == IF p = NULL THEN -1 ELSE m.nodes[p].depth
balance(m, p) == delta(m, m.nodes[p].left) - delta(m, m.nodes[p].right)
depth(m, p, q) == 1 + (IF delta(m, p) > delta(m, q) THEN delta(m, p) ELSE delta(m, q))

SetDepth(t, p, l, r) == SetNode(t, p, "depth", depth(Now(t), l, r))
NewDepth(t, p) == SetDepth(t, p, Now(t).nodes[p].left, Now(t).nodes[p].right)

\* Mutant of Rotate: its first two assignments are swapped.
Rotate_Swapped(t, p, f, g) ==
    LET q  == Now(t).nodes[p][f]
        t1 == Append(t, [Now(t) EXCEPT !.nodes[q][g] = p, !.turning = TRUE])
        t2 == SetNode(t1, p, f, Now(t1).nodes[q][g])
        t3 == NewDepth(t2, p)
    IN  [writes |-> SetDepth(t3, q, Now(t3).nodes[q][f], p), root |-> q]

\* rotate_right() if f is "left" and g is "right", rotate_left() the other way.
Rotate(t, p, f, g) ==
    LET q  == Now(t).nodes[p][f]
        t1 == Append(t, [Now(t) EXCEPT !.nodes[p][f] = Now(t).nodes[q][g],
                                       !.turning = TRUE])
        t2 == SetNode(t1, q, g, p)
        t3 == NewDepth(t2, p)
    IN  [writes |-> SetDepth(t3, q, Now(t3).nodes[q][f], p), root |-> q]

\* Mutant of RotateTwice: a single rotation for every case.
RotateTwice_Once(t, p, f, g) == Rotate(t, p, f, g)

\* rotate_left_right() and rotate_right_left().
RotateTwice(t, p, f, g) ==
    LET inner == Rotate(t, Now(t).nodes[p][f], g, f)
    IN  Rotate(Link(inner.writes, p, f, inner.root), p, f, g)

\* The new node of update(); it is counted before its parent points to it.
NewLeaf(t, w) ==
    LET p  == NewNode(Now(t))
        t1 == MallocNode(t)
        t2 == Append(t1, [Now(t1) EXCEPT
                  !.nodes[p] = [ZeroNode EXCEPT !.inuse = Now(t1).nodes[p].inuse]])
        t3 == scm_strdup(t2, w)
        t4 == SetNode(t3, p, "item", Len(Now(t3).strings))
        t5 == SetNode(t4, p, "count", 1)
        t6 == Add(t5, "items", 1)
    IN  [writes |-> Add(t6, "unique", 1), root |-> p]

\* update() of the subtree at p.
RECURSIVE update(_, _, _)
update(t, p, w) ==
    LET here == Word(Now(t), p)
        f == IF w < here THEN "left" ELSE "right"
        g == IF w < here THEN "right" ELSE "left"
        below == update(t, Now(t).nodes[p][f], w)
        t1 == Link(below.writes, p, f, below.root)
        child == Word(Now(t1), Now(t1).nodes[p][f])
        outer == IF w < here THEN w < child ELSE w > child
        turned == IF outer THEN Rotate(t1, p, f, g) ELSE RotateTwice(t1, p, f, g)
        hit == SetNode(t, p, "count", Now(t).nodes[p].count + 1)
    IN  IF p = NULL THEN NewLeaf(t, w)
        ELSE IF w = here
        THEN [writes |-> NewDepth(Add(hit, "items", 1), p), root |-> p]
        ELSE IF balance(Now(t1), p) \in -1 .. 1
        THEN [writes |-> NewDepth(t1, p), root |-> p]
        ELSE [writes |-> NewDepth(turned.writes, turned.root), root |-> turned.root]

RECURSIVE find_min(_, _)
find_min(m, p) == IF m.nodes[p].left = NULL THEN p ELSE find_min(m, m.nodes[p].left)

\* The end of delete().
Rebalanced(t, p) ==
    LET n == Now(t).nodes[p]
        b == balance(Now(t), p)
    IN  IF b > 1
        THEN IF balance(Now(t), n.left) >= 0 THEN Rotate(t, p, "left", "right")
             ELSE RotateTwice(t, p, "left", "right")
        ELSE IF b < -1
        THEN IF balance(Now(t), n.right) <= 0 THEN Rotate(t, p, "right", "left")
             ELSE RotateTwice(t, p, "right", "left")
        ELSE [writes |-> t, root |-> p]

\* delete() of the subtree at p.
RECURSIVE delete(_, _, _)
delete(t, p, w) ==
    LET n == Now(t).nodes[p]
        here == Word(Now(t), p)
        Below(u, f, v) ==
            LET d == delete(u, Now(u).nodes[p][f], v) IN Link(d.writes, p, f, d.root)
        least == Now(t).nodes[find_min(Now(t), n.right)]
        heir  == Word(Now(t), find_min(Now(t), n.right))
        t1 == scm_strdup(t, heir)
        t2 == SetNode(t1, p, "item", Len(Now(t1).strings))
        t3 == FreeString(SetNode(t2, p, "count", least.count), n.item)
        t4 == SetNode(t3, find_min(Now(t), n.right), "count", 1)
        after == IF w < here THEN Below(t, "left", w)
                 ELSE IF w > here THEN Below(t, "right", w)
                 ELSE IF n.count > 1 THEN SetNode(t, p, "count", n.count - 1)
                 ELSE Below(t4, "right", heir)
    IN  IF p = NULL THEN [writes |-> t, root |-> NULL]
        ELSE IF w = here /\ n.count <= 1 /\ (n.left = NULL \/ n.right = NULL)
        THEN [writes |-> FreeNode(FreeString(t, n.item), p),
              root   |-> IF n.left = NULL THEN n.right ELSE n.left]
        ELSE Rebalanced(NewDepth(after, p), p)

\* avl_exists(): the count of the node at which the search from p ends.
RECURSIVE Search(_, _, _)
Search(m, p, w) ==
    IF p = NULL THEN 0
    ELSE IF w = Word(m, p) THEN m.nodes[p].count
    ELSE Search(m, IF w < Word(m, p) THEN m.nodes[p].left ELSE m.nodes[p].right, w)

avl_exists(m, w) == Search(m, m.root, w)
-----------------------------------------------------------------------------
(***************************************************************************)
(* The calls, as what memory goes through.                                 *)
(***************************************************************************)
InsertWrites(m, w) ==
    LET u == update(<<m>>, m.root, w) IN LinkRoot(u.writes, u.root)

DeleteWrites(m, w) ==
    LET t1 == Add(<<m>>, "items", -1)
        t2 == IF avl_exists(m, w) = 1 THEN Add(t1, "unique", -1) ELSE t1
        d  == delete(t2, m.root, w)
    IN  LinkRoot(d.writes, d.root)

\* scm_open(): a new file, full of zeros, is as good as a truncated one.
ScmOpenWrites(m, truncate) ==
    IF ~truncate THEN <<m>>
    ELSE LET t1 == <<m, [m EXCEPT !.base = FALSE, !.nodes = <<>>, !.strings = <<>>,
                                  !.root = IF @ = NULL THEN NULL ELSE Wild]>>
         IN  Set(t1, "user", 0)

\* scm_malloc() of the state of an empty region, and memset().
NewState(t) ==
    LET t1 == Count(Set(t, "base", TRUE), StateLen)
    IN  Append(t1, [Now(t1) EXCEPT !.items = 0, !.unique = 0, !.root = NULL])

\* The state in the region is used if scm_utilized() is not 0.
OpenWrites(m, truncate) ==
    LET t == ScmOpenWrites(m, truncate)
    IN  IF Now(t).user # 0 THEN t
        ELSE IF ~Now(t).base THEN NewState(t)
        ELSE IF FreeNodes(Now(t)) = {} THEN Count(t, StateLen)
        ELSE SetNode(t, Min(FreeNodes(Now(t))), "inuse", 1)
-----------------------------------------------------------------------------
\* The nodes that can be reached from those of S.
RECURSIVE Reach(_, _)
Reach(m, S) ==
    LET more == (S \cup {m.nodes[p].left : p \in S} \cup {m.nodes[p].right : p \in S})
                    \ {NULL}
    IN  IF more = S THEN S ELSE Reach(m, more)

Reached(m) == IF m.root = NULL THEN {} ELSE Reach(m, {m.root})

\* The pointers to nodes that are met from the root on.
Links(m) ==
    {l \in {<<NULL, "root">>} \cup (Reached(m) \X {"left", "right"}) :
        (IF l[1] = NULL THEN m.root ELSE m.nodes[l[1]][l[2]]) # NULL}

\* A walk along the pointers ends: each node is pointed to once.
IsTree(m) == m.root # Wild /\ Cardinality(Links(m)) = Cardinality(Reached(m))

\* Items of the nodes of the tree, and the chunks that are marked as in use.
Items(m) == {m.nodes[p].item : p \in Reached(m)}
Marked(chunks) == {c \in DOMAIN chunks : chunks[c].inuse = 1}

\* A tree in memory that was not given back, whose depths are right and balanced.
IsLive(m) ==
    /\ IsTree(m)
    /\ Reached(m) \subseteq Marked(m.nodes)
    /\ Items(m) \subseteq Marked(m.strings)

IsSound(m) ==
    /\ IsLive(m)
    /\ \A p \in Reached(m) :
          /\ m.nodes[p].depth = depth(m, m.nodes[p].left, m.nodes[p].right)
          /\ balance(m, p) \in -1 .. 1
-----------------------------------------------------------------------------
Init ==
    /\ pc = "closed"
    /\ memory = [base |-> FALSE, user |-> 0, items |-> 0, unique |-> 0, root |-> NULL,
                 nodes |-> <<>>, strings |-> <<>>, turning |-> FALSE]
    /\ damage = "none"
    /\ kills = 0

Worse == IF damage = "broken" THEN "broken" ELSE "leak"

\* size_info[2] can only be other than 0 without a chunk if scm_open() was killed:
\* scm_mbase() is then the address of the first header.
avl_open(truncate) ==
    /\ pc \notin {"idle", "undefined"}
    /\ memory' = Now(OpenWrites(memory, truncate))
    /\ \/ ~memory'.base
          /\ pc' = "undefined" /\ damage' = damage
       \/ /\ memory'.base
          /\ memory.user # 0 \/ truncate \/ ~memory.base
          /\ pc' = "idle"
          /\ damage' = IF truncate THEN "none" ELSE damage
       \/ /\ memory.base /\ memory.user = 0 /\ ~truncate
          /\ pc' = "aborted" /\ damage' = Worse
    /\ UNCHANGED kills

avl_close ==
    /\ pc = "idle"
    /\ pc' = "closed"
    /\ UNCHANGED <<memory, damage, kills>>

HasRoom(t) == Len(Now(t).strings) <= MaxStrings

avl_insert ==
    /\ pc = "idle" /\ IsSound(memory)
    /\ \E w \in Words :
         /\ avl_exists(memory, w) < MaxCount[w] /\ HasRoom(InsertWrites(memory, w))
         /\ memory' = Now(InsertWrites(memory, w))
    /\ UNCHANGED <<pc, damage, kills>>

\* The command `delete' deletes only words that are there.
avl_delete ==
    /\ pc = "idle" /\ IsSound(memory)
    /\ \E w \in Words :
         /\ avl_exists(memory, w) # 0 /\ HasRoom(DeleteWrites(memory, w))
         /\ memory' = Now(DeleteWrites(memory, w))
    /\ UNCHANGED <<pc, damage, kills>>

\* A call on what a killed one has left half changed is not followed: it may go in
\* a circle, find memory that was given back, or a NULL where it rotates.
CallOnRuins ==
    /\ pc = "idle" /\ ~IsSound(memory)
    /\ pc' = "undefined"
    /\ UNCHANGED <<memory, damage, kills>>

\* The process is killed in the call that makes the writes t, or before it.
Killed(t) ==
    /\ kills' = kills + 1
    /\ pc' = "closed"
    /\ \E k \in 1 .. Len(t) - 1 :
         /\ memory' = t[k]
         /\ damage' = IF k = 1 THEN damage ELSE IF IsSound(t[k]) THEN Worse ELSE "broken"

KilledInsert ==
    /\ pc = "idle" /\ kills < MaxKills /\ IsSound(memory)
    /\ \E w \in Words :
         /\ avl_exists(memory, w) < MaxCount[w] /\ HasRoom(InsertWrites(memory, w))
         /\ Killed(InsertWrites(memory, w))

KilledDelete ==
    /\ pc = "idle" /\ kills < MaxKills /\ IsSound(memory)
    /\ \E w \in Words :
         /\ avl_exists(memory, w) # 0 /\ HasRoom(DeleteWrites(memory, w))
         /\ Killed(DeleteWrites(memory, w))

KilledOpen(truncate) ==
    /\ pc \notin {"idle", "undefined"} /\ kills < MaxKills
    /\ Killed(OpenWrites(memory, truncate))

Next ==
    \/ \E truncate \in BOOLEAN : avl_open(truncate) \/ KilledOpen(truncate)
    \/ avl_close \/ avl_insert \/ avl_delete
    \/ KilledInsert \/ KilledDelete \/ CallOnRuins

Spec == Init /\ [][Next]_vars
-----------------------------------------------------------------------------
\* The type invariant of the file: the fields of its blocks, every pointer NULL or
\* a block that was handed out, or the root of an earlier content.
TypeOK ==
    /\ pc \in {"idle", "closed", "aborted", "undefined"}
    /\ memory.base \in BOOLEAN /\ memory.turning \in BOOLEAN
    /\ memory.user \in 0 .. Wrap - 1
    /\ memory.items \in 0 .. Wrap - 1 /\ memory.unique \in 0 .. Wrap - 1
    /\ memory.root \in {Wild, NULL} \cup DOMAIN memory.nodes
    /\ memory.nodes \in Seq([inuse : {0, 1}, depth : Nat, count : Nat,
                             item : {NULL} \cup DOMAIN memory.strings,
                             left : {NULL} \cup DOMAIN memory.nodes,
                             right : {NULL} \cup DOMAIN memory.nodes])
    /\ memory.strings \in Seq([inuse : {0, 1}, word : Words])
    /\ damage \in {"none", "leak", "broken"}
    /\ kills \in 0 .. MaxKills

\* While no call was cut short nothing is lost to the allocator and nothing is
\* given back too early: the blocks in use are those of the tree, and no two nodes
\* share a word.
HeapIsExact ==
    (damage = "none" /\ pc = "idle") =>
        /\ IsTree(memory)
        /\ Marked(memory.nodes) = Reached(memory)
        /\ Marked(memory.strings) = Items(memory)
        /\ Cardinality(Items(memory)) = Cardinality(Reached(memory))

\* Memory that is merely lost to the allocator, by a killed call or a failed
\* assertion, never harms the tree, whatever calls follow: it stays balanced, with
\* the right depths, and in blocks that were not given back.
LeaksAreHarmless == (damage # "broken" /\ pc = "idle") => IsSound(memory)

Found(m) == {w \in Words : avl_exists(m, w) # 0}

\* Outside a rotation a killed insertion leaves a tree, with every word that was in
\* it, and a killed deletion, which begins with counting items down, loses one word
\* at most: pointers are changed in an order that keeps the other nodes linked.
KilledCallsKeepWords ==
    [][ damage = "none" /\ pc = "idle" /\ kills' > kills /\ ~memory'.turning =>
          /\ \E w \in Words : Found(memory) \ {w} \subseteq Found(memory')
          /\ memory'.items >= memory.items =>
                IsLive(memory') /\ Found(memory) \subseteq Found(memory') ]_vars

\* The assertion of avl_open() holds: a file with a tree in it can be opened again.
OpensAgain == pc # "aborted"
-----------------------------------------------------------------------------
\* The tree as module Avl sees it; it has no more levels than words.
Nil == [depth |-> -1]

RECURSIVE TreeAt(_, _)
TreeAt(m, p) ==
    IF p = NULL THEN Nil
    ELSE [depth |-> m.nodes[p].depth, count |-> m.nodes[p].count, item |-> Word(m, p),
          left |-> TreeAt(m, m.nodes[p].left), right |-> TreeAt(m, m.nodes[p].right)]

Tree == INSTANCE Avl WITH open      <- pc = "idle",
                          root      <- TreeAt(memory, memory.root),
                          items     <- memory.items,
                          unique    <- memory.unique,
                          MaxLevels <- Cardinality(Words) + 1

\* The writes to nodes, pointers and counters are, call by call, the operations of
\* module Avl on trees, as long as no call was cut short.
ImplementsAvl ==
    /\ Tree!Init
    /\ [][ damage = "none" /\ damage' = "none" => [Tree!Next]_(Tree!vars) ]_vars
=============================================================================
