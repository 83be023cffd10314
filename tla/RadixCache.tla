----------------------------- MODULE RadixCache -----------------------------
(***************************************************************************)
(* The prefix cache of mem_cache/radix_cache.py together with the paged    *)
(* allocator of mem_cache/allocator.py that its nodes take pages from, as  *)
(* operators on one record c:                                              *)
(*   c.path[n]    the KV slots of the tokens on the way from the root to n *)
(*   c.lock[n]    TreeNode.lock_ref                                        *)
(*   c.evictable, c.protected    evictable_size_ and protected_size_       *)
(*   c.leaves     evictable_leaves, the cached candidates of evict         *)
(*   c.free       the pages of the free list, c.twice those freed while    *)
(*                they were on it                                          *)
(* A node is named by the tokens on the way to its end.  Splitting a node  *)
(* in the code makes a new object for the upper part and keeps the lower   *)
(* one, so the name of an object never changes.                            *)
(*                                                                         *)
(* Which free page is handed out is not observable: the lowest one is.     *)
(* The seven eviction strategies of mem_cache/evict_policy.py differ in    *)
(* the order in which leaves are popped: Evictions has every order.        *)
(***************************************************************************)
EXTENDS Integers, Sequences, FiniteSets, SequencesExt, FiniteSetsExt, Functions, TLC

CONSTANTS
    PageSize,              \* page_size
    NumPages               \* PagedTokenToKVPoolAllocator.num_pages

ASSUME PageAssumption == PageSize \in Nat \ {0} /\ NumPages \in Nat \ {0}

Pages == 1..NumPages
PageOf(s) == s \div PageSize
FloorPage(n) == (n \div PageSize) * PageSize
CeilPage(n) == FloorPage(n + PageSize - 1)
page_aligned(k) == SubSeq(k, 1, FloorPage(Len(k)))

Root == << >>
EmptyCache == [path |-> Root :> << >>, lock |-> Root :> 1,
               evictable |-> 0, protected |-> 0, leaves |-> {},
               free |-> Pages, twice |-> {}]

Nodes(c) == DOMAIN c.path \ {Root}
\* n and its ancestors below the root.
PathTo(c, n) == {m \in Nodes(c) : IsPrefix(m, n)}
Children(c, n) == {m \in Nodes(c) : IsStrictPrefix(n, m)}
Parent(c, n) ==
    CHOOSE m \in DOMAIN c.path :
        /\ IsStrictPrefix(m, n)
        /\ \A q \in DOMAIN c.path : IsStrictPrefix(q, n) => Len(q) <= Len(m)
Segment(c, n) == SubSeq(c.path[n], Len(Parent(c, n)) + 1, Len(n))
Size(c, S) == MapThenSumSet(LAMBDA n : Len(Segment(c, n)), S)
available_size(c) == PageSize * Cardinality(c.free)

\* allocator.free: the pages of the slots, each of them once.
Free(c, S) ==
    LET pages == {PageOf(s) : s \in S}
    IN [c EXCEPT !.free = @ \cup pages, !.twice = @ \cup (pages \cap c.free)]

\* row[a:b], as a set.
Slice(row, a, b) == {row[i] : i \in (a + 1)..b}

\* The free pages in the order they are handed out.
FreePages(c) == SelectSeq([p \in Pages |-> p], LAMBDA p : p \in c.free)

\* How many new pages a request needs to grow from m tokens to n.
NewPages(m, n) == (CeilPage(n) - CeilPage(m)) \div PageSize

\* alloc_extend and alloc_decode for one request: the row is continued in its last
\* page and then in new ones.
Grow(c, row, n) ==
    LET taken == SubSeq(FreePages(c), 1, NewPages(Len(row), n))
        page(i) == IF i <= CeilPage(Len(row)) THEN PageOf(Last(row))
                   ELSE taken[((i - 1 - CeilPage(Len(row))) \div PageSize) + 1]
        slot(i) == page(i) * PageSize + ((i - 1) % PageSize)
    IN [cache |-> [c EXCEPT !.free = @ \ ToSet(taken)],
        row |-> row \o SubSeq([i \in 1..n |-> slot(i)], Len(row) + 1, n)]

-----------------------------------------------------------------------------
(* Locks and the cached set of evictable leaves. *)

IsEvictableLeaf(c, n) == c.lock[n] = 0 /\ Children(c, n) = {}

\* Mutant: a node that gets its first child stays a candidate.
LeafStatusKeeps(c, S) ==
    [c EXCEPT !.leaves = @ \cup {n \in S \ {Root} : IsEvictableLeaf(c, n)}]

\* _update_leaf_status of every node of S; the root is always locked.
LeafStatus(c, S) ==
    [c EXCEPT !.leaves = (@ \ S) \cup {n \in S \ {Root} : IsEvictableLeaf(c, n)}]

inc_lock_ref(c, n) ==
    LET P == PathTo(c, n)
        delta == Size(c, {m \in P : c.lock[m] = 0})
    IN LeafStatus([c EXCEPT !.lock = [m \in P |-> @[m] + 1] @@ @,
                            !.evictable = @ - delta,
                            !.protected = @ + delta], P)

dec_lock_ref(c, n) ==
    LET P == PathTo(c, n)
        delta == Size(c, {m \in P : c.lock[m] = 1})
    IN LeafStatus([c EXCEPT !.lock = [m \in P |-> @[m] - 1] @@ @,
                            !.evictable = @ + delta,
                            !.protected = @ - delta], P)

-----------------------------------------------------------------------------
(* Lookup and insertion. *)

CommonLen(s, t) ==
    Max({i \in 0..Len(s) : i <= Len(t) /\ SubSeq(s, 1, i) = SubSeq(t, 1, i)})

\* Where the walk down the tree ends.  The children of a node differ in their
\* first page, so the walk finds the longest match in whole pages.
MatchedKey(c, k) ==
    SubSeq(k, 1, Max({FloorPage(CommonLen(k, n)) : n \in DOMAIN c.path}))

\* Mutant: the upper part of a split node starts unlocked.
SplitUnlocked(c, m) ==
    IF m \in DOMAIN c.path THEN c
    ELSE LET child == CHOOSE n \in Children(c, m) :
                          \A q \in Children(c, m) : Len(n) <= Len(q)
         IN [c EXCEPT !.path = @ @@ (m :> SubSeq(c.path[child], 1, Len(m))),
                      !.lock = @ @@ (m :> 0)]

\* _split_node, when the match m ends inside a node.
Split(c, m) ==
    IF m \in DOMAIN c.path THEN c
    ELSE LET child == CHOOSE n \in Children(c, m) :
                          \A q \in Children(c, m) : Len(n) <= Len(q)
         IN [c EXCEPT !.path = @ @@ (m :> SubSeq(c.path[child], 1, Len(m))),
                      !.lock = @ @@ (m :> c.lock[child])]

match_prefix(c, k) ==
    LET m == MatchedKey(c, page_aligned(k))
        split == Split(c, m)
    IN [cache |-> split, indices |-> split.path[m], last_node |-> m]

insert(c, k, value) ==
    LET key == page_aligned(k)
        m == MatchedKey(c, key)
        split == Split(c, m)
        slots == split.path[m] \o SubSeq(value, Len(m) + 1, Len(key))
    IN [prefix_len |-> Len(m),
        cache |-> IF m = key THEN split
                  ELSE LeafStatus([split EXCEPT !.path = @ @@ (key :> slots),
                                                !.lock = @ @@ (key :> 0),
                                                !.evictable = @ + Len(key) - Len(m)],
                                  {m, key})]

-----------------------------------------------------------------------------
(* Eviction. *)

\* Nodes the heap of evict may hold once the nodes of D are deleted.
Candidates(c, D) ==
    {x \in Nodes(c) : \/ x \in c.leaves
                      \/ /\ c.lock[x] = 0
                         /\ Children(c, x) # {} /\ Children(c, x) \subseteq D}

\* The sets of nodes evict(n) may delete: it pops until n tokens are freed or
\* the heap is empty.
Evictions(c, n) ==
    {D \in SUBSET {x \in Nodes(c) : x \in c.leaves \/ c.lock[x] = 0} :
        /\ D \subseteq Candidates(c, D)
        /\ D # {} => \E x \in D : Parent(c, x) \notin D /\ Size(c, D \ {x}) < n
        /\ Size(c, D) >= n \/ Candidates(c, D) \subseteq D}

\* _delete_leaf of every node of D, and the pages of their values.
Delete(c, D) ==
    LET kept == DOMAIN c.path \ D
        cut == [Free(c, UNION {ToSet(Segment(c, x)) : x \in D}) EXCEPT
                  !.path = Restrict(c.path, kept), !.lock = Restrict(c.lock, kept),
                  !.evictable = @ - Size(c, D), !.leaves = @ \ D]
    IN LeafStatus(cut, {Parent(c, x) : x \in D} \ D)

\* evict_from_tree_cache: the caches it may leave.
EvictFrom(c, n) ==
    IF available_size(c) < n THEN {Delete(c, D) : D \in Evictions(c, n)} ELSE {c}

-----------------------------------------------------------------------------
(* What requests do with the cache; row holds the slots of the tokens.       *)

\* Mutant: the slots of a prefix another request inserted first stay allocated.
FinishedKeepsDuplicates(c, tokens, row, protected, last_node, is_insert) ==
    LET key == page_aligned(tokens)
        done == insert(c, key, row)
        dup == IF is_insert THEN done.cache
               ELSE Free(c, Slice(row, protected, Len(key)))
    IN dec_lock_ref(Free(dup, Slice(row, Len(key), Len(tokens))), last_node)

\* cache_finished_req, and the frees of release_kv_cache.
cache_finished_req(c, tokens, row, protected, last_node, is_insert) ==
    LET key == page_aligned(tokens)
        done == insert(c, key, row)
        dup == IF is_insert
                 THEN Free(done.cache, Slice(row, protected, done.prefix_len))
                 ELSE Free(c, Slice(row, protected, Len(key)))
    IN dec_lock_ref(Free(dup, Slice(row, Len(key), Len(tokens))), last_node)

\* Mutant: the row keeps the slots it freed instead of those of the tree.
UnfinishedKeepsRow(c, tokens, row, protected, last_node) ==
    LET done == insert(c, tokens, row)
        freed == Free(done.cache, Slice(row, protected, done.prefix_len))
        found == match_prefix(freed, tokens)
    IN [cache |-> inc_lock_ref(dec_lock_ref(found.cache, last_node), found.last_node),
        row |-> row, protected |-> Len(found.indices), last_node |-> found.last_node]

\* Mutant: the pages of the prefix the request shares are freed as duplicates.
UnfinishedFreesShared(c, tokens, row, protected, last_node) ==
    LET done == insert(c, tokens, row)
        freed == Free(done.cache, Slice(row, 0, done.prefix_len))
        found == match_prefix(freed, tokens)
    IN [cache |-> inc_lock_ref(dec_lock_ref(found.cache, last_node), found.last_node),
        row |-> found.indices \o SubSeq(row, Len(found.indices) + 1, Len(row)),
        protected |-> Len(found.indices), last_node |-> found.last_node]

cache_unfinished_req(c, tokens, row, protected, last_node) ==
    LET done == insert(c, tokens, row)
        freed == Free(done.cache, Slice(row, protected, done.prefix_len))
        found == match_prefix(freed, tokens)
    IN [cache |-> inc_lock_ref(dec_lock_ref(found.cache, last_node), found.last_node),
        row |-> SubSeq(row, 1, protected)
                \o SubSeq(found.indices, protected + 1, Len(found.indices))
                \o SubSeq(row, Len(found.indices) + 1, Len(row)),
        protected |-> Len(found.indices),
        last_node |-> found.last_node]
=============================================================================
