----------------------------- MODULE BlockCache -----------------------------
(***************************************************************************)
(* The paged KV cache of one worker: class CacheManager                    *)
(* (server/cache_manager.py) with its BlockAllocator and SlotAllocator      *)
(* (server/cache/allocator.py) and its prefix cache, the radix tree of      *)
(* class BlockRadixCache (server/block_radix_cache.py).                     *)
(*                                                                         *)
(* A request gets a table of blocks when it is admitted; its prefill        *)
(* writes them and inserts the full ones into the tree; later requests with *)
(* the same prefix share them; each decoded token may take one block more.  *)
(* The executor that makes these calls is a single thread, so one action is *)
(* one call; BCNext makes the calls of all requests in every order that the *)
(* life of each request allows (admitted, prefilled, decoded, released).    *)
(***************************************************************************)
EXTENDS Integers, FiniteSets, SequencesExt

CONSTANTS Requests,    \* request ids; an id may be used again once released
          Prompt,      \* Prompt[r]: the tokens of request r
          BlockSize,   \* tokens in a block
          NumBlocks,   \* num_gpu_blocks
          MaxCached,   \* max_cached_blocks
          PrefixCache, \* enable_prefix_cache
          NumSlots,    \* max_num_seqs: state slots of a hybrid model
          Hybrid,      \* needs_slots: the model has linear layers
          MaxBatch,    \* micro_batch_size
          MaxLength    \* bound: tokens of a request, prompt and output

ASSUME BCAssumption ==
  /\ {BlockSize, MaxBatch} \subseteq Nat \ {0}
  /\ {NumBlocks, MaxCached, NumSlots, MaxLength} \subseteq Nat
  /\ \A r \in Requests : Prompt[r] \in Seq(ToSet(Prompt[r])) /\ Len(Prompt[r]) \in 1..MaxLength
  /\ {PrefixCache, Hybrid} \subseteq BOOLEAN

VARIABLES free,    \* BlockAllocator.free_blocks, a stack; the others are used_blocks
          table,   \* block_tables: request -> its blocks, a partial function
          context, \* context_lengths, likewise
          slotted, \* the requests in request_slots
          tree,    \* the BlockTreeNode objects, a partial function of their ids
          cached,  \* num_cached_blocks
          holds,   \* request_to_nodes: request -> its path in the tree, partial
          written, \* the requests whose prefill has run
          content, \* what the forward passes have written to each block
          up,      \* no exception has ended the executor's loop
          whole    \* history: nothing has been evicted from the tree or displaced in it

bcvars == <<free, table, context, slotted, tree, cached, holds,
            written, content, up, whole>>

Blocks == 1..NumBlocks
Root == 0

BCInit ==
  /\ free = [b \in Blocks |-> b]
  /\ table = <<>> /\ context = <<>> /\ holds = <<>>   \* functions of no request yet
  /\ slotted = {} /\ written = {}
  /\ tree = <<>> /\ cached = 0
  /\ content = [b \in Blocks |-> <<>>]
  /\ up = TRUE /\ whole = TRUE

\* What n rounds of a loop make of s.
After(Round(_, _), s, n) ==
  LET after[i \in 0..n] == IF i = 0 THEN s ELSE Round(after[i - 1], i)
  IN  after[n]

Put(f, x, v) == [y \in DOMAIN f \cup {x} |-> IF y = x THEN v ELSE f[y]]
Drop(f, x) == [y \in DOMAIN f \ {x} |-> f[y]]

----------------------------------------------------------------------------
(***************************************************************************)
(* The tree                                                                *)
(***************************************************************************)
\* The full blocks of r's prompt, the tokens of the i-th, and the blocks it needs.
Full(r) == Len(Prompt[r]) \div BlockSize
Tokens(r, i) == SubSeq(Prompt[r], (i - 1) * BlockSize + 1, i * BlockSize)
BlocksFor(len) == (len + BlockSize - 1) \div BlockSize

\* parent.children: a node that was evicted, or displaced by another with the same
\* first token, keeps its parent but is no longer linked from it.
Children(t, p) == {n \in DOMAIN t : t[n].linked /\ t[n].parent = p}

\* The nodes reached from a set of nodes; the tree is what is reached from the root.
Reach(t, S) ==
  After(LAMBDA reached, i : reached \cup {n \in DOMAIN t : t[n].linked /\ t[n].parent \in reached},
        S, MaxLength)
InTree(t) == Reach(t, {Root}) \ {Root}

Tip(path) == IF path = <<>> THEN Root ELSE Last(path)

\* last_access_time as an age: the number of nodes that were accessed later. The nodes of a
\* path are accessed one after the other.
Position(path, n) == CHOOSE i \in DOMAIN path : path[i] = n
Touch(t, path) ==
  [n \in DOMAIN t |->
     [t[n] EXCEPT !.age = IF Contains(path, n) THEN Len(path) - Position(path, n)
                          ELSE @ + Len(path)]]

\* Mutation of Relock: the count is not stopped at 0.
RelockBelowZero(t, path, d) ==
  [n \in DOMAIN t |-> IF Contains(path, n) THEN [t[n] EXCEPT !.lock = @ + d] ELSE t[n]]
\* The counts of increase_lock_ref and decrease_lock_ref, which stops at 0.
Relock(t, path, d) ==
  [n \in DOMAIN t |->
     IF Contains(path, n) THEN [t[n] EXCEPT !.lock = IF @ + d < 0 THEN 0 ELSE @ + d] ELSE t[n]]

\* Mutation of Hits: the key of the child is compared, not its tokens.
HitsByFirstToken(r, i, p) == {n \in Children(tree, p) : tree[n].tokens[1] = Tokens(r, i)[1]}
\* The child of p that stands for the i-th block of r: at most one, with all its tokens.
Hits(r, i, p) == {n \in Children(tree, p) : tree[n].tokens = Tokens(r, i)}

\* match_prefix: hit after hit from the root.
MatchPrefix(r) ==
  After(LAMBDA path, i :
          IF Len(path) = i - 1 /\ Hits(r, i, Tip(path)) # {}
          THEN Append(path, CHOOSE n \in Hits(r, i, Tip(path)) : TRUE) ELSE path,
        <<>>, Full(r))

\* BlockAllocator.free: a block that is already free is refused.
GiveBack(stack, b) == IF Contains(stack, b) THEN stack ELSE Append(stack, b)
Freed(stack, blocks, kept) ==
  After(LAMBDA f, i : IF blocks[i] \in kept THEN f ELSE GiveBack(f, blocks[i]),
        stack, Len(blocks))

\* _evict_lru_blocks removes one unlocked leaf after the other, the oldest first,
\* and gives its block back.
Evict(s) ==
  LET leaves == {n \in InTree(s.tree) : s.tree[n].lock = 0 /\ Children(s.tree, n) = {}}
      victim == CHOOSE n \in leaves : \A m \in leaves : s.tree[m].age <= s.tree[n].age
  IN  IF leaves = {} THEN s
      ELSE [s EXCEPT !.tree[victim].linked = FALSE,
                     !.free = GiveBack(@, s.tree[victim].block),
                     !.cached = @ - 1, !.whole = FALSE]
EvictLRU(s) ==
  IF s.cached <= MaxCached THEN s ELSE After(LAMBDA t, i : Evict(t), s, s.cached - MaxCached)

\* insert_block at the end of s.path: a child with the same tokens is kept, one with
\* only the same first token is displaced with all that is below it. The new node is
\* not locked when the least recently used ones are evicted.
NewId(t) == CHOOSE n \in 1..(Cardinality(DOMAIN t) + 1) : n \notin DOMAIN t
InsertBlock(s, tokens, block) ==
  LET children  == Children(s.tree, Tip(s.path))
      same      == {n \in children : s.tree[n].tokens = tokens}
      displaced == {n \in children : s.tree[n].tokens[1] = tokens[1]}
      new  == NewId(s.tree)
      node == [tokens |-> tokens, block |-> block, parent |-> Tip(s.path),
               lock |-> 0, linked |-> TRUE, age |-> 0]
      kept == [n \in DOMAIN s.tree |->
                 [s.tree[n] EXCEPT !.linked = @ /\ n \notin displaced, !.age = @ + 1]]
  IN  IF same # {} THEN [s EXCEPT !.path = Append(@, CHOOSE n \in same : TRUE)]
      ELSE EvictLRU([s EXCEPT !.tree = Put(kept, new, node), !.cached = @ + 1,
                              !.path = Append(@, new), !.whole = @ /\ displaced = {}])

\* Python drops the nodes that neither the tree nor a request refers to.
Alive(t, h) == Reach(t, {Root} \cup UNION {ToSet(h[r]) : r \in DOMAIN h}) \ {Root}
Collected(t, h) ==
  LET alive == Alive(t, h)
  IN  [n \in alive |-> [t[n] EXCEPT !.age = Cardinality({m \in alive : t[m].age < t[n].age})]]

----------------------------------------------------------------------------
(***************************************************************************)
(* The manager's calls                                                     *)
(***************************************************************************)
Matched(r) == IF PrefixCache THEN MatchPrefix(r) ELSE <<>>
Needed(r) == BlocksFor(Len(Prompt[r])) - Len(Matched(r))
SlotsOut == Hybrid /\ Cardinality(slotted) = NumSlots
Held(r) == IF r \in DOMAIN holds THEN holds[r] ELSE <<>>
Hold(h, r, path) == IF path = <<>> THEN h ELSE Put(h, r, path)

\* allocate_request takes the matched prefix, a slot and the blocks behind the prefix.
Allocate(r) ==
  LET path == Matched(r)
      left == Len(free) - Needed(r)
  IN  /\ up /\ r \notin DOMAIN table
      /\ ~SlotsOut /\ left >= 0
      /\ free' = SubSeq(free, 1, left)
      /\ table' = Put(table, r, [i \in DOMAIN path |-> tree[path[i]].block]
                                 \o SubSeq(free, left + 1, Len(free)))
      /\ context' = Put(context, r, Len(Prompt[r]))
      /\ slotted' = IF Hybrid THEN slotted \cup {r} ELSE slotted
      /\ holds' = Hold(holds, r, path)
      /\ tree' = Collected(Relock(Touch(tree, path), path, 1), holds')
      /\ UNCHANGED <<cached, written, content, up, whole>>

\* Too few free blocks: the slot and the locks are given back.
AllocateNoBlocks(r) ==
  /\ up /\ r \notin DOMAIN table
  /\ ~SlotsOut /\ Needed(r) > Len(free)
  /\ tree' = Collected(Touch(tree, Matched(r)), holds)
  /\ UNCHANGED <<free, table, context, slotted, cached, holds, written, content, up, whole>>

\* No free slot: the locks are kept, and the bare False is not the pair that
\* admit_requests unpacks, outside of any try of the executor's loop.
AllocateNoSlot(r) ==
  /\ up /\ r \notin DOMAIN table
  /\ SlotsOut
  /\ holds' = Hold(holds, r, Matched(r))
  /\ tree' = Collected(Relock(Touch(tree, Matched(r)), Matched(r), 1), holds')
  /\ up' = FALSE
  /\ UNCHANGED <<free, table, context, slotted, cached, written, content, whole>>

\* insert_full_blocks_to_cache: the list of the nodes a request holds is extended
\* in place, so a request that already held some first unlocks them all, the new
\* ones included.
InsertBlocks(s, r) ==
  LET held == IF r \in DOMAIN s.holds THEN s.holds[r] ELSE <<>>
  IN  After(LAMBDA u, i : InsertBlock(u, Tokens(r, Len(held) + i), table[r][Len(held) + i]),
            [s EXCEPT !.path = held], Full(r) - Len(held))
InsertFullBlocks(s, r) ==
  LET held == IF r \in DOMAIN s.holds THEN s.holds[r] ELSE <<>>
      t == InsertBlocks(s, r)
      unlocked == IF held = <<>> THEN t.tree ELSE Relock(t.tree, t.path, -1)
  IN  [t EXCEPT !.tree = Relock(Touch(unlocked, t.path), t.path, 1),
                !.holds = Hold(@, r, t.path)]

\* process_batch on a prefill batch: the forward pass writes the blocks behind each
\* matched prefix, then the full blocks of each request go into the tree. A full block
\* holds the keys and values of the prompt up to its end, a last partial one is r's own.
KV(r, i) == IF i <= Full(r) THEN SubSeq(Prompt[r], 1, i * BlockSize) ELSE <<r>>
\* What a batch writes to a block: it is behind the prefix of one request at most.
Writes(b, batch) ==
  UNION {{KV(r, i) : i \in {j \in DOMAIN table[r] : Len(Held(r)) < j /\ table[r][j] = b}} :
           r \in ToSet(batch)}
Inserted(batch) ==
  LET s == [tree |-> tree, cached |-> cached, free |-> free, holds |-> holds, whole |-> whole,
            path |-> <<>>]
  IN  IF PrefixCache THEN After(LAMBDA t, i : InsertFullBlocks(t, batch[i]), s, Len(batch)) ELSE s
Prefill(batch) ==
  LET s == Inserted(batch)
  IN  /\ up /\ batch # <<>> /\ IsInjective(batch)
      /\ ToSet(batch) \subseteq DOMAIN table \ written
      /\ written' = written \cup ToSet(batch)
      /\ content' = [b \in Blocks |-> IF Writes(b, batch) = {} THEN content[b]
                                      ELSE CHOOSE v \in Writes(b, batch) : TRUE]
      /\ free' = s.free /\ cached' = s.cached /\ holds' = s.holds /\ whole' = s.whole
      /\ tree' = Collected(s.tree, s.holds)
      /\ UNCHANGED <<table, context, slotted, up>>

\* append_slot, and the decode step that writes the slot. Without a free block for it
\* append_slot fails and the executor releases the request (FreeRequest).
AppendSlot(r) ==
  LET full == context[r] % BlockSize = 0
  IN  /\ up /\ r \in written /\ context[r] < MaxLength
      /\ full => free # <<>>
      /\ context' = [context EXCEPT ![r] = @ + 1]
      /\ table' = IF full THEN [table EXCEPT ![r] = Append(@, Last(free))] ELSE table
      /\ free' = IF full THEN Front(free) ELSE free
      /\ content' = [content EXCEPT ![Last(table'[r])] = <<r>>]
      /\ UNCHANGED <<slotted, tree, cached, holds, written, up, whole>>

\* Mutations of Kept: shared blocks are freed; blocks that may never have come into
\* the tree are not.
KeptNone(r) == {}
KeptFull(r) == ToSet(SubSeq(table[r], 1, Full(r)))
\* The blocks of the nodes a request holds stay with the tree when it is released.
Kept(r) == {tree[n].block : n \in ToSet(Held(r))}

\* free_request, whenever the request finishes, is aborted or fails.
FreeRequest(r) ==
  /\ up /\ r \in DOMAIN table
  /\ holds' = Drop(holds, r)
  /\ tree' = Collected(Relock(tree, Held(r), -1), holds')
  /\ free' = Freed(free, table[r], Kept(r))
  /\ table' = Drop(table, r) /\ context' = Drop(context, r)
  /\ slotted' = slotted \ {r} /\ written' = written \ {r}
  /\ UNCHANGED <<cached, content, up, whole>>

BCNext ==
  \/ \E r \in Requests : \/ Allocate(r) \/ AllocateNoBlocks(r) \/ AllocateNoSlot(r)
                         \/ AppendSlot(r) \/ FreeRequest(r)
  \/ \E batch \in BoundedSeq(Requests, MaxBatch) : Prefill(batch)

BCSpec == BCInit /\ [][BCNext]_bcvars

----------------------------------------------------------------------------
(***************************************************************************)
(* Properties                                                              *)
(***************************************************************************)
\* The types, no block twice in the free stack, and locks and counts that never go
\* below zero although locks are given back more often than taken.
BCTypeOK ==
  /\ free \in Seq(Blocks) /\ IsInjective(free)
  /\ DOMAIN table = DOMAIN context /\ \A r \in DOMAIN table : table[r] \in Seq(Blocks)
  /\ written \subseteq DOMAIN table
  /\ slotted \subseteq Requests /\ Cardinality(slotted) <= NumSlots
  /\ \A n \in DOMAIN tree : tree[n].lock \in Nat /\ tree[n].block \in Blocks
  /\ \A m, n \in DOMAIN tree : tree[m].age = tree[n].age => m = n
  /\ cached \in Nat
  /\ \A r \in DOMAIN holds : ToSet(holds[r]) \subseteq DOMAIN tree
  /\ up \in BOOLEAN /\ whole \in BOOLEAN

InUse == UNION {ToSet(table[r]) : r \in DOMAIN table}

\* A request that has been prefilled finds its own keys and values in every block of
\* its table, whoever shares them and whoever was released meanwhile, as long as the
\* tree has lost nothing.
ReadsOwnKV ==
  whole => \A r \in written : \A i \in DOMAIN table[r] : content[table[r][i]] = KV(r, i)

\* Every block is free, in the table of a request, or in the tree, from where an
\* eviction can give it back: no sequence of admissions and releases loses one, as long
\* as the tree has lost nothing.
NothingLeaks ==
  whole => \A b \in Blocks :
    b \in ToSet(free) \cup InUse \cup {tree[n].block : n \in InTree(tree)}

\* The blocks a request would take from the prefix cache hold the keys and values of
\* its own prefix, although blocks are evicted, reused and displaced.
HitsAreOwnPrefix ==
  \A r \in Requests : \A i \in DOMAIN MatchPrefix(r) :
    content[tree[MatchPrefix(r)[i]].block] = KV(r, i)

\* A block in the table of a request is never free: the lock counts of the nodes keep
\* the eviction away from it ("ref count = 0, evictable", block_radix_cache.py:195).
InUseNotFree == InUse \cap ToSet(free) = {}
=============================================================================
