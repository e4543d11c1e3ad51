------------------------------- MODULE DDTree -------------------------------
(***************************************************************************)
(* Draft trees ("DDTree"): a round verifies a tree of drafts in one pass,  *)
(* accepts one path of it, and makes the path what the next round goes on  *)
(* from.                                                                   *)
(*   attention   row o of a request is cached at its position plus o; the  *)
(*               path's rows are then copied next to each other            *)
(*               (_compact_ddtree_accepted_attention_kv);                  *)
(*   recurrence  node o leaves its state in column o; either the path's    *)
(*               columns are copied together or the selector names the     *)
(*               last accepted node (_update_states_after_model_execute).  *)
(* src/fork_patches/gpu_model_runner.py, with the visibility mask of       *)
(* flash_attn_v100.py, the tree recurrence of qwen_gdn_linear_attn.py and  *)
(* the fast metadata build of gdn_attn.py.                                 *)
(* Scheduling is synchronous and every request brings a tree; the drafter, *)
(* the scheduler and the sampler's choice are not in the repository.       *)
(***************************************************************************)
EXTENDS Integers, Sequences, FiniteSets, SequencesExt, FiniteSetsExt, Folds

CONSTANTS
    Req,        \* requests
    Trees,      \* draft trees: the parent of node i, 0 for the root row
    Width,      \* max_spec_state_slots: columns per request
    MaxTokens,  \* by request: tokens it may still generate
    MaxRounds,  \* bound: rounds that are explored
    Boots       \* [overrides, compacts, fast]: see Positions, CompactState, Common

ASSUME DDTreeAssumption ==
    /\ Width \in Nat \ {0} /\ MaxRounds \in Nat
    /\ MaxTokens \in [Req -> Nat \ {0}]
    /\ \A t \in Trees : Len(t) \in 1 .. Width - 1 /\ \A i \in DOMAIN t : t[i] \in 0 .. i - 1

VARIABLES
    boot, pc, round,
    live,       \* requests in the batch
    left,       \* tokens a request may still generate
    text,       \* the tokens computed for a request, as <<round, row>>
    tree,       \* the tree each request brought this round
    pos,        \* positions_cpu_sidecar, by row
    kv,         \* what the cache holds at each position
    col, sel,   \* states by column, as the tokens they stand after; selector
    rows,       \* accepted_node_indices
    sidecar,    \* _ddtree_accepted_rows_cpu_sidecar, None when unset
    common,     \* [key, first]: tokens of the batch the shared metadata buffers
                \* were filled for, and where its first row ends
    branched,   \* requests that have left the first branch
    cut         \* requests whose tokens were once not all run (see Collides)

vars == <<boot, pc, round, live, left, text, tree, pos, kv, col, sel, rows, sidecar,
          common, branched, cut>>

None == [unset |-> TRUE]

\* One pass over the nodes: parents come first.
Depth(t) ==
    LET d[i \in 0 .. Len(t)] == IF i = 0 THEN 0 ELSE d[t[i]] + 1 IN d
Ancestors(t) ==
    LET a[i \in 0 .. Len(t)] == IF i = 0 THEN {} ELSE {t[i]} \union a[t[i]] IN a

\* _ddtree_payload_is_flat_chain
FlatChain(t) == \A i \in DOMAIN t : t[i] = i - 1
NeedsTreeState == \E r \in live : ~FlatChain(tree[r])
Tokens(r) == Len(tree[r]) + 1

\* Accepted rows: the root row 0 and then a path down the tree.
PathsOf(t) == {<<0>> \o SetToSortSeq((Ancestors(t)[i] \union {i}) \ {0}, <) : i \in 0 .. Len(t)}

-----------------------------------------------------------------------------
(* The forward pass.                                                       *)

Base(r) == Len(text[r])

\* _build_ddtree_visibility_mask: the context, the root row, the row itself
\* and its ancestors.
Visible(r, o) ==
    (1 .. Base(r)) \union {Base(r) + 1 + a : a \in {0, o} \union Ancestors(tree[r])[o]}

\* What the row's softmax runs over.
Attends(r, o) == {kv[r][p] : p \in Visible(r, o)}

\* _forward_ddtree_gdn_pure_spec: the root row goes on from the selected
\* column and leaves its state in column 0; each depth goes on from the
\* columns of its parents.
TreeStates(r) ==
    LET t == tree[r]
        s[i \in 0 .. Len(t)] ==
            Append(IF i = 0 THEN col[r][sel[r] - 1] ELSE s[t[i]], <<round, i>>)
    IN  s

\* _apply_ddtree_position_overrides puts a node at the root's position plus
\* its depth, on the device and in the CPU sidecar; not with XD-RoPE.  The
\* slots the rows are cached in have been computed before.
Positions(r, t) ==
    [o \in 0 .. Len(t) |-> Base(r) + 1 + IF boot.overrides THEN Depth(t)[o] ELSE o]

Prepare ==
    /\ pc = "prepare" /\ round < MaxRounds
    /\ LET stay == {r \in live : left[r] > 0} IN
        /\ stay # {} /\ live' = stay
        /\ \E t \in [stay -> Trees] :
            /\ tree' = t
            /\ pos' = [r \in stay |-> Positions(r, t[r])]
    /\ round' = round + 1 /\ pc' = "forward"
    /\ UNCHANGED <<boot, left, text, kv, col, sel, rows, sidecar, common, branched, cut>>

\* _build_fast_pure_ddtree_full_graph: a single request with a tree
\* (VLLM_DFLASH_DDTREE_ENABLE_GDN_FAST_BUILD).
FastBuild == boot.fast /\ Cardinality(live) = 1

\* The query offsets left in the shared buffers.  Any batch has them written
\* in full, but one that is built fast and has as many tokens as the batch
\* they were last written for.
Common(first, total) ==
    IF FastBuild /\ common.key = total THEN common
    ELSE [key |-> total, first |-> first]

\* The tokens of a row that the tree kernels are given: by the offsets when
\* they may be stale, which they are for a first row only.
Fed(r, first) == IF Cardinality(live) = 1 THEN first ELSE Tokens(r)

\* _ddtree_depth_batches: the row's tokens are the tree's, or "DDTree GDN
\* metadata mismatch".  A flat chain is run by the chain kernels, unchecked.
\* The code also takes a row fed without its root, one token short of Tokens(r):
\* stale offsets never show it one, since the other rows of their batch had two
\* tokens at least.
Mismatch(first) == NeedsTreeState /\ \E r \in live : Fed(r, first) # Tokens(r)

\* History, for the properties: a lone row that the offsets of an earlier batch
\* of as many tokens, and more rows, are taken for.
Collides(r) == boot.fast /\ live = {r} /\ common.key = Tokens(r) /\ common.first # Tokens(r)

Forward ==
    /\ pc = "forward"
    /\ \E r \in live : common' = Common(Tokens(r), FoldSet(LAMBDA q, n : n + Tokens(q), 0, live))
    /\ pc' = IF Mismatch(common'.first) THEN "raised" ELSE "sample"
    /\ cut' = cut \union {r \in live : Collides(r)}
    /\ kv' = [r \in Req |->
                IF r \notin live THEN kv[r]
                ELSE [p \in Base(r) + 1 .. Base(r) + 1 + Len(tree[r]) |-> <<round, p - Base(r) - 1>>]
                     @@ kv[r]]
    /\ col' = [r \in Req |->
                IF r \notin live THEN col[r]
                ELSE [c \in DOMAIN col[r] |->
                        IF c < Min({Fed(r, common'.first), Tokens(r)})
                        THEN TreeStates(r)[c] ELSE col[r][c]]]
    /\ UNCHANGED <<boot, round, live, left, text, tree, pos, sel, rows, sidecar, branched>>

-----------------------------------------------------------------------------
(* Sampling.                                                               *)

\* A plausible slip: the limit counts the tokens before the sampled one.
ClampedLate(accepted) ==
    [r \in live |-> SubSeq(accepted[r], 1, Min({Len(accepted[r]), left[r] + 1}))]

\* _ddtree_clamped_accepted_node_indices: as many entries as sampled tokens
\* that are kept, the last of which is the target's own.
Clamped(accepted) == [r \in live |-> SubSeq(accepted[r], 1, Min({Len(accepted[r]), left[r]}))]

\* What the host knows of the accepted rows: nothing of the GPU sampler's
\* (_sample resets the sidecar first), nor of rows that were clamped.
Sidecar(onHost, accepted) ==
    IF onHost /\ Clamped(accepted) = accepted THEN accepted ELSE None

Sample ==
    /\ pc = "sample" /\ pc' = "commit"
    /\ \E accepted \in {a \in [live -> UNION {PathsOf(t) : t \in Trees}] :
                            \A r \in live : a[r] \in PathsOf(tree[r])},
          onHost \in BOOLEAN :
        /\ rows' = Clamped(accepted)
        /\ sidecar' = Sidecar(onHost, accepted)
    /\ UNCHANGED <<boot, round, live, left, text, tree, pos, kv, col, sel, common, branched, cut>>

-----------------------------------------------------------------------------
(* Committing the path.                                                    *)

\* _ddtree_accepted_copy_plan
PlannedRows == IF sidecar = None THEN rows ELSE sidecar

\* The k-th accepted node goes to row k.
Copies(row) ==
    SelectSeq([k \in 1 .. Len(row) - 1 |-> [src |-> row[k + 1], dst |-> k]],
              LAMBDA c : c.src # c.dst)

\* A plausible slip: the copies are made last to first.
CopyBackwards(f, copies) ==
    FoldRight(LAMBDA c, g : [g EXCEPT ![c.dst] = g[c.src]], copies, f)

\* Copies that overlap are made in order, others at once.
Copy(f, copies) ==
    FoldLeft(LAMBDA g, c : [g EXCEPT ![c.dst] = g[c.src]], f, copies)

\* _ddtree_attention_kv_slot_pairs_from_cpu_sidecar: the slots of the rows,
\* from their positions in the sidecar.
SlotPairs(r) ==
    [i \in DOMAIN Copies(PlannedRows[r]) |->
        LET c == Copies(PlannedRows[r])[i] IN [src |-> pos[r][c.src], dst |-> pos[r][c.dst]]]

CompactKv == [r \in Req |-> IF r \in live /\ NeedsTreeState THEN Copy(kv[r], SlotPairs(r)) ELSE kv[r]]

\* _compact_ddtree_accepted_mamba_state, unless
\* VLLM_DFLASH_DDTREE_SKIP_MAMBA_COMPACT; whether it copied anything.  It skips
\* copies from or to a column that the block table does not hold, or holds as
\* padding: here every row has the blocks of all its columns.
StateCompacted ==
    boot.compacts /\ NeedsTreeState /\ \E r \in live : Copies(PlannedRows[r]) # <<>>

CompactState ==
    [r \in Req |-> IF r \in live /\ StateCompacted THEN Copy(col[r], Copies(PlannedRows[r])) ELSE col[r]]

\* A plausible slip: the count of accepted tokens, whatever the columns hold.
SelectorByCount(row) == Len(row)

\* _ddtree_state_update_cpu_sidecar and
\* _ddtree_state_slot_selectors_from_accepted_nodes: the column of the last
\* accepted node, or of the last accepted token once they are together.
Selector(row) == IF StateCompacted THEN Len(row) ELSE Last(row) + 1

Commit ==
    /\ pc = "commit" /\ pc' = "prepare"
    /\ kv' = CompactKv
    /\ col' = CompactState
    /\ sel' = [r \in Req |-> IF r \in live THEN Selector(PlannedRows[r]) ELSE sel[r]]
    /\ text' = [r \in Req |->
                IF r \notin live THEN text[r]
                ELSE text[r] \o [k \in DOMAIN rows[r] |-> <<round, rows[r][k]>>]]
    /\ left' = [r \in Req |-> IF r \in live THEN left[r] - Len(rows[r]) ELSE left[r]]
    /\ branched' = branched \union {r \in live : Copies(rows[r]) # <<>>}
    /\ tree' = <<>> /\ pos' = <<>> /\ rows' = <<>> /\ sidecar' = None
    /\ UNCHANGED <<boot, round, live, common, cut>>

-----------------------------------------------------------------------------
Init ==
    /\ boot \in Boots /\ pc = "prepare" /\ round = 0
    /\ live = Req /\ left = MaxTokens
    /\ text = [r \in Req |-> <<>>] /\ kv = [r \in Req |-> <<>>]
    /\ tree = <<>> /\ pos = <<>> /\ rows = <<>> /\ sidecar = None
    /\ col = [r \in Req |-> [c \in 0 .. Width - 1 |-> <<>>]] /\ sel = [r \in Req |-> 1]
    /\ common = [key |-> 0, first |-> 0] /\ branched = {} /\ cut = {}

Next == Prepare \/ Forward \/ Sample \/ Commit
Spec == Init /\ [][Next]_vars

-----------------------------------------------------------------------------
(* Properties.                                                             *)

TypeOK ==
    /\ boot \in Boots /\ pc \in {"prepare", "forward", "sample", "commit", "raised"}
    /\ round \in 0 .. MaxRounds /\ live \subseteq Req
    /\ branched \subseteq Req /\ cut \subseteq Req /\ common.key \in Nat
    /\ left \in [Req -> Nat] /\ sel \in [Req -> 1 .. Width]
    /\ pc # "prepare" => tree \in [live -> Trees] /\ DOMAIN pos = live
    /\ pc = "commit" => DOMAIN rows = live
    /\ \A r \in Req : DOMAIN col[r] = 0 .. Width - 1 /\ DOMAIN text[r] \subseteq DOMAIN kv[r]

\* The selected column holds the state after exactly the tokens of the
\* accepted path, and of the rounds before it: "accepted-path state commit
\* before the recurrent state update", whether columns are copied or selected.
\* (Not for a flat chain that was given the offsets of another batch, as the
\* fast build may: see Common.)
StateFollowsPath ==
    pc = "prepare" => \A r \in live \ cut : col[r][sel[r] - 1] = text[r]

\* The cache holds, position by position, the tokens of the accepted path.
KvFollowsPath ==
    pc = "prepare" => \A r \in live : \A p \in DOMAIN text[r] : kv[r][p] = text[r][p]

\* Each row of a tree attends to the request's text and to its own path, and
\* to no other branch, of this round or of an earlier one.  (For a request
\* that has left the first branch this needs positions that were not
\* overridden: see KvFollowsPath.)
AttendsPath ==
    pc = "sample" => \A r \in live : (~boot.overrides \/ r \notin branched) =>
        \A o \in 0 .. Len(tree[r]) :
            Attends(r, o) =
                Range(text[r]) \union {<<round, a>> : a \in {o} \union Ancestors(tree[r])[o]}
=============================================================================
