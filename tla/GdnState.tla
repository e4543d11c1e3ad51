------------------------------ MODULE GdnState ------------------------------
(***************************************************************************)
(* The states of the gated-delta-net layers during speculative decoding:   *)
(* the metadata of src/fork_patches/gdn_attn.py and what the cores of      *)
(* src/fork_patches/qwen_gdn_linear_attn.py do with it.                    *)
(* A request owns K+1 state slots, its "columns"; a slot holds a recurrent *)
(* state s and a convolution window w, each known by the request and the   *)
(* number of tokens it stands after.  A verified row leaves the recurrent  *)
(* state after each of its tokens in a column of its own, and one window,  *)
(* in column 0, which the next round enters at an offset.  The next round  *)
(* goes on from the last accepted token.                                   *)
(* The kernels (causal_conv1d, fused_recurrent_gated_delta_rule) are not   *)
(* in the repository; what they read and write is taken from their         *)
(* arguments.                                                              *)
(***************************************************************************)
EXTENDS Rows, SequencesExt, FiniteSetsExt

CONSTANTS
    K,          \* num_spec_state_tokens: drafts a verified row can hold
    MaxRows,    \* decode_cudagraph_max_bs: rows of a captured graph
    SpecCoreOp  \* VLLM_SM70_QWEN_GDN_SPEC_CORE_OP

ASSUME GdnAssumption == K \in Nat \ {0} /\ MaxRows \in Nat \ {0} /\ SpecCoreOp \in BOOLEAN

Columns == 0 .. K
Pad == {}                          \* PAD_SLOT_ID: no slot
Lost == [req |-> "none", n |-> 0]  \* a state that belongs to nobody
After(r, n) == [req |-> r, n |-> n]
Both(st) == [s |-> st, w |-> st]

(* A row of the batch, as the builder sees it: the request, its state      *)
(* slots' owner g, computed and scheduled tokens, drafts (-1 for a row     *)
(* that does not verify) and the count accepted in its last round.         *)
Row(r, g, ctx, tok, draft, sel) ==
    [r |-> r, g |-> g, ctx |-> ctx, tok |-> tok, draft |-> draft, sel |-> sel]

-----------------------------------------------------------------------------
(* The metadata.                                                           *)

\* spec_sequence_masks: no row verifies when the rows hold no draft at all.
SpecRows(rows) ==
    LET marked == {i \in DOMAIN rows : rows[i].draft >= 0}
    IN  IF \A i \in marked : rows[i].draft = 0 THEN {} ELSE marked

\* split_decodes_and_prefills with threshold 1, and the routing of mixed
\* batches: rows that do not verify are prefills beside rows that do.
Prefills(rows) ==
    IF SpecRows(rows) # {} THEN DOMAIN rows \ SpecRows(rows)
    ELSE {i \in DOMAIN rows : rows[i].tok > 1}

Pure(rows) == SpecRows(rows) = DOMAIN rows

\* select_gdn_state_block_ids: the slot of the last accepted token.
SelectColumn(accepted) == Max({0, Min({accepted - 1, K})})

\* The column a row that does not verify works in.  The counts are given to
\* the builder only in a round in which some draft is scheduled.
OneColumn(rows, given, i) == IF given THEN SelectColumn(rows[i].sel) ELSE 0

\* The row whose slots and selector the k-th lane of the verifying kernels
\* is given: build_gdn_spec_decode_state_contract masks the rows; the fast
\* build (VLLM_SM70_GDN_CHAIN_SPEC_FAST_BUILD), taken when all rows verify,
\* slices them.
Lane(rows, k) == IF Pure(rows) THEN k ELSE Nth(SpecRows(rows), k)

\* The tokens of a row, by their places in the batch.
Tokens(rows, S) == UNION {{i} \X (1 .. rows[i].tok) : i \in S}
SumOf(rows, S) == Cardinality(Tokens(rows, S))
Places(rows, i) ==
    LET before == SumOf(rows, 1 .. i - 1) IN [n \in 1 .. rows[i].tok |-> before + n]

\* The tokens a lane is fed in a mixed batch: the tokens of each half are
\* gathered by a stable sort on the mask, and cut by offsets of their own.
Fed(rows, half, i) ==
    LET mine  == UNION {ToSet(Places(rows, j)) : j \in half}
        first == SumOf(rows, half \cap 1 .. i - 1)
    IN  [n \in 1 .. rows[i].tok |-> Nth(mine, first + n)]

\* Rows of a replayed graph past the batch, and the persistent buffers it
\* reads: spec_state_indices_tensor for verified rows (whole owners),
\* non_spec_state_indices_tensor for decodes (one slot each).
DecodeGraph(rows) == SpecRows(rows) = {} /\ Prefills(rows) = {}
VerifyGraph(rows) == SpecRows(rows) # {} /\ Prefills(rows) = {}
Held(rows, given, i) ==
    IF i \notin DOMAIN rows THEN Pad
    ELSE IF VerifyGraph(rows) THEN {<<rows[i].g, c>> : c \in Columns}
    ELSE {<<rows[i].g, OneColumn(rows, given, i)>>}

\* The buffers a builder starts with, filled before any graph reads them.
NoRows == LET none == [i \in 1 .. MaxRows |-> Pad] IN [decode |-> none, verify |-> none]

\* A plausible slip: the rows past the batch keep what they held.
GraphRowsUnpadded(rows, given, buf) ==
    LET fill(now, old) ==
            [i \in 1 .. MaxRows |-> IF ~now THEN old[i]
                                    ELSE IF i \in DOMAIN rows THEN Held(rows, given, i)
                                    ELSE old[i]]
    IN  [decode |-> fill(DecodeGraph(rows), buf.decode),
         verify |-> fill(VerifyGraph(rows), buf.verify)]

\* The buffers after the build: rows past the batch are PAD_SLOT_ID.
GraphRows(rows, given, buf) ==
    LET fill(now, old) ==
            [i \in 1 .. MaxRows |-> IF now THEN Held(rows, given, i) ELSE old[i]]
    IN  [decode |-> fill(DecodeGraph(rows), buf.decode),
         verify |-> fill(VerifyGraph(rows), buf.verify)]

\* The slots a replay updates for rows that are not in the batch.
Stray(rows, buf) ==
    LET past(b) == UNION {b[i] : i \in DOMAIN b \ DOMAIN rows}
    IN  IF DecodeGraph(rows) THEN past(buf.decode)
        ELSE IF VerifyGraph(rows) THEN past(buf.verify) ELSE {}

-----------------------------------------------------------------------------
(* The cores.                                                              *)

Shift(st, n) == [st EXCEPT !.n = @ + n]

\* What a verified row goes on from: the state in the selected column, and
\* column 0's window entered at the selector's offset.
VerifyStart(slot, w) == [s |-> slot[w.g][w.sel - 1].s, w |-> Shift(slot[w.g][0].w, w.sel - 1)]

\* Any other row: nothing when it has no context and takes the prefill path
\* (has_initial_state), else what its slot holds.
OneStart(slot, rows, given, i) ==
    IF rows[i].ctx = 0 /\ Prefills(rows) # {} THEN Both(After(rows[i].r, 0))
    ELSE slot[rows[i].g][OneColumn(rows, given, i)]

InitialState(slot, rows, given, i) ==
    IF i \in SpecRows(rows) THEN VerifyStart(slot, rows[i])
    ELSE OneStart(slot, rows, given, i)

\* A state after n more tokens of the request, if it was fed its own.
Advance(st, r, n, own) == IF st.req = r /\ own THEN After(r, st.n + n) ELSE Lost

\* A verified row: a state per token, from column 0; the window moves by one,
\* the offset of the next round does the rest.
VerifyWrites(slot, w, own) ==
    LET from == VerifyStart(slot, w)
    IN  [c \in Columns |->
            IF c > w.draft THEN slot[w.g][c]
            ELSE [s |-> Advance(from.s, w.r, c + 1, own),
                  w |-> IF c = 0 THEN Advance(from.w, w.r, 1, own) ELSE slot[w.g][c].w]]

\* A prefill or a decode leaves its last state and window, in place.
OneEnd(from, w, own) ==
    [s |-> Advance(from.s, w.r, w.tok, own), w |-> Advance(from.w, w.r, w.tok, own)]
OneWrites(slot, rows, given, i, own) ==
    LET w == rows[i]
    IN  [slot[w.g] EXCEPT ![OneColumn(rows, given, i)] =
            OneEnd(OneStart(slot, rows, given, i), w, own)]

\* The core that runs, the same for every batch: the choice is compiled.
Core == IF SpecCoreOp THEN "spec_commit" ELSE "standard"

\* The masks the builder leaves: placeholders in a batch that does not verify,
\* for the core that takes every tensor as an argument.
Masks(rows) == SpecRows(rows) # {} \/ SpecCoreOp

\* Whether the kernels see masks: qwen_gdn_attention_core_spec_commit takes
\* the placeholders away again.
Masked(rows) == Masks(rows) /\ (Core = "spec_commit" => SpecRows(rows) # {})

\* The rows each kernel is launched on: the packed decode core, the verifying
\* kernels alone, or _forward_core with its two halves.  (Rows that the
\* verifying kernels take for theirs by mistake find no slot of theirs.)
DecodeCore(rows) == ~Masked(rows) /\ Prefills(rows) = {}
Halves(rows) == IF DecodeCore(rows) \/ Pure(rows) THEN {DOMAIN rows}
                ELSE {SpecRows(rows), DOMAIN rows \ SpecRows(rows)} \ {{}}

\* Whether the kernels of its half take a row's own tokens for the row's.
FedOwn(rows, i) ==
    LET half == CHOOSE h \in Halves(rows) : i \in h IN Fed(rows, half, i) = Places(rows, i)

RowWrites(slot, rows, given, i) ==
    IF i \in SpecRows(rows)
    THEN VerifyWrites(slot, rows[Lane(rows, Rank(SpecRows(rows), i))], FedOwn(rows, i))
    ELSE OneWrites(slot, rows, given, i,
                   FedOwn(rows, i) /\ (Masked(rows) => SpecRows(rows) # {}))

\* A forward pass: each row updates its owner's slots, and a row of a
\* replayed graph that is past the batch the slots it names.
Forward(slot, rows, given, buf) ==
    LET stray == Stray(rows, buf)
        left(g) == IF \E i \in DOMAIN rows : rows[i].g = g
                   THEN RowWrites(slot, rows, given, CHOOSE i \in DOMAIN rows : rows[i].g = g)
                   ELSE slot[g]
    IN  [g \in DOMAIN slot |->
            LET new == left(g)
            IN  [c \in Columns |-> IF <<g, c>> \in stray THEN Both(Lost) ELSE new[c]]]

\* preprocess_mamba in align mode: the state and the window of a row that
\* enters a new block are copied to that block, which becomes column 0.
Rollover(slot, rows, moving) ==
    [g \in DOMAIN slot |->
        IF \E i \in moving : rows[i].g = g
        THEN LET w == rows[CHOOSE i \in moving : rows[i].g = g]
             IN  [slot[g] EXCEPT ![0] = VerifyStart(slot, w)]
        ELSE slot[g]]
=============================================================================
