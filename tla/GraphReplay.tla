----------------------------- MODULE GraphReplay -----------------------------
(***************************************************************************)
(* From loading to serving with CUDA graphs: the worker's boot sequence    *)
(* (load, profile, estimate of the graphs' memory, KV cache, capture), the *)
(* choice of a graph for a round and its padding                           *)
(* (src/fork_patches/gpu_model_runner.py), the attention metadata a graph  *)
(* reads through persistent buffers (src/fork_patches/flash_attn_v100.py), *)
(* and the linear kernels a graph has recorded (LinearRoutes).             *)
(* A graph replays what the host did when it was captured: the kernels     *)
(* chosen then, the buffers bound then, the sequence capacity known then.  *)
(* What a round must see anew has to be in a buffer the graph reads.       *)
(***************************************************************************)
EXTENDS LinearRoutes, Rows, SequencesExt

CONSTANTS
    Model,       \* the linear layers, in the order they run
    HeadLayer,   \* the logits head
    Boots,       \* switches: [qpn, drop, unify, compiled, head, drafts, estimate]
    Sizes,       \* cudagraph_capture_sizes
    Buckets,     \* attention context buckets
    MaxModelLen, MaxSeqs, MaxTokens,
    Lens,        \* lengths of the sequences that are decoded
    Prompts      \* tokens of a prompt computed in one round

ASSUME GraphReplayAssumption ==
    /\ Sizes \subseteq 1 .. MaxTokens /\ Buckets \subseteq 1 .. MaxModelLen - 1
    /\ Lens \subseteq 17 .. MaxModelLen - 16 /\ Lens # {}
    /\ Prompts \subseteq 1 .. MaxTokens /\ Prompts \subseteq 1 .. MaxModelLen
    /\ MaxSeqs \in Nat \ {0} /\ MaxTokens \in Nat \ {0} /\ MaxModelLen \in Nat
    /\ Model \in Seq([kind : {"fp4", "w4a16", "fp8"}, n : Nat, k : Nat])
    /\ \A e \in Boots : e.drafts \in 0 .. 15 /\ e.head \in {"off", "lazy", "native"}

VARIABLES
    env, pc,
    held,        \* the copies of each layer's weights
    head, late,  \* copies of the head's weights; those made after the pool was sized
    ok, checks,  \* _skinny_ok, _self_checks_done
    gen,         \* the attention builders in use: a number for each set of them
    small,       \* rows of the small-query buffers
    single,      \* rows of the draft buffers, which one-token decoding uses
    active,      \* _decode_active_num_partitions (0: no buffer)
    todo,        \* descriptors still to be captured
    graphs,      \* what each captured descriptor recorded
    round,       \* the round in hand
    lin          \* the last launches, by layer (0: the head)

weights == <<held, head, late>>
verdict == <<ok, checks>>
builder == <<gen, small, single, active>>
vars == <<env, pc, weights, verdict, builder, todo, graphs, round, lin>>

Layers == DOMAIN Model
QueryLen == env.drafts + 1           \* uniform_decode_query_len
Unset == [id |-> 0, len |-> 0]       \* a padding row: no context
Stale == [id |-> 0, len |-> -1]      \* memory nobody wrote

Partitions(hint) == IF hint >= 32768 THEN 1024 ELSE 256

-----------------------------------------------------------------------------
(* Graph descriptors and dispatch (the dispatcher itself is not in the     *)
(* repository).                                                            *)

\* [full, n, bucket]: bucket 0 stands for no bound.
Piecewise == {[full |-> FALSE, n |-> n, bucket |-> 0] : n \in Sizes}
Full == {[full |-> TRUE, n |-> n, bucket |-> b] :
            n \in {s \in Sizes : s % QueryLen = 0 /\ s <= QueryLen * MaxSeqs},
            b \in {0} \union (IF QueryLen > 1 THEN Buckets ELSE {})}
Eager(n) == [full |-> FALSE, n |-> n, bucket |-> 0]

\* The tokens of a round lie request by request.
Widths(batch) == [j \in DOMAIN batch |-> batch[j].q]
Tokens(batch) == Ends(Widths(batch))[Len(batch)]
MaxOf(S) == CHOOSE x \in S : \A y \in S : y <= x
Longest(batch) == MaxOf({r.upper : r \in Range(batch)})
LongestQuery(batch) == MaxOf({r.q : r \in Range(batch)})

\* _is_uniform_decode, and the runner's exclusion of prompts from it.
Uniform(batch) ==
    \A r \in Range(batch) : r.q = QueryLen /\ (QueryLen > 1 => ~r.prefill)

\* The context the dispatcher is told of: the host's upper bound of the
\* longest, since the exact lengths are on the device.
ContextLen(batch) == Longest(batch)

\* _determine_batch_execution_and_padding: the tightest graph that fits.
Dispatch(batch) ==
    LET n   == Tokens(batch)
        ctx == ContextLen(batch)
        fits(full) == {d \in DOMAIN graphs :
                        d.full = full /\ d.n >= n /\ (d.bucket = 0 \/ ctx <= d.bucket)}
        key(d) == d.n * (MaxModelLen + 1) + (IF d.bucket = 0 THEN MaxModelLen ELSE d.bucket)
        tightest(S) == CHOOSE d \in S : \A e \in S : key(d) <= key(e)
    IN  IF Uniform(batch) /\ fits(TRUE) # {} THEN tightest(fits(TRUE))
        ELSE IF fits(FALSE) # {} THEN tightest(fits(FALSE)) ELSE Eager(n)

-----------------------------------------------------------------------------
(* The attention builder.                                                  *)

\* _update_smallq_decode_metadata: each token a row of its own, with the
\* context it may see.
TokenRows(batch) ==
    [i \in 1 .. Tokens(batch) |->
        LET j == RowAt(Widths(batch), i)
            r == batch[j]
        IN  [id |-> r.id, len |-> (IF r.seq > r.q THEN r.seq ELSE r.q) - r.q
                                    + i - Ends(Widths(batch))[j - 1]]]

\* The padding sees nothing.
SmallRows(batch, n) ==
    LET rows == TokenRows(batch)
    IN  [i \in 1 .. n |-> IF i <= Len(rows) THEN rows[i] ELSE Unset]

\* _stabilize_draft_graph_metadata: a row for each request, padded with none.
SingleRows(batch, n) ==
    [i \in 1 .. n |-> IF i <= Len(batch) THEN [id |-> batch[i].id, len |-> batch[i].seq]
                      ELSE Unset]

\* _has_prefix_context: some request has context before its queries.
Prefixed(batch) == \E r \in Range(batch) : r.q # r.upper

\* The first rows of a buffer, copied in.  (The buffers are as long as the
\* largest batch; one beyond them would raise.)
Copied(rows, buf) ==
    [i \in DOMAIN rows \union DOMAIN buf |-> IF i \in DOMAIN rows THEN rows[i] ELSE buf[i]]

\* What build and build_for_cudagraph_capture leave in the buffers.
BuildSmall(batch, n, force) ==
    IF /\ LongestQuery(batch) \in 2 .. 16
       /\ force \/ Prefixed(batch) \/ small # <<>>
    THEN Copied(SmallRows(batch, n), small) ELSE small

BuildSingle(batch, n, force) ==
    IF LongestQuery(batch) = 1 /\ (force \/ single # <<>>)
    THEN Copied(SingleRows(batch, n), single) ELSE single

BuildActive(batch, force) ==
    IF LongestQuery(batch) = 1 /\ (force \/ active # 0)
    THEN LET size == Partitions(Longest(batch)) IN (Longest(batch) + size - 1) \div size
    ELSE active

\* _small_query_decode_enabled, at the default bound.
SmallQuery(batch) == LongestQuery(batch) <= 16

\* forward: the attention kernel of a batch.  With context before its queries
\* each token is decoded as a row, or the paged kernel takes each request;
\* without, the batch's own keys and values are enough.
PrefixRoute(batch) == IF SmallQuery(batch) THEN "smallq" ELSE "paged"
PrefillRoute(batch) == IF Prefixed(batch) THEN PrefixRoute(batch) ELSE "dense"

\* A plausible slip: a capture is routed by its dummy batch, which has no
\* context before its queries.
CaptureByDummy(batch) == PrefillRoute(batch)

\* A capture takes the kernel its replays need.
CaptureRoute(batch) == IF SmallQuery(batch) THEN PrefixRoute(batch) ELSE PrefillRoute(batch)

Route(batch, capturing) ==
    IF LongestQuery(batch) = 1 THEN "decode"
    ELSE IF capturing THEN CaptureRoute(batch) ELSE PrefillRoute(batch)

Build(batch, n, force) ==
    /\ small' = BuildSmall(batch, n, force)
    /\ single' = BuildSingle(batch, n, force)
    /\ active' = BuildActive(batch, force)

-----------------------------------------------------------------------------
(* One pass over the linear layers.                                        *)

\* apply_weights compares a layer's first results with Marlin's.
Checkable(i, m) ==
    /\ Model[i].kind = "fp4" /\ ~env.compiled /\ m <= SkinnyMaxM /\ "marlin" \in held[i]

\* A plausible slip: the three comparisons are not counted.
CheckedAlways(m, capturing) == {i \in Layers : Checkable(i, m) /\ ok /\ ~capturing}

\* A plausible slip: the comparison is made in the pass that is recorded.
CheckedInCapture(m, capturing) ==
    {i \in Layers : /\ Checkable(i, m) /\ ok /\ capturing
                    /\ Cardinality({j \in 1 .. i : Checkable(j, m)}) <= 3 - checks}

Checked(m, capturing) ==
    {i \in Layers : /\ Checkable(i, m) /\ ok /\ ~capturing
                    /\ Cardinality({j \in 1 .. i : Checkable(j, m)}) <= 3 - checks}

\* fails: the layer whose result is refuted (0: none); from it on, Marlin.
Forward(m, capturing) ==
    \E fails \in {0} \union {i \in Checked(m, capturing) :
                    LayerLaunch(Model[i], m, held[i], TRUE, capturing).kernel # "marlin"} :
        /\ lin' = [i \in Layers |->
                    LayerLaunch(Model[i], m, held[i], ok /\ (fails = 0 \/ i <= fails), capturing)]
        /\ ok' = (ok /\ fails = 0)
        /\ checks' = checks + Cardinality({i \in Checked(m, capturing) : fails = 0 \/ i <= fails})

\* compute_logits on m rows: the head's copies are made when first needed.
Wants(m) ==
    IF env.head = "off" THEN {}
    ELSE {"ct"} \union (IF m <= 8 /\ HeadLaunch(HeadLayer, m, {}).kernel = "qpn2"
                        THEN {"qpn"} ELSE {})
Logits(m) == head' = head \union Wants(m)

-----------------------------------------------------------------------------
(* Booting.                                                                *)

Nobody == [batch |-> <<>>, how |-> Eager(0)]

Init ==
    /\ env \in Boots /\ pc = "load"
    /\ held = [i \in Layers |-> {}] /\ head = {} /\ late = {}
    /\ ok = TRUE /\ checks = 0
    /\ gen = 0 /\ small = <<>> /\ single = <<>> /\ active = 0
    /\ todo = {} /\ graphs = <<>> /\ round = Nobody /\ lin = <<>>

\* process_weights_after_loading, layer by layer; the FP8 repacking may raise,
\* which leaves the layer with the weights as published.
Load ==
    /\ pc = "load"
    /\ \E raised \in SUBSET {i \in Layers : Model[i].kind = "fp8"} :
        held' = [i \in Layers |-> IF i \in raised THEN {"raw"} ELSE CopiesOf(Model[i], env)]
    /\ head' = IF env.head = "native" THEN {"ct"} ELSE {}
    /\ pc' = "profile"
    /\ UNCHANGED <<env, late, verdict, builder, todo, graphs, round, lin>>

\* A plausible slip: the sampler runs on every token.
ProfileRowsAll == MaxTokens

\* Rows of logits in profile_run: the sampler runs on one for each request.
ProfileRows == IF MaxTokens < MaxSeqs THEN MaxTokens ELSE MaxSeqs

\* profile_run: the largest batch, then the sampler.
Profile ==
    /\ pc = "profile"
    /\ Forward(MaxTokens, FALSE)
    /\ Logits(ProfileRows)
    /\ pc' = IF env.estimate THEN "estimate" ELSE "pool"
    /\ todo' = IF env.estimate THEN Piecewise \union Full ELSE {}
    /\ gen' = IF env.estimate THEN gen + 1 ELSE gen
    /\ UNCHANGED <<env, held, late, small, single, active, graphs, round>>

\* The dummy batch of a uniform descriptor: its contexts, and what the host
\* takes them for.
Dummy(d, seq, upper) ==
    [j \in 1 .. d.n \div QueryLen |->
        [id |-> 0, seq |-> seq, upper |-> upper, q |-> QueryLen, prefill |-> FALSE]]

DummyUpper(d) == IF d.bucket = 0 THEN QueryLen ELSE d.bucket

BuildDummy(d, capturing) ==
    IF d.full
    THEN Build(Dummy(d, IF capturing THEN QueryLen ELSE DummyUpper(d), DummyUpper(d)),
               d.n, capturing)
    ELSE UNCHANGED <<small, single, active>>

\* _warmup_and_capture, first half: an eager run, whose launches are checked.
\* Piecewise graphs come first, large ones before small ones.
Warm ==
    /\ pc \in {"estimate", "capture"} /\ todo # {} /\ round = Nobody
    /\ \E d \in todo :
        /\ \A e \in todo : (~e.full => ~d.full) /\ (e.full = d.full => e.n <= d.n)
        /\ Forward(d.n, FALSE)
        /\ round' = [batch |-> <<>>, how |-> d]
        /\ BuildDummy(d, FALSE)
    /\ UNCHANGED <<env, pc, weights, gen, todo, graphs>>

\* What a FULL graph keeps of the metadata it was captured with, and the kernel.
Bound(d) ==
    LET cap == IF d.bucket = 0 THEN MaxModelLen ELSE d.bucket
    IN  [gen |-> gen, cap |-> cap, part |-> Partitions(cap),
         route |-> IF d.full THEN Route(Dummy(d, QueryLen, DummyUpper(d)), TRUE) ELSE "none"]

\* The second half: the same run, recorded.  The estimate takes two graphs of
\* each mode.
Capture ==
    /\ pc \in {"estimate", "capture"} /\ round # Nobody
    /\ Forward(round.how.n, TRUE)
    /\ BuildDummy(round.how, TRUE)
    /\ graphs' = [d \in DOMAIN graphs \union {round.how} |->
                    IF d \in DOMAIN graphs THEN graphs[d]
                    ELSE [lin |-> lin', attn |-> Bound(round.how)]]
    /\ todo' = {d \in todo \ {round.how} :
                 \/ pc = "capture" \/ d.full # round.how.full
                 \/ Cardinality({e \in DOMAIN graphs : e.full = d.full}) = 0}
    /\ round' = Nobody
    /\ UNCHANGED <<env, pc, weights, gen>>

\* CUDAGraphWrapper.clear_all_graphs.
ClearGraphs == graphs' = <<>>

\* profile_cudagraph_memory ends: its graphs, its KV cache and the builders
\* that belong to it are dropped.
EndEstimate ==
    /\ pc = "estimate" /\ round = Nobody /\ todo = {}
    /\ ClearGraphs
    /\ small' = <<>> /\ single' = <<>> /\ active' = 0 /\ pc' = "pool"
    /\ UNCHANGED <<env, weights, verdict, gen, todo, round, lin>>

\* initialize_kv_cache: the pool takes the memory that is left, and its groups
\* get builders of their own.
Pool ==
    /\ pc = "pool"
    /\ gen' = gen + 1 /\ todo' = (Piecewise \union Full) \ DOMAIN graphs /\ pc' = "capture"
    /\ UNCHANGED <<env, weights, verdict, small, single, active, graphs, round, lin>>

Ready ==
    /\ pc = "capture" /\ todo = {} /\ round = Nobody /\ pc' = "serve"
    /\ UNCHANGED <<env, weights, verdict, builder, todo, graphs, round, lin>>

-----------------------------------------------------------------------------
(* Serving.                                                                *)

Ids == 1 .. MaxSeqs

\* What one request may bring: a token and the drafts it was given, whose
\* context the host may overrate by the drafts rejected before; a token alone;
\* or a part of a prompt.
Ask(id, seq, over, q, prefill) ==
    [id |-> id, seq |-> seq, upper |-> seq + over, q |-> q, prefill |-> prefill]
Asks(id, k) ==
    {Ask(id, seq, over, k + 1, FALSE) : seq \in Lens, over \in {0, k}}
    \union {Ask(id, MaxOf(Lens), 0, 1, FALSE)}
    \union {Ask(id, q, 0, q, TRUE) : q \in Prompts \union {k + 1}}

\* By the number of drafts: requests in the order of their ids.
Batches ==
    [k \in {e.drafts : e \in Boots} |->
        UNION {{b \in [1 .. n -> UNION {Asks(i, k) : i \in Ids}] :
                  \A i \in 1 .. n : \A j \in 1 .. i - 1 : b[j].id < b[i].id} :
               n \in 1 .. MaxSeqs}]

\* Rows of logits: every token that was drafted for, the last of a prompt.
Sampled(batch) ==
    Ends([j \in DOMAIN batch |-> IF batch[j].prefill THEN 1 ELSE batch[j].q])[Len(batch)]

Serve ==
    /\ pc = "serve"
    /\ \E batch \in Batches[env.drafts] :
        LET d == Dispatch(batch) IN
        /\ Tokens(batch) <= MaxTokens
        /\ Build(batch, IF d.full THEN d.n ELSE Tokens(batch), FALSE)
        /\ IF d \in DOMAIN graphs THEN lin' = graphs[d].lin /\ UNCHANGED verdict
           ELSE Forward(d.n, FALSE)
        /\ Logits(Sampled(batch))
        /\ round' = [batch |-> batch, how |-> d]
    /\ late' = late \union (head' \ head)
    /\ UNCHANGED <<env, pc, held, gen, todo, graphs>>

\* The attention of the round in hand: what the rows of each kernel read.
Replayed == round.how.full /\ round.how \in DOMAIN graphs
Recorded == graphs[round.how].attn
Wide == IF round.how.full THEN round.how.n ELSE Tokens(round.batch)
Bufs(buf) ==
    [i \in 1 .. Wide |-> IF Replayed /\ Recorded.gen # gen THEN Stale ELSE buf[i]]

\* _flash_v100_small_query_prefill_as_decode: the persistent rows, or rows
\* derived anew from the lengths the host knows, which are upper bounds.
Overrated(batch) == [j \in DOMAIN batch |-> [batch[j] EXCEPT !.seq = batch[j].upper]]
SmallSeen ==
    IF 1 .. Wide \subseteq DOMAIN small THEN Bufs(small)
    ELSE SmallRows(Overrated(round.batch), Wide)

\* _flash_v100_decode: a row for each request, from the persistent buffers if
\* there are any.
SingleSeen == IF single = <<>> THEN SingleRows(round.batch, Wide) ELSE Bufs(single)

\* The paged kernel: the queries of a request are its last positions.  It is
\* given the lengths on the device; the host's only hint at how far to reach.
PagedSeen ==
    [i \in 1 .. Tokens(round.batch) |->
        LET j == RowAt(Widths(round.batch), i)
            r == round.batch[j]
        IN  [id |-> r.id, len |-> r.seq - r.q + i - Ends(Widths(round.batch))[j - 1]]]

\* The dense kernel knows the tokens of the round only.
DenseSeen ==
    [i \in 1 .. Tokens(round.batch) |->
        LET j == RowAt(Widths(round.batch), i)
        IN  [id |-> round.batch[j].id, len |-> i - Ends(Widths(round.batch))[j - 1]]]

Seen(kernel) ==
    CASE kernel = "smallq" -> SmallSeen
      [] kernel = "decode" -> SingleSeen
      [] kernel = "paged" -> PagedSeen
      [] kernel = "dense" -> DenseSeen

\* The contexts a launch reaches: as hinted now, or as captured.
SmallReach == IF Replayed THEN Recorded.cap ELSE Longest(round.batch)
SingleReach ==
    IF active = 0 THEN Longest(round.batch)
    ELSE IF Replayed THEN Min({Recorded.cap, active * Recorded.part})
    ELSE active * Partitions(Longest(round.batch))
Reach(kernel) ==
    IF kernel = "smallq" THEN SmallReach ELSE IF kernel = "decode" THEN SingleReach
    ELSE MaxModelLen

Next == Load \/ Profile \/ Warm \/ Capture \/ EndEstimate \/ Pool \/ Ready \/ Serve
Spec == Init /\ [][Next]_vars

-----------------------------------------------------------------------------
(* Properties.                                                             *)

TypeOK ==
    /\ env \in Boots
    /\ pc \in {"load", "profile", "estimate", "pool", "capture", "serve"}
    /\ held \in [Layers -> SUBSET {"ct", "qpn", "marlin", "qpn8", "raw"}]
    /\ head \subseteq {"ct", "qpn"} /\ late \subseteq head
    /\ ok \in BOOLEAN /\ checks \in 0 .. 3 /\ gen \in 0 .. 2 /\ active \in Nat
    /\ todo \subseteq Piecewise \union Full /\ DOMAIN graphs \subseteq Piecewise \union Full
    /\ DOMAIN lin \in {{}, Layers}

Sound(a, i) ==
    Accepts(a, Model[i]) /\ (a.copy \in held[i] \/ (env.unify /\ ~ok))

GraphsSound == \A d \in DOMAIN graphs : \A i \in Layers : Sound(graphs[d].lin[i], i)

\* Every kernel that runs, and every kernel a graph has recorded, is given a
\* row count, a shape and a geometry it accepts: the conditions of the Python
\* dispatch and the checks of the CUDA launchers agree.  The copy of the
\* weights it reads is resident.  (The latter not once the self-check has
\* refuted the skinny kernels of a model some of whose layers were loaded
\* without their Marlin copy: see the README.)
LaunchesSound ==
    /\ \A i \in DOMAIN lin : Sound(lin[i], i)
    /\ GraphsSound
    /\ round.batch # <<>> /\ env.head # "off" =>
            Accepts(HeadLaunch(HeadLayer, Sampled(round.batch), head), HeadLayer)

\* Rows computed in batches of different sizes are added up in the same order,
\* unless the larger batch caps the split of the layer's own configuration.
RowsAgree ==
    \A d, e \in DOMAIN graphs : \A i \in Layers :
        LET a == graphs[d].lin[i]
            b == graphs[e].lin[i]
        IN  a.kernel \in SplitK /\ b.kernel \in SplitK /\ a.mt <= b.mt =>
                \/ Order(a) = Order(b)
                \/ b.mt = 2 /\ a.split > 16 /\ b.split = 16
                \/ b.mt = 4 /\ a.split > 8 /\ b.split = 8

\* A graph does not go on with kernels the self-check refuted: where enough
\* layers can be checked, the verdict is in before the first graph that holds
\* such a kernel.
VerdictBeforeGraphs ==
    ~ok /\ Cardinality({i \in Layers : Checkable(i, 1)}) >= 3 =>
        \A d \in DOMAIN graphs : \A i \in Layers :
            graphs[d].lin[i].kernel \notin Guarded \union {"unpack_wmma"}

Kernel == IF Replayed THEN Recorded.route ELSE Route(round.batch, FALSE)

\* Every token that is served attends to its own request up to its own
\* position, and the rows of the padding read nothing, whatever kernel takes
\* it and wherever the host believes the contexts to end: a replayed graph is
\* bound to the buffers of the builder in use, which were written for this
\* round, and has recorded the kernel an eager run of the round would take.
\* The context a launch is told to expect, when it was captured or now, and
\* for one-token decoding the partitions counted this round, reach to the end
\* of every context.
TokensAttend ==
    pc = "serve" /\ round.batch # <<>> =>
        LET seen  == Seen(Kernel)
            first(j) == Ends(Widths(round.batch))[j - 1]
        IN  /\ Kernel = Route(round.batch, FALSE)
            /\ \A j \in DOMAIN round.batch : LET r == round.batch[j] IN
                \A o \in 1 .. r.q : seen[first(j) + o] = [id |-> r.id, len |-> r.seq - r.q + o]
            /\ \A i \in DOMAIN seen :
                /\ i > Tokens(round.batch) => seen[i].len = 0
                /\ seen[i].len <= Reach(Kernel)

\* Nothing of the size of a weight is made after the pool has taken the memory:
\* the head's copies are made at the latest by the profile run, if that samples
\* as few rows as a decode round does.
HeadBeforePool == MaxSeqs <= 8 => late = {}
=============================================================================
