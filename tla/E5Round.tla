------------------------------ MODULE E5Round ------------------------------
(***************************************************************************)
(* The persistent-metadata round ("E5") of                                 *)
(* src/fork_patches/gpu_model_runner.py.  A steady speculative-decode      *)
(* round (every request of the batch scheduled with its K drafts and one   *)
(* more token) reuses what an earlier round left behind instead of         *)
(* rebuilding it:                                                          *)
(*   cache   the attention-metadata objects of a captured full build, with *)
(*           the fingerprint of the block geometry they were built for;    *)
(*   bargs   the arguments of the last full build, with which the flash    *)
(*           group alone is rebuilt on a hit;                              *)
(*   consts  the device-side row constants (query_start_loc, the scheduled *)
(*           token counts) the last full input preparation uploaded.       *)
(* One iteration is Schedule (the engine's scheduler, which is not in the  *)
(* repository and is modelled from what the runner receives), then one of  *)
(* the Execute actions (execute_model), then Sample (sample_tokens).       *)
(* Synchronous scheduling is modelled: every count is exact when read.     *)
(***************************************************************************)
EXTENDS Rows, SequencesExt

CONSTANTS
    Req,        \* request ids, each used once
    Prompt,     \* the prompt length of each request
    K,          \* num_spec_tokens
    MaxLen,     \* max_model_len, and the drafter's limit
    Budget,     \* max_num_batched_tokens
    MaxSeqs,    \* max_num_seqs
    BlockSize,  \* tokens per KV block
    Pool,       \* KV blocks in the pool
    E5MaxReqs,  \* VLLM_SM70_E5_MAX_REQS
    Aligns      \* whether mamba_cache_mode may be "align", or not

K1 == K + 1

ASSUME ConstantsAssumption ==
    /\ K \in Nat \ {0} /\ MaxLen \in Nat /\ BlockSize \in Nat \ {0}
    /\ Prompt \in [Req -> 1..(MaxLen - 1)]
    /\ MaxSeqs \in Nat \ {0} /\ E5MaxReqs \in Nat \ {0} /\ Aligns \subseteq BOOLEAN
    /\ Budget \in Nat /\ Budget > K1 * MaxSeqs
    /\ Pool \in Nat /\ Pool * BlockSize >= MaxLen      \* one request always fits

VARIABLES
    running, preempted, fresh,   \* the scheduler's queues
    known, computed, drafted,    \* per request: tokens, cached tokens, drafts
    blocks,                      \* per request: KV blocks it holds
    finished,                    \* finished or aborted since the last round
    so,                          \* SchedulerOutput of the round
    pc,                          \* "schedule", "execute" or "sample"
    batch,                       \* input_batch.req_ids, in row order
    stateIdx,                    \* mamba_state_idx
    cache, lastFp, fpRounds, bargs, consts,
    align,                       \* mamba_cache_mode = "align", fixed at boot
    round,                       \* how the round in flight was served
    catchup,                     \* requests whose previous round was a prefill
    moved                        \* requests whose blocks were freed after the capture

sched   == <<running, preempted, fresh, known, computed, drafted, blocks, finished>>
e5      == <<cache, lastFp, fpRounds, bargs, consts, moved>>
vars    == <<sched, so, pc, batch, stateIdx, e5, align, round, catchup>>

NoState == -1
Ceil(n) == (n + BlockSize - 1) \div BlockSize
Least(a, b) == IF a < b THEN a ELSE b
Most(a, b) == IF a < b THEN b ELSE a
NoTokens == [r \in Req |-> 0]

-----------------------------------------------------------------------------
(* The scheduler.                                                          *)

\* Tokens a running request still has to compute, drafts included, kept
\* below the model length.
Want(r) == Least(known[r] + drafted[r] - computed[r], MaxLen - 1 - computed[r])

\* The running requests served before r, in queue order.
Ahead(r) ==
    {running[i] : i \in {i \in DOMAIN running :
                            \E j \in DOMAIN running : i < j /\ running[j] = r}}

\* Running requests are served in order until the token budget is spent.
Grant(r) ==
    IF r \notin ToSet(running) THEN 0
    ELSE Least(Want(r), Most(0, Budget - Total([s \in Req |-> Want(s)], Ahead(r))))

\* Blocks request r holds once it was granted t tokens: room for them and for
\* the drafts of the next round.
Need(r, t) ==
    IF t = 0 THEN blocks[r]
    ELSE Most(blocks[r], Ceil(Least(MaxLen, computed[r] + t + K)))

Needed(S) == Total([s \in Req |-> Need(s, Grant(s))], S)

\* When the pool is short the newest running requests are preempted: a request
\* stays while it and those ahead of it fit.
Staying == {r \in ToSet(running) : Needed(Ahead(r) \union {r}) <= Pool}

Output(tok, new, resumed) ==
    [tok |-> tok,
     spec |-> [r \in Req |-> Most(0, computed[r] + tok[r] - known[r])],
     new |-> new, resumed |-> resumed, finished |-> finished]

\* The round of the running requests only, with preemption.
ScheduleRunning ==
    LET out == ToSet(running) \ Staying
        tok == [r \in Req |-> IF r \in Staying THEN Grant(r) ELSE 0]
    IN  /\ running' = Only(running, Staying)
        /\ preempted' = Only(running, out) \o preempted
        /\ computed' = [r \in Req |-> IF r \in out THEN 0 ELSE computed[r]]
        /\ drafted' = NoTokens
        /\ blocks' = [r \in Req |-> IF r \in out THEN 0 ELSE Need(r, tok[r])]
        /\ moved' = moved \union out
        /\ so' = Output(tok, {}, {})
        /\ running # <<>> \/ finished # {}
        /\ UNCHANGED <<fresh, known>>

\* Nobody is preempted and request r joins: a preempted one first, else any
\* that has arrived.
ScheduleAdmit(r) ==
    LET room  == Budget - Total([s \in Req |-> Grant(s)], ToSet(running))
        tok   == [s \in Req |-> IF s = r THEN Least(known[r], room) ELSE Grant(s)]
        first == Ceil(tok[r])
    IN  /\ Staying = ToSet(running)
        /\ Len(running) < MaxSeqs /\ room > 0
        /\ IF preempted # <<>> THEN r = Head(preempted) ELSE r \in fresh
        /\ Needed(ToSet(running)) + first <= Pool
        /\ running' = Append(running, r)
        /\ preempted' = Only(preempted, Req \ {r})
        /\ fresh' = fresh \ {r}
        /\ drafted' = NoTokens
        /\ blocks' = [s \in Req |-> IF s = r THEN first ELSE Need(s, tok[s])]
        /\ so' = Output(tok, {r} \cap fresh, {r} \ fresh)
        /\ UNCHANGED <<known, computed, moved>>

Schedule ==
    /\ pc = "schedule"
    /\ ScheduleRunning \/ \E r \in Req : ScheduleAdmit(r)
    /\ finished' = {}
    /\ pc' = "execute"
    /\ UNCHANGED <<batch, stateIdx, cache, lastFp, fpRounds, bargs, consts, align, round,
                   catchup>>

\* A client drops a request between two rounds.
Abort(r) ==
    /\ pc = "schedule"
    /\ r \in ToSet(running) \union ToSet(preempted)
    /\ running' = Only(running, Req \ {r})
    /\ preempted' = Only(preempted, Req \ {r})
    /\ blocks' = [blocks EXCEPT ![r] = 0]
    /\ drafted' = [drafted EXCEPT ![r] = 0]
    /\ finished' = finished \union {r}
    /\ moved' = moved \union {r}
    /\ UNCHANGED <<fresh, known, computed, so, pc, batch, stateIdx, cache, lastFp,
                   fpRounds, bargs, consts, align, round, catchup>>

-----------------------------------------------------------------------------
(* The persistent batch: _update_states.                                   *)

Scheduled == {r \in Req : so.tok[r] > 0}

\* _may_reorder_batch: decodes before prefills.
Reorder(rows) ==
    LET decodes == {r \in Req : so.tok[r] <= K1}
    IN  Only(rows, decodes) \o Only(rows, Req \ decodes)

\* The batch when the requests of stays keep their rows: those scheduled that
\* are new or return join, and the holes are closed.
Updated(stays) ==
    Reorder(Condensed(batch, stays, Only(running, Scheduled \ (ToSet(batch) \cap stays))))

\* Mutant: running requests that were not scheduled keep their row.
UpdateStatesKeepsUnscheduled == Updated((ToSet(batch) \ so.resumed) \ so.finished)

\* _update_states on the persistent batch: finished, unscheduled and resumed
\* requests leave it.
UpdateStates == Updated((Scheduled \ so.resumed) \ so.finished)

\* preprocess_mamba: the state block of the last scheduled token; finished and
\* preempted requests are forgotten.
PreprocessMamba ==
    [r \in Req |->
        CASE align /\ r \in Scheduled -> Ceil(computed[r] + so.tok[r]) - 1
          [] align /\ r \in ToSet(preempted) \union so.finished -> NoState
          [] OTHER -> stateIdx[r]]

-----------------------------------------------------------------------------
(* The hit decision and the capture.                                       *)

\* Mutant: the fingerprint leaves out the block counts.
StateFpNoBlocks(rows, idx) == [i \in DOMAIN rows |-> <<rows[i], idx[rows[i]]>>]

\* _e5_state_fp: per row the request, its state block and its block count.
StateFp(rows, idx) ==
    [i \in DOMAIN rows |-> <<rows[i], idx[rows[i]], blocks[rows[i]]>>]

Layout(rows) == [i \in DOMAIN rows |-> so.tok[rows[i]]]
Sched(rows)  == Total(so.tok, ToSet(rows))

\* The spec shape: every request has its K drafts and one more token.
AllDrafted(rows) == \A r \in ToSet(rows) : so.spec[r] = K
AllK1(rows)      == \A r \in ToSet(rows) : so.tok[r] = K1

\* Mutant: the token and draft counts of the round are not looked at.
MdHitAnyShape(rows) ==
    /\ cache.fp # <<>>
    /\ Len(rows) = Len(cache.fp)
    /\ so.new = {} /\ so.finished = {}
    /\ StateFp(rows, stateIdx) = cache.fp
    /\ \A r \in ToSet(rows) : computed[r] > Prompt[r]

\* _e5_md_hit.
MdHit(rows) ==
    /\ cache.fp # <<>>
    /\ Len(rows) = Len(cache.fp)
    /\ Sched(rows) = K1 * Len(rows)
    /\ Len(rows) > 1 => AllK1(rows)
    /\ so.new = {} /\ so.finished = {}
    /\ AllDrafted(rows)
    /\ StateFp(rows, stateIdx) = cache.fp
    /\ \A r \in ToSet(rows) : computed[r] > Prompt[r]

\* The captured objects: their fingerprint, whether they come with the spec
\* skeleton, and (to state the properties) the geometry they were built from.
Geometry(rows, idx) == [i \in DOMAIN rows |-> <<rows[i], idx[rows[i]], blocks[rows[i]]>>]
Captured(rows, idx) ==
    [fp |-> StateFp(rows, idx), spec |-> AllDrafted(rows), of |-> Geometry(rows, idx)]

\* Mutant: the first build with the spec shape is captured.
CacheCaptureAtOnce(rows, idx) ==
    LET n     == Len(rows)
        fp    == StateFp(rows, idx)
        shape == /\ n <= E5MaxReqs
                 /\ Sched(rows) = K1 * n
                 /\ n > 1 => AllK1(rows) /\ AllDrafted(rows)
    IN  /\ lastFp' = IF shape THEN fp ELSE lastFp
        /\ fpRounds' = fpRounds
        /\ cache' = IF shape THEN Captured(rows, idx) ELSE cache
        /\ moved' = IF shape THEN {} ELSE moved

\* _e5_cache_capture after a full build: the third build in a row with the
\* spec shape and one fingerprint is kept.  The shape of the drafts is looked
\* at only when there is more than one request.
CacheCapture(rows, idx) ==
    LET n     == Len(rows)
        fp    == StateFp(rows, idx)
        count == IF fp = lastFp THEN Least(3, fpRounds + 1) ELSE 1
        shape == /\ n <= E5MaxReqs
                 /\ Sched(rows) = K1 * n
                 /\ n > 1 => AllK1(rows) /\ AllDrafted(rows)
        taken == shape /\ count = 3
    IN  /\ lastFp' = IF shape THEN fp ELSE lastFp
        /\ fpRounds' = IF shape THEN count ELSE fpRounds
        /\ cache' = IF taken THEN Captured(rows, idx) ELSE cache
        /\ moved' = IF taken THEN {} ELSE moved

\* max_num_scheduled_tokens, the largest count of the batch, is K+1.
Longest(rows) ==
    (\E r \in ToSet(rows) : so.tok[r] = K1) /\ \A r \in ToSet(rows) : so.tok[r] <= K1

\* Mutant: the shape alone decides.
UniformDecodeByShape(rows) == Longest(rows) /\ Sched(rows) = K1 * Len(rows)

\* _determine_batch_execution_and_padding: replay the verify graph.
UniformDecode(rows) ==
    /\ Longest(rows)
    /\ Sched(rows) = K1 * Len(rows)
    /\ \A r \in ToSet(rows) : computed[r] >= Prompt[r]

-----------------------------------------------------------------------------
(* execute_model.                                                          *)

\* A round with finished requests and nothing to run only updates the batch.
ExecuteEmpty ==
    /\ pc = "execute"
    /\ Scheduled = {}
    /\ batch' = <<>>
    /\ pc' = "schedule"
    /\ UNCHANGED <<sched, so, stateIdx, e5, align, round, catchup>>

\* _e5_fast_prepare_v2 uploads only what moves with the counts; the constants
\* of the batch's shape are those of the last full preparation.
Resident(rows, fast) == IF fast THEN consts ELSE Layout(rows)

Execute(rows, hit, late) ==
    /\ batch' = rows
    /\ stateIdx' = PreprocessMamba
    /\ round' = [prep |-> IF hit /\ cache.spec THEN "fast" ELSE "full",
                 md |-> IF hit /\ ~late THEN "cached" ELSE "built",
                 uniform |-> UniformDecode(rows)]
    /\ consts' = Resident(rows, hit /\ cache.spec)
    /\ pc' = "sample"
    /\ UNCHANGED <<sched, so, align, catchup>>

\* Mutant: the early decision is final.
LateTransitionIgnored(rows) == FALSE

\* preprocess_mamba moved a state block after the early decision.
LateTransition(rows) == StateFp(rows, PreprocessMamba) # cache.fp

ExecuteHit ==
    LET rows == UpdateStates IN
    /\ pc = "execute" /\ Scheduled # {}
    /\ MdHit(rows) /\ ~LateTransition(rows)
    /\ Execute(rows, TRUE, FALSE)
    /\ UNCHANGED <<cache, lastFp, fpRounds, bargs, moved>>

ExecuteLate ==
    LET rows == UpdateStates IN
    /\ pc = "execute" /\ Scheduled # {}
    /\ MdHit(rows) /\ LateTransition(rows)
    /\ Execute(rows, TRUE, TRUE)
    /\ bargs' = Layout(rows)
    /\ CacheCapture(rows, PreprocessMamba)

ExecuteFull ==
    LET rows == UpdateStates IN
    /\ pc = "execute" /\ Scheduled # {}
    /\ ~MdHit(rows)
    /\ Execute(rows, FALSE, FALSE)
    /\ bargs' = Layout(rows)
    /\ CacheCapture(rows, PreprocessMamba)

-----------------------------------------------------------------------------
(* sample_tokens, and what the scheduler makes of its output.              *)

\* Requests whose last known token was computed this round: they sample.
Sampled == {r \in Scheduled : computed[r] + so.tok[r] >= known[r]}

Prefilling(r) == computed[r] < Prompt[r] \/ known[r] > computed[r] + 1

\* The drafter runs for the whole batch or for nobody.
InputFitsInDrafter == \A r \in Scheduled : computed[r] + so.tok[r] + K <= MaxLen

Sample ==
    /\ pc = "sample"
    /\ \E new \in [Sampled -> 1..K1], stop \in SUBSET Sampled :
          /\ \A r \in Sampled : new[r] <= so.spec[r] + 1
          /\ known' = [r \in Req |-> known[r] + (IF r \in Sampled THEN new[r] ELSE 0)]
          /\ computed' = [r \in Req |-> IF r \in Sampled THEN known[r] + new[r] - 1
                                        ELSE computed[r] + so.tok[r]]
          /\ LET done == stop \union {r \in Sampled : known[r] + new[r] >= MaxLen} IN
             /\ running' = Only(running, Req \ done)
             /\ blocks' = [r \in Req |-> IF r \in done THEN 0 ELSE blocks[r]]
             /\ drafted' = [r \in Req |-> IF r \in Sampled \ done /\ InputFitsInDrafter
                                          THEN K ELSE 0]
             /\ finished' = done
             /\ moved' = moved \union done
    /\ catchup' = {r \in Scheduled : Prefilling(r)}
    /\ pc' = "schedule"
    /\ UNCHANGED <<preempted, fresh, so, batch, stateIdx, cache, lastFp, fpRounds,
                   bargs, consts, align, round>>

-----------------------------------------------------------------------------
Init ==
    /\ running = <<>> /\ preempted = <<>> /\ fresh = Req /\ finished = {}
    /\ known = Prompt /\ computed = NoTokens /\ drafted = NoTokens /\ blocks = NoTokens
    /\ so = [tok |-> NoTokens, spec |-> NoTokens, new |-> {}, resumed |-> {}, finished |-> {}]
    /\ pc = "schedule"
    /\ batch = <<>> /\ stateIdx = [r \in Req |-> NoState]
    /\ cache = [fp |-> <<>>, spec |-> FALSE, of |-> <<>>] /\ lastFp = <<>> /\ fpRounds = 0
    /\ bargs = <<>> /\ consts = <<>>
    /\ align \in Aligns
    /\ round = [prep |-> "full", md |-> "built", uniform |-> FALSE]
    /\ catchup = {} /\ moved = {}

Next ==
    \/ Schedule
    \/ \E r \in Req : Abort(r)
    \/ ExecuteEmpty \/ ExecuteHit \/ ExecuteLate \/ ExecuteFull
    \/ Sample

Spec == Init /\ [][Next]_vars

-----------------------------------------------------------------------------
(* Properties.                                                             *)

TypeOK ==
    /\ running \in Seq(Req) /\ preempted \in Seq(Req) /\ batch \in Seq(Req)
    /\ ToSet(running) \cap ToSet(preempted) = {}
    /\ IsInjective(batch) /\ IsInjective(running) /\ IsInjective(preempted)
    /\ known \in [Req -> 1..MaxLen] /\ computed \in [Req -> 0..(MaxLen - 1)]
    /\ drafted \in [Req -> {0, K}] /\ blocks \in [Req -> 0..Pool]
    /\ stateIdx \in [Req -> NoState..Pool] /\ fpRounds \in 0..3
    /\ pc \in {"schedule", "execute", "sample"}
    /\ catchup \subseteq Req /\ moved \subseteq Req
    /\ Total(blocks, ToSet(running)) <= Pool
    /\ pc = "sample" => ToSet(batch) = Scheduled

Served == pc = "sample" /\ round.md = "cached"

\* A fast preparation skips the upload of query_start_loc and the scheduled
\* token counts because they are "constant and already resident on GPU from
\* the capture round": they are the ones of the batch it serves.
ConstantsResident ==
    pc = "sample" /\ round.prep = "fast" =>
        /\ Len(consts) >= Len(batch)
        /\ SubSeq(consts, 1, Len(batch)) = Layout(batch)

\* On a hit the flash group is rebuilt for the round it will serve: the saved
\* arguments describe this batch.
FlashArgsCurrent == Served => bargs = Layout(batch)

\* Cached metadata is served only for the blocks it was built from: the same
\* geometry, and no request of the batch lost its blocks since the capture.
\* The fingerprint only counts blocks; that the counts identify them follows
\* from the order in which the scheduler preempts.
ServedBlocksCurrent ==
    Served => /\ Geometry(batch, stateIdx) = cache.of
              /\ ToSet(batch) \cap moved = {}

\* The first decode round after a prefill, a recomputed one included, makes
\* the drafter catch up and is never served from the cache; and what was
\* captured is a verify round, whose metadata the fast preparation can patch.
CatchupNeverServed ==
    /\ Served => ToSet(batch) \cap catchup = {}
    /\ cache.fp # <<>> => cache.spec

\* "A prefill batch is never a uniform decode": the verify graph is replayed
\* only when every request brings its drafts.
PrefillNeverUniform ==
    pc = "sample" /\ round.uniform => AllDrafted(batch)
=============================================================================
