----------------------------- MODULE SpecRound -----------------------------
(***************************************************************************)
(* Token counts and recurrent states across speculative rounds:            *)
(* src/fork_patches/gpu_model_runner.py, composed with GdnState.           *)
(* With asynchronous scheduling the scheduler sends round n+1 before it    *)
(* has seen how many drafts round n accepted.  Its counts are optimistic;  *)
(* the runner puts them right twice: on the device, from the counts left   *)
(* there by round n (_prepare_inputs), and on the host, from a copy of     *)
(* them that arrives later (the corrections deferred by _update_states).   *)
(* The device runs in the order the worker launches, so its values are     *)
(* written at once; a copy to the host lands at any later time, or when    *)
(* its event is waited for.  Modes:                                        *)
(*   sync    synchronous scheduling: counts are exact when sent;           *)
(*   wait    asynchronous, but accepted counts are waited for              *)
(*           (sync_spec_decode_accept_counts);                             *)
(*   async   asynchronous and corrected late (use_async_spec_decode).      *)
(***************************************************************************)
EXTENDS GdnState

CONSTANTS
    Req,       \* request ids, each used once
    Prompt,    \* prompt length of each request
    Chunk,     \* tokens of a prompt that one round may compute
    MaxLen,    \* max_model_len, and the drafter's limit
    Groups,    \* sets of K+1 state slots, one per running request
    Boots,     \* <<mode, whether mamba_cache_mode is "align">>
    MaySkip,   \* whether the scheduler may leave a running request out
    ThinkOnly  \* VLLM_SM70_MTP_THINK_ONLY: see Suppressed

ASSUME SpecRoundAssumption ==
    /\ MaxLen \in Nat /\ Chunk \in Nat \ {0}
    /\ Prompt \in [Req -> 2 .. MaxLen - 2]
    /\ Boots \subseteq {"sync", "wait", "async"} \X BOOLEAN
    /\ MaySkip \in BOOLEAN /\ ThinkOnly \in BOOLEAN
    /\ IsFiniteSet(Req) /\ "none" \notin Req
    /\ IsFiniteSet(Groups) /\ Cardinality(Groups) <= MaxRows

VARIABLES
    mode, align,                 \* fixed at boot
    live, todo,                  \* running requests, requests to come
    true,                        \* tokens of the request that are computed
    owed,                        \* drafts its last round rejected, not yet told
    fits,                        \* whether the last round left drafts
    so,                          \* SchedulerOutput
    pc,
    batch,                       \* input_batch.req_ids, in row order
    cpu,                         \* num_computed_tokens, host side
    out,                         \* len(output_token_ids)
    prevLen,                     \* prev_num_draft_len
    prevIdx,                     \* prev_req_id_to_index (0: absent)
    prevDraft,                   \* prev_num_draft_tokens, by previous row
    deferred,                    \* corrections to be made after the launch
    discard, seqMax,             \* discard_request_mask, max_seq_len
    gpu,                         \* num_computed_tokens on the device, by row
    valid,                       \* valid_sampled_token_count_gpu and _cpu, by row
    last,                        \* prev_sampled_token_ids, and the drafts after them
    acc, accDue,                 \* num_accepted_tokens_cpu, by row; on its way
    sel,                         \* spec_state_slot_selectors, by row
    owner, slot, buf,            \* state slots, and the decode graph's rows
    start,                       \* the state each row of the round started from
    took, torn                   \* drafts accepted in its last round; see Torn

counts == <<true, owed, fits, cpu, out, prevLen, prevIdx, prevDraft, deferred>>
device == <<gpu, valid, last, sel, owner, slot, buf, start>>
copies == <<acc, accDue>>
vars == <<mode, align, live, todo, counts, so, pc, batch, discard, seqMax, device,
          copies, took, torn>>

Rows == 1 .. MaxRows
Async == mode # "sync"
Some(r) == r \in live /\ true[r] >= Prompt[r]    \* decoding
Zeros == [r \in Req |-> 0]
Nothing == [tok |-> Zeros, draft |-> Zeros, sent |-> Zeros]
Scheduled == {r \in Req : so.tok[r] > 0}
Given == \E r \in Req : so.draft[r] > 0          \* use_spec_decode
RowOf(r) == CHOOSE i \in DOMAIN batch : batch[i] = r

Init ==
    /\ \E b \in Boots : mode = b[1] /\ align = b[2]
    /\ live = {} /\ todo = Req /\ so = Nothing /\ pc = "schedule" /\ batch = <<>>
    /\ true = Zeros /\ owed = Zeros /\ fits = FALSE
    /\ cpu = Zeros /\ out = Zeros /\ prevLen = Zeros /\ prevIdx = Zeros
    /\ prevDraft = [i \in Rows |-> 0] /\ deferred = {}
    /\ discard = {} /\ seqMax = 0
    /\ gpu = [i \in Rows |-> 0] /\ valid = <<>> /\ last = <<>>
    /\ sel = [i \in Rows |-> 1]
    /\ acc = [i \in Rows |-> 1] /\ accDue = <<>>
    /\ owner = [g \in Groups |-> "none"]
    /\ slot = [g \in Groups |-> [c \in Columns |-> Both(Lost)]]
    /\ buf = NoRows
    /\ start = [r \in Req |-> Both(After(r, 0))]
    /\ took = Zeros /\ torn = {}

-----------------------------------------------------------------------------
(* The scheduler, which is not in the repository: modelled from what the   *)
(* runner receives.  It believes that the drafts of the round it has not   *)
(* heard of were all accepted.                                             *)

Sent(r) == true[r] + (IF Async THEN owed[r] ELSE 0)

\* num_output_tokens as sent, placeholders included.
SentOutput(r) == Max({0, so.sent[r] + 1 - Prompt[r]})

\* Drafts the scheduler counts on: those it took (take_draft_token_ids), or in
\* asynchronous scheduling those it knows the worker to hold.
Offered(r) == IF fits /\ (Async => r \in ToSet(batch)) THEN K ELSE 0

\* Tokens granted: a chunk of at most n prompt tokens (two at least to begin
\* with), or the next token and the drafts that stay below the model length.
Grant(r, n) ==
    IF true[r] < Prompt[r]
    THEN Min({Prompt[r] - true[r], IF true[r] = 0 THEN Max({n, 2}) ELSE n})
    ELSE Min({1 + Offered(r), MaxLen - 1 - Sent(r)})

\* What a round is sent: the tokens granted to the requests it serves, the
\* drafts among them, and the counts the scheduler believes in.
SchedulerOutput(served, n) ==
    LET tok == [r \in Req |-> IF r \in served THEN Grant(r, n) ELSE 0]
    IN  [tok   |-> tok,
         draft |-> [r \in Req |-> IF tok[r] > 0 /\ Some(r) THEN tok[r] - 1 ELSE 0],
         sent  |-> [r \in Req |-> Sent(r)]]

\* A request ends at the model length, or when its client says so.
MustEnd(r) == true[r] >= MaxLen - 1 /\ (Async => r \notin ToSet(batch))

Schedule ==
    /\ pc = "schedule"
    /\ \E gone \in SUBSET {r \in live : Some(r)}, come \in SUBSET todo :
        /\ {r \in live : MustEnd(r)} \subseteq gone
        /\ Cardinality(come) <= 1
        /\ Cardinality((live \ gone) \union come) <= Cardinality(Groups)
        /\ LET run  == (live \ gone) \union come
               kept == [g \in Groups |-> IF owner[g] \in gone THEN "none" ELSE owner[g]]
           IN  \E n \in 1 .. Chunk, skip \in SUBSET (live \ gone) :
                /\ skip # {} => MaySkip
                /\ so' = SchedulerOutput(run \ skip, n)
                /\ live' = run
                /\ IF come = {} THEN owner' = kept
                   ELSE \E r \in come, g \in {g \in Groups : kept[g] = "none"} :
                            owner' = [kept EXCEPT ![g] = r]
        /\ todo' = todo \ come
    /\ owed' = Zeros
    /\ pc' = "update"
    /\ UNCHANGED <<mode, align, true, fits, batch, cpu, out, prevLen, prevIdx, prevDraft,
                   deferred, discard, seqMax, gpu, valid, last, sel, slot, buf, start, copies,
                   took, torn>>

-----------------------------------------------------------------------------
(* The host's copy of the accepted counts lands: before the rows move or   *)
(* after it.  (The host reads valid_sampled_token_count only after waiting *)
(* for its copy, so that copy needs no action of its own.)                 *)

LandAccepted ==
    /\ accDue # <<>> /\ pc # "schedule"
    /\ acc' = [i \in Rows |-> IF i \in DOMAIN accDue THEN accDue[i] ELSE acc[i]]
    /\ accDue' = <<>>
    /\ UNCHANGED <<mode, align, live, todo, counts, so, pc, batch, discard, seqMax, device,
                   took, torn>>

-----------------------------------------------------------------------------
(* _update_states.                                                         *)

\* A plausible slip: rows are freed, but the last ones are not moved.
CondenseSkipped(added) ==
    SubSeq(batch \o added, 1, Cardinality(Scheduled))

\* Rows of finished and unscheduled requests are freed; new ones take the
\* smallest free row, and condense moves the last rows into the rest.
Condense(added) == Condensed(batch, Scheduled, added)

InBatch(r) == r \in ToSet(batch)
Orders(S) == {q \in [1 .. Cardinality(S) -> S] : IsInjective(q)}

(* _may_reorder_batch splits decodes and prefills, at the GDN builder's    *)
(* threshold of K+1 tokens.  The helper that swaps the rows is external:   *)
(* decodes go first, the order within each kind is left open.              *)
IsDecode(r) == so.tok[r] <= K + 1
DecodesFirst(p) == \A i, j \in DOMAIN p : i < j /\ IsDecode(p[j]) => IsDecode(p[i])
Reordered(q) ==
    IF DecodesFirst(q) THEN {q} ELSE {p \in Orders(ToSet(q)) : DecodesFirst(p)}

Known(r) == so.sent[r] > 0     \* scheduled_cached_reqs

(* Output tokens a request holds: a placeholder for each draft believed    *)
(* accepted, cut to what the scheduler counts; all of them when it returns *)
(* to the batch.                                                           *)
Output(r) ==
    LET more == IF ~Async \/ ~InBatch(r) \/ prevLen[r] = 0 THEN 0
                ELSE IF mode = "async" THEN prevLen[r] ELSE valid[prevIdx[r]] - 1
    IN  IF ~Known(r) THEN 0
        ELSE IF Async /\ ~InBatch(r) THEN SentOutput(r)
        ELSE Min({out[r] + more, SentOutput(r)})

\* A plausible slip: a request that left the batch is corrected as well.
DeferringAlways == {r \in Scheduled : mode = "async" /\ Known(r) /\ prevLen[r] > 0}

\* Requests whose count is corrected after the launch.
Deferring == {r \in Scheduled : mode = "async" /\ Known(r) /\ InBatch(r) /\ prevLen[r] > 0}

HostCount(r) ==
    so.sent[r] -
        (IF mode = "wait" /\ InBatch(r) /\ prevLen[r] > 0
         THEN prevLen[r] - (valid[prevIdx[r]] - 1) ELSE 0)

(* History, for the properties: r takes part in a round without drafts, or *)
(* comes back to the batch, after a round that accepted drafts of its own; *)
(* or rows are exchanged, and the counts that had landed with them, so that*)
(* the row where r is to look its count up now holds another's.            *)
Torn(r) == took[r] > 0 /\ (so.draft[r] = 0 \/ ~InBatch(r))
Displaced(now, r) ==
    /\ Async /\ InBatch(r)
    /\ prevIdx[r] \in DOMAIN now /\ prevIdx[r] \notin DOMAIN accDue
    /\ now[prevIdx[r]] # r

\* What is kept of a request outside the batch, unless it has finished.
Stay(f, r) == IF r \in live THEN f[r] ELSE 0

UpdateStates ==
    /\ pc = "update"
    /\ \E new \in Orders({r \in Scheduled : ~InBatch(r)}) :
       \E now \in Reordered(Condense(new)) :
           /\ batch' = now
           \* the rows of the host's accepted counts move along
           /\ acc' = [i \in Rows |->
                        IF i \notin DOMAIN now THEN acc[i]
                        ELSE IF InBatch(now[i]) THEN acc[RowOf(now[i])] ELSE 1]
           /\ torn' = (torn \cap live)
                        \union {r \in Scheduled : Torn(r) \/ Displaced(now, r)}
    /\ cpu' = [r \in Req |-> IF r \in Scheduled THEN HostCount(r) ELSE Stay(cpu, r)]
    /\ out' = [r \in Req |-> IF r \in Scheduled THEN Output(r) ELSE Stay(out, r)]
    /\ deferred' = {<<r, prevLen[r]>> : r \in Deferring}
    /\ prevDraft' = [i \in Rows |-> IF \E r \in Deferring : prevIdx[r] = i
                                    THEN prevLen[CHOOSE r \in Deferring : prevIdx[r] = i]
                                    ELSE 0]
    /\ prevLen' = [r \in Req |-> IF r \in Scheduled THEN so.draft[r] ELSE Stay(prevLen, r)]
    /\ true' = [r \in Req |-> Stay(true, r)] /\ took' = [r \in Req |-> Stay(took, r)]
    /\ pc' = IF Scheduled = {} THEN "schedule" ELSE "prepare"
    /\ UNCHANGED <<mode, align, live, todo, owed, fits, so, prevIdx, discard, seqMax, gpu,
                   valid, last, sel, owner, slot, buf, start, accDue>>

-----------------------------------------------------------------------------
(* _prepare_inputs.                                                        *)

PrevPos(i) == prevIdx[batch[i]]
Mapped == \E r \in Req : prevIdx[r] > 0      \* prev_req_id_to_index is not empty

\* Rows whose host count is optimistic.
Participating == {i \in DOMAIN batch : PrevPos(i) > 0 /\ prevDraft[PrevPos(i)] > 0}

\* A plausible slip: the counts of the last round are taken from the same row.
DeviceCountInPlace(i) ==
    IF mode = "async" /\ i \in DOMAIN valid /\ i \in Participating
    THEN gpu[i] + valid[i] ELSE cpu[batch[i]]

\* update_num_computed_tokens_for_batch_change: the previous device count and
\* the tokens kept of the last round; the host's count for any other row.
DeviceCount(i) ==
    IF mode = "async" /\ valid # <<>> /\ i \in Participating
    THEN gpu[PrevPos(i)] + valid[PrevPos(i)] ELSE cpu[batch[i]]

\* The accepted count of a row: by its previous place, 1 for a new row.
Accepted(i) ==
    IF Async /\ Mapped THEN (IF PrevPos(i) = 0 THEN 1 ELSE acc[PrevPos(i)]) ELSE acc[i]

-----------------------------------------------------------------------------
(* _prepare_input_ids.  Token n of a request is <<r, n>>; the drafts of a  *)
(* round are known by the positions they are for.                          *)

Blank == <<"none", 0>>       \* a placeholder, or what the buffer held before

\* The tokens of each row, the drafts among them, the tokens sampled, and the
\* tokens of all rows, which lie end to end.
RowTokens == [i \in DOMAIN batch |-> so.tok[batch[i]]]
RowDrafts == [i \in DOMAIN batch |-> so.draft[batch[i]]]
RowSampled == [i \in DOMAIN batch |-> so.draft[batch[i]] + 1]
AllTokens == Ends(RowTokens)[Len(batch)]

\* The row of the host's token table: it holds what the scheduler has told,
\* which in asynchronous scheduling no draft is.
Host(r, n) ==
    IF ~Async \/ n < Prompt[r] \/ (prevIdx[r] = 0 /\ n = cpu[r]) THEN <<r, n>> ELSE Blank

HostIds ==
    [x \in 1 .. AllTokens |->
        LET r == batch[RowAt(RowTokens, x)] IN Host(r, cpu[r] + OffsetAt(RowTokens, x) - 1)]

\* Rows that sampled in the last round, and their places in input_ids: the
\* last token, and the token sampled, which the drafts follow.
Common == {i \in DOMAIN batch : Async /\ PrevPos(i) > 0}
LastAt(i) == Ends(RowTokens)[i]

SampledAt(i) == LastAt(i) - so.draft[batch[i]]

\* The j-th draft that follows the token next_token_ids holds for a row.
Draft(p, j) == <<last[p][1], last[p][2] + j>>

\* A plausible slip: only the token sampled is scattered, not the drafts.
OnDeviceNoDrafts(p, j) == IF j = 0 THEN Draft(p, 0) ELSE Blank
OnDevice(p, j) == IF j = 0 \/ fits THEN Draft(p, j) ELSE Blank

\* One slice is copied when every row has one token and kept its place;
\* otherwise the host's ids are copied, if any is needed, and the device's
\* scattered over them.
InputIds ==
    LET known == [i \in DOMAIN batch |-> IF i \in Common THEN RowDrafts[i] ELSE 0]
        plain == AllTokens - Ends(known)[Len(batch)]
        base  == IF Cardinality(Common) < plain THEN HostIds ELSE [x \in 1 .. AllTokens |-> Blank]
        slice == /\ \A i \in Common : PrevPos(i) = LastAt(i)
                 /\ Max({0} \union {LastAt(i) : i \in Common}) = Cardinality(Common)
        mine(x) == {i \in Common : x \in SampledAt(i) .. LastAt(i)}
    IN  [x \in 1 .. AllTokens |->
            IF slice /\ x <= Cardinality(Common) THEN OnDevice(x, 0)
            ELSE IF slice \/ mine(x) = {} THEN base[x]
            ELSE LET i == CHOOSE i \in mine(x) : TRUE
                 IN  OnDevice(PrevPos(i), x - SampledAt(i))]

\* _calc_spec_decode_metadata: logits are taken at the last draft + 1 tokens
\* of each row, and each draft is judged by the logits before it.
LogitsAt ==
    [x \in 1 .. Ends(RowSampled)[Len(batch)] |->
        SampledAt(RowAt(RowSampled, x)) + OffsetAt(RowSampled, x) - 1]
TargetsAt ==
    [x \in 1 .. Ends(RowDrafts)[Len(batch)] |->
        Ends(RowSampled)[RowAt(RowDrafts, x) - 1] + OffsetAt(RowDrafts, x)]
DraftIds == [x \in DOMAIN TargetsAt |-> InputIds[LogitsAt[TargetsAt[x] + 1]]]

Prepare ==
    /\ pc = "prepare"
    /\ accDue = <<>>                         \* num_accepted_tokens_event
    /\ LET Seq1(r) == cpu[r] + so.tok[r]
       IN  /\ discard' = {r \in Scheduled : Seq1(r) < Prompt[r] + out[r]}
           /\ seqMax' = Max({Seq1(r) : r \in Scheduled})
    /\ gpu' = [i \in Rows |-> IF i \in DOMAIN batch THEN DeviceCount(i) ELSE gpu[i]]
    /\ sel' = [i \in Rows |-> IF i \in DOMAIN batch THEN Accepted(i) ELSE 1]
    /\ acc' = [i \in Rows |-> IF i \in DOMAIN batch THEN Accepted(i) ELSE acc[i]]
    /\ pc' = IF align /\ deferred # {} THEN "correct" ELSE "launch"
    /\ UNCHANGED <<mode, align, live, todo, counts, so, batch, valid, last, owner, slot, buf,
                   start, accDue, took, torn>>

-----------------------------------------------------------------------------
(* The rest of execute_model.                                              *)

GroupOf(r) == CHOOSE g \in Groups : owner[g] = r

BatchRows ==
    [i \in DOMAIN batch |->
        LET r == batch[i]
        IN  Row(r, GroupOf(r), gpu[i], so.tok[r],
                IF Given /\ so.draft[r] > 0 /\ cpu[r] >= Prompt[r] THEN so.draft[r] ELSE -1,
                sel[i])]

\* The metadata is built and the model runs; in align mode the states of rows
\* entering a block were moved before.
Launch ==
    /\ pc = "launch"
    /\ \E moving \in SUBSET {i \in DOMAIN batch : gpu[i] > 0} :
        /\ moving # {} => align
        /\ LET rows0 == BatchRows
               rows  == [i \in DOMAIN rows0 |->
                            IF i \in moving THEN [rows0[i] EXCEPT !.sel = 1] ELSE rows0[i]]
               slot0 == Rollover(slot, rows0, moving)
               graph == GraphRows(rows, Given, buf)
           IN  /\ slot' = Forward(slot0, rows, Given, graph)
               /\ buf' = graph
               /\ start' = [r \in Req |->
                    IF r \in Scheduled THEN InitialState(slot0, rows, Given, RowOf(r))
                    ELSE start[r]]
               /\ sel' = [i \in Rows |-> IF i \in moving THEN 1 ELSE sel[i]]
               /\ acc' = [i \in Rows |-> IF i \in moving THEN 1 ELSE acc[i]]
    /\ pc' = IF deferred # {} THEN "correct" ELSE "sample"
    /\ UNCHANGED <<mode, align, live, todo, counts, so, batch, discard, seqMax, gpu, valid,
                   last, owner, accDue, took, torn>>

\* correct_spec_decode_token_counts: before the launch in align mode, after
\* it otherwise.
Correct ==
    /\ pc = "correct"
    /\ cpu' = [r \in Req |->
                 IF \E d \in deferred : d[1] = r /\ prevIdx[r] > 0
                 THEN LET d == CHOOSE d \in deferred : d[1] = r
                      IN  cpu[r] - (d[2] - (valid[prevIdx[r]] - 1))
                 ELSE cpu[r]]
    /\ deferred' = {}
    /\ pc' = IF align THEN "launch" ELSE "sample"
    /\ UNCHANGED <<mode, align, live, todo, true, owed, fits, so, batch, out, prevLen,
                   prevIdx, prevDraft, discard, seqMax, device, copies, took, torn>>

-----------------------------------------------------------------------------
(* sample_tokens.                                                          *)

InputFitsInDrafter == seqMax + K <= MaxLen

\* Think-only speculation stops drafting some rounds after a request has
\* sampled the token that ends its thinking, for the whole batch, and starts
\* again when the batch changes: here, in any round.  (In asynchronous
\* scheduling nothing tells the scheduler, and the worker would raise.)
Suppressed == IF ThinkOnly /\ ~Async THEN BOOLEAN ELSE {FALSE}

\* Otherwise the drafts of the round are [[], ...].
Drafting(suppressed) == InputFitsInDrafter /\ ~suppressed

\* What rejection sampling leaves of a round that accepts a[r] drafts of r.
\* The counts that go on to the next round: nothing for a partial prompt.
Kept(a) ==
    [i \in DOMAIN batch |-> IF batch[i] \in discard THEN 0 ELSE a[batch[i]] + 1]

\* num_accepted_tokens, which asks for no discarded row.
Flat(a) == [i \in DOMAIN batch |-> a[batch[i]] + 1]

\* num_accepted_tokens_cpu_tensor: copied without waiting, behind an event.
CopyAccepted(a) ==
    IF Async THEN accDue' = Flat(a) /\ acc' = acc
    ELSE /\ acc' = [i \in Rows |-> IF i \in DOMAIN batch THEN Flat(a)[i] ELSE acc[i]]
         /\ accDue' = accDue

\* The drafter goes on from the last token that was not rejected: the token
\* after it is the one the target sampled (or the prompt's own).
NextToken(a, i) ==
    LET r == batch[i] IN <<r, gpu[i] + so.tok[r] - (so.draft[r] - a[r])>>

\* The tokens a round leaves of each row: none of a partial prompt.
Valid(a) == [r \in Req |-> IF r \in Scheduled \ discard THEN a[r] + 1 ELSE 0]

\* ModelRunnerOutput: drafts the scheduler will learn were rejected; in
\* asynchronous scheduling when the next round has been sent.
Owed(a) == [r \in Req |-> IF Valid(a)[r] = 0 THEN 0 ELSE so.draft[r] + 1 - Valid(a)[r]]

\* _bookkeeping_sync appends what it can see: a placeholder in async mode.
Booked(a) ==
    [r \in Req |-> IF r \notin Scheduled \ discard THEN out[r]
                   ELSE out[r] + (IF Async THEN 1 ELSE Valid(a)[r])]

\* prev_req_id_to_index, for the gathers of the next round.
Placed == [r \in Req |-> IF Async /\ r \in Scheduled \ discard THEN RowOf(r) ELSE 0]

\* The counts stay on the device and start on their way to the host.
Sample ==
    /\ pc = "sample"
    /\ \E a \in [Scheduled -> 0 .. K], suppressed \in Suppressed :
        /\ \A r \in Scheduled : a[r] <= so.draft[r]
        /\ true' = [r \in Req |-> IF r \in Scheduled
                       THEN true[r] + so.tok[r] - (so.draft[r] - a[r]) ELSE true[r]]
        /\ owed' = Owed(a)
        /\ fits' = Drafting(suppressed)
        /\ took' = [r \in Req |-> IF r \in Scheduled THEN a[r] ELSE took[r]]
        /\ out' = Booked(a)
        /\ valid' = IF Async THEN Kept(a) ELSE valid
        /\ last' = IF Async THEN [i \in DOMAIN batch |-> NextToken(a, i)] ELSE last
        /\ CopyAccepted(a)
    /\ prevIdx' = Placed
    /\ so' = Nothing /\ discard' = {} /\ seqMax' = 0
    /\ start' = [r \in Req |-> Both(After(r, 0))]
    /\ pc' = "schedule"
    /\ UNCHANGED <<mode, align, live, todo, cpu, prevLen, prevDraft, deferred, batch, gpu, sel,
                   owner, slot, buf, torn>>

Next == \/ Schedule \/ UpdateStates \/ Prepare \/ Launch \/ Correct \/ Sample
        \/ LandAccepted

Spec == Init /\ [][Next]_vars

-----------------------------------------------------------------------------
(* Properties.                                                             *)

TypeOK ==
    /\ live \subseteq Req /\ todo \subseteq Req \ live
    /\ pc \in {"schedule", "update", "prepare", "launch", "correct", "sample"}
    /\ batch \in Seq(Req) /\ Len(batch) <= MaxRows /\ IsInjective(batch)
    /\ pc \notin {"schedule", "update"} => ToSet(batch) = Scheduled
    /\ true \in [Req -> 0 .. MaxLen] /\ cpu \in [Req -> 0 .. MaxLen]
    /\ gpu \in [Rows -> 0 .. MaxLen] /\ sel \in [Rows -> 1 .. K + 1]

(* The positions a round computes at are right whatever was accepted       *)
(* before, although the scheduler and the host did not know it: the device *)
(* count of each row is its request's computed tokens.                     *)
CountsExact ==
    pc \in {"launch", "correct", "sample"} =>
        \A i \in DOMAIN batch : gpu[i] = true[batch[i]]

(* Each place of input_ids holds the token or the draft that follows the   *)
(* tokens computed, and the drafts judged are those that were given.       *)
InputsExact ==
    pc = "prepare" =>
        \A i \in DOMAIN batch : LET r == batch[i] IN
            /\ \A j \in 1 .. so.tok[r] :
                    InputIds[Ends(RowTokens)[i - 1] + j] = <<r, true[r] + j - 1>>
            /\ \A j \in 1 .. so.draft[r] :
                    DraftIds[Ends(RowDrafts)[i - 1] + j] = <<r, true[r] + j>>

(* When a round ends, and in align mode before state blocks are moved by   *)
(* them, the host's counts are those of the device: every optimistic count *)
(* is corrected exactly once.                                              *)
HostCountSettled ==
    pc = "sample" \/ (align /\ pc = "launch") =>
        \A r \in Scheduled : cpu[r] = true[r]

(* Each row starts from the state and the window after exactly its computed*)
(* tokens, whoever else joined, left, held its slots before or was         *)
(* replayed beside it; except after a round without drafts, or a gap, that *)
(* follows accepted drafts (see StateAlwaysCurrent), and after an exchange *)
(* of rows (see AcceptedFollowsRow).                                       *)
StateCurrent ==
    pc = "sample" => \A r \in Scheduled \ torn : start[r] = Both(After(r, true[r]))

(* The docstring of _update_states_after_model_execute: "a shifting is     *)
(* done during the next iteration based on the number of accepted tokens". *)
StateAlwaysCurrent ==
    pc = "sample" => \A r \in Scheduled : start[r] = Both(After(r, true[r]))

(* The comment of _prepare_inputs in asynchronous scheduling: "condense()  *)
(* reordered indices, use prev_positions mapping".  So read, the selector  *)
(* of a row that sampled in the last round is the count of its own request.*)
AcceptedFollowsRow ==
    pc = "launch" /\ Async =>
        \A i \in DOMAIN batch : PrevPos(i) > 0 => sel[i] = took[batch[i]] + 1
=============================================================================
