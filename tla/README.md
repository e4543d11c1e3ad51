# Verification of v100-skinny

TLA+ models of the parts of v100-skinny whose correctness depends on order:
two GPUs that exchange data through host memory, a model runner that reuses
what earlier rounds built and corrects what it guessed, recurrent states and
draft trees that follow what was accepted, CUDA graphs that replay what the
host decided at capture, shell scripts that race a server and a power cut.
`*.tla` are the modules, `*.cfg` the TLC configurations, `PROJECT.json` lists
components, runs, mutants, the correspondence with source lines, findings,
hazards and theorems.  Paths below are relative to `src/`.

## 1. The system

v100-skinny serves a 27B hybrid (attention + gated delta net) model on V100
boards.  It is a set of patches over an installed vLLM wheel, plus CUDA kernels
compiled at first use and the scripts that install and start the whole.

| Component | Source | State it keeps | Operations | Hard behaviour |
|---|---|---|---|---|
| Host-memory all-reduce | `kernels/skinny_ar.cu` | slots and flags in a shared mapping, call and block counters in device memory | `init`, `all_reduce`, `gemma_norm` | two devices, weak memory order, slot reuse, spinning blocks, counter width |
| All-reduce boot and dispatch | `fork_patches/cuda_communicator.py` | `_skinny_ar`, a file in /dev/shm | `_skinny_ar_init`, `all_reduce`, stock chain | two processes, one fails, leftovers of a dead boot |
| Serve script | `scripts/serve-qwen38-native.sh` | pid file, server process, verdict | check, launch, poll, warm, gates, teardown | signals between commands, timeouts |
| Installer | `scripts/lib-install.sh`, `skinny.sh`, `scripts/bootstrap-sm70.sh` | files of site-packages and their backups | `deploy`, extension swap, wrapper edit, build | a run cut short, reruns, wheel changes |
| Model runner: rounds | `fork_patches/gpu_model_runner.py` | persistent batch, request states, counts on both sides, E5 cache | `_update_states`, `_prepare_inputs`, `execute_model`, `sample_tokens` | state reused across rounds, preemption, drafter limit, optimistic counts |
| Model runner: boot and graphs | the same | KV pool, graphs, persistent buffers | `profile_run`, `profile_cudagraph_memory`, `capture_model`, dispatch | what was known at capture against what a round brings |
| Model runner: draft trees | the same | tree payloads, accepted rows on device and host | `_sample`, clamp, copies, selectors | copies that overlap, positions rewritten between two uses, stale host copies |
| NVFP4 and FP8 dispatch | `fork_patches/marlin.py`, `fork_patches/modelopt.py` | per-layer copies of weights, self-check verdict | load, `apply`, self-check, logits head | weights dropped at load, verdict shared by all layers, row-count boundaries |
| GEMM kernels | `kernels/skinny_kernels.cu` | none | about forty kernels | argument checks, split-K |
| GDN metadata and layer | `fork_patches/gdn_attn.py`, `fork_patches/qwen_gdn_linear_attn.py` | state slots, metadata buffers read by graphs | `build`, `_forward_core` | K+1 states per request, mixed batches, padding rows |
| Flash attention back end | `fork_patches/flash_attn_v100.py` | persistent row buffers, partition counts | `build`, `forward` | the kernel recorded at capture must suit every replay |
| KV dtype policy | `fork_patches/attention.py`, `fork_patches/torch_utils.py` | dtype per layer | resolve at load | silent override by the checkpoint |
| Custom all-reduce, fusion | `fork_patches/custom_all_reduce.py`, `fork_patches/allreduce_rms_fusion.py` | IPC buffers, graph buffers | capture, register, reduce | needs P2P |
| Model files, benchmarks, kernel patch | `fork_patches/qwen3_5*.py`, `benchmarks/`, `kernel_patches/` | none | | |

**How they interact.**  The serve script starts one engine process per run; the
engine starts a worker per board.  A worker loads its weights (which copies a
layer keeps is decided there), profiles, sizes the KV pool and captures graphs,
and a graph keeps the kernels, buffers and capacities of that moment.  Its
`CudaCommunicator` decides at boot whether small fp16 all-reduces take the
host-memory route; both workers must take the same route for the same call.
The engine's scheduler sends each worker a `SchedulerOutput` per round; the
runner updates its persistent batch, decides whether the round may reuse cached
metadata, runs the model (linear layers through the NVFP4/FP8 dispatch,
attention through the two metadata builders) and returns samples and drafts,
from which the next round is scheduled.  How many drafts were accepted decides
from which state column, position and token the next round goes on.  The
installer is what puts all of this in place of the wheel's own files.

**What makes each part correct.**
* all-reduce: each call's result is made of that call's two contributions, on
  both ranks, whatever the order of blocks and writes; nobody spins for ever;
* boot: both ranks share one clean file and take one route;
* serve script: READY means a server that served; no other end leaves one
  behind;
* installer: success means every file is ours; the wheel's own file survives;
* persistent round: whatever it reuses is what a full build would have made;
* speculative rounds: positions, tokens and recurrent states are those of the
  accepted tokens, however late the host learns of them;
* graphs: a replay computes what an eager run of the round would have;
* trees: after a round, caches and states hold the accepted path and nothing
  else.

`PROJECT.json` lists under "hazards" the places where this can go wrong and the
properties that would notice.

## 2. Modules

| Module | Models | Kind |
|---|---|---|
| `AllReduce` | what a caller is promised: join, return with this call's data | abstract specification |
| `SkinnyAR` | the kernel protocol, step by step | detailed specification, implements `AllReduce` |
| `SkinnyARInv`, `SkinnyARProofs` | its inductive invariant; theorems for all constants | TLAPS |
| `SkinnyARBoot`, `SkinnyARBootProofs` | two workers agreeing on the route, then calling | TLAPS |
| `ServeBoot`, `ServeBootProofs` | the serve script and its server | TLAPS |
| `Installer`, `InstallerProofs` | the installer's runs over site-packages | TLAPS |
| `Rows`, `RowsProofs` | places, subsequences, the rows of the persistent batch and sums over requests; what they preserve | operators, TLAPS |
| `E5Round`, `E5RoundProofs` | scheduler, persistent batch and the reuse of metadata, over `Rows` | TLAPS |
| `GdnState` | what a forward pass reads and writes of the recurrent states | operators |
| `SpecRound`, `SpecRoundProofs` | speculative rounds, synchronous and asynchronous, over `Rows` and `GdnState` | composition, TLAPS |
| `LinearRoutes` | which kernel serves a layer, what it accepts | operators |
| `GraphReplay`, `GraphReplayProofs` | load, capture and replay over `LinearRoutes`; theorems for all layers and models | composition, TLAPS |
| `DDTree` | verifying and committing draft trees | |
| `MC*` | instances for TLC | |

Definitions whose comment begins "A plausible slip" or "Mutant" are bugs the
code does *not* have: each is put in place of the definition after it to show
that a property notices.

### SkinnyAR: `kernels/skinny_ar.cu`

One action per thing a block does: `Start` reads the call counter, `WriteWord`
is the landing of one posted write, `Publish` the fence and flag, `SeePeer` the
end of the spin, `ReadWord` one word read back, `Exit` the count of finished
blocks and, for the last one, the advance of the counter.  `Launch` is the host:
kernels of one stream are serial.  Both entry points differ only in geometry
(`PlainShape`: chunks of a capped grid; `NormShape`: one row per block) and mix
freely in `call`, which is the same on both ranks (they run the same model).

*Data.*  A slot word carries the number of the call it belongs to.  "The sum is
right" becomes "every word read carries this call's number", which is exactly
what the protocol can get wrong; fp16 addition and the norm are left out.

*Memory order.*  A posted write becomes visible at any time before the fence of
its block ends; nothing orders words among themselves.  The reads after the spin
are `volatile` or `.cg` loads of memory the device does not cache.

### SkinnyARBoot: `cuda_communicator.py` and `skinny_ar_init`

Each worker goes load, open, zero, register, barrier, unlink; `Fail` is any of
the steps before the barrier raising, caught at line 158.  The leftover file of
a dead boot is in `Init`, with arbitrary flags.  Then the workers make calls:
`AllReduce` chooses the route from the rank's own `_skinny_ar` and the call's
size.  The flag is one per (file, rank, parity): blocks are in `SkinnyAR`.  gloo
collectives are external: they complete when both ranks are in the same one and
time out otherwise.

### ServeBoot: `scripts/serve-qwen38-native.sh`

`pc` is the script's next command.  A trapped signal sets `pending`; `Trap` runs
between two commands and *returns* to the next one, as bash does when a trap
does not exit (a second trap inside `cleanup_on_fail` would only repeat the
same TERM and removal, and is left out).  Other signals end the
script.  The server loads, comes up, may die whenever it likes, and lives in a
session of its own, so nothing but `Terminate` stops it.  Each gate's grep is
one nondeterministic verdict.

### Installer: `scripts/lib-install.sh`

A file holds a wheel's version, ours, or a copy of ours that was cut short.  The
wrapper may be cut before `is_e4m3` appears in it (the edit refuses it), after
that (it does not import), or so late that it imports and has the parameter the
check looks at (`Importable`).  Whether a cut of the last kind exists depends on
what follows `fp8_e5m2_paged_kv_to_fp16` in the wheel's wrapper, which is not in
the repository: something must, and the names the package imports must not.  A
backup cut short has a value of its own, `TornBackup`.  `Crash` cuts a run
between two steps or inside one that writes.  `deploy` calls touch different
files, so their order is left open.

### Rows: the persistent batch

Operators that `GdnState`, `SpecRound`, `E5Round` and `GraphReplay` share.
`Rank` and `Nth` count the members of a set of places; `Only` is a queue without
some of its members; `Condensed` is the batch after `_update_states` freed rows,
filled the smallest ones with the requests that join and closed the other holes
from the end; `Total` is a sum over requests, as the size of a set of pairs.
`Ends` says where each row ends when rows of given widths are laid end to end,
and `RowAt` to which row a place belongs, `OffsetAt` its place there: the
cumulative sum and the arange of `_get_cumsum_and_arange` and the `repeat` of
the row numbers.  `Ends` is a recursive function and no operator here is
recursive or a fold, so that theorems can be proved about them.

### E5Round: `fork_patches/gpu_model_runner.py`

A round is `Schedule`, one `Execute*`, `Sample`.  `UpdateStates` is the row
bookkeeping of `_update_states`; `MdHit`, `CacheCapture`, `StateFp`,
`LateTransition`, `UniformDecode`, `InputFitsInDrafter` are the functions and
conditions of those names.  `bargs` and `consts` are the shapes held by
`_e5_bargs` and by the device constants that a fast preparation skips: what is
kept of a metadata object is the batch it was built for.

The scheduler is vLLM's and not in the repository; it is modelled from what the
runner receives: running requests are served in order within the token budget,
KV blocks are granted with room for the next drafts, the newest running request
is preempted when blocks run out, a preempted one is recomputed from zero.

Simplifications, all of which leave the hit decision as it is: scheduling is
synchronous (counts are exact; `--no-async-scheduling`); one request is admitted
per round; one block count stands for the list of counts per cache group;
reordering is stable; a request id is used once; `catchup` and `moved` are
history variables that only properties read.  Grammar requests (they never hit)
and the shadow, drift, refresh, serve and post modes of E5, off by default, are
left out.

### GdnState: `gdn_attn.py`, `qwen_gdn_linear_attn.py`

Operators, no variables: given the rows of a batch and the state slots, which
rows verify, which half of a mixed batch each is in, which tokens each half
gathers, which column a row starts from (`SelectColumn`, `OneColumn`), what a
verified row and any other row leave behind (`VerifyWrites`, `OneWrites`), what
the persistent buffers of a graph hold (`GraphRows`) and which slots a replay
touches for rows past the batch (`Stray`).  A state is known by the request and
the number of its tokens it stands after.  The recurrent state and the
convolution window are separate: the window of a verified row stays in column 0
and is entered at an offset.  The convolution and recurrence kernels are not in
the repository; what they read and write is taken from their arguments.  `Core`
chooses between the boundaries that `_qwen_gdn_run_recurrent_core` compiles.
The input-projection and full-forward boundaries, the ROCm fast decode,
FlashQLA, the legacy switches and `mamba_cache_mode` "all" run the same
`_forward_core` on the same slots, or are off, and are left out.

### SpecRound: `fork_patches/gpu_model_runner.py`

A round is `Schedule`, `UpdateStates`, `Prepare`, `Launch`, `Correct`, `Sample`;
`LandAccepted` is the copy of the accepted counts reaching the host whenever it
likes.  `true` is what has really been computed; `cpu`, `gpu`, `out`, `prevLen`
are what each side believes.  `DeviceCount` and `Accepted` are the gathers of
`_prepare_inputs` through `prev_positions`; `InputIds` puts together the four
ways `_prepare_input_ids` fills a place, of rows that lie end to end
(`RowTokens`); `Deferring` and `Correct` are the corrections that
`_update_states` postpones.  Modes: synchronous; asynchronous
with accepted counts waited for (`sync_spec_decode_accept_counts`, needed when
the host moves state blocks); asynchronous with late corrections.

`UpdateStates` ends as the code does: the batch is condensed, and then
`_may_reorder_batch` puts the rows that decode before those that do not.  The
helper that exchanges rows is vLLM's and not in the repository.  It is modelled
by what it is asked for: a batch in that order already is left as it is
(`DecodesFirst`), any other becomes some order of the same requests in which
decodes come first (`Reordered`); a row decodes when its tokens are within the
threshold it is handed, the K + 1 of the GDN builder (`IsDecode`).  A helper that
tells more kinds of rows apart would exchange them in more cases; the proofs use
only that the rows hold the same requests afterwards (`ReorderArranges`).  What
the host keeps for a row, the accepted counts among it, is taken to move with
the row, as the synchronous branch of `_prepare_inputs` needs.  What the device
left of the last round stays where it was.

What the device does is ordered by its stream, so its values are written when
they are launched.  `valid_sampled_token_count` on the host is read only after
its event, so it has no landing action of its own.  Without trees the accepted
count and the state selector are equal, and one variable stands for both.
`Suppressed` is the think-suppression flag read one round late or more: it may
say either.  The scheduler is external: it sends `true + owed` in asynchronous
modes, and it takes the drafts of a request away when the drafter left none or
the request sat a round out, which is what the message "The scheduler must trim
invalid draft slots before target verification" (5519-5535) asks of it.
Preemption is in `E5Round`.  A first chunk has at least two tokens.

### LinearRoutes: `marlin.py`, `modelopt.py`, `skinny_kernels.cu`

`CopiesOf` is what a layer keeps after loading, `SkinnyRoute`, `Fp4Launch`,
`HeadLaunch`, `Fp8Launch` the kernel and geometry a call of `m` rows gets, and
`Accepts` the `TORCH_CHECK`s and launch geometry on the other side.  `Order` is
the order in which a row's products are added up: the split and the
accumulators.  Arithmetic is left out.

### GraphReplay: runner, `flash_attn_v100.py`, and `LinearRoutes`

`Load`, `Profile`, an estimate of the graphs' memory (`Warm` and `Capture` of
two graphs of each mode, `EndEstimate`), `Pool`, capture of every descriptor,
`Serve`.  `Forward` is a pass over the linear layers, with the self-check that
may refute any of them; `Build` is what the attention builder leaves in its
persistent buffers, for a real batch and for a dummy one; `Route` is the kernel
`forward` chooses, differently while capturing.  A graph is a record of launches
and of what it was bound to: the set of buffers, the capacity, the partition
size, the kernel.  A served batch is made of decodes whose length the host may
overrate, single tokens, and pieces of prompts.  When small queries are decoded
without the persistent rows, their lengths are those the host knows
(`Overrated`); the paged kernel is given the lengths on the device, and the
host's serve it as a hint at how far to reach only.  The dispatcher, Marlin,
cuBLAS and the `flash_attn_v100` wheel are external.

Left out: the error of a batch that outgrows its persistent rows (they are made
for the largest batch the scheduler may send); data parallelism, micro-batches,
LoRA, encoder graphs, cascade, bf16 activations, the fused argmax, switches no
script sets (two-pass row tiles, QPN2 off), the diagnostic attention routes
(paged decode in prefill, dense reference), sliding windows, the BFLA,
contiguous-dense, split-KV and FP8-bridge kernels, and the choice between XQA
and scalar decoding.  There is one attention group, and the requests of a batch
are in the order of their ids.

### DDTree: runner, with `flash_attn_v100.py`, `qwen_gdn_linear_attn.py`, `gdn_attn.py`

`Prepare` takes a tree per request and overrides positions, `Forward` caches
keys row by row and leaves a state per node in the column of the node, `Sample`
accepts any path and clamps it to the request's limit, `Commit` copies keys and
states or moves the selector.  A token is `<<round, row>>`; a key or a state is
known by the tokens it stands for.  `Copy` models both ways the code copies (in
order when slots overlap, at once otherwise).  `branched` and `cut` are history
variables that only properties read.

Left out: a row fed without its root token, which `_ddtree_depth_batches` takes
as well (every row here has a root and a node, and offsets that are stale never
leave out the root alone); copies of states that are skipped because the block
table does not hold a column, or holds padding (every row has all its columns);
batches in which only some requests bring a tree (they raise),
pipeline parallelism, asynchronous scheduling, the fused postprocess of align
mode (outside the repository), compaction of the drafter's context, and
`VLLM_DFLASH_DDTREE_ENABLE_HYBRID_TREE_STATE=0`, which raises.  The sampler's
choice and the payload are inputs.  The serve script does not start this path.

## 3. Runs

| Run | Instance | Shows |
|---|---|---|
| `ar_safety` | 3 calls, slots of 4 words, up to 2 blocks, plain messages of 0, 3 and 4 words, norm of 2 rows, counter mod 8; 497,008 states | sums exact, slots overwritten only when read, counters settle, `IInv`, refinement of `AllReduce`, every call returns |
| `boot_safety` | 3 calls (the second too large), 2 failures, leftover flags 0..2; 12,617 states | one route, one file, no call returns alone |
| `boot_fail` | 1 failure | a boot does fail |
| `serve_one` | 1 script, 3 signals; 930 states | no stranded server under INT/TERM; the script ends |
| `install_safety` | 2 tracked files, 2 wheels, 3 runs, 2 crashes; 18,796 states | success repairs what was torn, up to what the import check sees; no backup is of a file of ours |
| `e5_tight` | 3 requests, K = 1, 3 blocks for all, cache of up to 2 requests; 1,207,200 states | cached metadata is served only for its own blocks, and never at catch-up |
| `e5_default` | 2 requests one at a time (the serve script's default), K = 3, with and without align mode, up to the model length; 83,041 states | everything a hit reuses is current, late state moves are caught |
| `spec_round` | 2 requests, prompts of 2 and 6 tokens in chunks of up to 3, K = 1, eight tokens, four ways to boot, with drafts suppressed and requests left out now and then; 2,597,159 states | counts, tokens, drafts and states are those of the accepted tokens, whichever way rows move; host counts are corrected once |
| `gdn_limit` | 1 request, K = 3, synchronous | a round without drafts starts from the wrong column |
| `graph_replay` | 6 layers and a head, 5 boots, 5 capture sizes, one bucket, 2 requests; 22,603 states | launches accepted, one order of addition, verdict before graphs, every token attends to its own context |
| `ddtree` | 2 requests, 6 trees, 2 rounds, 8 sets of switches; 430,976 states | states and visibility follow the accepted path |
| `ddtree_kv` | the same | keys do not, with position overrides |

**Why the bounds are enough.**  `SkinnyAR`: slots alternate with period two and
no rank gets two calls ahead, so three calls hold a slot's life up to its
overwriting; two blocks are enough for one to lag; the empty message and a
message that does not divide by the grid are in.  What TLC shows here the proofs
extend to every size.  `SkinnyARBoot`: routes can differ only between
neighbouring calls.  `ServeBoot`: a signal per phase and one more.  `Installer`:
a crash, a rerun with a crash, a rerun, with a wheel change anywhere.
`E5Round`: capture takes three rounds; the instances leave room for capture, a
change of batch, a return to the cached batch, a block append and the end of the
model length; three requests on three blocks make a preempted request wait
behind another.  `SpecRound`: two requests join, leave, are left out and come
back in any order, so that rows move, are freed and are taken over with their
state slots by the other request, also in the round that frees them; the long
prompt has chunks as long as a verify round and longer, while the other request
already accepts drafts, so that rows are exchanged before and after accepted
counts have landed (that rows are reassigned rightly for any number of requests
is proved, in `RowsProofs` and `ReorderArranges`); one draft is accepted or not, which is all that a count can
differ by between two sides, and K = 3 is in `gdn_limit`; eight tokens leave
room for a prompt in chunks, for rounds with drafts one after the other, each
after accepted or rejected ones, in every mode, and for the limit; counts are
corrected within two rounds.  `GraphReplay`: nothing depends on the length of
the serving phase but what a round leaves to the next (buffers, head, verdict),
so the state space is finite without a bound; lengths lie below and above the
bucket and the partition threshold, sizes on each side of every row-count
boundary of the kernels (1, 8, 16, 32, 64), layers are those of the served model
and two the loader cannot repack.  `DDTree`: two rounds let the second go on
from what the first committed; the trees are the chain, forks at the root and
below it, and a path whose rows move by two.

**Fairness.**  `SkinnyAR`: weak fairness of `Launch` and of each block's step: a
resident block's warps run to completion, and a running engine keeps calling.
No fairness between blocks that are not resident is assumed, which is why the
grid cap matters.  `SkinnyARBoot`: weak fairness of each worker's step, none of
`Fail`.  `ServeBoot`: weak fairness of the script (its loops are bounded) and of
a server that was told to stop; none of a server coming up.  The runner's
modules state none: their rounds are steps of one sequential worker, and the
next round comes only if the engine sends one.

**Deadlock** is checked except in `Installer`, `E5Round`, `SpecRound` and
`DDTree`, which stop when the bound on runs or rounds, or the supply of request
ids, is used up.

## 4. What is proved

**`SkinnyARProofs`**, for any number of calls, words, blocks, threads, rows
and any residency, under `NoWrap == MaxCalls < SeqMod` and the constants'
assumptions (which are the `TORCH_CHECK`s of the two entry points):

* `TypeCorrect`, `SumIsExact`, `CountersAreSettled`: `Spec => []...`;
* `SlotReuseIsSafe`: a slot word is overwritten only after the peer returned
  from the call whose data it held;
* `KernelImplementsAllReduce`: `Spec => AllReduce!Spec` under the mapping of
  `SkinnyAR`.

The argument.  `Exact` is not inductive: it says nothing of a kernel that runs.
`IInv` adds, in named parts: `GridInv` (which blocks take part), `CounterInv`
(the counter is one behind while a kernel runs, and the block count is the
number of blocks gone), `BlockInv` (a resident block works on this call, on its
own chunk), `LockstepInv` and `MetInv` (no rank is more than one call ahead, and
a block past its spin has a peer in the same call), `PastInv` (slots and flags
never run ahead, and keep to their parity), `WrittenInv`, `FlagInv` and
`PeerInv` (a flag of this call or of the one before vouches for its whole chunk,
and goes on doing so while the peer reads), `SumInv` (what was summed is right).
The centre is the header's slot-reuse argument: call n+2 may overwrite slot n
because every block has seen the peer's flag of n+1, which that peer raised in a
kernel launched after its call n was over.  Each action has one step of proof
and, under it, one per conjunct it can disturb.  `NoWrap` is needed: see section
6.

**`SkinnyARBootProofs`**, for any number of calls, any mix of sizes, any number
of exceptions and any leftover file; no hypothesis beyond the constants' types:

* `TypeCorrect`, `RoutesAgree`, `FileIsShared`, `NobodyReturnsAlone`;
* `FailsOnlyAfterException`: `Spec => [](failures = 0 => NeverFailsABoot)`,
  which is what remains of line 158's promise (section 6 has the rest).

The argument.  Two ranks agree because a rank has the route only past a barrier
its peer reached (`Agreement`), map one file because the name is unlinked only
behind that barrier (`OneName`), and never take a leftover flag for the peer's
because each zeroed its half before it (`FlagsOwn`: a flag is at most the number
of small calls its owner made).  `NeverAlone` is inductive given these and
`Calls`.  The lemmas `SeqMonotone` and `SeqStrict` say that the counter of small
calls grows with the calls, which is what a rank waits for.

**`ServeBootProofs`**, for any number of INT and TERM signals:

* `NothingStranded`: `Spec => []NoStrandedServer`;
* `ReadyRecorded`: `Spec => []ReadyIsRecorded`.

Both under `Alone`: one script, and no signal but the two it traps.  Neither
part can be left out: a HUP strands a server and two scripts share the pid file
(section 6).  The invariant follows the pid: until the script records it no
cleanup can find the server, and a trap between launch and record returns to the
recording (`BeforeRecord`); from then on the file leads to the server or a
cleanup has told it to stop (`AfterRecord`), wherever a trap interrupts.

**`InstallerProofs`**, for any files, wheels, number of runs and of crashes:

* `TypeCorrect`, `SuccessIsWhole`, `FilesDeployedFirst`, `OriginalsAreSafe`:
  `Spec => []...`.

`IInv` adds to the types the order of a run (`InOrder`), that what a run no
longer has to copy is ours (`DeployedSoFar`), and that a file about to be
overwritten has a backup (`BackedBeforeWritten`).  `SuccessIsWhole` promises the
wrapper no more than the import check does, and `OriginalsAreSafe` allows a
backup that was cut short: what a careful reader would ask beyond that,
`PlumbingPresent` and `BackupOfReplaced`, is false (section 6).

**`GraphReplayProofs`**, first about `LinearRoutes`, for layers of any shape and
any number of rows:

* `Fp4Accepted`, `RepackedFp4Accepted`, `Fp8Accepted`: what the Python side
  launches, the CUDA side accepts.  The lemmas go route by route: the configured
  split divides K (`Cfg2Divides`, `Cfg8Divides`), still does when it is capped
  (`CappedDivides`), and each route's geometry meets its kernel's checks.
  `Fp4Accepted` excepts exactly the refusal of section 6: a layer that could be
  packed, was not, and whose K is not a multiple of 256;
* `SameOrder`: two launches of one layer add up in one order unless the larger
  is capped below the split of the smaller.

Then about `GraphReplay`, for any model, any boots, any capture sizes and any
batches:

* `RowOrderHolds`: `Spec => []RowsAgree`;
* `RecordedLaunchesSound`: `Spec => []GraphsSound`, under `ShapesFit`;
* `LaunchesAreSound`: `Spec => []LaunchesSound`, under `ShapesFit` and
  `HeadFits`: the launches of the round in hand as well, replayed or eager, and
  those of the logits head;
* `TokensAreAttended`: `Spec => []TokensAttend`, without hypotheses;
* `TypesHold`: `Spec => []TypeOK`, without hypotheses;
* `VerdictIsInTime`: `Spec => []VerdictBeforeGraphs`, under `FewUnpacked`;
* `HeadIsAccounted`: `Spec => []HeadBeforePool`, without hypotheses.

None is inductive: nothing in them says where a recorded launch came from.
`GInv` is types, what each layer holds once it is loaded (`Loaded`), that every
recorded launch is configured by its own layer (`GraphsConfigured`), and under
`ShapesFit` the soundness itself.  Only `Capture` adds to the graphs, and its
launches are `LayerLaunch`es of what `Loaded` says is held, to which the
theorems about `LinearRoutes` apply; `ClearGraphs` only takes away.  For a
replayed round `LaunchInv` also needs that the dispatcher's answer has at least
as many rows as the batch (`DispatchFinds`).  For the verdict, `VerdictInv` says
that three comparisons are spent before anything is recorded at a size the check
looks at: a warm-up at the same size runs before each capture and compares up to
three layers (`FirstThree`, `ChecksSpent`), after which nothing is compared and
so nothing refuted.  `HeadInv` says the profile run made every copy a later run
may want (`WantsLess`), since a larger batch never wants more.

The hypotheses, all of which hold of the instance TLC checks:

* `ShapesFit`: every K is positive and a multiple of 256, or QPN is on in every
  boot.  Without it the refused call of section 6 is recorded;
* `HeadFits`: the head has N a multiple of 64 and K of 256, as the served
  model's has.  The head's route asks for the number of rows only and does not
  call `_skinny_ok`, so a head of another shape would reach a kernel that
  refuses it;
* `FewUnpacked`: in a unified boot at most two layers keep Marlin's copies
  because the loader cannot pack them.  With three such layers a graph above 64
  rows may record the unpacking kernel of the other layers before the check is
  spent on those three: a later refutation would find it there.

The argument for `TokensAreAttended`.  No boot replays a graph whose buffers are
not those in use: `AttnInv` says that the graphs of the estimate are gone before
the pool is made and that each graph left is bound to the present builders
(`Bound`) with the kernel its dummy batch took.  That this is the kernel of the
eager run is `RecordedRoute`: the dispatcher gives a graph to uniform rounds
only (`Takes`, `UniformFacts`), whose longest query and prefix the dummy batch
shares.  `Served` is what the metadata builder left for the round in hand, in as
many rows as the widest graph reads, the padding included.  From there each
kernel reads what it should (`SmallReads`, `SingleReads`, `PagedReads`,
`DenseReads`) because the flat place of a token determines its request and its
place there (`LaidOut`, from `RowAtFacts`), and far enough (`Reaches`): the
context expected at capture is the model length, and the partitions counted this
round cover the longest context (`PartitionsCover`).  What a batch of the
scheduler's is like is in `BatchFacts`.

**`RowsProofs`** holds the lemmas about `Rows` on which the modules before and
after it rest.  `CondensedArranges`: whatever is freed, added and moved, the
rows hold each request that stays or joins once, because the rows freed below
the new end are as many as the requests to be put there (`CondensedCounts`).
`RankFacts` and `NthFacts`: places in a set are counted by `Rank` and found by
`Nth`.  `OnlyFacts`, `JoinFacts`, `AppendFacts`: queues keep their members and
their order.  `TotalAdd`, `TotalMonotone`, `TotalOne`, `TotalEmpty`: sums over
requests.  `EndsFacts`, `EndsMonotone`, `EndsOfOnes`, `EndsApart`, `EndsStrict`,
`RowAtFacts`: rows laid end to end do not overlap, leave no gap, and end the
further on the longer they are.  These are inductions, which the provers do
without an induction theorem: of the places where such a claim failed there
would be a least one (`LeastExists`, from the library's theorem that `<` is well
founded), and the step to it from the place before is a contradiction.
`EndsExists` is of the same kind: `Ends` is defined by recursion, and that there
is a function that satisfies the recursion has to be shown before anything can
be said about it.

**`SpecRoundProofs`**, for any requests, prompts, chunks, model length, rows,
drafts and all modes; no hypothesis beyond the constants' types:

* `TypeCorrect`, `DeviceCountsExact`, `HostCountsSettle`: `Spec => []...` of
  `TypeOK`, `CountsExact` and `HostCountSettled`.

The argument.  Between two rounds three parties disagree on a request's count,
by known amounts.  `Behind(r)` is what the scheduler still has to hear: the
drafts rejected in the last round, which can be read off the row where the
device left the request's counts.  `Told` says that the scheduler is ahead by
exactly that, `LastRound` that the row is there and its counts are the request's
(and that the count is below the model length even with `Behind`), `OwnPlace`
that no two requests look into one row.  In a round `HostSide` says that a host
count is right or that exactly one correction is due that makes it right;
`Prepared` and `Launched` carry this through the gathers; that the rows hold
each scheduled request once is `CondensedArranges` of `RowsProofs`, and
`ReorderArranges` for the exchange that may follow.

Under the same generality, and for every boot, core and graph size:

* `StatesFollow`: `Spec => []StateCurrent`.

The constants' types carry one restriction of the model: a prompt, and the first
chunk of it, has two tokens at least.  A first chunk of one token is routed as a
decode (`split_decodes_and_prefills` with threshold 1) and starts from whatever
its fresh slot holds, which is right only if the scheduler, outside the
repository, had that block zeroed.

The argument has two halves.  The first is about `GdnState` alone: whatever the
batch, each half of it gathers for every row its own tokens (`FedItsOwn`: the
stable sort keeps the order of places, `RankOfPlace`, so a token's rank in its
half is what the half's own offsets say, `SameRank`), each lane gets its own
row's slots (`LaneOwn`), and no padding row of a replayed graph touches a slot
(`NoStray`).  Hence a pass writes in each owner's slots what its row alone would
write (`ForwardOwn`).  `SumOf` counts a set of tokens, and is no fold, so that
this can be argued without induction.

The second is the invariant `SInv`.  `Owned`: one owner per set of slots.
`AcceptedKept` and `AcceptedDue`: the count accepted in a request's last round,
which the host has or is about to get, is where the next round will look for it,
before the rows move and after; `Selected` carries it to the selectors.
`States`: between rounds a request's slots hold the state after its computed
tokens in the column of the last accepted one, and the window before them in
column 0 (`Holds`); once the pass has run, a state for every count that may be
accepted (`Computed`), which is what `Sample` turns into `Holds` again.
Two kinds of request are excepted, `Torn` and `Displaced`.  `NotTorn` is why no
other is: any other request that accepted drafts has drafts in its next round,
and looks its count up in a row that still holds it.  `Unsampled` is the
rest of it: a request that has no place in the last round's rows is given the
count 1, and so is everyone when nobody has a place.
Neither exception can be dropped: `gdn_limit` shows what happens without the
first, and `AcceptedFollowsRow` (section 6) without the second.

And of the tokens the rows are fed, in the same generality:

* `InputsAreExact`: `Spec => []InputsExact`.

The argument again has two halves.  The invariant `FInv` says where the last
sampled token is: a running request that has a place in the gathers finds there
its own id and the token at its count (`Remembered`); a decoding request that
kept its row has such a place (`Gathered`); a round is prompt tokens, or one
token and drafts, and drafts are only sent for requests that have them on the
device (`Drafted`); and the requests discarded are those whose prompt does not
end in the round, although the host decides that by counts that may be too high
(`Sampling`).  The other half is about the layout.  A row that has its token on
the device is covered whole by the token and the drafts (`RowSource`); when the
host's ids are not copied, every row is such a row, because each row has at
least one token that is no draft and there are no more of these than rows on the
device (`HostNeeded`, from `EndsApart`); when one slice is copied, its rows are
the first ones, of one token each (`SliceIsRows`, from `EndsStrict`).  `DraftAt`
then follows the two gathers of `_calc_spec_decode_metadata` back to the place
each draft was fed.

**`E5RoundProofs`**, for any requests, prompts, drafts, model length, token
budget, batch size, block size and pool:

* `TypesHold`: `Spec => []TypeOK`, which says besides the types that the blocks
  of the running requests fit in the pool and that the batch is the scheduled
  requests;
* `ServedBlocksAreCurrent`: `Spec => []ServedBlocksCurrent`;
* `CatchupIsNeverServed`: `Spec => []CatchupNeverServed`;
* `PrefillIsNeverUniform`: `Spec => []PrefillNeverUniform`, for `MaxSeqs = 1`;
* `ConstantsAreResident`, `FlashArgsAreCurrent`: `Spec => []ConstantsResident`
  and `Spec => []FlashArgsCurrent`, for `MaxSeqs = 1` and `K <= 3`.

The argument for the first three.  The fingerprint holds block *counts*, and
nothing in a hit asks whether the blocks are still the same ones.  That they are
is a fact about the scheduler: requests are served and preempted in queue order,
the newest first.  `Cached` says that a capture is either `Intact` (its requests
still run, ahead of all others, decode, and fit in the pool together with the
blocks they were captured with, so that the preemption of later requests makes
room for them: `MembersStay`), or can never be hit again: a request of it has
ended, or a verify round of it already needs more blocks than it held, and what
it needs never shrinks.  `Intact` survives a round in which a member would need
more, because `Cached` then holds by its other half (`CacheKept`); a capture
makes it true because the blocks of all the requests it holds were granted
together (`CaptureIntact`).  `Granted` and `InOrder` say what a
`SchedulerOutput` brings, from the lemmas on the budget and the pool
(`GrantFacts`, `GrantInOrder`, `StayingFacts`); `LastBuild` is for a capture of
one request, where the code does not look at the drafts: a prefill of K+1 tokens
has the right shape once, but the fingerprint must come back twice more, by when
the request decodes or is gone (`CapturedShape`).

The other three are false without their hypotheses (section 6), and the
hypotheses are what the serve script starts: `--max-num-seqs` 1 and three
drafts.  `Solo` says that with one request nobody is preempted, so that no
prefill is recomputed: a request is in its first prefill or knows one token more
than it has computed.  `Reusable` says that while the request of the capture
lives, the saved arguments and constants are those of a verify round, unless the
request has come too near the model length for another one.  `Drafted` is why
that is enough: a decoding request has its drafts until the drafter's limit.  A
verify round skips the drafter from `MaxLen - 2K` computed tokens on, the round
of one token after it may draft again, and the next verify round, two tokens
further at least, must not end beyond `MaxLen - 1`: there is room for it only if
K is 4 or more.

## 5. What is only model-checked

Liveness (`AllCallsReturn`, `BothServe`, `ScriptEnds`, `FailedBootFreesGpus`) is
out of the prover's reach: it rests on fairness.  Also only checked, on the
instances above:

* `TypeOK`, `StateFollowsPath` and `AttendsPath` of `DDTree`: `TreeStates`,
  `Depth`, `Ancestors` and the copies are recursive over the tree or are folds,
  and of what they compute nothing is proved.

Besides the mutants of `PROJECT.json` these slips were put in by hand and found:
the state column off by one; lanes sliced although some rows do not verify;
offsets of the whole batch used for one half; placeholder masks taken for
verified rows; graph rows left as they were; the graphs of the estimate kept;
context judged by the first request; the capacity of the dummy batch; an
uncapped split; shared buffers kept under any key; a causal mask in place of the
tree's; the host's accepted rows kept over a round.

## 6. Disagreements found

Each has a run that exhibits it and an entry in `PROJECT.json`:

* `boot_fail`: "never fail a boot on this", and a boot does: the rank whose
  initialisation raised skips the barrier its peer waits in;
* `gdn_limit`: "a shifting is done during the next iteration based on the number
  of accepted tokens", and in a round without drafts it is not: near the
  drafter's limit the next token is computed from the state after the first
  token of the last verified row.  Suppressed drafts
  (`VLLM_SM70_MTP_THINK_ONLY`), a mixed round, and a request that sat a round
  out lose state in the same way; `StateCurrent` excepts exactly these (`Torn`);
* `ddtree_kv`: with position overrides the accepted branch's keys are not moved,
  because the slots to copy are derived from positions rewritten in between.

Met while modelling, and left without a run of their own.  The first eight are
reproduced by the constants given:

* the comment at `gpu_model_runner.py:5822`, "condense() reordered indices, use
  prev_positions mapping", but rows may be exchanged after the condense (3458).
  If the last round's accepted counts have landed by then, they move with the
  rows, and the mapping, which looks them up in the rows of the last round,
  finds the count of the request in exchange; if they land later, it finds the
  right one.  So it is a race between the copy and `_update_states`.  It takes
  asynchronous scheduling, two requests at least, and a prompt chunk of more
  than K + 1 tokens in a row before a decode's, and it rests on the helper
  outside the repository moving the counts with the rows: if it does not, the
  synchronous branch, which reads them at the new rows (5839-5847), is the wrong
  one.  `StateCurrent` excepts exactly these requests (`Displaced`).
  `SpecRound_all.cfg` with three requests, `Prompt <- MCPrompt`,
  `MaySkip = FALSE`, `ThinkOnly = FALSE` and `AcceptedFollowsRow` as its
  invariant shows it;
* an import meant to "prove the E4M3 plumbing is present"
  (`lib-install.sh:123-124`) looks at one signature, and passes a wrapper cut
  short after it, which the edit takes for one it has edited.
  `Installer_safety.cfg` with `PlumbingPresent`, one wheel, two runs and a crash
  are enough;
* "keeping a .pre_bootstrap backup of whatever was there"
  (`lib-install.sh:25-26`) does not hold if a run was cut short while it made
  one, or if the backup found is another wheel's: the guard asks for the name
  only.  `Installer_safety.cfg` with `BackupOfReplaced`: one wheel, two runs and
  a crash show the one, two wheels and two runs without a crash the other;

* a hangup strands the server: the trap names INT and TERM only although line
  178 says "Any exit before READY must not strand a server".  `ServeBoot` with
  `Signals = {"HUP"}`, `MaxSignals = 1` violates `NoStrandedServer`;
* flash arguments of another batch after a preemption, and a recomputed prefill
  taken for a verify round: `E5Round_tight.cfg` with `FlashArgsCurrent`, or with
  `PrefillNeverUniform`, as its invariant.  The comments at 565-567 and 8738 say
  otherwise;
* row constants of another shape after rounds without drafts: two requests `a`
  and `c` at once, `MCPrompt3`, K = 3, `MaxLen = 18`, `Budget = 12`,
  `MaxSeqs = 2`, `BlockSize = 16`, `Pool = 4`, `E5MaxReqs = 8` violate
  `ConstantsResident`.  None of these three is reachable with the serve
  script's default, one request and K = 3, as is proved
  (`PrefillIsNeverUniform`, `FlashArgsAreCurrent`, `ConstantsAreResident`);
* one request at a time is not enough for the last two: K = 4 with `MaxLen = 22`
  (otherwise `E5Round_default.cfg`; the script takes K from its environment)
  violates `FlashArgsCurrent` and `ConstantsResident`.  After the verify round
  at 14 computed tokens there is no room for the drafter; the round of one token
  that follows has room again, and the verify round after it, at 16, hits with
  the arguments and constants of that one token;
* the flags of `skinny_ar.cu` hold a 32-bit call number compared for equality
  and a block's flag is rewritten only by a call whose grid reaches it, so after
  2^32 calls a flag never raised (0) or raised exactly one period ago releases a
  wait.  With `SeqMod = 4`, `MaxCalls = 5`, `Messages = {1}`, `NormRows = {2}`,
  TLC finds `Exact` violated;
* a TERM after the gates tears the server down and READY is still printed, since
  the trap returns; two scripts started together both find the boards idle;
* `marlin.py` says at 64-65 that rows are bit-identical to qpn2's, and
  `modelopt.py` at 536-543 the same of M 9 to 32.  It is false at 17 to 32 rows
  when the layer's split is above 8, and at 9 to 16 when it is 32: the split is
  capped there.  `RowsAgree` and `SameOrder` state what does hold;
* once the self-check has refuted the kernels of a unified boot, layers without
  a Marlin copy are called with empty Marlin weights at M up to 32; and graphs
  above 64 rows captured before any check keep the unpacking kernel.  `Sound`
  and `VerdictBeforeGraphs` except these.  The check's three comparisons are
  spent at the first sizes it meets, it never runs under compilation, and W4A16
  layers and the head have none;
* the packed copy of the logits head is made at the first logits of at most 8
  rows, after the pool was sized if `max_num_seqs` is above 8, although the
  comment at `marlin.py:903` wants it "resident (and profiler-accounted)";
* with QPN disabled, 8 to 16 rows of a layer with K = 128 mod 256 reach a kernel
  that refuses them: Python tests K against 128 only.  With QPN enabled no shape
  is refused, which is proved (`Fp4Accepted`);
* the general GDN build records a key without the number of requests
  (`gdn_attn.py:1793-1798`) which the fast build of trees compares (984): after
  two requests with T tokens in all, one request with T tokens keeps the first
  one's offsets.  A branched tree then raises "DDTree GDN metadata mismatch", a
  flat chain leaves states unwritten.
  `VLLM_DFLASH_DDTREE_ENABLE_GDN_FAST_BUILD` is off by default; `Collides` marks
  the case in the model;
* with `VLLM_SM70_MTP_THINK_ONLY` in asynchronous scheduling nothing tells the
  scheduler that no drafts were made, and the worker raises at 5530-5535 unless
  the scheduler trims them by itself.

## 7. What is not modelled, and why

Floating-point arithmetic of the GEMM, attention, recurrence and norm kernels:
TLC has no use for it, and half of it is in wheels that are not in the
repository.  The KV dtype policy, the model files, the census and the
benchmarks: straight-line code that keeps no state.  The E4M3 patch: arithmetic
for code outside the repository.  Custom all-reduce and its fusion pass: they
need P2P, which the target boards lack.  In the model runner: multimodal
inputs, LoRA, pooling, pipeline parallelism, expert load balancing, KV
connectors, grammar, prompt log-probabilities, and the tracing and profiling
that the file is full of.  In the attention layers: the dump, comparison and
FlashQLA switches, which are off.

## 8. Plan

Done: `SkinnyAR` and its proofs, `SkinnyARBoot`, `ServeBoot`, `Installer`,
`E5Round`, `GdnState` with `SpecRound`, `LinearRoutes` and `GraphReplay`,
`DDTree`; the proofs of all but `DDTree`.  Left, in order of what a mistake
would cost:

1. draft trees under asynchronous scheduling: `DDTree` over the counts of
   `SpecRound`, and the compaction of the drafter's context;
2. preemption in `SpecRound` and graphs in `E5Round`: a hit that replays;
3. proofs: `E5Round` with more than one request, once a hit checks its saved
   arguments;
4. KV dtype resolution and E4M3 decoding as operators over all codes.
