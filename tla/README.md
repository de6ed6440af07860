# native_llama: a TLA+ model of the inference bridge

`native_llama` is a Flutter plugin that runs llama.cpp models on a phone. Dart
code (`src/lib/native_llama.dart`) talks over a method channel and an event
channel to a platform plugin (Kotlin on Android, Swift and Objective-C++ on
iOS), which calls a native bridge around a vendored llama.cpp. The logic that is
the plugin's own is small and delicate: one native context is kept alive between
generations, the bridge remembers which tokens its KV cache holds, and the next
generation skips the prefill of whatever it shares with them. A wrong memory is,
in the words of `native-lib.cpp:50`, "generating from a corrupted context".

This project models that logic, the plugins around it, and what keeps their
threads apart. Source paths are relative to `src/`; `NL` is
`android/src/main/cpp/native-lib.cpp`, `kt` the Kotlin plugin, `mm` and `swift`
the two files of the iOS one.

## 1. Inventory

| Component | State | Operations | Modelled in |
|---|---|---|---|
| Prefix planner `ios/shared_cpp/common/nl-kv-reuse.h` (used by both bridges) | none (pure) | `nl_common_prefix_len`, `nl_plan_prefix_reuse` | `PrefixPlan`, `PrefixScan` |
| llama.cpp memory `ios/shared_cpp/src/llama-kv-cache.cpp`, `llama-memory-recurrent.cpp`, `llama-memory-hybrid.cpp`, the checks of `llama-batch.cpp` and `llama-context.cpp` | attention cells, recurrent state and its tail cell | clear, `seq_rm`, `seq_add`, `seq_pos_max`, decode (success, refusal, failure) | `LlamaMemory` |
| JNI engine NL | statics `model`, `ctx`, `model_draft`/`ctx_draft`, `mtmd_ctx`, `stop_generation`, `cached_tokens`, `active_n_ctx`, `gpu_unusable`, `g_token_utf8_buf`; the locals of a running generation | `initLlama`, `resetContext`, `initVision`, `initDraftModel`, `getEmbedding`, `startNativeGeneration`, `sendToken`, `abortGeneration`, `disposeLlama` | `NativeEngine` (generation and its memory), `Loading` (objects, devices, window), `Utf8Stream` (`sendToken`) |
| What a reply promises `lib/native_llama.dart:81-121` | prompt and reply | ask, say, end | `Conversation` (abstract) |
| Multimodal helper `ios/shared_cpp/tools/mtmd` | none the bridge sees | tokenize, `mtmd_helper_eval_chunks` | outcomes inside `NativeEngine` |
| Dart API `lib/native_llama.dart` | `_isInitialized`, one stream per generation, futures | `initModel`, `generateResponse`, `abortGeneration`, `resetContext`, `dispose`, ... | `AndroidPlugin`, `IosBridge`; the gate and the stream in `NativeEngine` |
| Android plugin kt | executor, Looper queue, event sink, method-channel results | `onMethodCall`, `onListen`/`onCancel`, `onTokenReceived`, attach, detach | `AndroidPlugin` |
| iOS bridge mm, swift | the same statics per instance, `is_generating`, concurrent queue | the same operations, `unload` | `IosBridge` (what keeps them apart); its generation loop is NL's |
| Example application, build files, vendored numerics | | | left out |

**How they interact.** Dart calls the plugin. On Android every native call is
posted to the executor thread of the plugin instance, so exported functions run
one after another, except `abortGeneration`, which runs on the main thread and
only stores `stop_generation = true`; `startNativeGeneration` reads that flag at
the head of its loop and nowhere else. Results and tokens are posted back to
the main thread, which hands them to the event sink it finds there. On iOS
every method but the abort runs on a global concurrent queue, and `is_generating`
is all that keeps two of them apart. The string `__END_OF_STREAM__` is the only
thing that closes the Dart stream. The engine and llama.cpp share the memory of
`ctx`; `cached_tokens` is the engine's belief about it. The planner turns that
belief and a new prompt into a plan.

**What is hard.** The belief must survive everything that moves the memory:
a decode failing half way, a removal refused by a recurrent layer, a context
shift, an embedding computed in between, an image prompt, speculative drafts and
their rollback, a context reset that fails, an abort at any statement. Loading
may fail on the GPU at two places and is tried again without leaving anything
behind. Tokens cut characters apart. A cancelled reply still has runnables on
their way, an engine may be detached while a generation runs, and on iOS a
busy wait stands between a generation and the freeing of its context. No test
of the repository exercises the bridges: `test/nl_kv_reuse_test.cpp` tests the
planner alone, `test/native_llama_test.dart` is empty.

**What makes each part correct.**
* Planner: the longest common prefix, less one token when the prompt is wholly
  cached; a plan that the caller can carry out.
* Memory: the attention and the recurrent half stay in step; a refused removal
  removes nothing.
* Engine: what is sampled depends on the conversation only; the entry is right
  when it is used and complete when it is useful; the cursor is where the memory
  ends; llama.cpp is never driven into `abort()`; an abort ends the generation.
* Loading: nothing leaks or dangles, a failed GPU is not asked again, a load is
  given up only after the CPU failed, a reset keeps the window.
* `sendToken`: characters whole, as soon as they are complete, nothing lost.
* Plugins: a stream gets its own tokens and its own end (on Android the code
  keeps this only in part, section 3); every call is answered; nothing is freed in
  use; one decode at a time; waiting ends.

The list of hazards, each at its line, is in `PROJECT.json`.

## 2. Modules

```
PrefixPlan ── PrefixScan                      the planner, and its loop
     \             \── PrefixScan_proofs
      \
LlamaMemory ── NativeEngine ── MCNativeEngine     one engine; Conversation is
     \             \    └ implements Conversation  its abstract specification
EngineParts_proofs ─ NativeEngine_proofs ── Conversation_proofs

Loading     ── Loading_proofs                 objects, devices, the fallback
Utf8Stream  ── Utf8Text                       reassembly of characters, and
                 \── MCUtf8Stream, Utf8Stream_proofs    what Unicode makes of a text
AndroidPlugin ── AndroidPlugin_proofs         Dart, main thread, executors
IosBridge   ── IosBridge_proofs               Dart, main thread, a queue
```

`NativeEngine`, `Loading`, `Utf8Stream` and the two plugin modules see the same
functions from different sides. What one of them fixes, another leaves open: in
`NativeEngine` any load may fail and `Loading` says how; in the plugin modules a
generation may say anything and end at any token, and `NativeEngine` says what it
says. Their product would add no interaction, since the only state two sides
share is passed at the calls (a context is there or not; the abort flag is set or
not), and both sides have it.

**PrefixPlan** holds the planner as operators, `PlanPrefixReuse` being the
contract of `nl_plan_prefix_reuse`. **PrefixScan** is the same function as the
program runs it, one loop iteration per step, from arbitrary arguments.

**LlamaMemory** is one sequence of one context. Tensors are abstracted to what
they were computed from. An attention cell keeps its token, and `intact` counts
the leading cells whose keys and values were computed behind exactly the cells
before them; a recurrent layer keeps one state, the fold of the tokens it was
fed. `Content(m)` is the token sequence whose prefill would leave the memory `m`,
or `Blend` if there is none (after a context shift, or after a failed decode on
a recurrent model). `Arch` selects attention, recurrent or hybrid. Two
behaviours of the recurrent memory matter: `seq_rm` refuses a partial removal
that contains the tail, before the attention half is touched; and a whole-range
`seq_rm(-1, -1, -1)` empties the cells but leaves the tail index naming one.

**NativeEngine** follows NL. Variables have the names of the statics and locals.
`mem` is the memory of `ctx`; `logits` records for each output row what it was
computed from; `pc` is the place in `startNativeGeneration`:

| `pc` | code | actions |
|---|---|---|
| `idle` | between calls | `InitLlama`, `InitRefused` (RAM shield), `ResetContext`, `InitVision`, `InitDraftModel`, `DisposeLlama`, `GetEmbedding`, `StartWithoutContext`, `StartText`, `StartMedia` |
| `media` | 694-766 | `MediaTokenizeFails`, `MediaEvaluated`, `MediaEvalFails` |
| `prefill` | 800-842 | `PrefillChunk`, `PrefillFails`, `PrefillDone` |
| `head` | 864-894 | `LoopStops`, `LoopContinues`, `LoopShifts` |
| `draft` | 896-910 | `ProposeDraft`, `SamplerThrows` |
| `sample` | 912-929 | `SampleTarget`, `SampleConfirmsDraft`, `SamplerThrows`, `SampleWithoutLogits` |
| `verify`, `rollback` | 931-951 | `VerifyAccepts`, `VerifyRejects`, `VerifyExhausted`, `VerifyThrows`, `Rollback` |
| `emit` | 953-972 | `EmitLast`, `EmitAndDecode`, `EmitDecodeFails` |
| `aborted` | `GGML_ASSERT`, `ggml_abort` | none: the process is gone |

`AbortGeneration` is enabled everywhere else. An action ends where the abort flag
can next be observed or where a llama.cpp call decides the way, so every
observable interleaving of the two threads is present. `reply`, `slid` and
`shifted` are history: the tokens of the reply until its context is shifted,
whether this call has shifted, and whether a shift has happened since the memory
was last wiped.

Abstractions: a sampler may choose any token of `Vocab` (temperature, penalties
and grammar state are left out, but a sampler may throw); text and templates
are token sequences (`Prompts`); the text of an embedding fits one batch (the chunks of
NL 366-383 are one decode, which fails as a whole); an image is a stretch of tokens; every token
takes one position (no M-RoPE); the draft model appears through the tokens it
proposes, its own memory does not; the batch limit of prefill is one constant
(the code takes the smaller of the two contexts' limits when drafting).

**Conversation** is the engine that `generateResponse` describes ("The observable
behaviour of this method is identical either way", `native_llama.dart:120`): it is
asked, says tokens, each from a context that is the prompt and the reply so far,
and ends. `NativeEngine` implements it under the mapping of its operators
`PromiseState` and `SampledFrom`: `prompt` and `reply` are themselves, the abstract
`context` is the content the next output row was computed from. A step that
reads a prompt, verifies a draft or rolls it back stutters; a token that is sent
or accepted is `Say`. The promise covers replies inside the window whose media
was read to the end; the others are `beyond` it, from `Outgrow` to `End`.

**Loading** is one attempt to load or create something per step, with objects
that name their devices and their model. **Utf8Stream** works on bytes: `reply` is
cut into tokens at any places, and `sendToken`, `utf8_complete_prefix_len` and
`utf8_to_utf16` are modelled by what they compute. **Utf8Text** says, without a look at
them, which bytes and which UTF-16 units Unicode gives a sequence of scalar values.

**AndroidPlugin** composes Dart (streams, futures), the main thread (channels and
the Looper queue `posts`) and one executor thread per plugin instance (`queue`,
`running`) around an engine reduced to loaded-or-not, tokens, the sentinel and the
prefill that fails without one. A stream is created behind the test of
`_isInitialized` and listened to later, without one (`GenerateResponse`, `Listen`); a
job goes on after its sentinel (`SendSentinel`, `CleanUp`). An instance may be detached
at any moment and another be attached to the same process. Three history variables say
what Dart can know: the generations of all streams up to number `ended` will send it
nothing more, because a call that was made after them has been answered, or because
their stream was closed when the ones before were known to be over; `alone` are the
streams that were listened to when that was so of all before them.

**IosBridge** has one block per call on a
thread of its own, which stops between any two accesses to `is_generating`,
`stop_generation` and the pointers; `uses` is what a block works on without a lock.

Both plugin modules take a constant `Serialised`, and some of their properties need
it. Nowhere does the repository write down in full what a caller must not do;
`Serialised` is a reading of what it does write and of how its example uses the plugin:

* On Android (`CanCreate`, `CanCall`): one stream and one call at a time, a stream that is
  listened to as it is created (`README.md:42`, `57`, the example), and a reload after a
  failed reset (`native_llama.dart:208-209`). A stream may be cancelled at any moment and
  the next one asked for at once: nothing waits for the cancelled generation. This is
  still more than the example application does, which stops a reply with
  `abortGeneration` alone (`assistant_controller.dart:202-205`) and may listen for the next
  one while the first stream is open; what comes of it is in section 3
  (`MCAndroidPlugin_replaced`).
* On iOS (`CanCall`): "they still must serialise" (mm 332-337). A call waits for the answers
  of the earlier ones and for a generation to begin, that is to have claimed
  `is_generating` and cleared the stop flag (346-347); methods that do not look at the
  flag wait until no generation works on the context. The application is not asked to
  know this from anything it is told: it may guess, and calls after a failed
  prefill, or after a cancel before the first token, are among those explored.

Detach, cancel and abort are never disciplined. What needs no discipline is checked
for the disciplined application and proved for all (`OwnReply`, `ClosedIsComplete`,
`AnsweredOnce`, `FreeAfterUse`).

## 3. Runs

| Run | Instance | Checks |
|---|---|---|
| `prefix_scan` | all pairs of sequences of up to 4 tokens over 3 ids (80 thousand states) | `TypeOK`, `ReuseIsMaximal`, `PlanIsSound`, `LoopComputesPlan` |
| `attention` | attention, embeddings, resets, failing decodes, window 12, `FairSpec` (106 thousand) | `TypeOK`, `CacheExactUntilShift`, `SampledFromConversation`, `ReplyIsCached`, `CursorFollowsMemory`, `EogNeverDecoded`, `NeverAborts`, `AbortEndsGeneration`, `ImplementsConversation` |
| `hybrid` | hybrid, resets, failing decodes, window 12 (124 thousand) | `CacheExactUntilShift`, `SampledFromConversation`, `CursorFollowsMemory` |
| `drafts_media` | attention, drafts of up to 2 tokens, media prompts, a stop string, every failure, window 16 (1.6 million) | `CacheExactUntilShift`, `CursorFollowsMemory`, `AbortedCallCountsDown`, `ImplementsConversation` |
| `android` | one instance, 2 streams, 3 calls, replies of up to 2 tokens, `FairSpec` (297 thousand) | `OwnReply`, `ClosedIsComplete`, `AnsweredOnce`, `OpenIsServed`, `FreeAfterUse`, `EveryStreamEnds`, `EveryCallAnswered` |
| `ios` | 5 calls of all 7 methods, prefill failures, `FairSpec` (190 thousand) | `OneDecodeAtATime`, `UsesAreLive`, `StopIsNotLost`, `UnloadReturns` |
| `utf8` | texts of up to 3 characters of 1 to 4 bytes, range boundaries, 5 malformed replies, every cut into pieces of up to 5 bytes (3 thousand) | `WholeCharacters`, `CharactersLeaveWhole`, `HeldBackIsPartial`, `NothingLost` |
| `loading` | 7 objects, a default window and one that is asked for (129 thousand) | `LoadsStayOnCpu`, `PointersAreObjects`, `ResetKeepsWindow`, `LoadFailsOnlyOnCpu` |

What they show. In the engine's instances no order of generations, aborts, failures,
resets, embeddings, image prompts and drafting makes a reply that fits the
window depend on anything but its conversation; the entry is right
whenever it is used and complete, so the next turn is a pure append; and cursor
and memory agree after shifts, verification and rollback. On Android a stream that is
listened to when Dart can know the earlier generations over (nothing was cancelled
since the last call that was answered, say) receives exactly its own tokens in order,
although the plugin posts to whatever sink is there, and closes on its own sentinel
only. A stream that is listened to after a cancel has no such promise: it is given the old
reply's last tokens (run `relisten`) and closed by its sentinel
(`MCAndroidPlugin_earlyclose`). With or without a cancel, what a detach frees is
freed behind the running job; an open stream always has something that will close it
(but for a failed prefill, run `sentinel`); and every stream and call ends. On iOS a flag that
is tested and set in separate steps suffices for an application that serialises and lets
a generation begin.

**Bounds and why they are enough.** `b`, `x`, `y`, `e` are tokens; `b` is BOS and
never sampled, `e` ends a generation. The engine is bounded by `NCtx` (12 or 16
cells), `NBatch` (2), `NDraft` (1 or 2) and the prompt sets; nothing else needs one,
since the window bounds replies: when it is full the context is shifted, and
lengths return to where they were. The prompts of `BosPrompts` extend, shorten and
contradict each other, one is a follow-up to a possible reply, one does not fit
the window, and four take several chunks of 2; a window of 12 leaves room for
replies that run into a shift and past it; two draft tokens give every
combination of first match, accepted tail, rejection and exhaustion, and a window
of 16 keeps `NCtx >= 4 * (NDraft + 2)`. Two prompts suffice in `drafts_media`, where
entries are forbidden and only the alternation with text matters. In the plugins,
two streams are the least that can take each other's tokens, three calls allow
load, something, and a dispose or reload around them; on iOS five calls allow a
load, a draft model or projector, a generation, a second one beside it and something
that frees. Seven objects are
a model and its context, loaded twice, with a projector and a draft model and its
context in between. 4 tokens over 3 ids give every relative length and every
place of a mismatch. The theorems of section 4 remove most of these bounds.

**Deadlock** is checked except where the system really may stop: `prefix_scan`
ends; in `drafts_media` and `embedding` the process may be aborted; the plugins'
runs (`android`, `ios`, `detach`, `relisten`) and further instances come to rest when
the application has made its calls.

**Fairness.** `NativeEngine!FairSpec`: weak fairness of `Generate`, the executor thread
inside `startNativeGeneration`, which takes no lock and waits for nothing. No
fairness is assumed of calls, of aborts or of a sampler's choice, so
`AbortEndsGeneration` says that once the flag is stored, the loop ends whatever the
model generates. `AndroidPlugin!FairSpec`: the Looper dispatches what was posted, and
each executor thread keeps running (it is never shut down, not even by a detach).
That models stop by themselves is the bound `MaxTokens` there; without it the
stream of a reply without end would stay open. `IosBridge!FairSpec`: the global
queue runs every block it was given, but a reply need not end before
`stop_generation` is set, so that `UnloadReturns` rests on the flag, not on luck.

### Where the code and its own comments disagree

Each of these runs checks one property taken from a comment of the repository, and
TLC finds it violated.

| Run | Property | The comment | What happens |
|---|---|---|---|
| `sentinel` | `StreamClosedWhenIdle` | "it must be sent or the caller waits forever" (NL 757-758) | a failed prefill (815-821) returns without the sentinel; mm 627-633 does the same |
| `embedding` | `NeverAborts` | "tripping GGML_ASSERT(cell.has_seq_id(seq_id)) in find_slot" (NL 552-554) | `getEmbedding` (360, 403) wipes a hybrid memory with the very `seq_rm(-1,-1,-1)` the comment warns of |
| `detach` | `FreeAfterUse` | "free-after-use, never during" (kt 239-242) | the executor belongs to the instance (kt 23), the model to the process: an instance attached later frees or replaces it while a job of the detached one runs on it |
| `relisten` | `EveryReplyIsOwn` | "Generates response and streams tokens back" (`native_llama.dart:81`) | `onTokenReceived` posts a runnable that sends to the sink there is when it runs (kt 256-262), and a cancel waits for nothing: the next stream is given tokens of the cancelled generation as its own |

Further instances, whose `.cfg` files are kept beside the project and violate their
property in the same way:

| Configuration | Property | What happens |
|---|---|---|
| `MCNativeEngine_media` | `NeverAborts` | the result of `mtmd_helper_eval_chunks` (731) is ignored; sampling without an output row aborts the process, of which 743-744 says "that is an abort(), not a C++ exception, so it kills the app" |
| `MCAndroidPlugin_reattach` | `OpenIsServed` | the dispose a detach left queued (kt 244), after which "nothing reads the engine" (kt 242), runs after the next instance has loaded its model; its generation finds no context and returns (509) without the sentinel that "must be sent or the caller waits forever" (NL 757-758) |
| `MCNativeEngine_shift` | `RecurrentStateCurrent` | a hybrid memory does not refuse the window of a context shift (878), as 872-877 says it would, since the window ends before the tail; the recurrent state keeps describing what was removed |
| `MCNativeEngine_nobos` | `SampledFromConversation` | after a shift `cached_tokens` restarts at the next token (970), although 44-53 call it exact; a prompt without BOS that begins with those tokens is answered from an older conversation |
| `MCNativeEngine_drafteog` | `EogNeverDecoded` | a drafted end token that the target confirms first is decoded and the reply goes on (916-929), although 966-969 say it never is; the iOS loop checks for it |
| `MCNativeEngine_draftshift` | `CursorFollowsMemory` | a hybrid target refuses the rollback of rejected drafts (947) and the refusal is ignored, against `nl-kv-reuse.h:29-30` |
| `MCNativeEngine_nocontext` | `StreamClosedWhenIdle` | after a failed reset with `_isInitialized` still set a generation returns at once (509), without the sentinel of 757-758; an application that reloads does not meet it |
| `MCLoading_reenter` | `StaysOnCpu` | "once this is set we stay on the CPU for the whole process" (NL 71-74): when `initDraftModel` latches `gpu_unusable` after the main model was loaded on the GPU, `resetContext` (232) builds a second context there |
| `MCAndroidPlugin_earlyclose` | `EveryCloseIsOwn` | the sentinel of a cancelled generation closes the stream that was listened to next, whose own generation is still queued |
| `MCAndroidPlugin_replaced` | `OpenIsServed` | not serialised: a second stream is listened to while the first is open and takes its sink; the first one's sentinel closes the second, and nothing closes the first ("the caller waits forever", NL 757-758) |
| `MCIosBridge_resetrace` | `UsesAreLive` | not serialised: `resetContext` tests `is_generating` and frees the context (mm 156-161) beside a generation that is about to claim the flag, or beside a load, against "never free a context mid-decode" (156) |
| `MCIosBridge_loststop` | `StopIsNotLost` | not serialised: the request of `unload` to stop (826) is stored before the generation clears the flag (347) and is lost; `unload` waits for the whole reply |
| `MCIosBridge_overlap` | `OneDecodeAtATime` | two callers who do not serialise pass the test of `is_generating` (mm 335) before either sets it (346): the "second call" that 330-334 want refused is not |
| `MCIosBridge_refused` | `ServedInTurn` | the sentinel leaves (816) before the guard falls (319): a caller who starts the next generation on the end of the stream may be refused |

Noticed while reading, and not checked:

* `resetContext` rebuilds the parameters "exactly as initLlama did" (NL 226, mm 163) but
  always with 4 threads.
* `initDraftModel` has "Same GPU -> CPU fallback as initLlama" (NL 297-298), but a
  context that cannot be created is neither retried on the CPU nor latched;
  `initVision` has no fallback. On iOS such a draft model stays allocated (mm 259-260).
* A missing or damaged file with `n_gpu_layers` other than 0 latches `gpu_unusable` as
  a driver failure would (NL 152-154).
* `initLlama` frees the text model and leaves `mtmd_ctx`, which was made for it (NL 124-125).
* When the first drafted token is not confirmed, the draft context is not rolled
  back (NL 916-949) and refuses the tokens that follow (964); at a shift its window is
  moved with the already reduced `n_cur` (892). Both can only cost acceptances.
* After a drafted stop string one more confirmed token is sent (NL 917, 931-937).
* A token whose text is longer than 128 bytes is dropped (NL 484-486); on iOS text is
  not reassembled, and half a character becomes a nil string that Swift drops (mm 854-863).
* The RAM shield refuses a file before anything is freed, but Dart then counts the
  model that is still loaded as gone (NL 114-121); after a failed `resetContext` it
  counts the missing context as there.
* The executor is not shut down on detach.
* The example application stops a reply and listens to the next one at will. Before a
  text message it happens to await an embedding (`semantic_cache_service.dart:11`), whose
  answer comes behind the old generation's last runnable; before a message with media it
  awaits nothing of the plugin.
* On iOS `getEmbedding`, `initVision` and `initDraftModel` do not look at
  `is_generating`; the idle timer is only enabled again by the sentinel (swift 97, 115);
  a stop stored before the generation clears the flag is lost (mm 347), so `unload` may
  wait for a whole reply. On Android an abort while the generation is queued is lost
  the same way (NL 511).
* `native_llama.dart:113-114` promises reuse to grammared calls while a draft model is
  loaded, but `may_reuse_prefix` (NL 549) is fixed before the grammar turns drafting off (671).

## 4. Proofs

Everything below is checked by TLAPS, for every value of the constants.

**Planner.** `PrefixScan_proofs`: `ScanTypeOK`, `ScanSound` (`PlanIsSound`), `ScanMaximal`
(`ReuseIsMaximal`), `ScanComputesPlan` (`LoopComputesPlan`), from the invariant
that during the scan the first `i` tokens agree and `i` is within both
sequences. `EngineParts_proofs` shows that `CommonPrefixLen`, a `CHOOSE`, exists
(a least disagreement) and what every plan guarantees to its caller.

**Memory.** `EngineParts_proofs`: each operation keeps `MemOK` (no attention cells
without attention, `intact` within the cells, no content without a position,
...), feeding extends the content, and a trim that is not refused leaves exactly
the prefix. A second set of lemmas says where a memory ends (`EndsAt`) when nothing is
known of what it holds: what clearing, feeding, trimming and dropping a window
do to its last position.

**Entry.** `NativeEngine_proofs`: `EngineTypeOK` and `EngineCacheExact`
(`CacheExactUntilShift`), from `EngineInvariant`. The property is not inductive:
between the statements that move the memory and those that update the entry, the
two differ. `IInv` adds what the code relies on there. During the prefill the memory
is the evaluated part of the prompt (`ExactInv`); the prompt is not empty and `n_eval`
stays inside it (`PrefillInv`); a call that may not reuse has an empty entry,
drafting calls are such calls, and between calls nothing may be reused
(`NoReuseInv`); what is emitted is a token (`EmitInv`). The interesting step is
`StartText`: the plan over an entry that is exact leaves, in each of its branches
(append, trim, refused trim, clear), the first `n_reuse` tokens of the prompt in
memory (`PreparedOK`).

**Reply.** `Conversation_proofs` follows the memory through the reply loop.

| Theorem | Property | Assumes |
|---|---|---|
| `EngineMirrorsReply` | `ReplyIsCached` | nothing |
| `EngineSamplesConversation` | `SampledFromConversation` | `PromptsOpenWithBos` |
| `EngineImplementsConversation` | `ImplementsConversation` | `PromptsOpenWithBos`, `EmbeddingsAreSafe` |
| `EngineCursorFollows` | `CursorFollowsMemory` | `RollbackWorks` |
| `EngineNeverDecodesEog` | `EogNeverDecoded` | `NoDrafts` |
| `EngineNeverAborts` | `NeverAborts` | `EmbeddingsAreSafe`, `NoMedia` |

The assumptions are where the instances above fail: without `PromptsOpenWithBos` (no
sampled token opens a prompt) `nobos` answers from an old conversation; without
`EmbeddingsAreSafe` (embeddings, or recurrent layers, but not both) a text may be
decoded into a memory that an embedding left behind, and `embedding` aborts;
without `RollbackWorks` (attention only, or no drafts) `draftshift` loses the cursor;
without `NoDrafts` `drafteog` decodes an end token; without `NoMedia` `media`
aborts. The invariant `CInv` has one
conjunct per stage. `QuietInv`: nothing is said before the loop. `ShiftInv`: a shift
of an earlier call is over when a reply begins, and an entry it left behind can
only start with a sampled token. `PromptInv`: what the prefill leaves is the prompt,
in memory and in its row. `RowInv`: at the head, memory and last row are the
conversation and the cursor is its length. `VerifyInv`: while a draft is verified
the memory runs ahead; behind `n_cur` it holds the draft, row `k` has seen `k`
drafted tokens, and the accepted part is what has been said. `TailInv`: after a
rollback either the memory is the conversation again, or it was refused and then
accepts no further token. The refinement maps each action to
`Ask`, `Say`, `End`, `Outgrow` or a stutter, with `CInv` as the invariant of the mapping.

`CInv` knows nothing of a memory whose window has slid. The cursor and the end tokens
need less, and get it without an assumption on prompts from `EndInv`, which speaks of
where the memory ends and survives a shift: the entry never claims more tokens than
the memory holds (`EntryInv`); the prefill continues where the memory ends, or its next
chunk is refused (`PrefillEnds`); from the first draw of a reply to its last token the
cursor is the last position, ahead of which only an unverified draft lies
(`CursorInv`). `NothingStale` (no tail is left behind by a cleared memory) and `RowsInv`
(a row is drawn from only if the last decode wrote it) are what `EngineNeverAborts`
adds, `MirrorInv` what `EngineMirrorsReply` adds.

**Abort.** `EngineCountsDownWhenAborted`: from the moment the flag is stored each step of
the call lowers `StepsLeft`, a number that is bounded by the prompt and by `NDraft`.
With it `AbortEndsGeneration` needs only that the thread keeps running and that a
call that is not over has a next step, which TLC checks.

**Loading.** `LoadsNeverReturnToGpu`, `NothingLeaks`, `ResetKeepsTheWindow` and
`GivesUpOnlyOnCpu`, for any number of objects and any windows, from: what a running
call has freed is null and a latched call is on the CPU (`CallInv`); ids are unique
(`IdInv`); the heap is what the pointers name, inside calls too (`HeapInv`); contexts
belong to their models (`OwnerInv`); the history `window` is `active_n_ctx` (`WindowInv`).

**Characters.** `BufferIsPartial` and `BufferLosesNothing`, for every byte sequence,
malformed or not, every cut and every buffer size. `CharactersAreNotCut`
(`CharactersLeaveWhole`): of a text, what has left the buffer ends with a character, and
no longer part of what came in does. A text is described without recursion (`WellFormed`:
each byte that starts a character has exactly the continuation bytes it announces), so
that a cut is a `Boundary` if the next byte continues nothing: a text cut at a
boundary is a text, a text inside a text ends at one, and `CompletePrefixLen` of bytes
that begin at one ends at the last one.

`CharactersArrive` (`WholeCharacters`) is the whole promise: of every sequence of Unicode
scalar values, cut anywhere, Java has the UTF-16 units of exactly the characters whose
last byte has come. The inductive invariant is `TextInv`: whatever text `t` the bytes so
far begin, what has left ends at the last boundary of `t` within them, and `sent` is what
`utf8_to_utf16` would have made of it in one go. It speaks of all texts that may still
come, since a token does not know how its character ends. Three groups of
lemmas carry it. `utf8_to_utf16` can be applied piece by piece if the first piece is a
text (`Utf16Concat`); the decoder is a recursive function that comes without its equation,
so first a function that satisfies it is built from the last byte backwards
(`ReadFromExists`), and facts about it are sets of positions closed under going
backwards (`Downwards`). The bytes of each scalar value are one character that is read
as that value (`Encoded`, over the four ranges), and leave as its one or two units
(`EncodedRead`). A text is put together one character at a time (`TextRead`), and no
character begins inside another (`BetweenCharacters`), so that the boundaries are
the ends of its characters and the last one is that of `whole`.

**iOS.** `UsesStayLive` and `NoDecodeOverlaps` for any number of calls of a serialising
application, from `BridgeInvariant`: the flag is up exactly while a generation holds it
(`FlagInv`), at most one generation wants it (`OneGeneration`), at most one other call is
awaited, beside no generation that has yet to begin, and beside none that works on the
context unless the call looks at the flag (`OneAwaited`), what frees does so with the flag
down (`FreeingInv`), and objects are used only at the points that check them
(`UsesInv`). The discipline is needed in one step only, the call itself (`InvokeInv`);
the blocks keep what it establishes. `StopStays`, `StopIsNotLost` for the same calls,
rests on it: only a generation that begins takes a request to stop back (mm 347), and by
`OneAwaited` none is about to while `unload` waits, so the busy wait is for a generation
that is told and stays told. That it then ends is `UnloadReturns`, which TLC checks.

**Android.** Most of it holds for every application, overlapping calls and streams and
several instances included: `PluginInvariant` has no hypothesis.
`StreamsGetTheirOwnReply` and `ClosedStreamsAreComplete` (`OwnReply`, `ClosedIsComplete`) are about
the streams of `alone`. The plugin posts to whatever sink it finds, so a token reaches the
right stream only because of an order that several places build together. A generation is
in one place, on its way from the queue to the thread to the Looper queue, and an instance
that was detached carries only what nobody listens to (`CarrierInv`, `SinkInv`, `UnusedInv`,
`FreshInv`). Places have an order, from the queue's end to the Looper's head; in it nothing of
a generation follows its sentinel, and nothing of a generation that was asked for before a
call follows that call's answer (`OrderInv`). So the answer is news that those generations
are over, and what Dart believes over is (`KnownInv`). A stream of `alone` therefore shares
its sink with nobody, and its tokens that were not received are all in the Looper queue,
once each and in order (`TokenInv`). What is not in `alone` has no such theorem, and run
`relisten` shows why.

`CallsAreAnsweredOnce`: a `Result` that is used twice
throws, one that is lost leaves a future hanging; a waiting call is in exactly one
of the executor's queue, its thread and the Looper queue of the attached instance,
and an answered one, or one of an isolate that is gone, in none (`CallInv`).
`OneInstanceFreesAfterUse` is for a process that attaches one instance at most: with two, run
`detach` frees under a running job.

`OpenStreamsAreServed` is the safety half of "every stream ends": in a serialised
application with one instance, an open stream has its generation with an executor that
will find a context, or its sentinel posted; only a failed prefill leaves it with
neither. The stream before it may have been cancelled and its generation run on: the
old sentinel may then close the stream early, but never leaves it without an end.
`startGeneration` is answered before it runs and returns silently when there is
no context, so this rests on Dart knowing the engine (`ServedInv`): what `_isInitialized`
and the reload that is due say is so unless a call that rebuilds the engine is on the
thread or its answer under way (`BeliefIsTrue`), good news is still true while it is under
way (`NewsIsTrue`), jobs are the calls they were made for (`JobsAreNamed`), and a generation
that waits in the queue will find its context (`QueuedWillStart`), since no call that takes
it away stands before it. That in turn rests on what the discipline gives (`SerialInv`):
only the last stream has the sink (`OpenHasSink`), a waiting call was made behind all
generations (`CallsLast`), and a created stream waits alone (`CreatedAlone`). Without the
discipline, or with two instances, it is false: `MCAndroidPlugin_replaced`,
`MCAndroidPlugin_reattach`.

Module assumptions: `MemoryAssumption`, `EngineAssumption` (sampled tokens are tokens,
prompts are not empty, batch and draft sizes are positive, and the window is at
least four times the draft plus two, which llama.cpp's padding of `n_ctx` to 256
ensures), `ScanAssumption`, `LoadingAssumption`, `Utf8Assumption`, `TextsAssumption`
(texts are sequences of scalar values), `BridgeAssumption`,
`PluginAssumption`.

**Only model-checked.** Liveness under fairness, out of the prover's reach:
`AbortEndsGeneration`, `EveryStreamEnds`, `EveryCallAnswered`, `UnloadReturns`; that nothing is lost
on the way, on which the two in the middle rest, is proved (`OpenStreamsAreServed`,
`CallsAreAnsweredOnce`), and so is what the end of the busy wait rests on (`StopStays`).
Replies of a model without
BOS, the cursor of a drafting hybrid model and the refinement for hybrid models with
embeddings hold in no instance and are not claimed.

## 5. Not modelled

* The draft context's own memory. What a draft proposes is arbitrary in
  `NativeEngine`, so its memory can change how many tokens are accepted, never which
  are sent.
* Sampler state (penalties, grammar stacks); templates and formatting.
* M-RoPE positions, on which a context shift asserts (`llama-kv-cache.cpp:516`).
* That a projector outlives its text model is visible in `Loading` (`Object.of`) but no
  property is about it: the code promises nothing there.
* What a GPU driver does after a failure; memory pressure; file contents.
* The generation loop of mm: it repeats NL's, with the differences named in section 3.
* The example application and the build files.
* Vendored llama.cpp, ggml and mtmd outside the memory operations above. They are nearly
  all of the repository's 390 thousand lines of code and are numerical kernels,
  back ends, model loaders, tokenizer tables and tools; the plugin's own code, the two bridges, two
  plugins, the Dart class and the planner, is about 2,700 lines, and modelled nearly
  throughout. The share of lines that `map` names is small for this reason.

## 6. Plan

Done: the planner; memory; the engine, its entry and its replies; the refinement of
`Conversation`; both plugins; loading; characters. What could follow:

1. The draft context: both memories through propose, verify, rollback and shift, and
   how many drafted tokens can be accepted after a rejection.
2. M-RoPE positions in `LlamaMemory`, with the assertion of `seq_add`.
3. The iOS loop as a second instance of `NativeEngine`, with its check for end tokens.
