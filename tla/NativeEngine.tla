---------------------------- MODULE NativeEngine ----------------------------
(***************************************************************************)
(* The JNI layer src/android/src/main/cpp/native-lib.cpp: the process-wide *)
(* statics and the exported functions, all of which the Android plugin     *)
(* runs on one executor thread, except abortGeneration, which the main     *)
(* thread may call at any moment.                                          *)
(*                                                                         *)
(* startNativeGeneration is followed statement group by statement group:   *)
(* an action ends where another thread's store to stop_generation can next *)
(* be seen, or where the outcome of a llama.cpp call decides the way.      *)
(* Variables carry the names of the statics and locals they model.  Three  *)
(* are not in the code: `reply`, `slid` and `shifted` record what happened.*)
(* Sampling may choose any token of Vocab; the draft context is present    *)
(* only through the tokens it proposes.                                    *)
(***************************************************************************)
EXTENDS LlamaMemory, PrefixPlan

CONSTANTS Vocab,          \* tokens a sampler can return
          Eog,            \* llama_vocab_is_eog
          StopStrings,    \* rendered as </s>, <|im_end|> or <|end|>
          NoToken,        \* t_extra before anything is sampled
          Prompts,        \* token sequences a formatted chat can have
          NBatch,         \* llama_n_batch (512 in the code)
          NDraft,         \* n_draft (5 in the code)
          Features,       \* which optional calls the application makes
          DecodeCanFail   \* llama_decode may fail in computation

ASSUME EngineAssumption ==
    /\ Vocab \subseteq Token /\ Eog \subseteq Vocab /\ StopStrings \subseteq Vocab
    /\ NoToken \notin Token
    /\ Prompts \subseteq Seq(Token) \ {<<>>}
    /\ NBatch \in Nat \ {0} /\ NDraft \in Nat \ {0}
    /\ NCtx >= 4 * (NDraft + 2)      \* llama.cpp pads n_ctx to 256
    /\ Features \subseteq {"draft", "vision", "embedding", "reset"}
    /\ DecodeCanFail \in BOOLEAN

VARIABLES
    model, ctx, ctx_draft, mtmd_ctx,   \* which pointers are not null
    is_initialized,     \* the Dart flag _isInitialized, which gates calls
    mem,                \* memory of ctx (Cleared while ctx is null)
    logits,             \* per output row of ctx: the content it was computed from
    cached_tokens, stop_generation,
    pc, may_reuse_prefix, use_draft,
    prompt_tokens, n_eval, n_cur, n_prompt_tokens_total,
    draft_tokens, n_accepted, t_extra, is_eog_reached, sample_failed,
    stream,             \* the Dart stream: "none", "open" or "closed"
    reply,              \* tokens of this reply, until its context is shifted
    slid,               \* this generation has shifted its context
    shifted             \* a shift has happened since memory was last wiped

statics   == <<model, ctx, ctx_draft, mtmd_ctx, is_initialized>>
memVars   == <<mem, logits, cached_tokens>>
callConst == <<may_reuse_prefix, use_draft, prompt_tokens, n_eval,
               n_prompt_tokens_total>>
roundVars == <<draft_tokens, n_accepted, t_extra, is_eog_reached, sample_failed>>
callVars  == <<callConst, n_cur, roundVars>>
history   == <<reply, slid, shifted>>
vars == <<statics, memVars, stop_generation, pc, callVars, stream, history>>

LoopPoints == {"head", "draft", "sample", "verify", "rollback", "emit"}

TypeOK ==
    /\ model \in BOOLEAN /\ ctx \in BOOLEAN /\ ctx_draft \in BOOLEAN
    /\ mtmd_ctx \in BOOLEAN /\ is_initialized \in BOOLEAN
    /\ mem \in Memory
    /\ logits \in Seq(Seq(Token) \cup {Blend})
    /\ cached_tokens \in Seq(Token)
    /\ pc \in {"idle", "media", "prefill", "aborted"} \cup LoopPoints
    /\ stop_generation \in BOOLEAN /\ may_reuse_prefix \in BOOLEAN
    /\ use_draft \in BOOLEAN /\ is_eog_reached \in BOOLEAN
    /\ sample_failed \in BOOLEAN /\ slid \in BOOLEAN /\ shifted \in BOOLEAN
    /\ prompt_tokens \in Seq(Token) /\ reply \in Seq(Token)
    /\ draft_tokens \in Seq(Vocab)
    /\ n_eval \in Nat /\ n_cur \in Nat /\ n_accepted \in Nat
    /\ n_prompt_tokens_total \in Nat
    /\ t_extra \in Vocab \cup {NoToken}
    /\ stream \in {"none", "open", "closed"}

-----------------------------------------------------------------------------
\* Locals of startNativeGeneration between calls.
NoCall ==
    /\ may_reuse_prefix' = FALSE /\ use_draft' = FALSE
    /\ prompt_tokens' = <<>> /\ n_eval' = 0 /\ n_cur' = 0
    /\ n_prompt_tokens_total' = 0
    /\ draft_tokens' = <<>> /\ n_accepted' = 0 /\ t_extra' = NoToken
    /\ is_eog_reached' = FALSE /\ sample_failed' = FALSE
    /\ reply' = <<>> /\ slid' = FALSE

Init ==
    /\ model = FALSE /\ ctx = FALSE /\ ctx_draft = FALSE /\ mtmd_ctx = FALSE
    /\ is_initialized = FALSE
    /\ mem = Cleared /\ logits = <<>> /\ cached_tokens = <<>>
    /\ stop_generation = FALSE /\ pc = "idle" /\ stream = "none"
    /\ may_reuse_prefix = FALSE /\ use_draft = FALSE
    /\ prompt_tokens = <<>> /\ n_eval = 0 /\ n_cur = 0
    /\ n_prompt_tokens_total = 0
    /\ draft_tokens = <<>> /\ n_accepted = 0 /\ t_extra = NoToken
    /\ is_eog_reached = FALSE /\ sample_failed = FALSE
    /\ reply = <<>> /\ slid = FALSE /\ shifted = FALSE

\* The end of the function: the sentinel closes the Dart stream.
SendSentinel == pc' = "idle" /\ stream' = "closed" /\ NoCall

\* A return statement that sends nothing.
ReturnSilently == pc' = "idle" /\ NoCall /\ UNCHANGED stream

\* What llama_decode may answer for the batch ts at position pos, and the
\* memory it leaves.  A stale recurrent tail fails the assertion in find_slot;
\* no decode but the first of a prefill can meet one.
DecodeAnswers(pos, ts) ==
    IF ~Accepts(mem, pos) THEN {[rc |-> "error", mem |-> mem]}
    ELSE IF mem.tail = "stale" THEN {[rc |-> "abort", mem |-> mem]}
    ELSE IF ~HasRoom(mem, Len(ts)) THEN {[rc |-> "error", mem |-> mem]}
    ELSE {[rc |-> "ok", mem |-> Fed(mem, ts)]} \cup
         (IF DecodeCanFail
          THEN {[rc |-> "error", mem |-> m] : m \in {mem, Failed(mem, ts)}}
          ELSE {})

\* The rows left by a decode that failed belong to no context.
UnknownRows == <<Blend>>

\* GGML_ASSERT or ggml_abort: the process is gone.
Abort == pc' = "aborted" /\ UNCHANGED <<statics, memVars, stop_generation,
                                         callVars, stream, history>>

-----------------------------------------------------------------------------
\* Loading, resetting and freeing.

\* initLlama past the RAM check.
InitLlama ==
    /\ pc = "idle"
    /\ \E loaded \in BOOLEAN :
          model' = loaded /\ ctx' = loaded /\ is_initialized' = loaded
    /\ cached_tokens' = <<>>
    /\ mem' = Cleared /\ logits' = <<>> /\ shifted' = FALSE
    /\ UNCHANGED <<ctx_draft, mtmd_ctx, stop_generation, pc, callVars,
                    stream, reply, slid>>

\* The RAM check refuses the file: the loaded model stays, but Dart no longer
\* counts it as initialised.
InitRefused ==
    /\ pc = "idle"
    /\ is_initialized' = FALSE
    /\ UNCHANGED <<model, ctx, ctx_draft, mtmd_ctx, memVars, stop_generation,
                    pc, callVars, stream, history>>

\* A failed rebuild leaves ctx null and, unlike every other path, the cache
\* description in place; a rebuilt context is described by `cached`.
ResetContextTo(cached) ==
    /\ pc = "idle" /\ "reset" \in Features /\ is_initialized
    /\ model
    /\ \E rebuilt \in BOOLEAN :
          /\ ctx' = rebuilt
          /\ cached_tokens' = IF rebuilt THEN cached ELSE cached_tokens
    /\ mem' = Cleared /\ logits' = <<>> /\ shifted' = FALSE
    /\ UNCHANGED <<model, ctx_draft, mtmd_ctx, is_initialized,
                    stop_generation, pc, callVars, stream, reply, slid>>

ResetKeepsCache == ResetContextTo(cached_tokens)     \* mutant
ResetContext    == ResetContextTo(<<>>)

InitVision ==
    /\ pc = "idle" /\ "vision" \in Features
    /\ \E loaded \in BOOLEAN : mtmd_ctx' = (model /\ loaded)
    /\ UNCHANGED <<model, ctx, ctx_draft, is_initialized, memVars,
                    stop_generation, pc, callVars, stream, history>>

InitDraftModel ==
    /\ pc = "idle" /\ "draft" \in Features
    /\ \E loaded \in BOOLEAN : ctx_draft' = loaded
    /\ UNCHANGED <<model, ctx, mtmd_ctx, is_initialized, memVars,
                    stop_generation, pc, callVars, stream, history>>

DisposeLlama ==
    /\ pc = "idle"
    /\ model' = FALSE /\ ctx' = FALSE /\ ctx_draft' = FALSE /\ mtmd_ctx' = FALSE
    /\ is_initialized' = FALSE
    /\ cached_tokens' = <<>>
    /\ mem' = Cleared /\ logits' = <<>> /\ shifted' = FALSE
    /\ UNCHANGED <<stop_generation, pc, callVars, stream, reply, slid>>

\* getEmbedding: forget the cache, wipe the memory with a whole-range seq_rm,
\* decode the text, wipe again (an early return skips the second wipe).  The
\* text fits one batch.
EmbeddingLeaving(cached) ==
    /\ pc = "idle" /\ "embedding" \in Features /\ is_initialized
    /\ ctx /\ model
    /\ \E text \in {p \in Prompts : Len(p) <= NBatch} :
        LET wiped == SeqRmEverything(mem)
        IN  IF wiped.tail = "stale"
            THEN Abort
            ELSE /\ \/ /\ mem' \in {Fed(wiped, text), SeqRmEverything(Fed(wiped, text))}
                       /\ logits' = [k \in 1..Len(text) |-> SubSeq(text, 1, k)]
                    \/ /\ DecodeCanFail
                       /\ mem' \in {wiped, Failed(wiped, text)}
                       /\ logits' = UnknownRows
                 /\ cached_tokens' = cached
                 /\ shifted' = FALSE
                 /\ UNCHANGED <<statics, stop_generation, pc, callVars,
                                 stream, reply, slid>>

EmbeddingKeepsCache == EmbeddingLeaving(cached_tokens)     \* mutant
GetEmbedding        == EmbeddingLeaving(<<>>)

-----------------------------------------------------------------------------
\* startNativeGeneration, up to the first decode.

\* The memory the prefill starts from and the tokens it may skip: none after
\* a wipe, and only then.
PreparedFor(m, cached, p, may_reuse) ==
    LET plan == PlanPrefixReuse(cached, p, may_reuse)
        fromScratch == [mem |-> Cleared, n_reuse |-> 0]
    IN  CASE plan.needs_trim  -> IF CanTrim(m, plan.n_reuse)
                                 THEN [mem     |-> Trimmed(m, plan.n_reuse),
                                       n_reuse |-> plan.n_reuse]
                                 ELSE fromScratch
          [] plan.needs_clear -> fromScratch
          [] OTHER            -> [mem |-> m, n_reuse |-> plan.n_reuse]

\* The caller without a context is turned away before anything is sent.
StartWithoutContext ==
    /\ pc = "idle" /\ is_initialized
    /\ ~(ctx /\ model)
    /\ stream' = "open"
    /\ UNCHANGED <<statics, memVars, stop_generation, pc, callVars, history>>

\* may_reuse_prefix is settled before a parsed grammar turns drafting off.
StartText(p, media, grammar) ==
    LET drafting == ctx_draft /\ ~media
        m0 == IF drafting THEN Cleared ELSE mem
        c0 == IF drafting THEN <<>> ELSE cached_tokens
        prepared == PreparedFor(m0, c0, p, ~drafting)
    IN  /\ pc = "idle" /\ is_initialized
        /\ ctx /\ model
        /\ ~(mtmd_ctx /\ media)
        /\ stop_generation' = FALSE
        /\ may_reuse_prefix' = ~drafting
        /\ use_draft' = (drafting /\ ~grammar)
        /\ cached_tokens' = c0
        /\ prompt_tokens' = p /\ n_prompt_tokens_total' = Len(p)
        /\ mem' = prepared.mem /\ n_eval' = prepared.n_reuse
        /\ shifted' = (shifted /\ prepared.n_reuse # 0)
        /\ pc' = "prefill" /\ stream' = "open"
        /\ UNCHANGED <<statics, logits, n_cur, roundVars, reply, slid>>

\* A prompt with media for a loaded projector always starts clean.
StartMediaLeaving(p, cached) ==
    /\ pc = "idle" /\ "vision" \in Features /\ is_initialized
    /\ ctx /\ model /\ mtmd_ctx
    /\ stop_generation' = FALSE
    /\ mem' = Cleared /\ cached_tokens' = cached /\ shifted' = FALSE
    /\ prompt_tokens' = p
    /\ pc' = "media" /\ stream' = "open"
    /\ UNCHANGED <<statics, logits, may_reuse_prefix, use_draft, n_eval,
                    n_prompt_tokens_total, n_cur, roundVars, reply, slid>>

StartMediaKeepsCache(p) == StartMediaLeaving(p, cached_tokens)     \* mutant
StartMedia(p)           == StartMediaLeaving(p, <<>>)

\* mtmd_tokenize fails: unreadable image, or markers and bitmaps differ.
MediaTokenizeFails ==
    /\ pc = "media"
    /\ SendSentinel
    /\ UNCHANGED <<statics, memVars, stop_generation, shifted>>

MediaEvaluated ==
    /\ pc = "media"
    /\ HasRoom(mem, Len(prompt_tokens))
    /\ mem' = Fed(mem, prompt_tokens)
    /\ logits' = <<Content(mem')>>
    /\ n_cur' = Len(prompt_tokens) /\ n_prompt_tokens_total' = n_cur'
    /\ pc' = "head"
    /\ UNCHANGED <<statics, cached_tokens, stop_generation, may_reuse_prefix,
                    use_draft, prompt_tokens, n_eval, roundVars, stream,
                    history>>

\* mtmd_helper_eval_chunks stops short, and its result is not looked at.  The
\* memory has taken k tokens and perhaps a failed batch behind them; n_cur counts
\* the n tokens of the chunks that were completed.  Rows of an earlier decode
\* survive only when none was run.
MediaEvalFails ==
    /\ pc = "media"
    /\ \E k \in 0..(Len(prompt_tokens) - 1) :
       \E n \in 0..k, batch \in 0..(Len(prompt_tokens) - k) :
          LET taken == Fed(mem, SubSeq(prompt_tokens, 1, k))
          IN  /\ HasRoom(mem, k + batch)
              /\ mem' = IF batch = 0 THEN taken
                        ELSE Failed(taken, SubSeq(prompt_tokens, k + 1, k + batch))
              /\ logits' \in {<<>>, UnknownRows}
                                \cup (IF k + batch = 0 THEN {logits} ELSE {})
              /\ n_cur' = n /\ n_prompt_tokens_total' = n
    /\ pc' = "head"
    /\ UNCHANGED <<statics, cached_tokens, stop_generation, may_reuse_prefix,
                    use_draft, prompt_tokens, n_eval, roundVars, stream,
                    history>>

-----------------------------------------------------------------------------
\* The prefill loop.

Chunk ==
    LET upto == n_eval + NBatch
    IN  SubSeq(prompt_tokens, n_eval + 1,
               IF upto < Len(prompt_tokens) THEN upto ELSE Len(prompt_tokens))

\* Only the last token of the prompt is marked as an output: the rows there are
\* once n tokens have been evaluated into m.  (Mutant: the mark is one off.)
RowsOneOff(n, m) == IF n = Len(prompt_tokens) - 1 THEN <<Content(m)>> ELSE <<>>
RowsAfter(n, m)  == IF n = Len(prompt_tokens) THEN <<Content(m)>> ELSE <<>>

\* One chunk.  A failing draft decode turns drafting off for the rest of the
\* call.
PrefillChunk ==
    /\ pc = "prefill" /\ n_eval < Len(prompt_tokens)
    /\ \E answer \in DecodeAnswers(n_eval, Chunk) :
          answer.rc = "ok" /\ mem' = answer.mem
    /\ n_eval' = n_eval + Len(Chunk)
    /\ logits' = RowsAfter(n_eval', mem')
    /\ use_draft' \in {use_draft, FALSE}
    /\ UNCHANGED <<statics, cached_tokens, stop_generation, pc,
                    may_reuse_prefix, prompt_tokens, n_prompt_tokens_total,
                    n_cur, roundVars, stream, history>>

\* The early return of the prefill loop: no sentinel.
PrefillFailsLeaving(cached) ==
    /\ pc = "prefill" /\ n_eval < Len(prompt_tokens)
    /\ \E answer \in DecodeAnswers(n_eval, Chunk) :
        /\ answer.rc # "ok"
        /\ IF answer.rc = "abort"
           THEN Abort
           ELSE /\ mem' = answer.mem
                /\ cached_tokens' = cached
                /\ logits' = UnknownRows
                /\ ReturnSilently
                /\ UNCHANGED <<statics, stop_generation, shifted>>

PrefillFailureKeepsCache == PrefillFailsLeaving(cached_tokens)     \* mutant
PrefillFails             == PrefillFailsLeaving(<<>>)

\* Remember what the memory holds, for calls that may reuse it.  (Mutant: for
\* drafting calls too.)
CacheAlways       == prompt_tokens
CacheAfterPrefill == IF may_reuse_prefix THEN prompt_tokens ELSE cached_tokens

PrefillDone ==
    /\ pc = "prefill" /\ n_eval >= Len(prompt_tokens)
    /\ n_cur' = n_eval
    /\ cached_tokens' = CacheAfterPrefill
    /\ pc' = "head"
    /\ UNCHANGED <<statics, mem, logits, stop_generation, callConst,
                    roundVars, stream, history>>

-----------------------------------------------------------------------------
\* The reply loop.

\* The head of the loop: the only place that looks at stop_generation.
StopIgnored == TRUE \in {is_eog_reached, sample_failed}     \* mutant
Stopped == TRUE \in {stop_generation, is_eog_reached, sample_failed}

LoopStops ==
    /\ pc = "head" /\ Stopped
    /\ SendSentinel
    /\ UNCHANGED <<statics, memVars, stop_generation, shifted>>

WindowFull == n_cur + NDraft + 1 >= NCtx

NKeep == IF n_prompt_tokens_total >= NCtx \div 2 THEN NCtx \div 2
         ELSE n_prompt_tokens_total
NDiscard == (NCtx - NKeep) \div 2

\* Mutants of the cursor after a shift: not moved, and moved too far.
CursorStays       == n_cur
CursorOvershoots  == n_cur - NCtx
CursorAfterShift  == n_cur - NDiscard

AfterHead == IF use_draft THEN "draft" ELSE "sample"

LoopContinues ==
    /\ pc = "head" /\ ~Stopped
    /\ ~WindowFull
    /\ pc' = AfterHead
    /\ UNCHANGED <<statics, memVars, stop_generation, callVars, stream,
                    history>>

\* The context shift, or a clean end where the memory refuses the removal.
\* (The same window is dropped from ctx_draft.)
LoopShifts ==
    /\ pc = "head" /\ ~Stopped
    /\ WindowFull
    /\ cached_tokens' = <<>>
    /\ IF CanDropWindow(mem, NKeep, NDiscard)
       THEN /\ mem' = WindowDropped(mem, NKeep, NDiscard, n_cur)
            /\ n_cur' = CursorAfterShift
            /\ reply' = <<>> /\ slid' = TRUE /\ shifted' = TRUE
            /\ pc' = AfterHead
            /\ UNCHANGED <<callConst, roundVars, stream>>
       ELSE /\ SendSentinel
            /\ UNCHANGED <<mem, shifted>>
    /\ UNCHANGED <<statics, logits, stop_generation>>

\* sampleOrStop(smpl, ctx_draft, -1) and a decode on ctx_draft, up to NDraft
\* times; a failed draft decode ends the round with the token that caused it.
ProposeDraft ==
    /\ pc = "draft"
    /\ \E n \in 1..NDraft : draft_tokens' \in [1..n -> Vocab]
    /\ pc' = "sample"
    /\ UNCHANGED <<statics, memVars, stop_generation, callConst, n_cur,
                    n_accepted, t_extra, is_eog_reached, sample_failed,
                    stream, history>>

\* The sampler threw, on the draft or on the target: the loop is left.
SamplerThrows ==
    /\ pc \in {"draft", "sample"} /\ logits # <<>>
    /\ SendSentinel
    /\ UNCHANGED <<statics, memVars, stop_generation, shifted>>

\* get_logits_ith without an output row: ggml_abort.
SampleWithoutLogits ==
    /\ pc = "sample" /\ logits = <<>>
    /\ Abort

Recorded(t) == IF slid THEN reply ELSE Append(reply, t)

\* t_extra is not what was drafted (or nothing was drafted).
SampleTarget ==
    /\ pc = "sample" /\ logits # <<>>
    /\ t_extra' \in Vocab
    /\ draft_tokens # <<>> => t_extra' # draft_tokens[1]
    /\ n_accepted' = 0
    /\ pc' = "emit"
    /\ UNCHANGED <<statics, memVars, stop_generation, callConst, n_cur,
                    draft_tokens, is_eog_reached, sample_failed, stream,
                    history>>

\* Row k of the verification batch: the target has seen k drafted tokens.
\* (Mutant: one fewer.)
RowOneShort(k)     == Content(Fed(mem, SubSeq(draft_tokens, 1, k - 1)))
VerificationRow(k) == Content(Fed(mem, SubSeq(draft_tokens, 1, k)))

\* t_extra is the first drafted token: it is sent, and the whole draft is
\* decoded on the target to obtain one row per drafted token.
SampleConfirmsDraft ==
    /\ pc = "sample" /\ logits # <<>>
    /\ draft_tokens # <<>>
    /\ \E answer \in DecodeAnswers(n_cur, draft_tokens) :
        /\ mem' = answer.mem
        /\ IF answer.rc = "ok"
           THEN /\ t_extra' = draft_tokens[1] /\ n_accepted' = 1
                /\ reply' = Recorded(draft_tokens[1])
                /\ is_eog_reached' = (draft_tokens[1] \in StopStrings)
                /\ logits' = [k \in 1..Len(draft_tokens) |-> VerificationRow(k)]
                /\ pc' = "verify"
                /\ UNCHANGED <<callConst, n_cur, draft_tokens, sample_failed,
                                stream, slid>>
           ELSE SendSentinel /\ logits' = UnknownRows
    /\ UNCHANGED <<statics, cached_tokens, stop_generation, shifted>>

\* The verification loop: row n_accepted gives the target's own choice for
\* draft token n_accepted + 1.
VerifyAccepts ==
    /\ pc = "verify" /\ n_accepted < Len(draft_tokens)
    /\ LET t == draft_tokens[n_accepted + 1]
       IN  /\ reply' = Recorded(t)
           /\ is_eog_reached' = (is_eog_reached \/ t \in StopStrings \cup Eog)
    /\ n_accepted' = n_accepted + 1
    /\ pc' = IF is_eog_reached' THEN "rollback" ELSE "verify"
    /\ UNCHANGED <<statics, memVars, stop_generation, callConst, n_cur,
                    draft_tokens, t_extra, sample_failed, stream, slid,
                    shifted>>

VerifyRejects ==
    /\ pc = "verify" /\ n_accepted < Len(draft_tokens)
    /\ t_extra' \in Vocab \ {draft_tokens[n_accepted + 1]}
    /\ pc' = "rollback"
    /\ UNCHANGED <<statics, memVars, stop_generation, callConst, n_cur,
                    draft_tokens, n_accepted, is_eog_reached, sample_failed,
                    stream, history>>

\* Every drafted token was accepted: one more token comes from the last row.
VerifyExhausted ==
    /\ pc = "verify" /\ n_accepted = Len(draft_tokens)
    /\ t_extra' \in IF is_eog_reached THEN {t_extra} ELSE Vocab
    /\ pc' = "rollback"
    /\ UNCHANGED <<statics, memVars, stop_generation, callConst, n_cur,
                    draft_tokens, n_accepted, is_eog_reached, sample_failed,
                    stream, history>>

VerifyThrows ==
    /\ pc = "verify"
    /\ n_accepted < Len(draft_tokens) \/ ~is_eog_reached
    /\ sample_failed' = TRUE
    /\ pc' = "rollback"
    /\ UNCHANGED <<statics, memVars, stop_generation, callConst, n_cur,
                    draft_tokens, n_accepted, t_extra, is_eog_reached, stream,
                    history>>

EvictOneLate == n_cur + n_accepted + 1     \* mutant
EvictFrom    == n_cur + n_accepted

\* Rejected draft positions are evicted; the answer of seq_rm is not looked at.
Rollback ==
    /\ pc = "rollback"
    /\ mem' = IF n_accepted < Len(draft_tokens)
              THEN SeqRmFrom(mem, EvictFrom) ELSE mem
    /\ IF is_eog_reached \/ sample_failed
       THEN SendSentinel
       ELSE /\ pc' = "emit"
            /\ UNCHANGED <<callVars, stream, reply, slid>>
    /\ UNCHANGED <<statics, logits, cached_tokens, stop_generation, shifted>>

StopStringEnds(t) == t \in StopStrings     \* mutant
EndsReply(t)      == t \in StopStrings \cup Eog

\* The cache entry once t has been decoded.  (Mutant: t is not appended.)
NotMirrored(t) == cached_tokens
Mirrored(t)    == IF may_reuse_prefix THEN Append(cached_tokens, t)
                  ELSE cached_tokens

\* t_extra is sent; unless it ends the reply it is decoded and mirrored.
EmitLast ==
    /\ pc = "emit" /\ EndsReply(t_extra)
    /\ SendSentinel
    /\ UNCHANGED <<statics, memVars, stop_generation, shifted>>

EmitAndDecode ==
    /\ pc = "emit" /\ ~EndsReply(t_extra)
    /\ \E answer \in DecodeAnswers(n_cur + n_accepted, <<t_extra>>) :
          answer.rc = "ok" /\ mem' = answer.mem
    /\ logits' = <<Content(mem')>>
    /\ cached_tokens' = Mirrored(t_extra)
    /\ n_cur' = n_cur + n_accepted + 1
    /\ reply' = Recorded(t_extra)
    /\ draft_tokens' = <<>> /\ n_accepted' = 0 /\ t_extra' = NoToken
    /\ pc' = "head"
    /\ UNCHANGED <<statics, stop_generation, callConst, is_eog_reached,
                    sample_failed, stream, slid, shifted>>

EmitDecodeFails ==
    /\ pc = "emit" /\ ~EndsReply(t_extra)
    /\ \E answer \in DecodeAnswers(n_cur + n_accepted, <<t_extra>>) :
          answer.rc = "error" /\ mem' = answer.mem
    /\ logits' = UnknownRows
    /\ cached_tokens' = <<>>
    /\ SendSentinel
    /\ UNCHANGED <<statics, stop_generation, shifted>>

-----------------------------------------------------------------------------
\* abortGeneration, from the main thread.
AbortGeneration ==
    /\ pc # "aborted"
    /\ stop_generation' = TRUE
    /\ UNCHANGED <<statics, memVars, pc, callVars, stream, history>>

StartCall ==
    \/ StartWithoutContext
    \/ \E p \in Prompts, grammar \in BOOLEAN,
          media \in IF "vision" \in Features THEN BOOLEAN ELSE {FALSE} :
            StartText(p, media, grammar)
    \/ \E p \in Prompts : StartMedia(p)

Lifecycle == InitLlama \/ InitRefused \/ ResetContext \/ InitVision
                \/ InitDraftModel \/ DisposeLlama \/ GetEmbedding

Media   == MediaTokenizeFails \/ MediaEvaluated \/ MediaEvalFails
Prefill == PrefillChunk \/ PrefillFails \/ PrefillDone
Verify  == VerifyAccepts \/ VerifyRejects \/ VerifyExhausted \/ VerifyThrows
Emit    == EmitLast \/ EmitAndDecode \/ EmitDecodeFails
Reply   == \/ LoopStops \/ LoopContinues \/ LoopShifts \/ ProposeDraft
           \/ SamplerThrows \/ SampleWithoutLogits \/ SampleTarget
           \/ SampleConfirmsDraft \/ Verify \/ Rollback \/ Emit

\* The executor thread inside startNativeGeneration.
Generate == Media \/ Prefill \/ Reply

Next == Lifecycle \/ StartCall \/ Generate \/ AbortGeneration

Spec == Init /\ [][Next]_vars

\* The executor keeps running a call it has started.
FairSpec == Spec /\ WF_vars(Generate)
-----------------------------------------------------------------------------
\* A generation is running or none is, and cached_tokens may be consulted or
\* extended next.
CacheInUse == ctx /\ pc \in {"idle"} \cup LoopPoints

\* cached_tokens is "the exact token sequence currently held in the KV cache"
\* (native-lib.cpp:44-53) for as long as no context shift has happened since the
\* memory was last wiped: a cache entry that claims something is right.  (After a
\* shift it restarts from the next token, and the comment no longer holds.)
CacheExactUntilShift ==
    CacheInUse /\ cached_tokens # <<>> /\ ~shifted => Content(mem) = cached_tokens

\* What the next sampled token is conditioned on.
RowToSample == IF pc = "verify" THEN n_accepted ELSE Len(logits)

\* A reply that has not outgrown the window is sampled, at every position and
\* on every path (reuse, trim, clear, refused trim, drafting), from the prompt
\* and the reply so far, nothing else: prefix reuse cannot be observed
\* (native_llama.dart:120, "The observable behaviour ... is identical").
SampledFromConversation ==
    /\ pc \in {"sample", "verify"} /\ ~slid
    /\ n_prompt_tokens_total = Len(prompt_tokens)
    /\ RowToSample \in 1..Len(logits)
    => logits[RowToSample] = prompt_tokens \o reply

\* The same promise as an abstract specification: seen from Dart, the engine
\* implements one that has no cache, no draft and no window.
Promised == ~slid /\ (pc \in {"media", "prefill"}
                         \/ n_prompt_tokens_total = Len(prompt_tokens))
PromiseState == IF pc = "idle" THEN "quiet"
                ELSE IF Promised THEN "answering" ELSE "beyond"
IfPromised(s) == IF PromiseState = "answering" THEN s ELSE <<>>
SampledFrom == IF pc \in {"head", "draft", "sample", "verify"}
               THEN logits[RowToSample] ELSE prompt_tokens \o reply

Promise == INSTANCE Conversation WITH
    state   <- PromiseState,
    prompt  <- IfPromised(prompt_tokens),
    reply   <- IfPromised(reply),
    context <- IfPromised(SampledFrom)

ImplementsConversation == Promise!Spec

\* While a reply is running its cache entry names every token of the
\* conversation, so a follow-up that appends to it prefills only what is new
\* ("pure append", nl-kv-reuse.h:23-26).
ReplyIsCached ==
    pc \in {"head", "sample", "emit"} /\ may_reuse_prefix /\ ~slid =>
        cached_tokens = prompt_tokens \o reply

\* The cursor the bridge keeps is where the memory ends, after a shift, after
\* verification and rollback too: no decode of a reply to text is rejected for
\* its position ("the caller must treat a false from seq_rm as 'fall back to a
\* full clear', never as something to ignore", nl-kv-reuse.h:29-30).
CursorFollowsMemory ==
    /\ pc \in {"head", "draft", "sample", "emit"}
    /\ n_prompt_tokens_total = Len(prompt_tokens)
    => n_cur + n_accepted = PosMax(mem) + 1

\* "An end-of-generation token is never decoded" (native-lib.cpp:966-969).
EogNeverDecoded ==
    pc \in LoopPoints /\ ~slid =>
        \A k \in (Len(prompt_tokens) + 1)..Len(mem.toks) : mem.toks[k] \notin Eog

\* The state of a recurrent layer never describes tokens the bridge no longer
\* counts: "that is exactly the rewind seq_rm refuses to perform ... Stop
\* cleanly instead" (native-lib.cpp:872-877).
RecurrentStateCurrent ==
    pc = "sample" /\ HasRecurrent => mem.state # Blend

\* "The Dart stream only closes on this exact sentinel, so it must be sent or
\* the caller waits forever" (native-lib.cpp:757-758).
StreamClosedWhenIdle == pc = "idle" => stream # "open"

\* llama.cpp is never asked for something it answers with abort(): "that is an
\* abort(), not a C++ exception, so it kills the app" (native-lib.cpp:743-744).
NeverAborts == pc # "aborted"

\* abortGeneration "force stops the current generation loop"
\* (native_llama.dart:196): a call that has been told to stop comes to its end.
AbortEndsGeneration ==
    (pc \notin {"idle", "aborted"} /\ stop_generation) ~> (pc \in {"idle", "aborted"})

\* The same, without fairness: from the moment the flag is stored, every step of the
\* call brings its end nearer.  It reads the rest of the prompt, finishes the round
\* it is in, verification included, and begins no other.
StepsLeft ==
    CASE pc \in {"idle", "aborted"} -> 0
      [] pc = "head"                -> 1
      [] pc \in {"emit", "media"}   -> 2
      [] pc = "rollback"            -> 3
      [] pc = "verify"              -> 4 + Len(draft_tokens) - n_accepted
      [] pc = "sample"              -> 4 + NDraft
      [] pc = "draft"               -> 5 + NDraft
      [] pc = "prefill"             -> 2 + Len(prompt_tokens) - n_eval

AbortedCallCountsDown ==
    [][Generate /\ stop_generation => StepsLeft' \in 0..(StepsLeft - 1)]_vars
=============================================================================
