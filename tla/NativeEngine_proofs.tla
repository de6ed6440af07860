------------------------- MODULE NativeEngine_proofs ------------------------
(***************************************************************************)
(* NativeEngine for every vocabulary, prompt set, context size, batch      *)
(* size, draft length and architecture: the type invariant, and that       *)
(* cached_tokens never claims what the memory does not hold, as long as no *)
(* context shift has happened since the last wipe.                         *)
(*                                                                         *)
(* CacheExactUntilShift is not inductive.  IInv adds what the code relies  *)
(* on between the statements that keep mem and cached_tokens together:     *)
(* during the prefill the memory is the part of the prompt already         *)
(* evaluated; a call that may not reuse keeps no cache; drafting calls are *)
(* such calls; a reply that may reuse starts from a nonempty cache.        *)
(***************************************************************************)
EXTENDS NativeEngine, EngineParts_proofs, TLAPS

\* The first n tokens of s.
Prefix(s, n) == SubSeq(s, 1, n)

\* The prefill walks through a nonempty prompt and does not leave it.
PrefillInv ==
    pc = "prefill" => prompt_tokens # <<>> /\ n_eval <= Len(prompt_tokens)

\* What is about to be emitted is a token.
EmitInv == pc \in {"verify", "rollback", "emit"} => t_extra \in Vocab

\* A call that may not reuse the prefix keeps no cache; between calls, and in a
\* call with media, nothing may be reused; drafting forbids reuse.
NoReuseInv ==
    /\ pc \in {"idle", "media"} => ~may_reuse_prefix
    /\ pc = "idle" => draft_tokens = <<>>
    /\ pc \notin {"idle", "aborted"} /\ ~may_reuse_prefix => cached_tokens = <<>>
    /\ \/ use_draft
       \/ draft_tokens # <<>>
       \/ pc \in {"draft", "verify", "rollback"}
       => ~may_reuse_prefix

\* Until a shift, the memory is the evaluated part of the prompt during the
\* prefill, and a reply that may reuse has its cache.
ExactInv ==
    /\ pc = "prefill" /\ ~shifted => Content(mem) = Prefix(prompt_tokens, n_eval)
    /\ pc \in LoopPoints /\ may_reuse_prefix /\ ~shifted => cached_tokens # <<>>

IInv == /\ TypeOK /\ MemOK(mem)
        /\ PrefillInv /\ EmitInv /\ NoReuseInv /\ ExactInv /\ CacheExactUntilShift

-----------------------------------------------------------------------------
\* Tokens are tokens, and Blend is not a sequence of them.
LEMMA Samplable == Vocab \subseteq Token
BY EngineAssumption

\* A cache that a token has been mirrored into is not empty.
LEMMA AppendNotEmpty ==
    ASSUME NEW s \in Seq(Token), NEW t \in Token
    PROVE  Append(s, t) # <<>>
<1>1. Len(Append(s, t)) = Len(s) + 1 /\ Len(s) \in Nat
    OBVIOUS
<1> QED
    BY <1>1

\* Whatever a memory describes may be recorded as what a row was computed from.
LEMMA RowType ==
    ASSUME NEW m, MemOK(m)
    PROVE  <<Content(m)>> \in Seq(Seq(Token) \cup {Blend})
BY ContentType

\* llama_decode either appends the batch or leaves a memory in some good state.
LEMMA DecodeAnswersOK ==
    ASSUME MemOK(mem), NEW pos \in Nat, NEW ts \in Seq(Token), ts # <<>>,
           NEW answer \in DecodeAnswers(pos, ts)
    PROVE  /\ MemOK(answer.mem)
           /\ answer.rc = "ok" => answer.mem = Fed(mem, ts)
<1>1. \/ answer = [rc |-> "error", mem |-> mem]
      \/ answer = [rc |-> "abort", mem |-> mem]
      \/ answer = [rc |-> "ok", mem |-> Fed(mem, ts)]
      \/ answer = [rc |-> "error", mem |-> Failed(mem, ts)]
    BY DEF DecodeAnswers
<1> QED
    BY <1>1, FedOK, FailedOK

\* Until shifted, a batch decoded behind a known sequence makes it longer.
LEMMA DecodedContent ==
    ASSUME MemOK(mem), NEW pos \in Nat, NEW ts \in Seq(Token), ts # <<>>,
           NEW answer \in DecodeAnswers(pos, ts), answer.rc = "ok",
           NEW s \in Seq(Token), Content(mem) = s
    PROVE  Content(answer.mem) = s \o ts
BY DecodeAnswersOK, FedContent, MemoryAssumption

\* The preparation before the prefill: the plan is carried out, or everything
\* is wiped.  If the cache entry was right, the memory is then the reused part
\* of the prompt, in every branch.
LEMMA PreparedOK ==
    ASSUME NEW m, MemOK(m), NEW cached \in Seq(Token),
           NEW p \in Seq(Token), p # <<>>, NEW may \in BOOLEAN,
           NEW r, r = PreparedFor(m, cached, p, may)
    PROVE  /\ MemOK(r.mem)
           /\ r.n_reuse \in 0..(Len(p) - 1)
           /\ r.n_reuse = 0 \/ Content(m) = cached =>
                Content(r.mem) = Prefix(p, r.n_reuse)
           /\ r.n_reuse # 0 => cached # <<>>
<1> DEFINE plan == PlanPrefixReuse(cached, p, may)
           n    == plan.n_reuse
<1>1. /\ n \in 0..(Len(p) - 1) /\ n <= Len(cached)
      /\ SubSeq(cached, 1, n) = SubSeq(p, 1, n)
      /\ plan.needs_trim => 0 < n /\ n < Len(cached)
      /\ ~plan.needs_trim /\ ~plan.needs_clear => n = Len(cached) /\ may
    BY PlanPrefixReuseSound
<1>2. ~plan.needs_trim /\ ~plan.needs_clear => cached # <<>>
    BY DEF PlanPrefixReuse, ClearPlan
<1> HIDE DEF plan
<1>3. CASE r = [mem |-> Cleared, n_reuse |-> 0]
    <2>1. SubSeq(p, 1, 0) = <<>> /\ Len(p) \in Nat /\ Len(p) > 0
        OBVIOUS
    <2> QED
        BY <1>3, <2>1, ClearedContent DEF Prefix
<1>4. CASE plan.needs_trim /\ CanTrim(m, n)
           /\ r = [mem |-> Trimmed(m, n), n_reuse |-> n]
    <2>1. n \in Nat /\ 0 < n /\ n < Len(cached) /\ cached # <<>>
        BY <1>1, <1>4
    <2>2. MemOK(Trimmed(m, n))
        BY <1>4, <2>1, TrimmedOK
    <2>3. Content(m) = cached => Content(Trimmed(m, n)) = SubSeq(cached, 1, n)
        BY <1>4, <2>1, TrimmedContent, MemoryAssumption
    <2> QED
        BY <1>1, <1>4, <2>1, <2>2, <2>3 DEF Prefix
<1>5. CASE ~plan.needs_trim /\ ~plan.needs_clear
           /\ r = [mem |-> m, n_reuse |-> n]
    <2>1. SubSeq(cached, 1, n) = cached
        BY <1>1, <1>5
    <2> QED
        BY <1>1, <1>2, <1>5, <2>1 DEF Prefix
<1>6. \/ r = [mem |-> Cleared, n_reuse |-> 0]
      \/ plan.needs_trim /\ CanTrim(m, n)
           /\ r = [mem |-> Trimmed(m, n), n_reuse |-> n]
      \/ ~plan.needs_trim /\ ~plan.needs_clear
           /\ r = [mem |-> m, n_reuse |-> n]
    BY DEF PreparedFor, plan
<1> QED
    BY <1>3, <1>4, <1>5, <1>6

\* A chunk of the prefill is the next nonempty piece of the prompt.
LEMMA ChunkOK ==
    ASSUME prompt_tokens \in Seq(Token), n_eval \in Nat, n_eval < Len(prompt_tokens)
    PROVE  /\ Chunk \in Seq(Token) /\ Chunk # <<>>
           /\ n_eval + Len(Chunk) <= Len(prompt_tokens)
           /\ Prefix(prompt_tokens, n_eval) \o Chunk
                = Prefix(prompt_tokens, n_eval + Len(Chunk))
           /\ Prefix(prompt_tokens, n_eval) \in Seq(Token)
<1> DEFINE last == IF n_eval + NBatch < Len(prompt_tokens)
                   THEN n_eval + NBatch ELSE Len(prompt_tokens)
<1>1. /\ last \in Nat /\ n_eval < last /\ last <= Len(prompt_tokens)
      /\ Chunk = SubSeq(prompt_tokens, n_eval + 1, last)
    BY EngineAssumption DEF Chunk
<1> HIDE DEF last
<1>2. Chunk \in Seq(Token) /\ Len(Chunk) = last - n_eval
    BY <1>1
<1>3. Prefix(prompt_tokens, n_eval) \o Chunk = Prefix(prompt_tokens, last)
      /\ Prefix(prompt_tokens, n_eval) \in Seq(Token)
    BY <1>1 DEF Prefix
<1>4. n_eval + Len(Chunk) = last /\ Chunk # <<>>
    BY <1>1, <1>2
<1> QED
    BY <1>1, <1>2, <1>3, <1>4

\* The cursor cannot be shifted below zero: llama.cpp never makes a context so
\* small that half of it would not hold one round.
LEMMA ShiftOK ==
    ASSUME n_cur \in Nat, n_prompt_tokens_total \in Nat, WindowFull
    PROVE  NKeep \in Nat /\ NDiscard \in Nat /\ CursorAfterShift \in Nat
<1>1. NCtx \in Nat /\ NDraft \in Nat /\ NCtx >= 4 * (NDraft + 2)
    BY EngineAssumption, MemoryAssumption
<1>2. NCtx \div 2 \in Nat /\ NCtx \div 2 <= NCtx /\ 2 * (NCtx \div 2) <= NCtx
    BY <1>1
<1>3. NKeep \in Nat /\ NKeep <= NCtx \div 2
    BY <1>2 DEF NKeep
<1>4. NDiscard \in Nat /\ 2 * NDiscard <= NCtx - NKeep
    BY <1>1, <1>2, <1>3 DEF NDiscard
<1>5. n_cur >= NDiscard
    BY <1>1, <1>3, <1>4 DEF WindowFull
<1> QED
    BY <1>3, <1>4, <1>5 DEF CursorAfterShift

-----------------------------------------------------------------------------
\* Abort leaves everything as it was and claims nothing.
LEMMA AbortKeepsIInv == IInv /\ Abort => IInv'
BY DEF IInv, TypeOK, PrefillInv, EmitInv, NoReuseInv, ExactInv,
       CacheExactUntilShift, CacheInUse, LoopPoints, Abort, vars, statics,
       memVars, callVars, callConst, roundVars, history

\* A call that ends leaves a memory and a cache entry that agree, or neither a
\* shift-free memory nor an entry.
LEMMA EndedCall ==
    ASSUME IInv, pc' = "idle", NoCall,
           UNCHANGED <<statics>>,
           stop_generation' \in BOOLEAN, shifted' \in BOOLEAN,
           stream' \in {"none", "open", "closed"},
           MemOK(mem'), logits' \in Seq(Seq(Token) \cup {Blend}),
           cached_tokens' \in Seq(Token),
           CacheExactUntilShift'
    PROVE  IInv'
<1>1. <<>> \in Seq(Token) /\ <<>> \in Seq(Vocab) /\ 0 \in Nat
    OBVIOUS
<1>2. TypeOK'
    BY <1>1 DEF IInv, TypeOK, NoCall, statics, MemOK
<1>3. PrefillInv' /\ EmitInv' /\ NoReuseInv' /\ ExactInv'
    BY DEF PrefillInv, EmitInv, NoReuseInv, ExactInv, NoCall, LoopPoints
<1> QED
    BY <1>2, <1>3 DEF IInv

\* The lifecycle calls run between generations.  They keep the memory and its
\* entry together, or forget the entry.
LEMMA LifecycleKeepsIInv == IInv /\ Lifecycle => IInv'
<1> SUFFICES ASSUME IInv, Lifecycle PROVE IInv'
    OBVIOUS
<1> USE DEF IInv
<1>1. <<>> \in Seq(Token) /\ <<>> \in Seq(Seq(Token) \cup {Blend})
    OBVIOUS
<1>2. ASSUME pc = "idle", UNCHANGED <<stop_generation, pc, callVars, stream, reply, slid>>,
             model' \in BOOLEAN, ctx' \in BOOLEAN, ctx_draft' \in BOOLEAN,
             mtmd_ctx' \in BOOLEAN, is_initialized' \in BOOLEAN, shifted' \in BOOLEAN,
             MemOK(mem'), logits' \in Seq(Seq(Token) \cup {Blend}),
             cached_tokens' \in Seq(Token), CacheExactUntilShift'
      PROVE  IInv'
    <2>1. TypeOK'
        BY <1>2 DEF TypeOK, callVars, callConst, roundVars, MemOK
    <2>2. PrefillInv' /\ EmitInv' /\ NoReuseInv' /\ ExactInv'
        BY <1>2 DEF PrefillInv, EmitInv, NoReuseInv, ExactInv, LoopPoints,
                    callVars, callConst, roundVars
    <2> QED
        BY <1>2, <2>1, <2>2
<1>3. CASE InitLlama
    BY <1>1, <1>2, <1>3, ClearedContent DEF InitLlama, TypeOK, CacheExactUntilShift
<1>4. CASE InitRefused
    BY <1>2, <1>4 DEF InitRefused, TypeOK, CacheExactUntilShift, CacheInUse,
                      memVars, history
<1>5. CASE ResetContext
    <2>1. /\ pc = "idle" /\ mem' = Cleared /\ logits' = <<>> /\ shifted' = FALSE
          /\ ctx' \in BOOLEAN
          /\ cached_tokens' = <<>> \/ (~ctx' /\ cached_tokens' = cached_tokens)
          /\ UNCHANGED <<model, ctx_draft, mtmd_ctx, is_initialized,
                          stop_generation, pc, callVars, stream, reply, slid>>
        BY <1>5 DEF ResetContext, ResetContextTo
    <2>2. CacheExactUntilShift' /\ cached_tokens' \in Seq(Token)
        BY <1>1, <2>1 DEF CacheExactUntilShift, CacheInUse, TypeOK
    <2> QED
        BY <1>1, <1>2, <2>1, <2>2, ClearedContent DEF TypeOK
<1>6. CASE InitVision
    BY <1>2, <1>6 DEF InitVision, TypeOK, CacheExactUntilShift, CacheInUse,
                      memVars, history
<1>7. CASE InitDraftModel
    BY <1>2, <1>7 DEF InitDraftModel, TypeOK, CacheExactUntilShift, CacheInUse,
                      memVars, history
<1>8. CASE DisposeLlama
    BY <1>1, <1>2, <1>8, ClearedContent DEF DisposeLlama, TypeOK, CacheExactUntilShift
<1>9. CASE GetEmbedding
    <2>1. PICK text \in Prompts :
             LET wiped == SeqRmEverything(mem)
             IN  IF wiped.tail = "stale"
                 THEN Abort
                 ELSE /\ \/ /\ mem' \in {Fed(wiped, text), SeqRmEverything(Fed(wiped, text))}
                            /\ logits' = [k \in 1..Len(text) |-> SubSeq(text, 1, k)]
                         \/ /\ DecodeCanFail
                            /\ mem' \in {wiped, Failed(wiped, text)}
                            /\ logits' = UnknownRows
                      /\ cached_tokens' = <<>>
                      /\ shifted' = FALSE
                      /\ UNCHANGED <<statics, stop_generation, pc, callVars,
                                      stream, reply, slid>>
        BY <1>9 DEF GetEmbedding, EmbeddingLeaving
    <2> DEFINE wiped == SeqRmEverything(mem)
    <2>2. text \in Seq(Token) /\ text # <<>>
        BY <2>1, EngineAssumption
    <2>3. /\ MemOK(wiped) /\ MemOK(Fed(wiped, text)) /\ MemOK(Failed(wiped, text))
          /\ MemOK(SeqRmEverything(Fed(wiped, text)))
        BY <2>2, WipedOK, FedOK, FailedOK
    <2>4. [k \in 1..Len(text) |-> SubSeq(text, 1, k)] \in Seq(Seq(Token) \cup {Blend})
        BY <2>2
    <2>5. UnknownRows \in Seq(Seq(Token) \cup {Blend})
        BY DEF UnknownRows
    <2>6. CASE Abort
        BY <2>6, AbortKeepsIInv
    <2>7. CASE ~Abort
        <3>1. /\ MemOK(mem') /\ logits' \in Seq(Seq(Token) \cup {Blend})
              /\ cached_tokens' = <<>> /\ shifted' = FALSE
              /\ UNCHANGED <<statics, stop_generation, pc, callVars, stream,
                              reply, slid>>
            BY <2>1, <2>3, <2>4, <2>5, <2>7
        <3> QED
            BY <1>1, <1>2, <1>9, <3>1 DEF GetEmbedding, EmbeddingLeaving, statics,
                                          TypeOK, CacheExactUntilShift
    <2> QED
        BY <2>6, <2>7
<1> QED
    BY <1>3, <1>4, <1>5, <1>6, <1>7, <1>8, <1>9 DEF Lifecycle

-----------------------------------------------------------------------------
\* Starting a call: the memory is prepared for the prompt, or wiped for media.
LEMMA StartKeepsIInv == IInv /\ StartCall => IInv'
<1> SUFFICES ASSUME IInv, StartCall PROVE IInv'
    OBVIOUS
<1> USE DEF IInv
<1>1. CASE StartWithoutContext
    <2>1. TypeOK'
        BY <1>1 DEF StartWithoutContext, TypeOK, statics, memVars, callVars,
                    callConst, roundVars, history
    <2> QED
        BY <1>1, <2>1
           DEF StartWithoutContext, PrefillInv, EmitInv, NoReuseInv, ExactInv,
               CacheExactUntilShift, CacheInUse, LoopPoints, statics, memVars,
               callVars, callConst, roundVars, history
<1>2. ASSUME NEW p \in Prompts, NEW media \in BOOLEAN, NEW grammar \in BOOLEAN,
             StartText(p, media, grammar)
      PROVE  IInv'
    <2> DEFINE drafting == ctx_draft /\ ~media
    <2>0. SUFFICES ASSUME NEW m0, m0 = IF drafting THEN Cleared ELSE mem,
                          NEW c0, c0 = IF drafting THEN <<>> ELSE cached_tokens,
                          NEW may, may = ~drafting,
                          NEW r, r = PreparedFor(m0, c0, p, may)
                   PROVE  IInv'
        OBVIOUS
    <2>1. p \in Seq(Token) /\ p # <<>> /\ Len(p) \in Nat
        BY EngineAssumption
    <2>2. drafting \in BOOLEAN /\ c0 \in Seq(Token) /\ MemOK(m0)
        BY <2>0, ClearedContent DEF TypeOK
    <2>3. ~shifted /\ c0 # <<>> => Content(m0) = c0
        BY <1>2, <2>0 DEF StartText, CacheExactUntilShift, CacheInUse
    <2>4. /\ stop_generation' = FALSE /\ may_reuse_prefix' = ~drafting
          /\ use_draft' = (drafting /\ ~grammar)
          /\ cached_tokens' = c0 /\ prompt_tokens' = p
          /\ n_prompt_tokens_total' = Len(p)
          /\ mem' = r.mem /\ n_eval' = r.n_reuse
          /\ shifted' = (shifted /\ r.n_reuse # 0)
          /\ pc' = "prefill" /\ stream' = "open" /\ pc = "idle"
          /\ UNCHANGED <<statics, logits, n_cur, roundVars, reply, slid>>
        BY <1>2, <2>0 DEF StartText
    <2>5. drafting => c0 = <<>>
        BY <2>0
    <2>6. may \in BOOLEAN
        BY <2>0, <2>2
    <2> HIDE DEF drafting
    <2>7. /\ MemOK(r.mem)
          /\ r.n_reuse \in 0..(Len(p) - 1)
          /\ r.n_reuse = 0 \/ Content(m0) = c0 =>
                Content(r.mem) = Prefix(p, r.n_reuse)
          /\ r.n_reuse # 0 => c0 # <<>>
        <3> HIDE DEF IInv
        <3>1. /\ MemOK(m0) /\ c0 \in Seq(Token) /\ p \in Seq(Token) /\ p # <<>>
              /\ may \in BOOLEAN /\ r = PreparedFor(m0, c0, p, may)
            BY <2>0, <2>1, <2>2, <2>6
        <3>2. MemOK(r.mem) /\ r.n_reuse \in 0..(Len(p) - 1)
            BY <3>1, PreparedOK
        <3>3. r.n_reuse # 0 => c0 # <<>>
            BY <3>1, PreparedOK
        <3>4. ASSUME r.n_reuse = 0 PROVE Content(r.mem) = Prefix(p, r.n_reuse)
            BY <3>1, <3>4, PreparedOK
        <3>5. ASSUME Content(m0) = c0 PROVE Content(r.mem) = Prefix(p, r.n_reuse)
            BY <3>1, <3>5, PreparedOK
        <3> QED
            BY <3>2, <3>3, <3>4, <3>5
    <2>8. /\ may_reuse_prefix' \in BOOLEAN /\ use_draft' \in BOOLEAN
          /\ may_reuse_prefix' <=> ~drafting
          /\ use_draft' => drafting
          /\ shifted' \in BOOLEAN
        BY <2>2, <2>4, <2>7 DEF TypeOK
    <2>9. mem' \in Memory /\ n_eval' \in Nat
        BY <2>4, <2>7 DEF MemOK
    <2>10. TypeOK'
        BY <2>1, <2>2, <2>4, <2>8, <2>9 DEF TypeOK, statics, roundVars
    <2>11. PrefillInv'
        BY <2>1, <2>4, <2>7 DEF PrefillInv
    <2>12. NoReuseInv'
        BY <2>4, <2>5, <2>8 DEF NoReuseInv, roundVars
    <2>13. ExactInv'
        BY <2>3, <2>4, <2>7 DEF ExactInv, LoopPoints, TypeOK
    <2> QED
        BY <2>4, <2>7, <2>10, <2>11, <2>12, <2>13
           DEF EmitInv, CacheExactUntilShift, CacheInUse, LoopPoints
<1>3. ASSUME NEW p \in Prompts, StartMedia(p)
      PROVE  IInv'
    <2>1. p \in Seq(Token) /\ <<>> \in Seq(Token)
        BY EngineAssumption
    <2>2. TypeOK'
        BY <1>3, <2>1, ClearedContent
           DEF StartMedia, StartMediaLeaving, TypeOK, MemOK, statics, roundVars
    <2> QED
        BY <1>3, <2>2, ClearedContent
           DEF StartMedia, StartMediaLeaving, PrefillInv, EmitInv, NoReuseInv,
               ExactInv, CacheExactUntilShift, CacheInUse, LoopPoints, roundVars
<1> QED
    BY <1>1, <1>2, <1>3 DEF StartCall

\* The media path never has a cache entry, and ends at the head of the loop.
LEMMA MediaKeepsIInv == IInv /\ Media => IInv'
<1> SUFFICES ASSUME IInv, Media PROVE IInv'
    OBVIOUS
<1> USE DEF IInv
<1>1. pc = "media" /\ cached_tokens = <<>> /\ ~may_reuse_prefix
    BY DEF Media, MediaTokenizeFails, MediaEvaluated, MediaEvalFails, NoReuseInv
<1>2. CASE MediaTokenizeFails
    BY <1>1, <1>2, EndedCall
       DEF MediaTokenizeFails, SendSentinel, TypeOK, CacheExactUntilShift, memVars
<1>3. ASSUME MemOK(mem'), logits' \in Seq(Seq(Token) \cup {Blend}),
             n_cur' \in Nat, n_prompt_tokens_total' \in Nat, pc' = "head",
             UNCHANGED <<statics, cached_tokens, stop_generation,
                         may_reuse_prefix, use_draft, prompt_tokens, n_eval,
                         roundVars, stream, history>>
      PROVE  IInv'
    <2>1. mem' \in Memory
        BY <1>3 DEF MemOK
    <2>2. TypeOK'
        BY <1>3, <2>1 DEF TypeOK, LoopPoints, statics, roundVars, history
    <2> QED
        BY <1>1, <1>3, <2>2
           DEF PrefillInv, EmitInv, NoReuseInv, ExactInv, CacheExactUntilShift,
               CacheInUse, LoopPoints, roundVars
<1>4. CASE MediaEvaluated
    <2>1. MemOK(Fed(mem, prompt_tokens)) /\ Len(prompt_tokens) \in Nat
        BY FedOK DEF TypeOK
    <2>2. logits' \in Seq(Seq(Token) \cup {Blend})
        BY <1>4, <2>1, RowType DEF MediaEvaluated
    <2> QED
        BY <1>3, <1>4, <2>1, <2>2 DEF MediaEvaluated, TypeOK
<1>5. CASE MediaEvalFails
    <2> DEFINE taken(k)    == Fed(mem, SubSeq(prompt_tokens, 1, k))
               rest(k, bt) == SubSeq(prompt_tokens, k + 1, k + bt)
    <2>0. PICK k \in 0..(Len(prompt_tokens) - 1) :
             \E n \in 0..k, batch \in 0..(Len(prompt_tokens) - k) :
                /\ mem' = IF batch = 0 THEN taken(k)
                          ELSE Failed(taken(k), rest(k, batch))
                /\ logits' \in {<<>>, UnknownRows}
                                  \cup (IF k + batch = 0 THEN {logits} ELSE {})
                /\ n_cur' = n /\ n_prompt_tokens_total' = n
        BY <1>5 DEF MediaEvalFails
    <2>1. PICK n \in 0..k, batch \in 0..(Len(prompt_tokens) - k) :
             /\ mem' = IF batch = 0 THEN taken(k) ELSE Failed(taken(k), rest(k, batch))
             /\ logits' \in {<<>>, UnknownRows}
                               \cup (IF k + batch = 0 THEN {logits} ELSE {})
             /\ n_cur' = n /\ n_prompt_tokens_total' = n
        BY <2>0
    <2>2. prompt_tokens \in Seq(Token) /\ Len(prompt_tokens) \in Nat
        BY DEF TypeOK
    <2>3. /\ n \in Nat /\ SubSeq(prompt_tokens, 1, k) \in Seq(Token)
          /\ rest(k, batch) \in Seq(Token)
          /\ batch # 0 => Len(rest(k, batch)) # 0
        BY <2>1, <2>2
    <2>4. batch # 0 => rest(k, batch) # <<>>
        BY <2>3
    <2> HIDE DEF rest
    <2>5. MemOK(taken(k))
        BY <2>3, FedOK
    <2> HIDE DEF taken
    <2>6. MemOK(mem')
        <3>1. CASE batch = 0
            BY <2>1, <2>5, <3>1
        <3>2. CASE batch # 0
            BY <2>1, <2>3, <2>4, <2>5, <3>2, FailedOK
        <3> QED
            BY <3>1, <3>2
    <2>7. logits' \in {<<>>, <<Blend>>, logits}
        BY <2>1 DEF UnknownRows
    <2>8. logits' \in Seq(Seq(Token) \cup {Blend})
        <3>1. <<>> \in Seq(Seq(Token) \cup {Blend})
              /\ <<Blend>> \in Seq(Seq(Token) \cup {Blend})
            OBVIOUS
        <3> QED
            BY <2>7, <3>1 DEF TypeOK
    <2> QED
        BY <1>3, <1>5, <2>1, <2>3, <2>6, <2>8 DEF MediaEvalFails
<1> QED
    BY <1>2, <1>4, <1>5 DEF Media

-----------------------------------------------------------------------------
\* The prefill: every chunk moves the memory and n_eval on together, and the
\* entry is written when both have reached the end of the prompt.
LEMMA PrefillKeepsIInv == IInv /\ Prefill => IInv'
<1> SUFFICES ASSUME IInv, Prefill PROVE IInv'
    OBVIOUS
<1> USE DEF IInv
<1>1. /\ pc = "prefill" /\ prompt_tokens \in Seq(Token) /\ prompt_tokens # <<>>
      /\ n_eval \in Nat /\ n_eval <= Len(prompt_tokens) /\ Len(prompt_tokens) \in Nat
    <2>1. pc = "prefill"
        BY DEF Prefill, PrefillChunk, PrefillFails, PrefillFailsLeaving, PrefillDone
    <2> QED
        BY <2>1 DEF PrefillInv, TypeOK
<1>2. n_eval < Len(prompt_tokens) =>
        /\ Chunk \in Seq(Token) /\ Chunk # <<>> /\ Len(Chunk) \in Nat
        /\ n_eval + Len(Chunk) <= Len(prompt_tokens)
        /\ Prefix(prompt_tokens, n_eval) \o Chunk
             = Prefix(prompt_tokens, n_eval + Len(Chunk))
        /\ Prefix(prompt_tokens, n_eval) \in Seq(Token)
    BY <1>1, ChunkOK
<1>3. CASE PrefillChunk
    <2>1. PICK answer \in DecodeAnswers(n_eval, Chunk) :
             answer.rc = "ok" /\ mem' = answer.mem
        BY <1>3 DEF PrefillChunk
    <2>2. n_eval < Len(prompt_tokens)
        BY <1>3 DEF PrefillChunk
    <2>3. MemOK(mem') /\ mem' \in Memory
        BY <1>1, <1>2, <2>1, <2>2, DecodeAnswersOK DEF MemOK
    <2>4. ~shifted => Content(mem') = Prefix(prompt_tokens, n_eval + Len(Chunk))
        BY <1>1, <1>2, <2>1, <2>2, DecodedContent DEF ExactInv
    <2>5. n_eval' = n_eval + Len(Chunk) /\ n_eval' \in Nat
          /\ n_eval' <= Len(prompt_tokens)
        BY <1>1, <1>2, <1>3, <2>2 DEF PrefillChunk
    <2>6. logits' \in Seq(Seq(Token) \cup {Blend})
        <3>1. logits' = <<Content(mem')>> \/ logits' = <<>>
            BY <1>3 DEF PrefillChunk, RowsAfter
        <3>2. <<>> \in Seq(Seq(Token) \cup {Blend})
            OBVIOUS
        <3> QED
            BY <2>3, <3>1, <3>2, RowType
    <2>7. use_draft' \in BOOLEAN /\ (use_draft' => use_draft)
        <3>1. use_draft' = use_draft \/ use_draft' = FALSE
            BY <1>3, Zenon DEF PrefillChunk
        <3>2. use_draft \in BOOLEAN
            BY DEF TypeOK
        <3>3. CASE use_draft' = use_draft
            BY <3>2, <3>3
        <3>4. CASE use_draft' = FALSE
            BY <3>4
        <3> QED
            BY <3>1, <3>3, <3>4
    <2>8. UNCHANGED <<statics, cached_tokens, stop_generation, pc,
                      may_reuse_prefix, prompt_tokens, n_prompt_tokens_total,
                      n_cur, roundVars, stream, history>>
        BY <1>3 DEF PrefillChunk
    <2>9. TypeOK'
        BY <2>3, <2>5, <2>6, <2>7, <2>8 DEF TypeOK, statics, roundVars, history
    <2> QED
        BY <1>1, <2>3, <2>4, <2>5, <2>7, <2>8, <2>9
           DEF PrefillInv, EmitInv, NoReuseInv, ExactInv, CacheExactUntilShift,
               CacheInUse, LoopPoints, roundVars, history
<1>4. CASE PrefillFails
    <2>1. PICK answer \in DecodeAnswers(n_eval, Chunk) :
             /\ answer.rc # "ok"
             /\ IF answer.rc = "abort"
                THEN Abort
                ELSE /\ mem' = answer.mem
                     /\ cached_tokens' = <<>>
                     /\ logits' = UnknownRows
                     /\ ReturnSilently
                     /\ UNCHANGED <<statics, stop_generation, shifted>>
        BY <1>4 DEF PrefillFails, PrefillFailsLeaving
    <2>2. CASE Abort
        BY <2>2, AbortKeepsIInv
    <2>3. CASE ~Abort
        <3>1. MemOK(mem')
            BY <1>1, <1>2, <1>4, <2>1, <2>3, DecodeAnswersOK
               DEF PrefillFails, PrefillFailsLeaving
        <3>2. <<>> \in Seq(Token) /\ UnknownRows \in Seq(Seq(Token) \cup {Blend})
            BY DEF UnknownRows
        <3> QED
            BY <2>1, <2>3, <3>1, <3>2, EndedCall
               DEF ReturnSilently, TypeOK, CacheExactUntilShift
    <2> QED
        BY <2>2, <2>3
<1>5. CASE PrefillDone
    <2>1. n_eval = Len(prompt_tokens)
        BY <1>1, <1>5 DEF PrefillDone
    <2>2. Prefix(prompt_tokens, n_eval) = prompt_tokens
        BY <1>1, <2>1 DEF Prefix
    <2>3. TypeOK'
        BY <1>1, <1>5 DEF PrefillDone, CacheAfterPrefill, TypeOK, LoopPoints,
                          statics, callConst, roundVars, history
    <2> QED
        BY <1>1, <1>5, <2>2, <2>3
           DEF PrefillDone, CacheAfterPrefill, PrefillInv, EmitInv, NoReuseInv,
               ExactInv, CacheExactUntilShift, CacheInUse, LoopPoints, statics,
               callConst, roundVars, history
<1> QED
    BY <1>3, <1>4, <1>5 DEF Prefill

-----------------------------------------------------------------------------
\* The head of the loop: nothing, an end, or a shift that gives up the entry.
LEMMA HeadKeepsIInv ==
    IInv /\ (LoopStops \/ LoopContinues \/ LoopShifts) => IInv'
<1> SUFFICES ASSUME IInv, LoopStops \/ LoopContinues \/ LoopShifts PROVE IInv'
    OBVIOUS
<1> USE DEF IInv
<1>1. CASE LoopStops
    BY <1>1, EndedCall DEF LoopStops, SendSentinel, TypeOK, CacheExactUntilShift,
                           CacheInUse, LoopPoints, memVars, statics
<1>2. CASE LoopContinues
    <2>1. TypeOK'
        BY <1>2 DEF LoopContinues, AfterHead, TypeOK, LoopPoints, statics, memVars,
                    callVars, callConst, roundVars, history
    <2> QED
        BY <1>2, <2>1
           DEF LoopContinues, AfterHead, PrefillInv, EmitInv, NoReuseInv, ExactInv,
               CacheExactUntilShift, CacheInUse, LoopPoints, TypeOK, statics,
               memVars, callVars, callConst, roundVars, history
<1>3. CASE LoopShifts
    <2>1. CASE CanDropWindow(mem, NKeep, NDiscard)
        <3>1. NKeep \in Nat /\ NDiscard \in Nat /\ n_cur \in Nat /\ n_cur' \in Nat
            BY <1>3, <2>1, ShiftOK DEF LoopShifts, TypeOK
        <3>2. /\ pc = "head" /\ cached_tokens' = <<>>
              /\ mem' = WindowDropped(mem, NKeep, NDiscard, n_cur)
              /\ reply' = <<>> /\ slid' = TRUE /\ shifted' = TRUE
              /\ pc' = AfterHead
              /\ UNCHANGED <<statics, logits, stop_generation, callConst,
                              roundVars, stream>>
            BY <1>3, <2>1 DEF LoopShifts
        <3>3. MemOK(mem') /\ mem' \in Memory
            BY <3>1, <3>2, WindowDroppedOK DEF MemOK
        <3>4. <<>> \in Seq(Token)
            OBVIOUS
        <3>5. TypeOK'
            BY <3>1, <3>2, <3>3, <3>4 DEF AfterHead, TypeOK, LoopPoints, statics,
                                          callConst, roundVars
        <3> QED
            BY <3>2, <3>3, <3>5
               DEF AfterHead, PrefillInv, EmitInv, NoReuseInv, ExactInv,
                   CacheExactUntilShift, LoopPoints, TypeOK, callConst, roundVars
    <2>2. CASE ~CanDropWindow(mem, NKeep, NDiscard)
        <3>1. <<>> \in Seq(Token)
            OBVIOUS
        <3> QED
            BY <1>3, <2>2, <3>1, EndedCall
               DEF LoopShifts, SendSentinel, TypeOK, CacheExactUntilShift
    <2> QED
        BY <2>1, <2>2
<1> QED
    BY <1>1, <1>2, <1>3

-----------------------------------------------------------------------------
\* Steps between the head of the loop and the emission leave mem, cached_tokens
\* and the prompt alone.
LEMMA SilentStep ==
    ASSUME IInv, pc \in LoopPoints, pc' \in LoopPoints,
           UNCHANGED <<statics, mem, cached_tokens, callConst, n_cur, slid,
                       shifted, stream>>,
           stop_generation' \in BOOLEAN,
           logits' \in Seq(Seq(Token) \cup {Blend}),
           draft_tokens' \in Seq(Vocab), n_accepted' \in Nat,
           t_extra' \in Vocab \cup {NoToken},
           is_eog_reached' \in BOOLEAN, sample_failed' \in BOOLEAN,
           reply' \in Seq(Token),
           EmitInv',
           draft_tokens' # <<>> => pc = "draft" \/ draft_tokens # <<>>,
           pc' \in {"draft", "verify", "rollback"} => ~may_reuse_prefix
    PROVE  IInv'
<1> USE DEF IInv
<1>1. TypeOK'
    BY DEF TypeOK, statics, callConst
<1>2. PrefillInv' /\ ExactInv'
    BY DEF PrefillInv, ExactInv, LoopPoints, callConst
<1>3. NoReuseInv'
    BY DEF NoReuseInv, LoopPoints, callConst
<1>4. CacheExactUntilShift'
    BY DEF CacheExactUntilShift, CacheInUse, statics
<1> QED
    BY <1>1, <1>2, <1>3, <1>4

\* Recording a sampled token keeps the reply a token sequence.
LEMMA RecordedType ==
    ASSUME TypeOK, NEW t \in Vocab
    PROVE  Recorded(t) \in Seq(Token)
BY Samplable DEF Recorded, TypeOK

\* Drafting and sampling.  Only a drafting call decodes here, and it has no
\* cache entry to invalidate.
LEMMA SampleKeepsIInv ==
    IInv /\ (\/ ProposeDraft \/ SamplerThrows \/ SampleWithoutLogits
             \/ SampleTarget \/ SampleConfirmsDraft) => IInv'
<1> SUFFICES ASSUME IInv, \/ ProposeDraft \/ SamplerThrows \/ SampleWithoutLogits
                          \/ SampleTarget \/ SampleConfirmsDraft
             PROVE  IInv'
    OBVIOUS
<1> USE DEF IInv
<1>1. CASE ProposeDraft
    <2>1. draft_tokens' \in Seq(Vocab)
        BY <1>1 DEF ProposeDraft
    <2> QED
        BY <1>1, <2>1, SilentStep DEF ProposeDraft, TypeOK, EmitInv, LoopPoints,
                                      memVars, history
<1>2. CASE SamplerThrows
    BY <1>2, EndedCall DEF SamplerThrows, SendSentinel, TypeOK,
                           CacheExactUntilShift, CacheInUse, LoopPoints, memVars,
                           statics
<1>3. CASE SampleWithoutLogits
    BY <1>3, AbortKeepsIInv DEF SampleWithoutLogits
<1>4. CASE SampleTarget
    <2>1. /\ pc = "sample" /\ pc' = "emit" /\ t_extra' \in Vocab /\ n_accepted' = 0
          /\ UNCHANGED <<statics, memVars, stop_generation, callConst, n_cur,
                          draft_tokens, is_eog_reached, sample_failed, stream,
                          history>>
        BY <1>4 DEF SampleTarget
    <2> QED
        BY <2>1, SilentStep DEF TypeOK, EmitInv, LoopPoints, memVars, history
<1>5. CASE SampleConfirmsDraft
    <2>1. /\ pc = "sample" /\ draft_tokens \in Seq(Vocab) /\ draft_tokens # <<>>
          /\ draft_tokens \in Seq(Token) /\ draft_tokens[1] \in Vocab
        BY <1>5, Samplable DEF SampleConfirmsDraft, TypeOK
    <2>2. ~may_reuse_prefix /\ cached_tokens = <<>>
        BY <2>1 DEF NoReuseInv
    <2>3. PICK answer \in DecodeAnswers(n_cur, draft_tokens) :
             /\ mem' = answer.mem
             /\ IF answer.rc = "ok"
                THEN /\ t_extra' = draft_tokens[1] /\ n_accepted' = 1
                     /\ reply' = Recorded(draft_tokens[1])
                     /\ is_eog_reached' = (draft_tokens[1] \in StopStrings)
                     /\ logits' = [k \in 1..Len(draft_tokens) |-> VerificationRow(k)]
                     /\ pc' = "verify"
                     /\ UNCHANGED <<callConst, n_cur, draft_tokens, sample_failed,
                                     stream, slid>>
                ELSE SendSentinel /\ logits' = UnknownRows
        BY <1>5 DEF SampleConfirmsDraft
    <2>4. UNCHANGED <<statics, cached_tokens, stop_generation, shifted>>
        BY <1>5 DEF SampleConfirmsDraft
    <2>5. MemOK(mem') /\ mem' \in Memory
        BY <2>1, <2>3, DecodeAnswersOK DEF TypeOK, MemOK
    <2>6. CASE answer.rc = "ok"
        <3>1. logits' \in Seq(Seq(Token) \cup {Blend})
            <4>1. \A k \in 1..Len(draft_tokens) :
                     VerificationRow(k) \in Seq(Token) \cup {Blend}
                <5> SUFFICES ASSUME NEW k \in 1..Len(draft_tokens)
                             PROVE  VerificationRow(k) \in Seq(Token) \cup {Blend}
                    OBVIOUS
                <5>1. SubSeq(draft_tokens, 1, k) \in Seq(Token)
                    BY <2>1
                <5>2. MemOK(Fed(mem, SubSeq(draft_tokens, 1, k)))
                    BY <5>1, FedOK
                <5> QED
                    BY <5>2, ContentType DEF VerificationRow
            <4>2. logits' = [k \in 1..Len(draft_tokens) |-> VerificationRow(k)]
                BY <2>3, <2>6
            <4>3. Len(draft_tokens) \in Nat
                BY <2>1
            <4> QED
                BY <4>1, <4>2, <4>3
        <3>2. is_eog_reached' \in BOOLEAN
            <4>1. is_eog_reached' = (draft_tokens[1] \in StopStrings)
                BY <2>3, <2>6
            <4> QED
                BY <4>1
        <3>3. reply' \in Seq(Token)
            BY <2>1, <2>3, <2>6, RecordedType
        <3>4. /\ t_extra' \in Vocab /\ n_accepted' \in Nat /\ pc' = "verify"
              /\ UNCHANGED <<statics, cached_tokens, stop_generation, shifted,
                              callConst, n_cur, draft_tokens, sample_failed,
                              stream, slid>>
            BY <2>1, <2>3, <2>4, <2>6
        <3>5. TypeOK'
            BY <2>5, <3>1, <3>2, <3>3, <3>4 DEF TypeOK, LoopPoints, statics, callConst
        <3> QED
            BY <2>1, <2>2, <2>5, <3>4, <3>5
               DEF PrefillInv, EmitInv, NoReuseInv, ExactInv, LoopPoints,
                   CacheExactUntilShift, CacheInUse, callConst
    <2>7. CASE answer.rc # "ok"
        <3>1. UnknownRows \in Seq(Seq(Token) \cup {Blend})
            BY DEF UnknownRows
        <3> QED
            BY <2>2, <2>3, <2>4, <2>5, <2>7, <3>1, EndedCall
               DEF SendSentinel, TypeOK, CacheExactUntilShift
    <2> QED
        BY <2>6, <2>7
<1> QED
    BY <1>1, <1>2, <1>3, <1>4, <1>5

\* Verification and rollback: only drafting calls get here.
LEMMA VerifyKeepsIInv == IInv /\ (Verify \/ Rollback) => IInv'
<1> SUFFICES ASSUME IInv, Verify \/ Rollback PROVE IInv'
    OBVIOUS
<1> USE DEF IInv
<1>1. /\ pc \in {"verify", "rollback"} /\ pc \in LoopPoints
      /\ ~may_reuse_prefix /\ cached_tokens = <<>>
      /\ t_extra \in Vocab /\ n_accepted \in Nat /\ draft_tokens \in Seq(Vocab)
    <2>1. pc \in {"verify", "rollback"}
        BY DEF Verify, VerifyAccepts, VerifyRejects, VerifyExhausted, VerifyThrows,
               Rollback
    <2> QED
        BY <2>1 DEF NoReuseInv, EmitInv, TypeOK, LoopPoints
<1>2. CASE VerifyAccepts
    <2> DEFINE t == draft_tokens[n_accepted + 1]
    <2>1. t \in Vocab
        BY <1>1, <1>2 DEF VerifyAccepts
    <2>2. reply' \in Seq(Token)
        BY <1>2, <2>1, RecordedType DEF VerifyAccepts
    <2>3. is_eog_reached' \in BOOLEAN
        BY <1>2, Zenon DEF VerifyAccepts
    <2>4. pc' \in {"rollback", "verify"} /\ n_accepted' \in Nat
        BY <1>1, <1>2 DEF VerifyAccepts
    <2>5. UNCHANGED <<statics, memVars, stop_generation, callConst, n_cur,
                      draft_tokens, t_extra, sample_failed, stream, slid, shifted>>
        BY <1>2 DEF VerifyAccepts
    <2> HIDE DEF t
    <2> QED
        BY <1>1, <2>2, <2>3, <2>4, <2>5, SilentStep
           DEF TypeOK, EmitInv, LoopPoints, memVars
<1>3. CASE VerifyRejects
    BY <1>1, <1>3, SilentStep DEF VerifyRejects, TypeOK, EmitInv, LoopPoints,
                                  memVars, history
<1>4. CASE VerifyExhausted
    <2>1. t_extra' \in Vocab
        BY <1>1, <1>4 DEF VerifyExhausted
    <2> QED
        BY <1>1, <1>4, <2>1, SilentStep
           DEF VerifyExhausted, TypeOK, EmitInv, LoopPoints, memVars, history
<1>5. CASE VerifyThrows
    BY <1>1, <1>5, SilentStep DEF VerifyThrows, TypeOK, EmitInv, LoopPoints,
                                  memVars, history
<1>6. CASE Rollback
    <2>1. MemOK(mem') /\ mem' \in Memory
        <3>1. EvictFrom \in Nat
            BY <1>1 DEF EvictFrom, TypeOK
        <3> QED
            BY <1>6, <3>1, SeqRmFromOK DEF Rollback, MemOK
    <2>2. UNCHANGED <<statics, logits, cached_tokens, stop_generation, shifted>>
        BY <1>6 DEF Rollback
    <2>3. CASE is_eog_reached \/ sample_failed
        BY <1>1, <1>6, <2>1, <2>2, <2>3, EndedCall
           DEF Rollback, SendSentinel, TypeOK, CacheExactUntilShift
    <2>4. CASE ~(is_eog_reached \/ sample_failed)
        <3>1. pc' = "emit" /\ UNCHANGED <<callVars, stream, reply, slid>>
            BY <1>6, <2>4 DEF Rollback
        <3>2. TypeOK'
            BY <2>1, <2>2, <3>1 DEF TypeOK, LoopPoints, statics, callVars,
                                    callConst, roundVars
        <3> QED
            BY <1>1, <2>1, <2>2, <3>1, <3>2
               DEF PrefillInv, EmitInv, NoReuseInv, ExactInv, LoopPoints,
                   CacheExactUntilShift, CacheInUse, callVars, callConst, roundVars
    <2> QED
        BY <2>3, <2>4
<1> QED
    BY <1>2, <1>3, <1>4, <1>5, <1>6 DEF Verify

\* Emission: the decoded token joins the memory and, where the prefix may be
\* reused, the entry; after a failed decode there is no entry.
LEMMA EmitKeepsIInv == IInv /\ Emit => IInv'
<1> SUFFICES ASSUME IInv, Emit PROVE IInv'
    OBVIOUS
<1> USE DEF IInv
<1>1. pc = "emit" /\ t_extra \in Vocab /\ t_extra \in Token /\ <<t_extra>> \in Seq(Token)
      /\ <<t_extra>> # <<>> /\ n_cur \in Nat /\ n_accepted \in Nat
    <2>1. pc = "emit"
        BY DEF Emit, EmitLast, EmitAndDecode, EmitDecodeFails
    <2> QED
        BY <2>1, Samplable DEF EmitInv, TypeOK
<1> DEFINE ts  == <<t_extra>>
           pos == n_cur + n_accepted
<1>5. ts \in Seq(Token) /\ ts # <<>> /\ pos \in Nat
    BY <1>1
<1>2. CASE EmitLast
    BY <1>1, <1>2, EndedCall DEF EmitLast, SendSentinel, TypeOK, LoopPoints,
                                 CacheExactUntilShift, CacheInUse, memVars, statics
<1>3. CASE EmitAndDecode
    <2>1. PICK answer \in DecodeAnswers(pos, ts) :
             answer.rc = "ok" /\ mem' = answer.mem
        BY <1>3 DEF EmitAndDecode
    <2> HIDE DEF ts, pos
    <2>2. MemOK(mem') /\ mem' \in Memory
        BY <1>5, <2>1, DecodeAnswersOK DEF MemOK
    <2>3. ASSUME ctx, may_reuse_prefix, ~shifted
          PROVE  Content(mem') = Append(cached_tokens, t_extra)
        <3>1. cached_tokens # <<>> /\ Content(mem) = cached_tokens
              /\ cached_tokens \in Seq(Token)
            BY <1>1, <2>3 DEF ExactInv, CacheExactUntilShift, CacheInUse, LoopPoints,
                              TypeOK
        <3>2. Content(mem') = cached_tokens \o ts
            BY <1>5, <2>1, <3>1, DecodedContent
        <3> QED
            BY <1>1, <3>1, <3>2 DEF ts
    <2>4. /\ cached_tokens' = IF may_reuse_prefix THEN Append(cached_tokens, t_extra)
                              ELSE cached_tokens
          /\ n_cur' = n_cur + n_accepted + 1 /\ logits' = <<Content(mem')>>
          /\ reply' = Recorded(t_extra)
          /\ draft_tokens' = <<>> /\ n_accepted' = 0 /\ t_extra' = NoToken
          /\ pc' = "head"
          /\ UNCHANGED <<statics, stop_generation, callConst, is_eog_reached,
                          sample_failed, stream, slid, shifted>>
        BY <1>3 DEF EmitAndDecode, Mirrored
    <2>5. cached_tokens' \in Seq(Token) /\ reply' \in Seq(Token) /\ n_cur' \in Nat
          /\ <<>> \in Seq(Vocab)
        BY <1>1, <2>4, RecordedType DEF TypeOK
    <2>6. logits' \in Seq(Seq(Token) \cup {Blend})
        BY <2>2, <2>4, RowType
    <2>7. TypeOK'
        BY <2>2, <2>4, <2>5, <2>6 DEF TypeOK, LoopPoints, statics, callConst
    <2>8. may_reuse_prefix => cached_tokens' # <<>>
        <3>1. cached_tokens \in Seq(Token)
            BY DEF TypeOK
        <3>2. Append(cached_tokens, t_extra) # <<>>
            BY <3>1, <1>1, AppendNotEmpty
        <3> QED
            BY <2>4, <3>2
    <2>9. ~may_reuse_prefix => cached_tokens' = <<>>
        BY <1>1, <2>4 DEF NoReuseInv
    <2> QED
        BY <1>1, <2>2, <2>3, <2>4, <2>7, <2>8, <2>9
           DEF PrefillInv, EmitInv, NoReuseInv, ExactInv, CacheExactUntilShift,
               CacheInUse, LoopPoints, statics, callConst
<1>4. CASE EmitDecodeFails
    <2>1. PICK answer \in DecodeAnswers(pos, ts) :
             answer.rc = "error" /\ mem' = answer.mem
        BY <1>4 DEF EmitDecodeFails
    <2> HIDE DEF ts, pos
    <2>2. MemOK(mem')
        BY <1>5, <2>1, DecodeAnswersOK
    <2>3. <<>> \in Seq(Token) /\ UnknownRows \in Seq(Seq(Token) \cup {Blend})
        BY DEF UnknownRows
    <2> QED
        BY <1>4, <2>2, <2>3, EndedCall
           DEF EmitDecodeFails, SendSentinel, TypeOK, CacheExactUntilShift
<1> QED
    BY <1>2, <1>3, <1>4 DEF Emit

-----------------------------------------------------------------------------
\* Every step of the bridge keeps IInv.
LEMMA IInvInductive == IInv /\ [Next]_vars => IInv'
<1> SUFFICES ASSUME IInv, [Next]_vars PROVE IInv'
    OBVIOUS
<1>1. CASE Lifecycle
    BY <1>1, LifecycleKeepsIInv
<1>2. CASE StartCall
    BY <1>2, StartKeepsIInv
<1>3. CASE Media
    BY <1>3, MediaKeepsIInv
<1>4. CASE Prefill
    BY <1>4, PrefillKeepsIInv
<1>5. CASE Reply
    BY <1>5, HeadKeepsIInv, SampleKeepsIInv, VerifyKeepsIInv, EmitKeepsIInv DEF Reply
<1>6. CASE AbortGeneration
    BY <1>6 DEF AbortGeneration, IInv, TypeOK, PrefillInv, EmitInv, NoReuseInv,
                ExactInv, CacheExactUntilShift, CacheInUse, LoopPoints, statics,
                memVars, callVars, callConst, roundVars, history
<1>7. CASE UNCHANGED vars
    BY <1>7 DEF vars, IInv, TypeOK, PrefillInv, EmitInv, NoReuseInv, ExactInv,
                CacheExactUntilShift, CacheInUse, LoopPoints, statics, memVars,
                callVars, callConst, roundVars, history
<1> QED
    BY <1>1, <1>2, <1>3, <1>4, <1>5, <1>6, <1>7 DEF Next, Generate

\* The strengthened invariant of the bridge, for every value of its constants.
THEOREM EngineInvariant == Spec => []IInv
<1>1. Init => IInv
    <2> SUFFICES ASSUME Init PROVE IInv
        OBVIOUS
    <2>1. <<>> \in Seq(Token) /\ <<>> \in Seq(Vocab)
          /\ <<>> \in Seq(Seq(Token) \cup {Blend})
        OBVIOUS
    <2>2. TypeOK
        BY <2>1, ClearedContent DEF Init, TypeOK, MemOK
    <2> QED
        BY <2>2, ClearedContent
           DEF Init, IInv, PrefillInv, EmitInv, NoReuseInv, ExactInv,
               CacheExactUntilShift, LoopPoints
<1> QED
    BY <1>1, IInvInductive, PTL DEF Spec

\* The statics and locals of native-lib.cpp keep their types: the cursor never
\* becomes negative, what is decoded or mirrored is always a token.
THEOREM EngineTypeOK == Spec => []TypeOK
<1>1. IInv => TypeOK
    BY DEF IInv
<1> QED
    BY <1>1, EngineInvariant, PTL

\* cached_tokens names what the KV cache holds (native-lib.cpp:44-53) as long as
\* no context shift has happened since the memory was last wiped.
THEOREM EngineCacheExact == Spec => []CacheExactUntilShift
<1>1. IInv => CacheExactUntilShift
    BY DEF IInv
<1> QED
    BY <1>1, EngineInvariant, PTL
-----------------------------------------------------------------------------
\* A round verifies no more tokens than its draft has, and drafts no more than NDraft.
RoundInv ==
    /\ Len(draft_tokens) <= NDraft
    /\ pc = "verify" => n_accepted <= Len(draft_tokens)

\* One statement per group of actions: draft_tokens is what it was, or empty, or at
\* most NDraft tokens, and the count of accepted ones stays within it.
LEMMA RoundInductive == IInv /\ RoundInv /\ [Next]_vars => RoundInv'
<1> SUFFICES ASSUME IInv, RoundInv, [Next]_vars PROVE RoundInv'
    OBVIOUS
<1>1. /\ NDraft \in Nat \ {0} /\ draft_tokens \in Seq(Vocab) /\ n_accepted \in Nat
      /\ Len(draft_tokens) \in Nat
    BY EngineAssumption DEF IInv, TypeOK
<1>2. ASSUME draft_tokens' = draft_tokens \/ draft_tokens' = <<>>, pc' # "verify"
      PROVE  RoundInv'
    BY <1>1, <1>2 DEF RoundInv
<1>3. CASE NoCall /\ pc' # "verify"
    BY <1>2, <1>3 DEF NoCall
<1>4. CASE ProposeDraft
    <2>1. PICK n \in 1..NDraft : draft_tokens' \in [1..n -> Vocab]
        BY <1>4 DEF ProposeDraft
    <2>2. Len(draft_tokens') = n
        BY <2>1, <1>1
    <2> QED
        BY <1>1, <1>4, <2>2 DEF ProposeDraft, RoundInv
<1>5. CASE SampleConfirmsDraft
    <2>1. \/ SendSentinel
          \/ draft_tokens # <<>> /\ n_accepted' = 1 /\ draft_tokens' = draft_tokens
        BY <1>5 DEF SampleConfirmsDraft
    <2> QED
        BY <1>1, <1>3, <2>1 DEF SendSentinel, RoundInv
<1>6. CASE VerifyAccepts
    BY <1>1, <1>6 DEF VerifyAccepts, RoundInv
<1>7. CASE Lifecycle \/ StartCall
    <2>1. roundVars' = roundVars /\ pc' # "verify"
        BY <1>7 DEF Lifecycle, InitLlama, InitRefused, ResetContext, ResetContextTo,
               InitVision, InitDraftModel, DisposeLlama, GetEmbedding, EmbeddingLeaving,
               Abort, StartCall, StartWithoutContext, StartText, StartMedia,
               StartMediaLeaving, callVars
    <2> QED
        BY <1>2, <2>1 DEF roundVars
<1>8. CASE Media \/ Prefill
    <2>1. \/ NoCall /\ pc' # "verify"
          \/ roundVars' = roundVars /\ pc' # "verify"
        BY <1>8 DEF Media, MediaTokenizeFails, SendSentinel, MediaEvaluated, MediaEvalFails,
               Prefill, PrefillChunk, PrefillFails, PrefillFailsLeaving, ReturnSilently,
               Abort, PrefillDone, callVars
    <2> QED
        BY <1>2, <1>3, <2>1 DEF roundVars
<1>9. CASE \/ LoopStops \/ LoopContinues \/ LoopShifts \/ SamplerThrows
           \/ SampleWithoutLogits \/ SampleTarget \/ VerifyRejects \/ VerifyExhausted
           \/ VerifyThrows \/ Rollback \/ Emit
    <2>1. \/ NoCall /\ pc' # "verify"
          \/ draft_tokens' \in {draft_tokens, <<>>} /\ pc' # "verify"
        BY <1>9 DEF LoopStops, LoopContinues, LoopShifts, SamplerThrows,
               SampleWithoutLogits, SampleTarget, VerifyRejects, VerifyExhausted,
               VerifyThrows, Rollback, Emit, EmitLast, EmitAndDecode, EmitDecodeFails,
               SendSentinel, Abort, AfterHead, callVars, roundVars
    <2> QED
        BY <1>2, <1>3, <2>1
<1>10. CASE AbortGeneration \/ UNCHANGED vars
    BY <1>10 DEF RoundInv, AbortGeneration, vars, callVars, roundVars
<1> QED
    BY <1>4, <1>5, <1>6, <1>7, <1>8, <1>9, <1>10 DEF Next, Generate, Reply, Verify

\* Where the call can be, and what is left of it there.
WhatIsLeft ==
    /\ StepsLeft \in Nat
    /\ pc \in {"idle", "aborted"} => StepsLeft = 0
    /\ pc \notin {"idle", "aborted"} => StepsLeft >= 1
    /\ pc = "head" => StepsLeft = 1
    /\ pc \in {"emit", "media"} => StepsLeft = 2
    /\ pc = "rollback" => StepsLeft = 3
    /\ pc = "verify" => StepsLeft = 4 + Len(draft_tokens) - n_accepted
    /\ pc = "sample" => StepsLeft = 4 + NDraft
    /\ pc = "draft" => StepsLeft = 5 + NDraft
    /\ pc = "prefill" => StepsLeft = 2 + Len(prompt_tokens) - n_eval

LEMMA StepsLeftAt == IInv /\ RoundInv => WhatIsLeft
<1> SUFFICES ASSUME IInv, RoundInv PROVE WhatIsLeft
    OBVIOUS
<1>1. /\ NDraft \in Nat \ {0} /\ Len(draft_tokens) \in Nat /\ n_accepted \in Nat
      /\ Len(prompt_tokens) \in Nat /\ n_eval \in Nat
    BY EngineAssumption DEF IInv, TypeOK
<1>2. CASE pc \in {"idle", "aborted", "head", "emit", "media"}
    BY <1>2 DEF WhatIsLeft, StepsLeft
<1>3. CASE pc \in {"rollback", "sample", "draft"}
    BY <1>1, <1>3 DEF WhatIsLeft, StepsLeft
<1>4. CASE pc = "verify"
    BY <1>1, <1>4 DEF WhatIsLeft, StepsLeft, RoundInv
<1>5. CASE pc = "prefill"
    BY <1>1, <1>5 DEF WhatIsLeft, StepsLeft, IInv, PrefillInv
<1>6. pc \in {"idle", "aborted", "head", "emit", "media", "rollback", "sample", "draft",
              "verify", "prefill"}
    BY DEF IInv, TypeOK, LoopPoints
<1> QED
    BY <1>2, <1>3, <1>4, <1>5, <1>6

LEMMA CountsDown ==
    ASSUME IInv, RoundInv, IInv', RoundInv', Generate, stop_generation
    PROVE  StepsLeft' \in 0..(StepsLeft - 1)
<1>1. WhatIsLeft /\ WhatIsLeft'
    BY StepsLeftAt, PTL
<1>2. /\ NDraft \in Nat \ {0} /\ Len(draft_tokens) \in Nat /\ n_accepted \in Nat
      /\ Len(prompt_tokens) \in Nat /\ n_eval \in Nat
      /\ StepsLeft \in Nat /\ StepsLeft' \in Nat
    <2>1. /\ NDraft \in Nat \ {0} /\ Len(draft_tokens) \in Nat /\ n_accepted \in Nat
          /\ Len(prompt_tokens) \in Nat /\ n_eval \in Nat
        BY EngineAssumption DEF IInv, TypeOK
    <2> QED
        BY <1>1, <2>1 DEF WhatIsLeft
<1> SUFFICES StepsLeft' < StepsLeft
    BY <1>2
<1>3. ASSUME pc \notin {"idle", "aborted"}, pc' \in {"idle", "aborted"}
      PROVE  StepsLeft' < StepsLeft
    BY <1>1, <1>3 DEF WhatIsLeft
<1>4. CASE Media
    <2>1. pc = "media" /\ pc' \in {"idle", "head"}
        BY <1>4 DEF Media, MediaTokenizeFails, SendSentinel, MediaEvaluated, MediaEvalFails
    <2> QED
        BY <1>1, <2>1 DEF WhatIsLeft
<1>5. CASE PrefillChunk
    <2>1. /\ pc = "prefill" /\ pc' = "prefill" /\ prompt_tokens' = prompt_tokens
          /\ n_eval < Len(prompt_tokens) /\ n_eval' = n_eval + Len(Chunk)
        BY <1>5 DEF PrefillChunk
    <2>2. n_eval' > n_eval
        <3>1. Chunk \in Seq(Token) /\ Chunk # <<>>
            BY <2>1, ChunkOK DEF IInv, TypeOK
        <3>2. Len(Chunk) \in Nat \ {0}
            BY <3>1
        <3> QED
            BY <1>2, <2>1, <3>2
    <2>3. n_eval' \in Nat
        BY DEF IInv, TypeOK
    <2> QED
        BY <1>1, <1>2, <2>1, <2>2, <2>3 DEF WhatIsLeft
<1>6. CASE PrefillFails
    BY <1>3, <1>6 DEF PrefillFails, PrefillFailsLeaving, ReturnSilently, Abort
<1>7. CASE PrefillDone
    <2>1. pc = "prefill" /\ pc' = "head" /\ n_eval <= Len(prompt_tokens)
        BY <1>7 DEF PrefillDone, IInv, PrefillInv
    <2> QED
        BY <1>1, <1>2, <2>1 DEF WhatIsLeft
<1>8. CASE LoopStops \/ SamplerThrows \/ SampleWithoutLogits \/ EmitLast \/ EmitDecodeFails
    BY <1>3, <1>8 DEF LoopStops, SamplerThrows, SampleWithoutLogits, EmitLast,
                      EmitDecodeFails, SendSentinel, Abort
\* The head of the loop sees the flag.
<1>9. ~LoopContinues /\ ~LoopShifts
    BY DEF LoopContinues, LoopShifts, Stopped
<1>10. CASE ProposeDraft
    BY <1>1, <1>2, <1>10 DEF ProposeDraft, WhatIsLeft
<1>11. CASE SampleTarget
    BY <1>1, <1>2, <1>11 DEF SampleTarget, WhatIsLeft
<1>12. CASE SampleConfirmsDraft
    <2>1. pc = "sample"
        BY <1>12 DEF SampleConfirmsDraft
    <2>2. CASE SendSentinel
        BY <1>3, <2>1, <2>2 DEF SendSentinel
    <2>3. CASE pc' = "verify" /\ n_accepted' = 1 /\ draft_tokens' = draft_tokens
        BY <1>1, <1>2, <2>1, <2>3 DEF WhatIsLeft, RoundInv
    <2> QED
        BY <1>12, <2>2, <2>3 DEF SampleConfirmsDraft
<1>13. CASE VerifyAccepts
    <2>1. /\ pc = "verify" /\ n_accepted < Len(draft_tokens) /\ pc' \in {"rollback", "verify"}
          /\ n_accepted' = n_accepted + 1 /\ draft_tokens' = draft_tokens
        BY <1>13 DEF VerifyAccepts
    <2> QED
        BY <1>1, <1>2, <2>1 DEF WhatIsLeft
<1>14. CASE VerifyRejects \/ VerifyExhausted \/ VerifyThrows
    <2>1. pc = "verify" /\ pc' = "rollback" /\ n_accepted <= Len(draft_tokens)
        BY <1>14 DEF VerifyRejects, VerifyExhausted, VerifyThrows, RoundInv
    <2> QED
        BY <1>1, <1>2, <2>1 DEF WhatIsLeft
<1>15. CASE Rollback
    <2>1. pc = "rollback" /\ pc' \in {"idle", "emit"}
        BY <1>15 DEF Rollback, SendSentinel
    <2> QED
        BY <1>1, <1>2, <2>1 DEF WhatIsLeft
<1>16. CASE EmitAndDecode
    BY <1>1, <1>2, <1>16 DEF EmitAndDecode, WhatIsLeft
<1> QED
    BY <1>4, <1>5, <1>6, <1>7, <1>8, <1>9, <1>10, <1>11, <1>12, <1>13, <1>14, <1>15, <1>16
       DEF Generate, Prefill, Reply, Verify, Emit

\* "force stops the current generation loop" (native_llama.dart:196): once the flag
\* is stored each step of the call lowers the number of those it has left.
THEOREM EngineCountsDownWhenAborted == Spec => AbortedCallCountsDown
<1>1. IInv /\ RoundInv /\ IInv' /\ RoundInv' /\ [Next]_vars
      => [Generate /\ stop_generation => StepsLeft' \in 0..(StepsLeft - 1)]_vars
    BY CountsDown
<1>2. Init => RoundInv
    BY EngineAssumption DEF Init, RoundInv
<1> QED
    BY <1>1, <1>2, RoundInductive, EngineInvariant, PTL DEF Spec, AbortedCallCountsDown
=============================================================================
