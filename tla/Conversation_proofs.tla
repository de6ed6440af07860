------------------------- MODULE Conversation_proofs ------------------------
(***************************************************************************)
(* NativeEngine implements Conversation: with its cache, drafts, failures, *)
(* resets and aborts, the engine seen from Dart is one that samples every  *)
(* token from prompt and reply.  Proved for every value of the constants,  *)
(* when every prompt opens with a token no sampler returns (BOS), and      *)
(* embeddings are left to models with attention only.                      *)
(*                                                                         *)
(* IInv says what the memory holds during the prefill.  Here it is         *)
(* followed through the reply: what each output row was computed from, and *)
(* which part of a decoded draft belongs to the conversation (CInv).  What *)
(* the memory holds is unknown after a context shift; where it ends is not *)
(* (EndInv), and from there come the cursor and the end tokens.            *)
(***************************************************************************)
EXTENDS NativeEngine_proofs

\* A sampled token never opens a prompt.  Without it an entry that restarted
\* after a context shift could be taken for the beginning of a prompt.
PromptsOpenWithBos == \A p \in Prompts : p[1] \notin Vocab

\* getEmbedding does not meet a recurrent tail.
EmbeddingsAreSafe == Arch = "attention" \/ "embedding" \notin Features

Said == prompt_tokens \o reply

\* The whole prompt has been read, and nothing has been shifted away.
Kept == ~slid /\ n_prompt_tokens_total = Len(prompt_tokens)

\* Nothing has been said before the reply loop.
QuietInv ==
    pc \in {"idle", "media", "prefill"} =>
        reply = <<>> /\ ~slid /\ n_accepted = 0 /\ draft_tokens = <<>>

\* A call that may reuse the prefix mirrors what it says.
MirrorInv ==
    pc \in LoopPoints /\ may_reuse_prefix /\ ~slid => cached_tokens = Said

\* A shift of an earlier call is over when a reply begins, and until the
\* memory is wiped the entry can only start with a sampled token.
ShiftInv ==
    /\ pc \in {"media", "prefill"} \cup LoopPoints /\ ~slid => ~shifted
    /\ shifted => cached_tokens = <<>> \/ cached_tokens[1] \in Vocab

PromptInv ==
    /\ pc = "media" => Content(mem) = <<>>
    /\ pc = "prefill" => n_prompt_tokens_total = Len(prompt_tokens)
    /\ pc = "prefill" /\ n_eval = Len(prompt_tokens) => logits = <<Content(mem)>>

\* The next token is sampled behind the conversation.
RowInv ==
    Kept /\ pc \in {"head", "draft", "sample"} =>
        /\ Content(mem) = Said /\ n_cur = Len(Said) /\ n_accepted = 0
        /\ logits # <<>> /\ logits[Len(logits)] = Said

\* While a draft is verified the memory runs ahead of the conversation: behind
\* n_cur it holds the draft, whose accepted part has been said.
Ahead(c) ==
    /\ Len(c) = n_cur + Len(draft_tokens)
    /\ n_accepted \in 1..Len(draft_tokens)
    /\ \A j \in 1..Len(draft_tokens) : c[n_cur + j] = draft_tokens[j]
    /\ Len(logits) = Len(draft_tokens)
    /\ \A k \in 1..Len(draft_tokens) : logits[k] = SubSeq(c, 1, n_cur + k)
    /\ SubSeq(c, 1, n_cur + n_accepted) = Said

VerifyInv ==
    Kept /\ pc \in {"verify", "rollback"} =>
        Content(mem) # Blend /\ Ahead(Content(mem))

\* A rollback that was refused leaves a memory that accepts no further token.
TailInv ==
    Kept /\ pc = "emit" /\ Accepts(mem, n_cur + n_accepted) =>
        Content(mem) = Said /\ n_cur + n_accepted = Len(Said)

MInv == QuietInv /\ MirrorInv
CInv == QuietInv /\ ShiftInv /\ PromptInv /\ RowInv /\ VerifyInv /\ TailInv

-----------------------------------------------------------------------------
\* A memory that something describes ends where the description ends.
LEMMA PosMaxOfContent ==
    ASSUME NEW m, MemOK(m), Content(m) # Blend
    PROVE  /\ Content(m) \in Seq(Token)
           /\ PosMax(m) = Len(Content(m)) - 1
<1>1. m.toks \in Seq(Token) /\ m.state \in Seq(Token) \cup {Blend} /\ m.last \in Int
      /\ m.tail \in {"none", "live", "stale"}
    BY DEF MemOK, Memory
<1>2. Content(m) \in Seq(Token)
    BY ContentType
<1>3. HasRecurrent /\ m.state # Blend => m.last = Len(m.state) - 1
    BY <1>1 DEF MemOK
<1>4. CASE Arch = "attention"
    BY <1>2, <1>4 DEF Content, AttentionContent, PosMax
<1>5. CASE Arch = "recurrent"
    BY <1>2, <1>3, <1>5, Kinds DEF Content, PosMax
<1>6. CASE Arch = "hybrid"
    <2>1. Content(m) = m.state /\ m.state = AttentionContent(m) /\ m.state # Blend
        BY <1>6 DEF Content
    <2>2. m.state = m.toks
        BY <2>1 DEF AttentionContent
    <2> QED
        BY <1>2, <1>3, <1>6, <2>1, <2>2, Kinds DEF PosMax, Smaller
<1> QED
    BY <1>2, <1>4, <1>5, <1>6, Kinds

\* What saying one more token does to the conversation.
LEMMA SaidGrows ==
    ASSUME NEW p \in Seq(Token), NEW r \in Seq(Token), NEW t \in Token
    PROVE  /\ p \o Append(r, t) = (p \o r) \o <<t>>
           /\ Append(p \o r, t) = p \o Append(r, t)
           /\ p \o r \in Seq(Token) /\ Len((p \o r) \o <<t>>) = Len(p \o r) + 1
<1>1. p \o r \in Seq(Token) /\ Len((p \o r) \o <<t>>) = Len(p \o r) + 1
    OBVIOUS
<1>2. p \o Append(r, t) = (p \o r) \o <<t>>
    OBVIOUS
<1>3. Append(p \o r, t) = p \o Append(r, t)
    OBVIOUS
<1> QED
    BY <1>1, <1>2, <1>3

LEMMA NothingSaid ==
    ASSUME NEW p \in Seq(Token)
    PROVE  p \o <<>> = p
OBVIOUS

\* The first n tokens of s and one more.
LEMMA PrefixGrows ==
    ASSUME NEW s \in Seq(Token), NEW n \in Nat, n < Len(s)
    PROVE  SubSeq(s, 1, n + 1) = SubSeq(s, 1, n) \o <<s[n + 1]>>
OBVIOUS

LEMMA WholePrefix ==
    ASSUME NEW s \in Seq(Token)
    PROVE  SubSeq(s, 1, Len(s)) = s
OBVIOUS

\* What is reused is the beginning of both the entry and the prompt.
LEMMA ReuseIsCommon ==
    ASSUME NEW m, NEW cached \in Seq(Token), NEW p \in Seq(Token), p # <<>>,
           NEW may \in BOOLEAN,
           NEW r, r = PreparedFor(m, cached, p, may), r.n_reuse # 0
    PROVE  cached # <<>> /\ cached[1] = p[1]
<1> DEFINE plan == PlanPrefixReuse(cached, p, may)
           n    == plan.n_reuse
<1>1. /\ n \in 0..(Len(p) - 1) /\ n <= Len(cached)
      /\ SubSeq(cached, 1, n) = SubSeq(p, 1, n)
    BY PlanPrefixReuseSound
<1> HIDE DEF plan
<1>2. r.n_reuse = n
    BY DEF PreparedFor, plan
<1>3. n \in Nat /\ n >= 1 /\ Len(cached) \in Nat
    BY <1>1, <1>2
<1>4. SubSeq(cached, 1, n)[1] = cached[1] /\ SubSeq(p, 1, n)[1] = p[1]
    BY <1>1, <1>3
<1> QED
    BY <1>1, <1>3, <1>4

-----------------------------------------------------------------------------
\* The entry is complete.

\* A call that ends, or does not begin, says nothing.
LEMMA EndIsQuiet ==
    ASSUME NoCall, pc' = "idle"
    PROVE  MInv'
BY DEF MInv, NoCall, QuietInv, MirrorInv, LoopPoints

\* Between calls nothing is said and nothing is mirrored.
LEMMA StaysQuiet ==
    ASSUME IInv, MInv, pc \in {"idle", "media", "prefill"},
           pc' \in {"idle", "media", "prefill", "aborted"},
           UNCHANGED <<reply, slid, n_accepted, draft_tokens>>
    PROVE  MInv'
BY DEF MInv, QuietInv, MirrorInv, LoopPoints

\* A step of the reply loop that leaves conversation and entry alone.
LEMMA MirrorKept ==
    ASSUME MInv, pc \in LoopPoints, pc' \in LoopPoints \cup {"aborted"},
           UNCHANGED <<may_reuse_prefix, cached_tokens, prompt_tokens, reply, slid>>
    PROVE  MInv'
BY DEF MInv, QuietInv, MirrorInv, LoopPoints, Said

\* A step of the reply loop in a call that may not reuse the prefix.
LEMMA NothingMirrored ==
    ASSUME MInv, ~may_reuse_prefix', pc' \in LoopPoints
    PROVE  MInv'
BY DEF MInv, QuietInv, MirrorInv, LoopPoints

\* Calls begin between calls, and not in the reply loop.
LEMMA CallsBeginQuietly ==
    ASSUME StartCall
    PROVE  /\ pc = "idle" /\ pc' \in {"idle", "media", "prefill"}
           /\ UNCHANGED <<reply, slid, n_accepted, draft_tokens>>
<1>1. CASE StartWithoutContext
    BY <1>1 DEF StartWithoutContext, callVars, roundVars, history
<1>2. ASSUME NEW p \in Prompts, StartMedia(p)
      PROVE  /\ pc = "idle" /\ pc' = "media"
             /\ UNCHANGED <<reply, slid, n_accepted, draft_tokens>>
    BY <1>2 DEF StartMedia, StartMediaLeaving, roundVars
<1>3. ASSUME NEW p \in Prompts, NEW media \in BOOLEAN, NEW grammar \in BOOLEAN,
             StartText(p, media, grammar)
      PROVE  /\ pc = "idle" /\ pc' = "prefill"
             /\ UNCHANGED <<reply, slid, n_accepted, draft_tokens>>
    BY <1>3 DEF StartText, roundVars
<1> QED
    BY <1>1, <1>2, <1>3 DEF StartCall

LEMMA MInvInductive == IInv /\ MInv /\ [Next]_vars => MInv'
<1> SUFFICES ASSUME IInv, MInv, [Next]_vars PROVE MInv'
    OBVIOUS
<1>1. CASE Lifecycle
    <2>1. pc = "idle" /\ pc' \in {"idle", "aborted"}
          /\ UNCHANGED <<reply, slid, n_accepted, draft_tokens>>
        BY <1>1 DEF Lifecycle, InitLlama, InitRefused, ResetContext, ResetContextTo,
                    InitVision, InitDraftModel, DisposeLlama, GetEmbedding,
                    EmbeddingLeaving, Abort, callVars, roundVars, history
    <2> QED
        BY <2>1, StaysQuiet
<1>2. CASE StartCall
    <2>1. pc = "idle" /\ pc' \in {"idle", "media", "prefill"}
          /\ UNCHANGED <<reply, slid, n_accepted, draft_tokens>>
        BY <1>2, CallsBeginQuietly
    <2> QED
        BY <2>1, StaysQuiet
<1>3. CASE Media
    <2>1. CASE MediaTokenizeFails
        BY <2>1, EndIsQuiet DEF MediaTokenizeFails, SendSentinel
    <2>2. CASE MediaEvaluated \/ MediaEvalFails
        <3>1. pc = "media" /\ pc' = "head" /\ UNCHANGED may_reuse_prefix
            BY <2>2 DEF MediaEvaluated, MediaEvalFails
        <3> QED
            BY <3>1, NothingMirrored DEF IInv, NoReuseInv, LoopPoints
    <2> QED
        BY <1>3, <2>1, <2>2 DEF Media
<1>4. CASE Prefill
    <2>1. CASE PrefillChunk
        BY <2>1, StaysQuiet DEF PrefillChunk, roundVars, history
    <2>2. CASE PrefillFails
        <3>1. CASE Abort
            BY <2>2, <3>1, StaysQuiet DEF PrefillFails, PrefillFailsLeaving, Abort,
                                          callVars, roundVars, history
        <3>2. CASE ReturnSilently
            BY <3>2, EndIsQuiet DEF ReturnSilently
        <3> QED
            BY <2>2, <3>1, <3>2 DEF PrefillFails, PrefillFailsLeaving
    <2>3. CASE PrefillDone
        <3>1. /\ pc = "prefill" /\ pc' = "head" /\ UNCHANGED <<callConst, reply, slid>>
              /\ may_reuse_prefix => cached_tokens' = prompt_tokens
            BY <2>3 DEF PrefillDone, CacheAfterPrefill, history
        <3>2. reply = <<>> /\ prompt_tokens \o <<>> = prompt_tokens
            BY <3>1, NothingSaid DEF MInv, QuietInv, IInv, TypeOK
        <3> QED
            BY <3>1, <3>2 DEF MInv, QuietInv, MirrorInv, Said, callConst, LoopPoints
    <2> QED
        BY <1>4, <2>1, <2>2, <2>3 DEF Prefill
<1>5. CASE Reply
    <2>1. CASE LoopStops \/ SamplerThrows \/ EmitLast \/ EmitDecodeFails
        BY <2>1, EndIsQuiet DEF LoopStops, SamplerThrows, EmitLast, EmitDecodeFails,
                                SendSentinel
    <2>2. CASE LoopContinues \/ ProposeDraft \/ SampleWithoutLogits \/ SampleTarget
                 \/ VerifyRejects \/ VerifyExhausted \/ VerifyThrows
        <3>1. pc \in LoopPoints /\ pc' \in LoopPoints \cup {"aborted"}
              /\ UNCHANGED <<may_reuse_prefix, cached_tokens, prompt_tokens, reply, slid>>
            BY <2>2 DEF LoopContinues, AfterHead, ProposeDraft, SampleWithoutLogits,
                        SampleTarget, VerifyRejects, VerifyExhausted, VerifyThrows,
                        Abort, LoopPoints, memVars, callVars, callConst, history
        <3> QED
            BY <3>1, MirrorKept
    <2>3. CASE LoopShifts
        <3>1. CASE SendSentinel
            BY <3>1, EndIsQuiet DEF SendSentinel
        <3>2. CASE slid' = TRUE /\ pc' = AfterHead
            BY <3>2 DEF MInv, QuietInv, MirrorInv, AfterHead
        <3> QED
            BY <2>3, <3>1, <3>2 DEF LoopShifts
    <2>4. CASE SampleConfirmsDraft
        <3>1. CASE SendSentinel
            BY <3>1, EndIsQuiet DEF SendSentinel
        <3>2. CASE pc' = "verify" /\ UNCHANGED callConst
            <4>1. draft_tokens # <<>>
                BY <2>4 DEF SampleConfirmsDraft
            <4> QED
                BY <3>2, <4>1, NothingMirrored DEF IInv, NoReuseInv, callConst, LoopPoints
        <3> QED
            BY <2>4, <3>1, <3>2 DEF SampleConfirmsDraft
    <2>5. CASE VerifyAccepts
        <3>1. pc = "verify" /\ pc' \in {"rollback", "verify"} /\ UNCHANGED callConst
            BY <2>5 DEF VerifyAccepts
        <3> QED
            BY <3>1, NothingMirrored DEF IInv, NoReuseInv, callConst, LoopPoints
    <2>6. CASE Rollback
        <3>1. CASE SendSentinel
            BY <3>1, EndIsQuiet DEF SendSentinel
        <3>2. CASE pc = "rollback" /\ pc' = "emit" /\ UNCHANGED callVars
            BY <3>2, NothingMirrored DEF IInv, NoReuseInv, callVars, callConst, LoopPoints
        <3> QED
            BY <2>6, <3>1, <3>2 DEF Rollback
    <2>7. CASE EmitAndDecode
        <3>1. /\ pc = "emit" /\ pc' = "head" /\ UNCHANGED <<callConst, slid>>
              /\ reply' = Recorded(t_extra)
              /\ may_reuse_prefix => cached_tokens' = Append(cached_tokens, t_extra)
            BY <2>7 DEF EmitAndDecode, Mirrored
        <3>2. t_extra \in Token /\ prompt_tokens \in Seq(Token) /\ reply \in Seq(Token)
            BY <3>1, Samplable DEF IInv, EmitInv, TypeOK
        <3>3. Append(Said, t_extra) = prompt_tokens \o Append(reply, t_extra)
            BY <3>2, SaidGrows DEF Said
        <3> QED
            BY <3>1, <3>3
               DEF MInv, QuietInv, MirrorInv, Recorded, Said, callConst, LoopPoints
    <2> QED
        BY <1>5, <2>1, <2>2, <2>3, <2>4, <2>5, <2>6, <2>7 DEF Reply, Verify, Emit
<1>6. CASE AbortGeneration
    <2>1. pc' = pc /\ UNCHANGED <<cached_tokens, may_reuse_prefix, prompt_tokens, reply,
                                  slid, n_accepted, draft_tokens>>
        BY <1>6 DEF AbortGeneration, memVars, callVars, callConst, roundVars, history
    <2> QED
        BY <2>1 DEF MInv, QuietInv, MirrorInv, Said
<1>7. CASE UNCHANGED vars
    <2>1. pc' = pc /\ UNCHANGED <<cached_tokens, may_reuse_prefix, prompt_tokens, reply,
                                  slid, n_accepted, draft_tokens>>
        BY <1>7 DEF vars, memVars, callVars, callConst, roundVars, history
    <2> QED
        BY <2>1 DEF MInv, QuietInv, MirrorInv, Said
<1> QED
    BY <1>1, <1>2, <1>3, <1>4, <1>5, <1>6, <1>7 DEF Next, Generate

\* While a reply runs, its cache entry names every token of the conversation
\* ("pure append", nl-kv-reuse.h:23-26).
THEOREM EngineMirrorsReply == Spec => []ReplyIsCached
<1>1. Init => MInv
    BY DEF Init, MInv, QuietInv, MirrorInv, LoopPoints
<1>2. MInv => ReplyIsCached
    BY DEF MInv, MirrorInv, ReplyIsCached, LoopPoints, Said
<1> QED
    BY <1>1, <1>2, EngineInvariant, MInvInductive, PTL DEF Spec

-----------------------------------------------------------------------------
\* What the memory and the output rows hold.

LEMMA EndForgets ==
    ASSUME CInv, NoCall, pc' = "idle", UNCHANGED shifted,
           cached_tokens' \in {cached_tokens, <<>>}
    PROVE  CInv'
BY DEF CInv, NoCall, QuietInv, ShiftInv, PromptInv, RowInv, VerifyInv, TailInv, LoopPoints

\* Nothing is promised of a process that is gone.
LEMMA AbortKeepsCInv == ASSUME CInv, Abort PROVE CInv'
BY DEF CInv, Abort, QuietInv, ShiftInv, PromptInv, RowInv, VerifyInv, TailInv,
       LoopPoints, memVars, callVars, history

LEMMA CInvLifecycle == ASSUME CInv, Lifecycle PROVE CInv'
<1>1. CASE Abort
    BY <1>1, AbortKeepsCInv
<1>2. CASE ~Abort
    <2>1. /\ pc = "idle" /\ pc' = "idle"
          /\ UNCHANGED <<reply, slid, n_accepted, draft_tokens>>
          /\ shifted' = FALSE \/ UNCHANGED <<shifted, cached_tokens>>
        BY <1>2 DEF Lifecycle, InitLlama, InitRefused, ResetContext, ResetContextTo,
                    InitVision, InitDraftModel, DisposeLlama, GetEmbedding,
                    EmbeddingLeaving, callVars, roundVars, history, memVars
    <2> QED
        BY <2>1 DEF CInv, QuietInv, ShiftInv, PromptInv, RowInv, VerifyInv, TailInv,
                    LoopPoints
<1> QED
    BY <1>1, <1>2

LEMMA CInvStart == ASSUME PromptsOpenWithBos, IInv, CInv, StartCall PROVE CInv'
<1>1. CASE StartWithoutContext
    BY <1>1 DEF StartWithoutContext, CInv, QuietInv, ShiftInv, PromptInv, RowInv,
                VerifyInv, TailInv, LoopPoints, memVars, callVars, roundVars, history
<1>2. ASSUME NEW p \in Prompts, NEW media \in BOOLEAN, NEW grammar \in BOOLEAN,
             StartText(p, media, grammar)
      PROVE  CInv'
    <2> DEFINE drafting == ctx_draft /\ ~media
               m0 == IF drafting THEN Cleared ELSE mem
               c0 == IF drafting THEN <<>> ELSE cached_tokens
               may == ~drafting
               r  == PreparedFor(m0, c0, p, may)
    <2>1. /\ pc = "idle" /\ pc' = "prefill" /\ cached_tokens' = c0
          /\ prompt_tokens' = p /\ n_prompt_tokens_total' = Len(p)
          /\ n_eval' = r.n_reuse /\ shifted' = (shifted /\ r.n_reuse # 0)
          /\ UNCHANGED <<n_accepted, draft_tokens, reply, slid>>
        BY <1>2 DEF StartText, roundVars
    <2>2. p \in Seq(Token) /\ p # <<>> /\ Len(p) \in Nat /\ p[1] \notin Vocab
        BY EngineAssumption, PromptsOpenWithBos DEF PromptsOpenWithBos
    <2>3. MemOK(m0) /\ c0 \in Seq(Token) /\ may \in BOOLEAN
        BY ClearedContent DEF IInv, TypeOK
    <2> HIDE DEF m0, c0, may
    <2>4. r.n_reuse \in 0..(Len(p) - 1)
        BY <2>2, <2>3, PreparedOK
    <2>5. r.n_reuse # 0 => c0 # <<>> /\ c0[1] = p[1]
        BY <2>2, <2>3, ReuseIsCommon
    <2> HIDE DEF r
    <2>6. shifted => c0 = <<>> \/ c0[1] \in Vocab
        BY DEF c0, CInv, ShiftInv
    <2>7. ~shifted'
        BY <2>1, <2>2, <2>5, <2>6
    <2>8. n_eval' # Len(p)
        BY <2>1, <2>2, <2>4
    <2> QED
        BY <2>1, <2>7, <2>8 DEF CInv, QuietInv, ShiftInv, PromptInv, RowInv, VerifyInv,
                                TailInv, LoopPoints
<1>3. ASSUME NEW p \in Prompts, StartMedia(p)
      PROVE  CInv'
    <2>1. /\ pc = "idle" /\ pc' = "media" /\ mem' = Cleared /\ shifted' = FALSE
          /\ UNCHANGED <<n_accepted, draft_tokens, reply, slid>>
        BY <1>3 DEF StartMedia, StartMediaLeaving, roundVars
    <2>2. Content(mem') = <<>>
        BY <2>1, ClearedContent
    <2> QED
        BY <2>1, <2>2 DEF CInv, QuietInv, ShiftInv, PromptInv, RowInv, VerifyInv,
                          TailInv, LoopPoints
<1> QED
    BY <1>1, <1>2, <1>3 DEF StartCall

LEMMA CInvMedia == ASSUME IInv, CInv, Media PROVE CInv'
<1>0. pc = "media"
    BY DEF Media, MediaTokenizeFails, MediaEvaluated, MediaEvalFails
<1>1. /\ reply = <<>> /\ ~slid /\ ~shifted /\ n_accepted = 0
      /\ Content(mem) = <<>> /\ prompt_tokens \in Seq(Token)
      /\ Said = prompt_tokens /\ Len(prompt_tokens) \in Nat
    BY <1>0, NothingSaid DEF CInv, QuietInv, ShiftInv, PromptInv, IInv, TypeOK, Said
<1>2. CASE MediaTokenizeFails
    BY <1>2, EndForgets DEF MediaTokenizeFails, SendSentinel, memVars
<1>3. CASE MediaEvaluated
    <2>1. /\ mem' = Fed(mem, prompt_tokens) /\ logits' = <<Content(mem')>>
          /\ n_cur' = Len(prompt_tokens) /\ pc' = "head"
          /\ UNCHANGED <<cached_tokens, prompt_tokens, n_accepted, reply, slid, shifted>>
        BY <1>3 DEF MediaEvaluated, roundVars, history
    <2>2. <<>> \o prompt_tokens = prompt_tokens /\ <<>> \in Seq(Token) /\ Blend \notin Seq(Token)
        BY <1>1, MemoryAssumption
    <2>3. Content(mem') = prompt_tokens
        BY <1>1, <2>1, <2>2, FedContent DEF IInv
    <2>4. logits' # <<>> /\ logits'[Len(logits')] = Content(mem')
        BY <2>1
    <2> QED
        BY <1>1, <2>1, <2>3, <2>4
           DEF CInv, QuietInv, ShiftInv, PromptInv, RowInv, VerifyInv, TailInv,
               LoopPoints, Said
<1>4. CASE MediaEvalFails
    <2>1. /\ pc' = "head" /\ UNCHANGED <<cached_tokens, prompt_tokens, slid, shifted>>
          /\ \E k \in 0..(Len(prompt_tokens) - 1) :
             \E n \in 0..k : n_prompt_tokens_total' = n
        BY <1>4 DEF MediaEvalFails, history
    <2>2. n_prompt_tokens_total' # Len(prompt_tokens)
        BY <1>1, <2>1
    <2> QED
        BY <1>1, <2>1, <2>2
           DEF CInv, QuietInv, ShiftInv, PromptInv, RowInv, VerifyInv, TailInv,
               LoopPoints, Kept
<1> QED
    BY <1>2, <1>3, <1>4 DEF Media

LEMMA CInvPrefill == ASSUME IInv, CInv, Prefill PROVE CInv'
<1>0. pc = "prefill"
    BY DEF Prefill, PrefillChunk, PrefillFails, PrefillFailsLeaving, PrefillDone
<1>1. /\ reply = <<>> /\ ~slid /\ ~shifted /\ n_accepted = 0
      /\ prompt_tokens \in Seq(Token) /\ Said = prompt_tokens
      /\ n_prompt_tokens_total = Len(prompt_tokens)
      /\ n_eval \in Nat /\ n_eval <= Len(prompt_tokens) /\ Len(prompt_tokens) \in Nat
      /\ Content(mem) = Prefix(prompt_tokens, n_eval)
    BY <1>0, NothingSaid DEF CInv, QuietInv, ShiftInv, PromptInv, IInv, TypeOK,
                             PrefillInv, ExactInv, Said
<1>2. CASE PrefillChunk
    <2>1. /\ n_eval' = n_eval + Len(Chunk) /\ logits' = RowsAfter(n_eval', mem')
          /\ pc' = "prefill"
          /\ UNCHANGED <<cached_tokens, prompt_tokens, n_prompt_tokens_total,
                          n_accepted, draft_tokens, reply, slid, shifted>>
        BY <1>2 DEF PrefillChunk, roundVars, history
    <2>2. n_eval' = Len(prompt_tokens') => logits' = <<Content(mem')>>
        BY <2>1 DEF RowsAfter
    <2> QED
        BY <1>0, <2>1, <2>2 DEF CInv, QuietInv, ShiftInv, PromptInv, RowInv, VerifyInv,
                                TailInv, LoopPoints
<1>3. CASE PrefillFails
    <2>1. CASE Abort
        BY <2>1, AbortKeepsCInv
    <2>2. CASE ReturnSilently /\ cached_tokens' = <<>> /\ UNCHANGED shifted
        BY <2>2, EndForgets DEF ReturnSilently
    <2> QED
        BY <1>3, <2>1, <2>2 DEF PrefillFails, PrefillFailsLeaving
<1>4. CASE PrefillDone
    <2>1. /\ n_eval = Len(prompt_tokens) /\ n_cur' = n_eval /\ pc' = "head"
          /\ UNCHANGED <<mem, logits, prompt_tokens, n_prompt_tokens_total,
                          n_accepted, reply, slid, shifted>>
        BY <1>1, <1>4 DEF PrefillDone, callConst, roundVars, history
    <2>2. logits = <<Content(mem)>> /\ Content(mem) = prompt_tokens
        BY <1>0, <1>1, <2>1, WholePrefix DEF CInv, PromptInv, Prefix
    <2>3. logits' # <<>> /\ logits'[Len(logits')] = prompt_tokens
        BY <2>1, <2>2
    <2> QED
        BY <1>1, <2>1, <2>2, <2>3
           DEF CInv, QuietInv, ShiftInv, PromptInv, RowInv, VerifyInv, TailInv,
               LoopPoints, Said
<1> QED
    BY <1>2, <1>3, <1>4 DEF Prefill

\* The head of the loop, and the steps that only choose a token.
LEMMA CInvHead ==
    ASSUME IInv, CInv, LoopStops \/ LoopContinues \/ LoopShifts
    PROVE  CInv'
<1>1. CASE LoopStops
    BY <1>1, EndForgets DEF LoopStops, SendSentinel, memVars
<1>2. CASE LoopContinues
    BY <1>2 DEF LoopContinues, AfterHead, CInv, QuietInv, ShiftInv, PromptInv, RowInv,
                VerifyInv, TailInv, LoopPoints, Said, Kept, memVars, callVars,
                callConst, roundVars, history
<1>3. CASE LoopShifts
    <2>1. CASE SendSentinel /\ UNCHANGED shifted /\ cached_tokens' = <<>>
        BY <2>1, EndForgets DEF SendSentinel
    <2>2. CASE slid' = TRUE /\ pc' = AfterHead /\ cached_tokens' = <<>>
        BY <2>2 DEF AfterHead, CInv, QuietInv, ShiftInv, PromptInv, RowInv, VerifyInv,
                    TailInv, Kept
    <2> QED
        BY <1>3, <2>1, <2>2 DEF LoopShifts
<1> QED
    BY <1>1, <1>2, <1>3

LEMMA CInvChoice ==
    ASSUME IInv,
           CInv, \/ ProposeDraft \/ SamplerThrows \/ SampleWithoutLogits \/ SampleTarget
                 \/ VerifyRejects \/ VerifyExhausted \/ VerifyThrows \/ EmitLast
    PROVE  CInv'
<1>1. CASE SamplerThrows \/ EmitLast
    BY <1>1, EndForgets DEF SamplerThrows, EmitLast, SendSentinel, memVars
<1>2. CASE SampleWithoutLogits
    BY <1>2, AbortKeepsCInv DEF SampleWithoutLogits
<1>3. CASE ProposeDraft \/ SampleTarget
    <2>1. /\ UNCHANGED <<memVars, callConst, n_cur, history>>
          /\ \/ pc = "draft" /\ pc' = "sample" /\ n_accepted' = n_accepted
             \/ pc = "sample" /\ pc' = "emit" /\ n_accepted' = 0
        BY <1>3 DEF ProposeDraft, SampleTarget
    <2>2. Kept /\ pc \in {"draft", "sample"} =>
             /\ Content(mem) = Said /\ n_cur = Len(Said) /\ n_accepted = 0
             /\ logits # <<>> /\ logits[Len(logits)] = Said
        BY DEF CInv, RowInv
    <2>3. /\ Kept' = Kept /\ Said' = Said /\ Content(mem') = Content(mem)
          /\ UNCHANGED <<logits, cached_tokens, n_cur, slid, shifted>>
        BY <2>1 DEF Kept, Said, memVars, callConst, history
    <2>4. n_cur \in Nat
        BY DEF IInv, TypeOK
    <2> QED
        BY <2>1, <2>2, <2>3, <2>4 DEF CInv, QuietInv, ShiftInv, PromptInv, RowInv,
                                      VerifyInv, TailInv, LoopPoints
<1>4. CASE VerifyRejects \/ VerifyExhausted \/ VerifyThrows
    <2>1. /\ pc = "verify" /\ pc' = "rollback"
          /\ UNCHANGED <<memVars, callConst, n_cur, draft_tokens, n_accepted, history>>
        BY <1>4 DEF VerifyRejects, VerifyExhausted, VerifyThrows
    <2> QED
        BY <2>1 DEF CInv, QuietInv, ShiftInv, PromptInv, RowInv, VerifyInv, TailInv,
                    Ahead, LoopPoints, Said, Kept, memVars, callConst, history
<1> QED
    BY <1>1, <1>2, <1>3, <1>4

\* What a draft of d behind s gives: the memory of s \o d, and a row per prefix.
LEMMA DraftDecoded ==
    ASSUME NEW s \in Seq(Token), NEW d \in Seq(Token), NEW c, c = s \o d
    PROVE  /\ c \in Seq(Token) /\ Len(c) = Len(s) + Len(d)
           /\ \A j \in 1..Len(d) : c[Len(s) + j] = d[j]
           /\ \A k \in 1..Len(d) : s \o SubSeq(d, 1, k) = SubSeq(c, 1, Len(s) + k)
           /\ d # <<>> => SubSeq(c, 1, Len(s) + 1) = s \o <<d[1]>>
OBVIOUS

\* The first drafted token is said, and the whole draft decoded behind it.
LEMMA CInvConfirm == ASSUME IInv, CInv, SampleConfirmsDraft PROVE CInv'
<1>1. /\ pc = "sample" /\ draft_tokens \in Seq(Vocab) /\ draft_tokens # <<>>
      /\ draft_tokens \in Seq(Token) /\ draft_tokens[1] \in Vocab
      /\ prompt_tokens \in Seq(Token) /\ reply \in Seq(Token) /\ n_cur \in Nat
      /\ Said \in Seq(Token) /\ MemOK(mem)
    BY Samplable DEF SampleConfirmsDraft, IInv, TypeOK, Said
<1>2. PICK answer \in DecodeAnswers(n_cur, draft_tokens) :
         /\ mem' = answer.mem
         /\ IF answer.rc = "ok"
            THEN /\ n_accepted' = 1
                 /\ reply' = Recorded(draft_tokens[1])
                 /\ logits' = [k \in 1..Len(draft_tokens) |-> VerificationRow(k)]
                 /\ pc' = "verify"
                 /\ UNCHANGED <<callConst, n_cur, draft_tokens, slid>>
            ELSE SendSentinel
    BY DEF SampleConfirmsDraft
<1>3. UNCHANGED <<cached_tokens, shifted>>
    BY DEF SampleConfirmsDraft
<1>4. CASE answer.rc # "ok"
    BY <1>2, <1>3, <1>4, EndForgets DEF SendSentinel
<1>5. CASE answer.rc = "ok"
    <2> DEFINE d == draft_tokens
               c == Content(mem')
    <2>0. /\ mem' = Fed(mem, d) /\ n_accepted' = 1 /\ pc' = "verify"
          /\ reply' = Recorded(d[1])
          /\ logits' = [k \in 1..Len(d) |-> VerificationRow(k)]
          /\ UNCHANGED <<callConst, n_cur, draft_tokens, slid>>
        BY <1>1, <1>2, <1>5, DecodeAnswersOK
    <2>1. SUFFICES ASSUME Kept PROVE VerifyInv'
        BY <1>1, <1>3, <2>0 DEF CInv, QuietInv, ShiftInv, PromptInv, RowInv, VerifyInv,
                                TailInv, Kept, LoopPoints, callConst
    <2>2. Content(mem) = Said /\ n_cur = Len(Said) /\ ~slid
        BY <1>1, <2>1 DEF CInv, RowInv, Kept
    <2>3. Said # Blend
        BY <1>1, MemoryAssumption
    <2>4. c = Said \o d
        BY <1>1, <2>0, <2>2, <2>3, FedContent
    <2>5. ASSUME NEW k \in 1..Len(d)
          PROVE  VerificationRow(k) = Said \o SubSeq(d, 1, k)
        <3>1. SubSeq(d, 1, k) \in Seq(Token)
            BY <1>1
        <3> QED
            BY <1>1, <2>2, <2>3, <3>1, FedContent DEF VerificationRow
    <2> HIDE DEF c
    <2>6. /\ c \in Seq(Token) /\ Len(c) = Len(Said) + Len(d)
          /\ \A j \in 1..Len(d) : c[Len(Said) + j] = d[j]
          /\ \A k \in 1..Len(d) : Said \o SubSeq(d, 1, k) = SubSeq(c, 1, Len(Said) + k)
          /\ SubSeq(c, 1, Len(Said) + 1) = Said \o <<d[1]>>
        BY <1>1, <2>4, DraftDecoded
    <2>7. /\ Len(logits') = Len(d)
          /\ \A k \in 1..Len(d) : logits'[k] = SubSeq(c, 1, Len(Said) + k)
        <3>1. Len(d) \in Nat
            BY <1>1
        <3> QED
            BY <2>0, <2>5, <2>6, <3>1
    <2>8. Said' = Said \o <<d[1]>>
        <3>1. Said' = prompt_tokens \o Append(reply, d[1])
            BY <2>0, <2>2 DEF Said, Recorded, callConst
        <3> QED
            BY <1>1, <3>1, SaidGrows, Samplable DEF Said
    <2>9. n_accepted' \in 1..Len(d)
        BY <1>1, <2>0
    <2>10. c # Blend
        BY <2>6, MemoryAssumption
    <2> QED
        BY <2>0, <2>2, <2>6, <2>7, <2>8, <2>9, <2>10 DEF VerifyInv, Ahead, c
<1> QED
    BY <1>4, <1>5

\* One more drafted token is said; the memory has held it already.
LEMMA CInvAccept == ASSUME IInv, CInv, VerifyAccepts PROVE CInv'
<1> DEFINE d == draft_tokens
           c == Content(mem)
<1>1. /\ pc = "verify" /\ pc' \in {"verify", "rollback"}
      /\ n_accepted < Len(d) /\ n_accepted' = n_accepted + 1
      /\ reply' = Recorded(d[n_accepted + 1])
      /\ UNCHANGED <<mem, logits, cached_tokens, prompt_tokens,
                      n_prompt_tokens_total, n_cur, draft_tokens, slid, shifted>>
    BY DEF VerifyAccepts, memVars, callConst
<1>2. SUFFICES ASSUME Kept PROVE VerifyInv'
    BY <1>1 DEF CInv, QuietInv, ShiftInv, PromptInv, RowInv, VerifyInv, TailInv, Kept,
                LoopPoints
<1>3. c # Blend /\ Ahead(c) /\ ~slid
    BY <1>1, <1>2 DEF CInv, VerifyInv, Kept
<1>4. /\ d \in Seq(Token) /\ prompt_tokens \in Seq(Token) /\ reply \in Seq(Token)
      /\ n_cur \in Nat /\ n_accepted \in Nat /\ c \in Seq(Token)
    BY <1>3, Samplable, PosMaxOfContent DEF IInv, TypeOK
<1> HIDE DEF c
<1>5. n_accepted + 1 \in 1..Len(d) /\ n_cur + n_accepted \in Nat
      /\ n_cur + n_accepted < Len(c) /\ n_cur + n_accepted + 1 = n_cur + (n_accepted + 1)
    <2>1. Len(c) = n_cur + Len(d) /\ Len(d) \in Nat
        BY <1>3, <1>4 DEF Ahead
    <2> QED
        BY <1>1, <1>4, <2>1
<1>6. SubSeq(c, 1, n_cur + (n_accepted + 1)) = Said \o <<d[n_accepted + 1]>>
    <2>1. c[n_cur + (n_accepted + 1)] = d[n_accepted + 1]
        BY <1>3, <1>5 DEF Ahead
    <2>2. SubSeq(c, 1, n_cur + n_accepted) = Said
        BY <1>3 DEF Ahead
    <2> QED
        BY <1>4, <1>5, <2>1, <2>2, PrefixGrows
<1>7. Said' = Said \o <<d[n_accepted + 1]>>
    <2>1. d[n_accepted + 1] \in Token
        BY <1>4, <1>5
    <2>2. Said' = prompt_tokens \o Append(reply, d[n_accepted + 1])
        BY <1>1, <1>3 DEF Said, Recorded
    <2> QED
        BY <1>4, <2>1, <2>2, SaidGrows DEF Said
<1> QED
    BY <1>1, <1>3, <1>5, <1>6, <1>7 DEF VerifyInv, Ahead, c

\* The rejected part of the draft is evicted.  A recurrent memory refuses, and
\* then its end is not where the next token would go.
LEMMA CInvRollback == ASSUME IInv, CInv, Rollback PROVE CInv'
<1> DEFINE d == draft_tokens
           c == Content(mem)
           n == n_cur + n_accepted
<1>1. CASE is_eog_reached \/ sample_failed
    BY <1>1, EndForgets DEF Rollback, SendSentinel
<1>2. CASE ~(is_eog_reached \/ sample_failed)
    <2>1. /\ pc = "rollback" /\ pc' = "emit"
          /\ mem' = IF n_accepted < Len(d) THEN SeqRmFrom(mem, n) ELSE mem
          /\ UNCHANGED <<cached_tokens, prompt_tokens, n_prompt_tokens_total, n_cur,
                          n_accepted, reply, slid, shifted>>
        BY <1>2 DEF Rollback, EvictFrom, callVars, callConst, roundVars
    <2>2. SUFFICES ASSUME Kept, Accepts(mem', n) PROVE Content(mem') = Said /\ n = Len(Said)
        BY <2>1 DEF CInv, QuietInv, ShiftInv, PromptInv, RowInv, VerifyInv, TailInv,
                    Kept, Said, LoopPoints
    <2>3. c # Blend /\ Ahead(c)
        BY <2>1, <2>2 DEF CInv, VerifyInv
    <2>4. /\ MemOK(mem) /\ c \in Seq(Token) /\ PosMax(mem) = Len(c) - 1
          /\ n_cur \in Nat /\ n_accepted \in Nat /\ Len(d) \in Nat
        BY <2>3, PosMaxOfContent DEF IInv, TypeOK
    <2> HIDE DEF c
    <2>5. Len(c) = n_cur + Len(d) /\ n_accepted \in 1..Len(d) /\ SubSeq(c, 1, n) = Said
        BY <2>3 DEF Ahead
    <2>6. n \in Nat /\ 0 < n /\ n <= Len(c) /\ Len(c) \in Nat
        BY <2>4, <2>5
    <2>7. Len(Said) = n
        BY <2>4, <2>5, <2>6
    <2> HIDE DEF n
    <2>8. CASE n_accepted = Len(d)
        <3>1. n = Len(c)
            BY <2>5, <2>8 DEF n
        <3>2. Content(mem') = c
            BY <2>1, <2>4, <2>8 DEF c
        <3> QED
            BY <2>4, <2>5, <2>7, <3>1, <3>2, WholePrefix
    <2>9. CASE n_accepted < Len(d)
        <3>1. n < Len(c)
            BY <2>4, <2>5, <2>9 DEF n
        <3>2. CASE CanTrim(mem, n)
            <4>1. Content(Trimmed(mem, n)) = SubSeq(c, 1, n)
                BY <2>3, <2>4, <2>6, <3>1, <3>2, TrimmedContent DEF c
            <4> QED
                BY <2>1, <2>5, <2>7, <2>9, <3>2, <4>1 DEF SeqRmFrom
        <3>3. CASE ~CanTrim(mem, n)
            <4>1. mem' = mem
                BY <2>1, <2>9, <3>3 DEF SeqRmFrom
            <4>2. ~Accepts(mem, n)
                BY <2>4, <2>6, <3>1 DEF Accepts
            <4> QED
                BY <2>2, <4>1, <4>2
        <3> QED
            BY <3>2, <3>3
    <2> QED
        BY <2>4, <2>5, <2>8, <2>9
<1> QED
    BY <1>1, <1>2

\* The emitted token is decoded behind the conversation or not at all.
LEMMA CInvEmit == ASSUME IInv, CInv, EmitAndDecode \/ EmitDecodeFails PROVE CInv'
<1>1. CASE EmitDecodeFails
    BY <1>1, EndForgets DEF EmitDecodeFails, SendSentinel
<1>2. CASE EmitAndDecode
    <2> DEFINE n  == n_cur + n_accepted
               ts == <<t_extra>>
    <2>1. /\ pc = "emit" /\ pc' = "head" /\ logits' = <<Content(mem')>>
          /\ cached_tokens' = Mirrored(t_extra) /\ n_cur' = n + 1 /\ n_accepted' = 0
          /\ reply' = Recorded(t_extra)
          /\ UNCHANGED <<prompt_tokens, n_prompt_tokens_total, may_reuse_prefix, slid,
                          shifted>>
          /\ \E answer \in DecodeAnswers(n, ts) : answer.rc = "ok" /\ mem' = answer.mem
        BY <1>2 DEF EmitAndDecode, callConst
    <2>2. PICK answer \in DecodeAnswers(n, ts) : answer.rc = "ok" /\ mem' = answer.mem
        BY <2>1
    <2>3. /\ t_extra \in Vocab /\ t_extra \in Token /\ n_cur \in Nat /\ n_accepted \in Nat
          /\ prompt_tokens \in Seq(Token) /\ reply \in Seq(Token)
          /\ Said \in Seq(Token) /\ cached_tokens \in Seq(Token) /\ MemOK(mem)
        BY <2>1, Samplable DEF IInv, EmitInv, TypeOK, Said
    <2>4. n \in Nat /\ ts \in Seq(Token) /\ ts # <<>>
        BY <2>3
    <2> HIDE DEF ts
    <2>5. Accepts(mem, n)
        BY <2>2 DEF DecodeAnswers
    <2>6. ShiftInv'
        <3>1. cached_tokens = <<>> \/ cached_tokens[1] \in Vocab =>
                 Mirrored(t_extra) = <<>> \/ Mirrored(t_extra)[1] \in Vocab
            <4>1. cached_tokens = <<>> => Append(cached_tokens, t_extra)[1] = t_extra
                BY <2>3
            <4>2. cached_tokens # <<>> =>
                     Append(cached_tokens, t_extra)[1] = cached_tokens[1]
                BY <2>3
            <4> QED
                BY <2>3, <4>1, <4>2 DEF Mirrored
        <3> QED
            BY <2>1, <3>1 DEF CInv, ShiftInv, LoopPoints
    <2>7. ASSUME Kept PROVE RowInv'
        <3>1. Content(mem) = Said /\ n = Len(Said) /\ ~slid
            BY <2>1, <2>5, <2>7 DEF CInv, TailInv, Kept
        <3>2. Content(mem') = Said \o ts
            BY <2>2, <2>3, <2>4, <3>1, DecodedContent
        <3>3. Said' = Said \o ts /\ Len(Said') = Len(Said) + 1
            <4>1. Said' = prompt_tokens \o Append(reply, t_extra)
                BY <2>1, <3>1 DEF Said, Recorded
            <4> QED
                BY <2>3, <4>1, SaidGrows DEF Said, ts
        <3>4. logits' # <<>> /\ logits'[Len(logits')] = Content(mem')
            BY <2>1
        <3> QED
            BY <2>1, <3>1, <3>2, <3>3, <3>4 DEF RowInv
    <2> QED
        BY <2>1, <2>6, <2>7 DEF CInv, QuietInv, PromptInv, RowInv, VerifyInv, TailInv, Kept
<1> QED
    BY <1>1, <1>2

LEMMA CInvInductive ==
    ASSUME PromptsOpenWithBos, IInv, CInv, [Next]_vars PROVE CInv'
<1>1. CASE Lifecycle
    BY <1>1, CInvLifecycle
<1>2. CASE StartCall
    BY <1>2, CInvStart
<1>3. CASE Media
    BY <1>3, CInvMedia
<1>4. CASE Prefill
    BY <1>4, CInvPrefill
<1>5. CASE Reply
    BY <1>5, CInvHead, CInvChoice, CInvConfirm, CInvAccept, CInvRollback, CInvEmit
       DEF Reply, Verify, Emit
<1>6. CASE AbortGeneration \/ UNCHANGED vars
    <2>1. /\ UNCHANGED <<memVars, callVars, history>>
          /\ pc' = pc
        BY <1>6 DEF AbortGeneration, vars
    <2> QED
        BY <2>1 DEF CInv, QuietInv, ShiftInv, PromptInv, RowInv, VerifyInv, TailInv,
                    Ahead, Kept, Said, memVars, callVars, callConst, roundVars, history
<1> QED
    BY <1>1, <1>2, <1>3, <1>4, <1>5, <1>6 DEF Next, Generate

-----------------------------------------------------------------------------
\* Prefix reuse cannot be observed.

THEOREM ReplyInvariant == ASSUME PromptsOpenWithBos PROVE Spec => []CInv
<1>1. Init => CInv
    BY DEF Init, CInv, QuietInv, ShiftInv, PromptInv, RowInv, VerifyInv, TailInv,
           LoopPoints
<1>2. IInv /\ CInv /\ [Next]_vars => CInv'
    BY CInvInductive
<1> QED
    BY <1>1, <1>2, EngineInvariant, PTL DEF Spec

\* The row the next token is sampled from was computed from the conversation.
LEMMA SampledRow ==
    ASSUME IInv, CInv, Kept, pc \in {"head", "draft", "sample", "verify"}
    PROVE  logits[RowToSample] = Said
<1>1. CASE pc # "verify"
    BY <1>1 DEF CInv, RowInv, RowToSample
<1>2. CASE pc = "verify"
    BY <1>2 DEF CInv, VerifyInv, Ahead, RowToSample
<1> QED
    BY <1>1, <1>2

\* Whatever the cache did, a token is sampled from prompt and reply alone
\* (native_llama.dart:120, "The observable behaviour ... is identical").
THEOREM EngineSamplesConversation ==
    ASSUME PromptsOpenWithBos PROVE Spec => []SampledFromConversation
<1>1. IInv /\ CInv => SampledFromConversation
    BY SampledRow DEF SampledFromConversation, Kept, Said
<1> QED
    BY <1>1, EngineInvariant, ReplyInvariant, PTL

\* What Dart sees of the engine, by the place it is at.
View(s, p, r) ==
    /\ PromiseState = s
    /\ IfPromised(prompt_tokens) = p /\ IfPromised(reply) = r
    /\ IfPromised(SampledFrom) = p \o r

LEMMA QuietView == pc = "idle" => View("quiet", <<>>, <<>>)
BY DEF View, PromiseState, IfPromised

LEMMA AnsweringView ==
    IInv /\ CInv /\ pc # "idle" /\ Promised => View("answering", prompt_tokens, reply)
<1> SUFFICES ASSUME IInv, CInv, pc # "idle", Promised
             PROVE  View("answering", prompt_tokens, reply)
    OBVIOUS
<1>1. PromiseState = "answering"
    BY DEF PromiseState
<1>2. SampledFrom = prompt_tokens \o reply
    BY SampledRow DEF SampledFrom, Promised, Kept, Said
<1> QED
    BY <1>1, <1>2 DEF View, IfPromised

LEMMA BeyondView == pc # "idle" /\ ~Promised => View("beyond", <<>>, <<>>)
BY DEF View, PromiseState, IfPromised

\* The same views after a step.
LEMMA NextViews ==
    /\ (pc = "idle" => View("quiet", <<>>, <<>>))'
    /\ (IInv /\ CInv /\ pc # "idle" /\ Promised
            => View("answering", prompt_tokens, reply))'
    /\ (pc # "idle" /\ ~Promised => View("beyond", <<>>, <<>>))'
BY QuietView, AnsweringView, BeyondView, PTL

\* A step of a running call is a step of the conversation if it leaves prompt
\* and promise alone and says one token or none.
LEMMA RunningMaps ==
    ASSUME IInv, CInv, IInv', CInv', pc # "idle", pc' # "idle",
           Promised' = Promised, prompt_tokens' = prompt_tokens,
           Promised => \/ reply' = reply
                       \/ \E t \in Vocab : reply' = Append(reply, t)
    PROVE  [Promise!Next]_(Promise!vars)
<1>1. CASE ~Promised
    <2>1. View("beyond", <<>>, <<>>) /\ View("beyond", <<>>, <<>>)'
        BY <1>1, BeyondView, NextViews
    <2> QED
        BY <2>1 DEF View, Promise!vars
<1>2. CASE Promised
    <2>1. View("answering", prompt_tokens, reply)
          /\ View("answering", prompt_tokens, reply)'
        BY <1>2, AnsweringView, NextViews
    <2>2. CASE reply' = reply
        BY <2>1, <2>2 DEF View, Promise!vars
    <2>3. ASSUME NEW t \in Vocab, reply' = Append(reply, t)
          PROVE  Promise!Say(t)
        BY <2>1, <2>3 DEF View, Promise!Say
    <2> QED
        BY <1>2, <2>2, <2>3 DEF Promise!Next
<1> QED
    BY <1>1, <1>2

\* A call that ends, ends the conversation; one that leaves the promise goes on
\* without.
LEMMA EndMaps ==
    ASSUME IInv, CInv, pc # "idle", pc' = "idle"
    PROVE  Promise!End
<1>1. View("quiet", <<>>, <<>>)' /\ PromiseState # "quiet"
    BY NextViews DEF PromiseState
<1> QED
    BY <1>1 DEF View, Promise!End, Promise!Nothing

LEMMA OutgrowMaps ==
    ASSUME IInv, CInv, pc # "idle", pc' # "idle", ~Promised'
    PROVE  [Promise!Next]_(Promise!vars)
<1>1. View("beyond", <<>>, <<>>)'
    BY NextViews
<1>2. CASE Promised
    <2>1. PromiseState = "answering"
        BY <1>2 DEF PromiseState
    <2> QED
        BY <1>1, <2>1 DEF View, Promise!Next, Promise!Outgrow, Promise!Nothing
<1>3. CASE ~Promised
    <2>1. View("beyond", <<>>, <<>>)
        BY <1>3, BeyondView
    <2> QED
        BY <1>1, <2>1 DEF View, Promise!vars
<1> QED
    BY <1>2, <1>3

LEMMA IdleMaps ==
    ASSUME pc = "idle", pc' = "idle"
    PROVE  UNCHANGED Promise!vars
<1>1. View("quiet", <<>>, <<>>) /\ View("quiet", <<>>, <<>>)'
    BY QuietView, NextViews
<1> QED
    BY <1>1 DEF View, Promise!vars

LEMMA AskMaps ==
    ASSUME IInv', CInv', pc = "idle", pc' \in {"prefill", "media"},
           NEW p \in Prompts, prompt_tokens' = p
    PROVE  Promise!Ask(p)
<1>1. reply' = <<>> /\ ~slid'
    BY DEF CInv, QuietInv
<1>2. View("answering", prompt_tokens, reply)'
    BY <1>1, NextViews DEF Promised
<1>3. p \in Seq(Token)
    BY EngineAssumption
<1>4. p \o <<>> = p
    BY <1>3, NothingSaid
<1>5. PromiseState = "quiet"
    BY DEF PromiseState
<1> QED
    BY <1>1, <1>2, <1>4, <1>5 DEF View, Promise!Ask

\* A step inside the reply loop.
LEMMA LoopMaps ==
    ASSUME IInv, CInv, IInv', CInv', pc \in LoopPoints, pc' \in LoopPoints \cup {"aborted"},
           UNCHANGED <<prompt_tokens, n_prompt_tokens_total, slid>>,
           \/ reply' = reply
           \/ \E t \in Vocab : reply' = Recorded(t)
    PROVE  [Promise!Next]_(Promise!vars)
<1>1. Promised' = Promised /\ pc # "idle" /\ pc' # "idle"
    BY DEF Promised, LoopPoints
<1>2. Promised => reply' = reply \/ \E t \in Vocab : reply' = Append(reply, t)
    BY DEF Promised, Recorded
<1> QED
    BY <1>1, <1>2, RunningMaps

LEMMA ReplyMaps ==
    ASSUME IInv, CInv, IInv', CInv', Reply
    PROVE  [Promise!Next]_(Promise!vars)
<1>1. pc \in LoopPoints /\ pc # "idle"
    BY DEF Reply, LoopStops, LoopContinues, LoopShifts, ProposeDraft, SamplerThrows,
           SampleWithoutLogits, SampleTarget, SampleConfirmsDraft, Verify, VerifyAccepts,
           VerifyRejects, VerifyExhausted, VerifyThrows, Rollback, Emit, EmitLast,
           EmitAndDecode, EmitDecodeFails, LoopPoints
<1>2. CASE SendSentinel
    BY <1>1, <1>2, EndMaps DEF SendSentinel, Promise!Next
<1>3. CASE LoopContinues \/ ProposeDraft \/ SampleWithoutLogits \/ SampleTarget
              \/ VerifyRejects \/ VerifyExhausted \/ VerifyThrows
    <2>1. /\ pc' \in LoopPoints \cup {"aborted"} /\ reply' = reply
          /\ UNCHANGED <<prompt_tokens, n_prompt_tokens_total, slid>>
        BY <1>3 DEF LoopContinues, AfterHead, ProposeDraft, SampleWithoutLogits,
                    SampleTarget, VerifyRejects, VerifyExhausted, VerifyThrows, Abort,
                    LoopPoints, callVars, callConst, history
    <2> QED
        BY <1>1, <2>1, LoopMaps
<1>4. CASE LoopShifts /\ ~SendSentinel
    <2>1. slid' = TRUE /\ pc' # "idle" /\ pc' \notin {"media", "prefill"}
        BY <1>4 DEF LoopShifts, AfterHead
    <2> QED
        BY <1>1, <2>1, OutgrowMaps DEF Promised
<1>5. CASE SampleConfirmsDraft /\ ~SendSentinel
    <2>1. draft_tokens[1] \in Vocab
        BY <1>5 DEF SampleConfirmsDraft, IInv, TypeOK
    <2>2. /\ pc' = "verify" /\ reply' = Recorded(draft_tokens[1])
          /\ UNCHANGED <<prompt_tokens, n_prompt_tokens_total, slid>>
        BY <1>5 DEF SampleConfirmsDraft, callConst
    <2> QED
        BY <1>1, <2>1, <2>2, LoopMaps DEF LoopPoints
<1>6. CASE VerifyAccepts
    <2> DEFINE t == draft_tokens[n_accepted + 1]
    <2>1. t \in Vocab
        BY <1>6 DEF VerifyAccepts, IInv, TypeOK
    <2>2. /\ pc' \in {"rollback", "verify"} /\ reply' = Recorded(t)
          /\ UNCHANGED <<prompt_tokens, n_prompt_tokens_total, slid>>
        BY <1>6 DEF VerifyAccepts, callConst
    <2> HIDE DEF t
    <2> QED
        BY <1>1, <2>1, <2>2, LoopMaps DEF LoopPoints
<1>7. CASE Rollback /\ ~SendSentinel
    <2>1. /\ pc' = "emit" /\ reply' = reply
          /\ UNCHANGED <<prompt_tokens, n_prompt_tokens_total, slid>>
        BY <1>7 DEF Rollback, callVars, callConst
    <2> QED
        BY <1>1, <2>1, LoopMaps DEF LoopPoints
<1>8. CASE EmitAndDecode
    <2>1. /\ pc' = "head" /\ reply' = Recorded(t_extra) /\ t_extra \in Vocab
          /\ UNCHANGED <<prompt_tokens, n_prompt_tokens_total, slid>>
        BY <1>8 DEF EmitAndDecode, callConst, IInv, EmitInv
    <2> QED
        BY <1>1, <2>1, LoopMaps DEF LoopPoints
<1> QED
    BY <1>2, <1>3, <1>4, <1>5, <1>6, <1>7, <1>8
       DEF Reply, LoopStops, SamplerThrows, Verify, Emit, EmitLast, EmitDecodeFails

\* Every step of the bridge is a step of the conversation or none.
LEMMA StepMaps ==
    ASSUME EmbeddingsAreSafe, IInv, CInv, IInv', CInv', [Next]_vars
    PROVE  [Promise!Next]_(Promise!vars)
<1>1. CASE Lifecycle
    <2>1. pc = "idle"
        BY <1>1 DEF Lifecycle, InitLlama, InitRefused, ResetContext, ResetContextTo,
                    InitVision, InitDraftModel, DisposeLlama, GetEmbedding,
                    EmbeddingLeaving
    <2>2. CASE GetEmbedding
        <3>1. mem.tail = "none"
            BY <2>2, Kinds DEF EmbeddingsAreSafe, GetEmbedding, EmbeddingLeaving, IInv, MemOK
        <3>2. SeqRmEverything(mem).tail # "stale"
            BY <3>1 DEF SeqRmEverything, Cleared
        <3>3. pc' = "idle"
            BY <2>1, <2>2, <3>2 DEF GetEmbedding, EmbeddingLeaving
        <3> QED
            BY <2>1, <3>3, IdleMaps
    <2>3. CASE ~GetEmbedding
        <3>1. pc' = "idle"
            BY <1>1, <2>1, <2>3
               DEF Lifecycle, InitLlama, InitRefused, ResetContext, ResetContextTo,
                   InitVision, InitDraftModel, DisposeLlama
        <3> QED
            BY <2>1, <3>1, IdleMaps
    <2> QED
        BY <2>2, <2>3
<1>2. CASE StartCall
    <2>1. CASE StartWithoutContext
        BY <2>1, IdleMaps DEF StartWithoutContext
    <2>2. ASSUME NEW p \in Prompts,
                 \/ StartMedia(p)
                 \/ \E media \in BOOLEAN, grammar \in BOOLEAN : StartText(p, media, grammar)
          PROVE  Promise!Next
        <3>1. pc = "idle" /\ pc' \in {"prefill", "media"} /\ prompt_tokens' = p
            BY <2>2 DEF StartMedia, StartMediaLeaving, StartText
        <3> QED
            BY <3>1, AskMaps DEF Promise!Next
    <2> QED
        BY <1>2, <2>1, <2>2 DEF StartCall
<1>3. CASE Media
    <2>1. pc = "media" /\ ~slid
        BY <1>3 DEF Media, MediaTokenizeFails, MediaEvaluated, MediaEvalFails, CInv,
                    QuietInv
    <2>2. CASE MediaTokenizeFails
        BY <2>1, <2>2, EndMaps DEF MediaTokenizeFails, SendSentinel, Promise!Next
    <2>3. CASE MediaEvaluated
        <3>1. /\ pc' = "head" /\ UNCHANGED <<prompt_tokens, reply, slid>>
              /\ n_prompt_tokens_total' = Len(prompt_tokens)
            BY <2>3 DEF MediaEvaluated, history
        <3> QED
            BY <2>1, <3>1, RunningMaps DEF Promised
    <2>4. CASE MediaEvalFails
        <3>1. /\ pc' = "head" /\ UNCHANGED prompt_tokens
              /\ \E k \in 0..(Len(prompt_tokens) - 1) :
                 \E n \in 0..k : n_prompt_tokens_total' = n
            BY <2>4 DEF MediaEvalFails
        <3>2. Len(prompt_tokens) \in Nat
            BY DEF IInv, TypeOK
        <3> QED
            BY <2>1, <3>1, <3>2, OutgrowMaps DEF Promised
    <2> QED
        BY <1>3, <2>2, <2>3, <2>4 DEF Media
<1>4. CASE Prefill
    <2>1. pc = "prefill" /\ ~slid /\ n_prompt_tokens_total = Len(prompt_tokens)
        BY <1>4 DEF Prefill, PrefillChunk, PrefillFails, PrefillFailsLeaving, PrefillDone,
                    CInv, QuietInv, PromptInv
    <2>2. CASE ReturnSilently
        BY <2>1, <2>2, EndMaps DEF ReturnSilently, Promise!Next
    <2>3. CASE ~ReturnSilently
        <3>1. /\ pc' \in {"prefill", "head", "aborted"}
              /\ UNCHANGED <<prompt_tokens, n_prompt_tokens_total, reply, slid>>
            BY <1>4, <2>1, <2>3
               DEF Prefill, PrefillChunk, PrefillFails, PrefillFailsLeaving, PrefillDone,
                   Abort, callVars, callConst, history
        <3> QED
            BY <2>1, <3>1, RunningMaps DEF Promised
    <2> QED
        BY <2>2, <2>3
<1>5. CASE Reply
    BY <1>5, ReplyMaps
<1>6. CASE AbortGeneration \/ UNCHANGED vars
    <2>1. pc' = pc /\ UNCHANGED <<prompt_tokens, n_prompt_tokens_total, reply, slid>>
        BY <1>6 DEF AbortGeneration, vars, callVars, callConst, history
    <2>2. CASE pc = "idle"
        BY <2>1, <2>2, IdleMaps
    <2>3. CASE pc # "idle"
        BY <2>1, <2>3, RunningMaps DEF Promised
    <2> QED
        BY <2>2, <2>3
<1> QED
    BY <1>1, <1>2, <1>3, <1>4, <1>5, <1>6 DEF Next, Generate

\* native-lib.cpp, seen from Dart, is an engine without a cache, a draft and a
\* window: every step is one that Conversation allows, until the reply outgrows
\* the window or its media could not be read.
THEOREM EngineImplementsConversation ==
    ASSUME PromptsOpenWithBos, EmbeddingsAreSafe PROVE Spec => ImplementsConversation
<1>1. Init => Promise!Init
    <2> SUFFICES ASSUME Init PROVE Promise!Init
        OBVIOUS
    <2>1. View("quiet", <<>>, <<>>)
        BY QuietView DEF Init
    <2> QED
        BY <2>1 DEF View, Promise!Init
<1>2. IInv /\ CInv /\ IInv' /\ CInv' /\ [Next]_vars => [Promise!Next]_(Promise!vars)
    BY StepMaps
<1> QED
    BY <1>1, <1>2, EngineInvariant, ReplyInvariant, PTL
       DEF Spec, ImplementsConversation, Promise!Spec

-----------------------------------------------------------------------------
\* Where the memory ends.  Unlike what it holds, this survives a context shift,
\* so these invariants need no assumption on how prompts open.

\* A rollback is either done by an attention cache or never needed: a recurrent
\* state refuses it.
RollbackWorks == Arch = "attention" \/ "draft" \notin Features

NoDrafts == "draft" \notin Features

NoDraftsInv == /\ ~ctx_draft /\ ~use_draft /\ draft_tokens = <<>>
               /\ pc \notin {"draft", "verify", "rollback"}

LEMMA NoDraftsInductive ==
    ASSUME NoDrafts, NoDraftsInv, [Next]_vars PROVE NoDraftsInv'
<1>1. CASE Lifecycle
    BY <1>1 DEF NoDrafts, NoDraftsInv, Lifecycle, InitLlama, InitRefused, ResetContext,
                ResetContextTo, InitVision, InitDraftModel, DisposeLlama, GetEmbedding,
                EmbeddingLeaving, Abort, statics, callVars, callConst, roundVars
<1>2. CASE StartCall
    <2>1. CASE StartWithoutContext
        BY <2>1 DEF NoDraftsInv, StartWithoutContext, statics, callVars, callConst, roundVars
    <2>2. ASSUME NEW p \in Prompts, StartMedia(p) PROVE NoDraftsInv'
        BY <2>2 DEF NoDraftsInv, StartMedia, StartMediaLeaving, statics, roundVars
    <2>3. ASSUME NEW p \in Prompts, NEW media \in BOOLEAN, NEW grammar \in BOOLEAN,
                 StartText(p, media, grammar)
          PROVE  NoDraftsInv'
        <3>1. /\ use_draft' = ((ctx_draft /\ ~media) /\ ~grammar)
              /\ pc' = "prefill" /\ UNCHANGED <<ctx_draft, draft_tokens>>
            BY <2>3 DEF StartText, statics, roundVars
        <3>2. ~use_draft'
            BY <3>1, Zenon DEF NoDraftsInv
        <3> QED
            BY <3>1, <3>2 DEF NoDraftsInv
    <2> QED
        BY <1>2, <2>1, <2>2, <2>3 DEF StartCall
<1>3. CASE NoCall /\ pc' = "idle" /\ UNCHANGED statics
    BY <1>3 DEF NoDraftsInv, NoCall, statics
<1>4. CASE /\ UNCHANGED statics /\ use_draft' \in {use_draft, FALSE}
           /\ draft_tokens' \in {draft_tokens, <<>>}
           /\ pc' \in {"prefill", "head", "sample", "emit", "aborted"}
    <2>3. ctx_draft' = ctx_draft
        BY <1>4 DEF statics
    <2>4. use_draft' = use_draft \/ use_draft' = FALSE
        BY <1>4
    <2>5. ~use_draft /\ ~ctx_draft
        BY DEF NoDraftsInv
    <2>6. ASSUME use_draft' = FALSE PROVE ~use_draft'
        BY <2>6
    <2>7. ASSUME use_draft' = use_draft PROVE ~use_draft'
        BY <2>5, <2>7, Zenon
    <2>8. ~ctx_draft'
        BY <2>3, <2>5, Zenon
    <2>1. ~use_draft' /\ ~ctx_draft'
        BY <2>4, <2>6, <2>7, <2>8
    <2>2. draft_tokens' = <<>>
        BY <1>4 DEF NoDraftsInv
    <2> QED
        BY <1>4, <2>1, <2>2 DEF NoDraftsInv
<1>6. CASE Media
    BY <1>3, <1>4, <1>6 DEF Media, MediaTokenizeFails, MediaEvaluated, MediaEvalFails,
                            SendSentinel, roundVars
<1>7. CASE Prefill
    <2>1. CASE PrefillChunk
        BY <1>4, <2>1 DEF PrefillChunk, NoDraftsInv, roundVars
    <2>2. CASE PrefillFails
        BY <1>3, <1>4, <2>2 DEF PrefillFails, PrefillFailsLeaving, ReturnSilently, Abort,
                                callVars, callConst, roundVars
    <2>3. CASE PrefillDone
        BY <1>4, <2>3 DEF PrefillDone, callConst, roundVars
    <2> QED
        BY <1>7, <2>1, <2>2, <2>3 DEF Prefill
<1>8. CASE Reply
    <2>1. CASE LoopStops \/ SamplerThrows \/ EmitLast \/ EmitDecodeFails
        BY <1>3, <2>1 DEF LoopStops, SamplerThrows, EmitLast, EmitDecodeFails, SendSentinel
    <2>2. CASE LoopContinues \/ LoopShifts
        BY <1>3, <1>4, <2>2 DEF LoopContinues, LoopShifts, AfterHead, SendSentinel,
                                NoDraftsInv, callVars, callConst, roundVars
    <2>3. CASE SampleWithoutLogits \/ SampleTarget \/ EmitAndDecode
        BY <1>4, <2>3 DEF SampleWithoutLogits, SampleTarget, EmitAndDecode, Abort,
                          callVars, callConst, roundVars
    <2>4. ~(ProposeDraft \/ SampleConfirmsDraft \/ Verify \/ Rollback)
        BY DEF NoDraftsInv, ProposeDraft, SampleConfirmsDraft, Verify, VerifyAccepts,
               VerifyRejects, VerifyExhausted, VerifyThrows, Rollback
    <2> QED
        BY <1>8, <2>1, <2>2, <2>3, <2>4 DEF Reply, Emit
<1>5. CASE AbortGeneration \/ UNCHANGED vars
    BY <1>5 DEF NoDraftsInv, AbortGeneration, vars, statics, callVars, callConst, roundVars
<1> QED
    BY <1>1, <1>2, <1>5, <1>6, <1>7, <1>8 DEF Next, Generate


\* A cache entry never claims more than the memory holds; a reply that may reuse
\* the prefix has read its whole prompt.
EntryInv ==
    /\ pc = "idle" /\ ctx /\ cached_tokens # <<>> =>
         EndsAt(mem, PosMax(mem) + 1) /\ Len(cached_tokens) <= PosMax(mem) + 1
    /\ pc \in LoopPoints /\ cached_tokens # <<>> => Len(cached_tokens) <= n_cur
    /\ pc \in LoopPoints /\ may_reuse_prefix =>
         n_prompt_tokens_total = Len(prompt_tokens)

\* The prefill continues where the memory ends, or its next chunk is rejected:
\* after a shift the entry is shorter than the memory it describes.
PrefillEnds ==
    /\ pc = "media" => EndsAt(mem, 0)
    /\ pc = "prefill" =>
         /\ n_prompt_tokens_total = Len(prompt_tokens)
         /\ \/ EndsAt(mem, n_eval)
            \/ n_eval < Len(prompt_tokens) /\ ~Accepts(mem, n_eval)

\* The memory ends where the cursor, the accepted and the drafted tokens say.
CursorInv ==
    n_prompt_tokens_total = Len(prompt_tokens) =>
        /\ pc \in {"head", "draft", "sample"} => EndsAt(mem, n_cur) /\ n_accepted = 0
        /\ pc \in {"verify", "rollback"} =>
              /\ EndsAt(mem, n_cur + Len(draft_tokens))
              /\ n_accepted \in 0..Len(draft_tokens)
        /\ pc = "emit" => EndsAt(mem, n_cur + n_accepted)

EndInv == EntryInv /\ PrefillEnds /\ CursorInv

\* The three invariants say nothing of a call that is over and left no entry.
LEMMA ForgottenEnds ==
    ASSUME pc' \in {"idle", "aborted"}, pc' = "idle" => cached_tokens' = <<>> \/ ~ctx'
    PROVE  EndInv'
BY DEF EndInv, EntryInv, PrefillEnds, CursorInv, LoopPoints

\* Nor do they notice a step that changes none of this.
LEMMA SameEnds ==
    ASSUME EndInv, UNCHANGED <<pc, ctx, mem, cached_tokens, may_reuse_prefix, n_eval, n_cur,
                               prompt_tokens, n_prompt_tokens_total, draft_tokens, n_accepted>>
    PROVE  EndInv'
BY DEF EndInv, EntryInv, PrefillEnds, CursorInv, Accepts

\* A call that ends keeps an entry only where the memory ends at or behind n_cur.
LEMMA KeptEnds ==
    ASSUME IInv, EndInv, pc' = "idle",
           NEW n \in Nat, n_cur <= n, pc \in LoopPoints,
           n_prompt_tokens_total = Len(prompt_tokens) => EndsAt(mem, n),
           UNCHANGED <<mem, cached_tokens>>
    PROVE  EndInv'
<1>1. SUFFICES ASSUME cached_tokens # <<>>
               PROVE  EndsAt(mem, PosMax(mem) + 1) /\ Len(cached_tokens) <= PosMax(mem) + 1
    BY DEF EndInv, EntryInv, PrefillEnds, CursorInv, LoopPoints
<1>2. may_reuse_prefix
    BY <1>1 DEF IInv, NoReuseInv, LoopPoints
<1>3. EndsAt(mem, n) /\ Len(cached_tokens) <= n_cur
    BY <1>1, <1>2 DEF EndInv, EntryInv
<1>4. PosMax(mem) + 1 = n
    BY <1>3, EndsAtPosMax DEF IInv
<1>5. n_cur \in Nat /\ Len(cached_tokens) \in Nat
    BY DEF IInv, TypeOK
<1> QED
    BY <1>3, <1>4, <1>5

LEMMA EndInvLifecycle == ASSUME EndInv, Lifecycle PROVE EndInv'
<1>1. CASE InitLlama \/ DisposeLlama
    BY <1>1, ForgottenEnds DEF InitLlama, DisposeLlama
<1>2. CASE InitRefused \/ InitVision \/ InitDraftModel
    BY <1>2, SameEnds DEF InitRefused, InitVision, InitDraftModel, memVars, callVars,
                          callConst, roundVars
<1>3. CASE ResetContext
    <2>1. pc' = "idle" /\ (ctx' = TRUE => cached_tokens' = <<>>) /\ ctx' \in BOOLEAN
        BY <1>3 DEF ResetContext, ResetContextTo
    <2> QED
        BY <2>1, ForgottenEnds
<1>4. CASE GetEmbedding
    BY <1>4, ForgottenEnds DEF GetEmbedding, EmbeddingLeaving, Abort
<1> QED
    BY <1>1, <1>2, <1>3, <1>4 DEF Lifecycle

\* The plan leaves the memory ending at n_reuse, except where the entry was
\* taken whole although the memory holds more.
LEMMA PreparedEnds ==
    ASSUME NEW m, MemOK(m), NEW cached \in Seq(Token),
           NEW p \in Seq(Token), p # <<>>, NEW may \in BOOLEAN,
           NEW r, r = PreparedFor(m, cached, p, may),
           NEW n \in Nat, cached # <<>> => EndsAt(m, n) /\ Len(cached) <= n
    PROVE  EndsAt(r.mem, r.n_reuse) \/ ~Accepts(r.mem, r.n_reuse)
<1> DEFINE plan == PlanPrefixReuse(cached, p, may)
           k    == plan.n_reuse
<1>1. /\ k \in 0..(Len(p) - 1) /\ k <= Len(cached)
      /\ plan.needs_trim => 0 < k /\ k < Len(cached)
      /\ ~plan.needs_trim /\ ~plan.needs_clear => k = Len(cached) /\ may
    BY PlanPrefixReuseSound
<1>2. ~plan.needs_trim /\ ~plan.needs_clear => cached # <<>>
    BY DEF PlanPrefixReuse, ClearPlan
<1>3. \/ r = [mem |-> Cleared, n_reuse |-> 0]
      \/ plan.needs_trim /\ CanTrim(m, k)
           /\ r = [mem |-> Trimmed(m, k), n_reuse |-> k]
      \/ ~plan.needs_trim /\ ~plan.needs_clear
           /\ r = [mem |-> m, n_reuse |-> k]
    BY DEF PreparedFor
<1> HIDE DEF plan
<1>4. Len(cached) \in Nat /\ (cached # <<>> <=> Len(cached) > 0) /\ k \in Nat
    BY <1>1
<1>5. CASE r = [mem |-> Cleared, n_reuse |-> 0]
    BY <1>5, ClearedEnds
<1>6. CASE plan.needs_trim /\ CanTrim(m, k) /\ r = [mem |-> Trimmed(m, k), n_reuse |-> k]
    <2>1. k < n /\ EndsAt(m, n)
        BY <1>1, <1>4, <1>6
    <2>2. EndsAt(Trimmed(m, k), k)
        BY <1>4, <1>6, <2>1, TrimmedEnds
    <2> QED
        BY <1>6, <2>2
<1>7. CASE ~plan.needs_trim /\ ~plan.needs_clear /\ r = [mem |-> m, n_reuse |-> k]
    <2>1. EndsAt(m, n) /\ k <= n /\ 0 < k
        BY <1>1, <1>2, <1>4, <1>7
    <2>2. PosMax(m) = n - 1
        BY <2>1, EndsAtPosMax
    <2>3. CASE k = n
        BY <1>7, <2>1, <2>3
    <2>4. CASE k < n
        BY <1>4, <1>7, <2>1, <2>2, <2>4 DEF Accepts
    <2> QED
        BY <1>4, <2>1, <2>3, <2>4
<1> QED
    BY <1>3, <1>5, <1>6, <1>7

LEMMA EndInvStart == ASSUME IInv, EndInv, StartCall PROVE EndInv'
<1>1. CASE StartWithoutContext
    BY <1>1, SameEnds DEF StartWithoutContext, statics, memVars, callVars, callConst, roundVars
<1>2. ASSUME NEW p \in Prompts, StartMedia(p) PROVE EndInv'
    <2>1. pc' = "media" /\ mem' = Cleared
        BY <1>2 DEF StartMedia, StartMediaLeaving
    <2> QED
        BY <2>1, ClearedEnds DEF EndInv, EntryInv, PrefillEnds, CursorInv, LoopPoints
<1>3. ASSUME NEW p \in Prompts, NEW media \in BOOLEAN, NEW grammar \in BOOLEAN,
             StartText(p, media, grammar)
      PROVE  EndInv'
    <2> DEFINE drafting == ctx_draft /\ ~media
               m0 == IF drafting THEN Cleared ELSE mem
               c0 == IF drafting THEN <<>> ELSE cached_tokens
               may == ~drafting
               r  == PreparedFor(m0, c0, p, may)
               n  == PosMax(mem) + 1
    <2>1. /\ pc = "idle" /\ ctx /\ pc' = "prefill" /\ prompt_tokens' = p
          /\ n_prompt_tokens_total' = Len(p) /\ mem' = r.mem /\ n_eval' = r.n_reuse
        BY <1>3 DEF StartText
    <2>2. p \in Seq(Token) /\ p # <<>> /\ Len(p) \in Nat
        BY EngineAssumption
    <2>3. MemOK(m0) /\ c0 \in Seq(Token) /\ may \in BOOLEAN /\ n \in Nat
        BY ClearedContent, PosMaxType DEF IInv, TypeOK
    <2>4. c0 # <<>> => EndsAt(m0, n) /\ Len(c0) <= n
        BY <2>1 DEF EndInv, EntryInv
    <2> HIDE DEF m0, c0, may, n
    <2>5. r.n_reuse \in 0..(Len(p) - 1)
        BY <2>2, <2>3, PreparedOK
    <2>6. EndsAt(r.mem, r.n_reuse) \/ ~Accepts(r.mem, r.n_reuse)
        BY <2>2, <2>3, <2>4, PreparedEnds
    <2> HIDE DEF r
    <2>7. n_eval' < Len(p)
        BY <2>1, <2>2, <2>5
    <2>8. EndsAt(mem', n_eval') \/ ~Accepts(mem', n_eval')
        BY <2>1, <2>6, Zenon
    <2>9. n_eval' < Len(prompt_tokens')
        BY <2>1, <2>7, Zenon
    <2>10. PrefillEnds'
        BY <2>1, <2>8, <2>9 DEF PrefillEnds
    <2> QED
        BY <2>1, <2>10 DEF EndInv, EntryInv, CursorInv, LoopPoints
<1> QED
    BY <1>1, <1>2, <1>3 DEF StartCall

LEMMA EndInvMedia == ASSUME IInv, MInv, EndInv, Media PROVE EndInv'
<1>1. /\ pc = "media" /\ cached_tokens = <<>> /\ ~may_reuse_prefix /\ n_accepted = 0
      /\ EndsAt(mem, 0) /\ MemOK(mem)
      /\ prompt_tokens \in Seq(Token) /\ Len(prompt_tokens) \in Nat
    BY DEF Media, MediaTokenizeFails, MediaEvaluated, MediaEvalFails, IInv, NoReuseInv,
           TypeOK, MInv, QuietInv, EndInv, PrefillEnds
<1>2. CASE MediaTokenizeFails
    BY <1>1, <1>2, ForgottenEnds DEF MediaTokenizeFails, SendSentinel, memVars
<1>3. ASSUME pc' = "head", UNCHANGED <<cached_tokens, may_reuse_prefix, n_accepted>>,
             CursorInv'
      PROVE  EndInv'
    BY <1>1, <1>3 DEF EndInv, EntryInv, PrefillEnds, LoopPoints
<1>4. CASE MediaEvaluated
    <2>1. /\ mem' = Fed(mem, prompt_tokens) /\ n_cur' = Len(prompt_tokens) /\ pc' = "head"
          /\ UNCHANGED <<cached_tokens, may_reuse_prefix, n_accepted>>
        BY <1>4 DEF MediaEvaluated, roundVars
    <2>2. EndsAt(Fed(mem, prompt_tokens), 0 + Len(prompt_tokens))
        BY <1>1, FedEnds
    <2>3. EndsAt(mem', n_cur')
        BY <1>1, <2>1, <2>2
    <2>4. CursorInv'
        BY <1>1, <2>1, <2>3 DEF CursorInv
    <2> QED
        BY <1>3, <2>1, <2>4
<1>5. CASE MediaEvalFails
    <2>1. /\ pc' = "head"
          /\ UNCHANGED <<prompt_tokens, cached_tokens, may_reuse_prefix, n_accepted>>
          /\ \E k \in 0..(Len(prompt_tokens) - 1) :
             \E n \in 0..k : n_prompt_tokens_total' = n
        BY <1>5 DEF MediaEvalFails, roundVars
    <2>2. CursorInv'
        BY <1>1, <2>1 DEF CursorInv
    <2> QED
        BY <1>3, <2>1, <2>2
<1> QED
    BY <1>2, <1>4, <1>5 DEF Media

\* Only a chunk at the end of the memory is decoded.
LEMMA EndInvPrefill == ASSUME IInv, MInv, EndInv, Prefill PROVE EndInv'
<1>1. /\ pc = "prefill" /\ n_prompt_tokens_total = Len(prompt_tokens) /\ MemOK(mem)
      /\ n_accepted = 0 /\ n_eval \in Nat /\ n_eval <= Len(prompt_tokens)
      /\ prompt_tokens \in Seq(Token) /\ Len(prompt_tokens) \in Nat
      /\ \/ EndsAt(mem, n_eval)
         \/ n_eval < Len(prompt_tokens) /\ ~Accepts(mem, n_eval)
    BY DEF Prefill, PrefillChunk, PrefillFails, PrefillFailsLeaving, PrefillDone, IInv,
           PrefillInv, TypeOK, MInv, QuietInv, EndInv, PrefillEnds
<1>2. CASE PrefillChunk
    <2>1. /\ n_eval < Len(prompt_tokens) /\ pc' = "prefill"
          /\ n_eval' = n_eval + Len(Chunk)
          /\ UNCHANGED <<prompt_tokens, n_prompt_tokens_total>>
          /\ \E answer \in DecodeAnswers(n_eval, Chunk) :
                answer.rc = "ok" /\ mem' = answer.mem
        BY <1>2 DEF PrefillChunk
    <2>2. PICK answer \in DecodeAnswers(n_eval, Chunk) : answer.rc = "ok" /\ mem' = answer.mem
        BY <2>1
    <2>3. Chunk \in Seq(Token) /\ Chunk # <<>>
        BY <1>1, <2>1, ChunkOK
    <2>4. mem' = Fed(mem, Chunk)
        BY <1>1, <2>2, <2>3, DecodeAnswersOK
    <2>5. EndsAt(mem, n_eval)
        BY <1>1, <2>2 DEF DecodeAnswers
    <2>6. EndsAt(mem', n_eval')
        BY <1>1, <2>1, <2>3, <2>4, <2>5, FedEnds
    <2> QED
        BY <1>1, <2>1, <2>6 DEF EndInv, EntryInv, PrefillEnds, CursorInv, LoopPoints
<1>3. CASE PrefillFails
    BY <1>1, <1>3, ForgottenEnds DEF PrefillFails, PrefillFailsLeaving, ReturnSilently, Abort
<1>4. CASE PrefillDone
    <2>1. /\ n_eval = Len(prompt_tokens) /\ n_cur' = n_eval /\ pc' = "head"
          /\ cached_tokens' = CacheAfterPrefill
          /\ UNCHANGED <<mem, may_reuse_prefix, prompt_tokens, n_prompt_tokens_total, n_accepted>>
        BY <1>1, <1>4 DEF PrefillDone, callConst, roundVars
    <2>2. EndsAt(mem', n_cur')
        BY <1>1, <2>1
    <2>3. cached_tokens' = prompt_tokens \/ cached_tokens' = <<>>
        BY <1>1, <2>1 DEF CacheAfterPrefill, IInv, NoReuseInv
    <2> QED
        BY <1>1, <2>1, <2>2, <2>3 DEF EndInv, EntryInv, PrefillEnds, CursorInv, LoopPoints
<1> QED
    BY <1>2, <1>3, <1>4 DEF Prefill

\* The window that is dropped lies before the last token in the memory.
LEMMA ShiftInside ==
    ASSUME n_cur \in Nat, n_prompt_tokens_total \in Nat, WindowFull
    PROVE  NKeep \in Nat /\ NDiscard \in Nat /\ NKeep + NDiscard < n_cur
<1>1. NCtx \in Nat /\ NDraft \in Nat /\ NCtx >= 4 * (NDraft + 2)
    BY EngineAssumption, MemoryAssumption
<1>2. NCtx \div 2 \in Nat /\ 2 * (NCtx \div 2) <= NCtx
    BY <1>1
<1>3. NKeep \in Nat /\ 2 * NKeep <= NCtx
    BY <1>1, <1>2 DEF NKeep
<1>4. NDiscard \in Nat /\ 2 * NDiscard <= NCtx - NKeep
    BY <1>1, <1>3 DEF NDiscard
<1> QED
    BY <1>1, <1>3, <1>4 DEF WindowFull

\* A step inside the reply loop: the entry is dropped, kept with the cursor, or
\* grows with it.
LEMMA LoopEnds ==
    ASSUME EndInv, pc \in LoopPoints, pc' \in LoopPoints,
           UNCHANGED <<may_reuse_prefix, prompt_tokens, n_prompt_tokens_total>>,
           cached_tokens' # <<>> => Len(cached_tokens') <= n_cur',
           CursorInv'
    PROVE  EndInv'
BY DEF EndInv, EntryInv, PrefillEnds, LoopPoints

LEMMA EndInvHead ==
    ASSUME IInv, EndInv, LoopStops \/ LoopContinues \/ LoopShifts PROVE EndInv'
<1>1. pc = "head" /\ pc \in LoopPoints /\ n_cur \in Nat /\ MemOK(mem)
      /\ n_prompt_tokens_total \in Nat
      /\ (n_prompt_tokens_total = Len(prompt_tokens) => EndsAt(mem, n_cur) /\ n_accepted = 0)
    BY DEF LoopStops, LoopContinues, LoopShifts, LoopPoints, IInv, TypeOK, EndInv, CursorInv
<1>2. CASE LoopStops
    <2>1. pc' = "idle" /\ UNCHANGED <<mem, cached_tokens>>
        BY <1>2 DEF LoopStops, SendSentinel, memVars
    <2> QED
        BY <1>1, <2>1, KeptEnds
<1>3. CASE LoopContinues
    <2>1. /\ pc' \in {"draft", "sample"}
          /\ UNCHANGED <<mem, cached_tokens, may_reuse_prefix, prompt_tokens,
                         n_prompt_tokens_total, n_cur, n_accepted>>
        BY <1>3 DEF LoopContinues, AfterHead, memVars, callVars, callConst, roundVars
    <2>2. CursorInv'
        BY <1>1, <2>1 DEF CursorInv
    <2> QED
        BY <1>1, <2>1, <2>2, LoopEnds DEF EndInv, EntryInv, LoopPoints
<1>4. CASE LoopShifts
    <2>1. cached_tokens' = <<>> /\ WindowFull
        BY <1>4 DEF LoopShifts
    <2>2. CASE SendSentinel
        BY <2>1, <2>2, ForgottenEnds DEF SendSentinel
    <2>3. CASE ~SendSentinel
        <3>1. /\ mem' = WindowDropped(mem, NKeep, NDiscard, n_cur)
              /\ n_cur' = n_cur - NDiscard /\ pc' \in {"draft", "sample"}
              /\ UNCHANGED <<may_reuse_prefix, prompt_tokens, n_prompt_tokens_total, n_accepted>>
            BY <1>4, <2>3 DEF LoopShifts, AfterHead, CursorAfterShift, callConst, roundVars
        <3>2. NKeep \in Nat /\ NDiscard \in Nat /\ NKeep + NDiscard < n_cur
            BY <1>1, <2>1, ShiftInside
        <3>3. EndsAt(mem, n_cur) => EndsAt(mem', n_cur')
            BY <1>1, <3>1, <3>2, WindowDroppedEnds
        <3>4. CursorInv'
            BY <1>1, <3>1, <3>3 DEF CursorInv
        <3> QED
            BY <1>1, <2>1, <3>1, <3>4, LoopEnds DEF LoopPoints
    <2> QED
        BY <2>2, <2>3
<1> QED
    BY <1>2, <1>3, <1>4

LEMMA EndInvChoice ==
    ASSUME IInv, EndInv,
           \/ ProposeDraft \/ SamplerThrows \/ SampleWithoutLogits \/ SampleTarget
           \/ VerifyRejects \/ VerifyExhausted \/ VerifyThrows \/ EmitLast
    PROVE  EndInv'
<1>1. n_cur \in Nat /\ n_accepted \in Nat
    BY DEF IInv, TypeOK
<1>2. CASE SampleWithoutLogits
    BY <1>2, ForgottenEnds DEF SampleWithoutLogits, Abort
<1>3. CASE SamplerThrows
    <2>1. pc \in {"draft", "sample"} /\ pc' = "idle" /\ UNCHANGED <<mem, cached_tokens>>
        BY <1>3 DEF SamplerThrows, SendSentinel, memVars
    <2> QED
        BY <1>1, <2>1, KeptEnds DEF EndInv, CursorInv, LoopPoints
<1>4. CASE EmitLast
    <2>1. pc = "emit" /\ pc' = "idle" /\ UNCHANGED <<mem, cached_tokens>>
        BY <1>4 DEF EmitLast, SendSentinel, memVars
    <2> DEFINE n == n_cur + n_accepted
    <2>2. n \in Nat /\ n_cur <= n
        BY <1>1
    <2>3. n_prompt_tokens_total = Len(prompt_tokens) => EndsAt(mem, n)
        BY <2>1 DEF EndInv, CursorInv
    <2> HIDE DEF n
    <2> QED
        BY <2>1, <2>2, <2>3, KeptEnds DEF LoopPoints
<1>5. CASE ProposeDraft \/ SampleTarget \/ VerifyRejects \/ VerifyExhausted \/ VerifyThrows
    <2>1. /\ UNCHANGED <<mem, cached_tokens, may_reuse_prefix, prompt_tokens,
                         n_prompt_tokens_total, n_cur>>
          /\ \/ pc = "draft" /\ pc' = "sample" /\ n_accepted' = n_accepted
             \/ pc = "sample" /\ pc' = "emit" /\ n_accepted' = 0
             \/ pc = "verify" /\ pc' = "rollback" /\ UNCHANGED <<n_accepted, draft_tokens>>
        BY <1>5 DEF ProposeDraft, SampleTarget, VerifyRejects, VerifyExhausted, VerifyThrows,
                    memVars, callConst
    <2>2. CursorInv'
        BY <1>1, <2>1 DEF EndInv, CursorInv
    <2>3. cached_tokens' # <<>> => Len(cached_tokens') <= n_cur'
        BY <2>1 DEF EndInv, EntryInv, LoopPoints
    <2> QED
        BY <2>1, <2>2, <2>3, LoopEnds DEF LoopPoints
<1> QED
    BY <1>2, <1>3, <1>4, <1>5

\* While a draft is verified there is no entry.
LEMMA EndInvVerify ==
    ASSUME IInv, EndInv, SampleConfirmsDraft \/ VerifyAccepts PROVE EndInv'
<1>1. /\ MemOK(mem) /\ draft_tokens \in Seq(Token) /\ Len(draft_tokens) \in Nat
      /\ n_cur \in Nat /\ n_accepted \in Nat
    BY Samplable DEF IInv, TypeOK
<1>2. pc \in LoopPoints /\ cached_tokens = <<>>
    BY DEF SampleConfirmsDraft, VerifyAccepts, IInv, NoReuseInv, LoopPoints
<1>3. CASE SampleConfirmsDraft /\ SendSentinel
    BY <1>2, <1>3, ForgottenEnds DEF SampleConfirmsDraft, SendSentinel
<1>4. CASE SampleConfirmsDraft /\ ~SendSentinel
    <2>1. PICK answer \in DecodeAnswers(n_cur, draft_tokens) :
            /\ mem' = answer.mem /\ answer.rc = "ok"
            /\ pc' = "verify" /\ n_accepted' = 1
            /\ UNCHANGED <<callConst, n_cur, draft_tokens>>
        BY <1>4 DEF SampleConfirmsDraft
    <2>2. pc = "sample" /\ draft_tokens # <<>> /\ UNCHANGED cached_tokens
        BY <1>4 DEF SampleConfirmsDraft
    <2>3. mem' = Fed(mem, draft_tokens)
        BY <1>1, <2>1, <2>2, DecodeAnswersOK
    <2>4. EndsAt(mem, n_cur) => EndsAt(mem', n_cur + Len(draft_tokens))
        BY <1>1, <2>3, FedEnds
    <2>5. 1 \in 0..Len(draft_tokens)
        BY <1>1, <2>2
    <2>6. CursorInv'
        BY <2>1, <2>2, <2>4, <2>5 DEF EndInv, CursorInv, callConst
    <2> QED
        BY <1>2, <2>1, <2>2, <2>6, LoopEnds DEF callConst, LoopPoints
<1>5. CASE VerifyAccepts
    <2>1. /\ pc = "verify" /\ pc' \in {"verify", "rollback"}
          /\ n_accepted < Len(draft_tokens) /\ n_accepted' = n_accepted + 1
          /\ UNCHANGED <<mem, cached_tokens, may_reuse_prefix, prompt_tokens,
                         n_prompt_tokens_total, n_cur, draft_tokens>>
        BY <1>5 DEF VerifyAccepts, memVars, callConst
    <2>2. CursorInv'
        BY <1>1, <2>1 DEF EndInv, CursorInv
    <2> QED
        BY <1>2, <2>1, <2>2, LoopEnds DEF LoopPoints
<1> QED
    BY <1>3, <1>4, <1>5

\* What was not accepted is evicted.
LEMMA EndInvRollback ==
    ASSUME Arch = "attention", IInv, EndInv, Rollback PROVE EndInv'
<1>1. /\ MemOK(mem) /\ Len(draft_tokens) \in Nat /\ n_cur \in Nat /\ n_accepted \in Nat
    BY DEF IInv, TypeOK
<1>2. pc = "rollback" /\ pc \in LoopPoints /\ cached_tokens = <<>> /\ UNCHANGED cached_tokens
    BY DEF Rollback, IInv, NoReuseInv, LoopPoints
<1>3. CASE SendSentinel
    BY <1>2, <1>3, ForgottenEnds DEF SendSentinel
<1>4. CASE ~SendSentinel
    <2> DEFINE n == n_cur + n_accepted
    <2>1. /\ pc' = "emit"
          /\ mem' = IF n_accepted < Len(draft_tokens) THEN SeqRmFrom(mem, n) ELSE mem
          /\ UNCHANGED <<may_reuse_prefix, prompt_tokens, n_prompt_tokens_total, n_cur, n_accepted>>
        BY <1>4 DEF Rollback, EvictFrom, callVars, callConst, roundVars
    <2>2. ASSUME n_prompt_tokens_total = Len(prompt_tokens) PROVE EndsAt(mem', n)
        <3>1. EndsAt(mem, n_cur + Len(draft_tokens)) /\ n_accepted \in 0..Len(draft_tokens)
            BY <1>2, <2>2 DEF EndInv, CursorInv
        <3>2. CASE n_accepted = Len(draft_tokens)
            BY <1>1, <2>1, <3>1, <3>2
        <3>3. CASE n_accepted < Len(draft_tokens)
            <4> DEFINE end == n_cur + Len(draft_tokens)
            <4>1. n \in Nat /\ end \in Nat /\ n < end
                BY <1>1, <3>3
            <4>2. CanTrim(mem, n)
                BY <1>1, Kinds DEF MemOK, CanTrim
            <4>3. mem' = Trimmed(mem, n)
                BY <2>1, <3>3, <4>2 DEF SeqRmFrom
            <4>4. EndsAt(mem, end)
                BY <3>1
            <4> HIDE DEF n, end
            <4> QED
                BY <1>1, <4>1, <4>2, <4>3, <4>4, TrimmedEnds
        <3> QED
            BY <3>1, <3>2, <3>3, <1>1
    <2>3. CursorInv'
        BY <2>1, <2>2 DEF CursorInv
    <2> QED
        BY <1>2, <2>1, <2>3, LoopEnds DEF LoopPoints
<1> QED
    BY <1>3, <1>4

LEMMA EndInvEmit == ASSUME IInv, EndInv, EmitAndDecode \/ EmitDecodeFails PROVE EndInv'
<1>1. CASE EmitDecodeFails
    BY <1>1, ForgottenEnds DEF EmitDecodeFails, SendSentinel
<1>2. CASE EmitAndDecode
    <2> DEFINE n  == n_cur + n_accepted
               ts == <<t_extra>>
    <2>1. /\ pc = "emit" /\ pc' = "head" /\ n_cur' = n + 1 /\ n_accepted' = 0
          /\ cached_tokens' = Mirrored(t_extra)
          /\ UNCHANGED <<may_reuse_prefix, prompt_tokens, n_prompt_tokens_total>>
          /\ \E answer \in DecodeAnswers(n, ts) : answer.rc = "ok" /\ mem' = answer.mem
        BY <1>2 DEF EmitAndDecode, callConst
    <2>2. PICK answer \in DecodeAnswers(n, ts) : answer.rc = "ok" /\ mem' = answer.mem
        BY <2>1
    <2>3. t_extra \in Token
        BY <2>1, Samplable DEF IInv, EmitInv
    <2>4. /\ n \in Nat /\ n_cur <= n /\ n_cur \in Nat /\ MemOK(mem)
          /\ ts \in Seq(Token) /\ ts # <<>> /\ Len(ts) = 1
          /\ cached_tokens \in Seq(Token) /\ Len(cached_tokens) \in Nat
        BY <2>3 DEF IInv, TypeOK
    <2>5. cached_tokens' # <<>> => Len(cached_tokens') <= n + 1
        <3>1. Len(cached_tokens) <= n
            BY <2>1, <2>4 DEF EndInv, EntryInv, LoopPoints
        <3>2. Len(Append(cached_tokens, t_extra)) = Len(cached_tokens) + 1
            BY <2>3, <2>4
        <3> QED
            BY <2>1, <2>4, <3>1, <3>2 DEF Mirrored
    <2> HIDE DEF n, ts
    <2>6. mem' = Fed(mem, ts)
        BY <2>2, <2>4, DecodeAnswersOK
    <2>7. EndsAt(mem, n) => EndsAt(mem', n + 1)
        <3>1. EndsAt(mem, n) => EndsAt(Fed(mem, ts), n + Len(ts))
            BY <2>4, FedEnds
        <3> QED
            BY <2>4, <2>6, <3>1
    <2>8. n_prompt_tokens_total = Len(prompt_tokens) => EndsAt(mem, n)
        BY <2>1 DEF EndInv, CursorInv, n
    <2>9. CursorInv'
        BY <2>1, <2>7, <2>8 DEF CursorInv
    <2> QED
        BY <2>1, <2>5, <2>9, LoopEnds DEF LoopPoints
<1> QED
    BY <1>1, <1>2

LEMMA EndInvInductive ==
    ASSUME RollbackWorks, NoDrafts => NoDraftsInv, IInv, MInv, EndInv, [Next]_vars
    PROVE  EndInv'
<1>1. CASE AbortGeneration \/ UNCHANGED vars
    <2>1. UNCHANGED <<pc, ctx, mem, cached_tokens, may_reuse_prefix, n_eval, n_cur,
                      prompt_tokens, n_prompt_tokens_total, draft_tokens, n_accepted>>
        BY <1>1 DEF AbortGeneration, vars, statics, memVars, callVars, callConst, roundVars
    <2> QED
        BY <2>1, SameEnds
<1>2. CASE Reply
    <2>1. CASE Rollback
        BY <2>1, EndInvRollback DEF RollbackWorks, NoDrafts, NoDraftsInv, Rollback
    <2> QED
        BY <1>2, <2>1, EndInvHead, EndInvChoice, EndInvVerify, EndInvEmit
           DEF Reply, Verify, Emit
<1> QED
    BY <1>1, <1>2, EndInvLifecycle, EndInvStart, EndInvMedia, EndInvPrefill DEF Next, Generate

\* The cursor of the bridge is where the memory ends, behind context shifts,
\* verification and rollback too: no decode of a reply to text is rejected for
\* its position (nl-kv-reuse.h:29-30).  It is true of every architecture, as
\* long as no draft is verified on a recurrent state.
THEOREM EngineCursorFollows ==
    ASSUME RollbackWorks PROVE Spec => []CursorFollowsMemory
<1>1. Init => MInv /\ EndInv /\ (NoDrafts => NoDraftsInv)
    BY DEF Init, MInv, QuietInv, MirrorInv, EndInv, EntryInv, PrefillEnds, CursorInv,
           NoDraftsInv, LoopPoints
<1>2. (NoDrafts => NoDraftsInv) /\ [Next]_vars => (NoDrafts => NoDraftsInv)'
    BY NoDraftsInductive
<1>3. IInv /\ MInv /\ (NoDrafts => NoDraftsInv) /\ EndInv /\ [Next]_vars => EndInv'
    BY EndInvInductive
<1>4. IInv /\ EndInv => CursorFollowsMemory
    <2> SUFFICES ASSUME IInv, EndInv, pc \in {"head", "draft", "sample", "emit"},
                        n_prompt_tokens_total = Len(prompt_tokens)
                 PROVE  n_cur + n_accepted = PosMax(mem) + 1
        BY DEF CursorFollowsMemory
    <2> DEFINE n == n_cur + n_accepted
    <2>1. n_cur \in Nat /\ n_accepted \in Nat /\ n \in Nat /\ MemOK(mem)
        BY DEF IInv, TypeOK
    <2>2. EndsAt(mem, n)
        BY <2>1 DEF EndInv, CursorInv
    <2> HIDE DEF n
    <2>3. PosMax(mem) = n - 1
        BY <2>1, <2>2, EndsAtPosMax
    <2> QED
        BY <2>1, <2>3 DEF n
<1> QED
    BY <1>1, <1>2, <1>3, <1>4, EngineInvariant, MInvInductive, PTL DEF Spec

-----------------------------------------------------------------------------
\* No end token is decoded.

LEMMA OneMore ==
    ASSUME NEW s \in Seq(Token), NEW t \in Token
    PROVE  /\ Len(s \o <<t>>) = Len(s) + 1
           /\ \A k \in 1..Len(s) : (s \o <<t>>)[k] = s[k]
           /\ (s \o <<t>>)[Len(s) + 1] = t
OBVIOUS

\* A memory no longer than the prompt holds nothing behind it.
LEMMA NothingBehind ==
    ASSUME Len(mem'.toks) \in Nat, Len(prompt_tokens') \in Nat,
           Len(mem'.toks) <= Len(prompt_tokens')
    PROVE  EogNeverDecoded'
BY DEF EogNeverDecoded

\* A projector that stops short leaves at most the prompt behind.
LEMMA EogMediaFails ==
    ASSUME IInv, EndsAt(mem, 0), MediaEvalFails PROVE EogNeverDecoded'
<1>1. /\ MemOK(mem) /\ prompt_tokens \in Seq(Token) /\ Len(prompt_tokens) \in Nat
      /\ UNCHANGED prompt_tokens
    BY DEF IInv, TypeOK, MediaEvalFails
<1>2. Len(mem.toks) = 0
    <2>1. CASE HasAttention
        BY <2>1 DEF EndsAt
    <2>2. CASE ~HasAttention
        BY <1>1, <2>2 DEF MemOK
    <2> QED
        BY <2>1, <2>2
<1>3. PICK k \in 0..(Len(prompt_tokens) - 1) :
         \E batch \in 0..(Len(prompt_tokens) - k) :
            mem' = IF batch = 0 THEN Fed(mem, SubSeq(prompt_tokens, 1, k))
                   ELSE Failed(Fed(mem, SubSeq(prompt_tokens, 1, k)),
                               SubSeq(prompt_tokens, k + 1, k + batch))
    BY DEF MediaEvalFails
<1>4. PICK batch \in 0..(Len(prompt_tokens) - k) :
         mem' = IF batch = 0 THEN Fed(mem, SubSeq(prompt_tokens, 1, k))
                ELSE Failed(Fed(mem, SubSeq(prompt_tokens, 1, k)),
                            SubSeq(prompt_tokens, k + 1, k + batch))
    BY <1>3
<1> DEFINE ts == SubSeq(prompt_tokens, 1, k)
           us == SubSeq(prompt_tokens, k + 1, k + batch)
           taken == Fed(mem, ts)
<1>5. /\ ts \in Seq(Token) /\ Len(ts) = k /\ k \in Nat
      /\ us \in Seq(Token) /\ Len(us) = batch /\ batch \in Nat
      /\ k + batch <= Len(prompt_tokens)
    BY <1>1
<1>6. mem' = taken \/ mem' = Failed(taken, us)
    BY <1>4
<1> HIDE DEF ts, us
<1>7. MemOK(taken) /\ Len(taken.toks) \in Nat /\ Len(taken.toks) <= k
    BY <1>1, <1>2, <1>5, FedOK, FedLength
<1> HIDE DEF taken
<1>8. Len(Failed(taken, us).toks) \in Nat /\ Len(Failed(taken, us).toks) <= k + batch
    BY <1>5, <1>7, FailedLength
<1>9. Len(mem'.toks) \in Nat /\ Len(mem'.toks) <= Len(prompt_tokens)
    BY <1>1, <1>5, <1>6, <1>7, <1>8
<1> QED
    BY <1>1, <1>9, NothingBehind

\* What the reply loop decodes is a sampled token that does not end the reply.
LEMMA EogEmit ==
    ASSUME IInv, EogNeverDecoded, EmitAndDecode, ~slid' PROVE EogNeverDecoded'
<1> DEFINE ts == <<t_extra>>
<1>1. /\ pc = "emit" /\ ~EndsReply(t_extra) /\ UNCHANGED <<prompt_tokens, slid>>
      /\ \E answer \in DecodeAnswers(n_cur + n_accepted, ts) :
            answer.rc = "ok" /\ mem' = answer.mem
    BY DEF EmitAndDecode, callConst
<1>2. t_extra \in Token /\ t_extra \notin Eog
    BY <1>1, Samplable DEF IInv, EmitInv, EndsReply
<1>3. /\ MemOK(mem) /\ mem.toks \in Seq(Token) /\ Len(mem.toks) \in Nat
      /\ n_cur + n_accepted \in Nat /\ ts \in Seq(Token) /\ ts # <<>>
      /\ Len(prompt_tokens) \in Nat
    BY <1>2 DEF IInv, TypeOK, MemOK, Memory
<1>4. mem' = Fed(mem, ts)
    BY <1>1, <1>3, DecodeAnswersOK
<1>5. \A k \in (Len(prompt_tokens) + 1)..Len(mem.toks) : mem.toks[k] \notin Eog
    BY <1>1 DEF EogNeverDecoded, LoopPoints
<1>6. CASE ~HasAttention
    <2>1. mem'.toks = <<>>
        BY <1>4, <1>6 DEF Fed
    <2> QED
        BY <1>1, <1>3, <2>1, NothingBehind
<1>7. CASE HasAttention
    <2>1. mem'.toks = mem.toks \o ts
        BY <1>4, <1>7 DEF Fed
    <2>2. /\ Len(mem'.toks) = Len(mem.toks) + 1
          /\ \A k \in 1..Len(mem.toks) : mem'.toks[k] = mem.toks[k]
          /\ mem'.toks[Len(mem.toks) + 1] = t_extra
        BY <1>2, <1>3, <2>1, OneMore
    <2>3. ASSUME NEW k \in (Len(prompt_tokens) + 1)..Len(mem'.toks)
          PROVE  mem'.toks[k] \notin Eog
        <3>1. CASE k = Len(mem.toks) + 1
            BY <1>2, <2>2, <3>1
        <3>2. CASE k # Len(mem.toks) + 1
            <4>1. k \in (Len(prompt_tokens) + 1)..Len(mem.toks) /\ k \in 1..Len(mem.toks)
                BY <1>3, <2>2, <3>2
            <4> QED
                BY <1>5, <2>2, <4>1
        <3> QED
            BY <3>1, <3>2
    <2> QED
        BY <1>1, <2>3 DEF EogNeverDecoded
<1> QED
    BY <1>6, <1>7

\* A call that drafts decodes the draft whole; without one, every other step of
\* the reply leaves the memory alone or shifts it.
LEMMA EogInductive ==
    ASSUME IInv, MInv, NoDraftsInv, EndInv, EogNeverDecoded, [Next]_vars
    PROVE  EogNeverDecoded'
<1>0. SUFFICES ASSUME pc' \in LoopPoints, ~slid' PROVE EogNeverDecoded'
    BY DEF EogNeverDecoded
<1> USE <1>0
<1>9. MemOK(mem) /\ prompt_tokens \in Seq(Token) /\ Len(prompt_tokens) \in Nat
    BY DEF IInv, TypeOK
<1>10. ASSUME MemOK(mem'), EndsAt(mem', Len(prompt_tokens)), UNCHANGED prompt_tokens
       PROVE  EogNeverDecoded'
    <2>1. HasAttention => Len(mem'.toks) = Len(prompt_tokens)
        BY <1>10 DEF EndsAt
    <2>2. ~HasAttention => Len(mem'.toks) = 0
        BY <1>10 DEF MemOK
    <2> QED
        BY <1>9, <1>10, <2>1, <2>2, NothingBehind
<1>1. CASE Lifecycle
    BY <1>1 DEF Lifecycle, InitLlama, InitRefused, ResetContext, ResetContextTo,
                InitVision, InitDraftModel, DisposeLlama, GetEmbedding,
                EmbeddingLeaving, Abort, LoopPoints
<1>2. CASE StartCall
    BY <1>2, CallsBeginQuietly DEF LoopPoints
<1>3. CASE Media
    <2>1. pc = "media" /\ EndsAt(mem, 0)
        BY <1>3 DEF Media, MediaTokenizeFails, MediaEvaluated, MediaEvalFails, EndInv,
                    PrefillEnds
    <2>2. CASE MediaTokenizeFails
        BY <2>2 DEF MediaTokenizeFails, SendSentinel, LoopPoints
    <2>3. CASE MediaEvaluated
        <3>1. mem' = Fed(mem, prompt_tokens) /\ UNCHANGED prompt_tokens
            BY <2>3 DEF MediaEvaluated
        <3>2. EndsAt(mem', 0 + Len(prompt_tokens)) /\ MemOK(mem')
            BY <1>9, <2>1, <3>1, FedEnds, FedOK
        <3>3. EndsAt(mem', Len(prompt_tokens))
            BY <1>9, <3>2
        <3> QED
            BY <1>10, <3>1, <3>2, <3>3
    <2> QED
        BY <1>3, <2>1, <2>2, <2>3, EogMediaFails DEF Media
<1>4. CASE Prefill
    <2>1. /\ pc = "prefill" /\ n_eval >= Len(prompt_tokens)
          /\ UNCHANGED <<mem, prompt_tokens>>
        BY <1>4 DEF Prefill, PrefillChunk, PrefillFails, PrefillFailsLeaving, PrefillDone,
                    ReturnSilently, Abort, LoopPoints, callConst
    <2>2. n_eval \in Nat /\ n_eval = Len(prompt_tokens)
        BY <1>9, <2>1 DEF IInv, PrefillInv, TypeOK
    <2>3. EndsAt(mem, n_eval)
        BY <2>1, <2>2 DEF EndInv, PrefillEnds
    <2> QED
        BY <1>9, <1>10, <2>1, <2>2, <2>3
<1>5. CASE Reply
    <2>1. CASE EmitAndDecode
        BY <2>1, EogEmit
    <2>2. CASE ~EmitAndDecode
        <3>1. pc \in LoopPoints /\ UNCHANGED <<mem, prompt_tokens, slid>>
            BY <1>5, <2>2
               DEF Reply, LoopStops, LoopContinues, LoopShifts, ProposeDraft,
                   SamplerThrows, SampleWithoutLogits, SampleTarget, SampleConfirmsDraft,
                   Verify, VerifyAccepts, VerifyRejects, VerifyExhausted, VerifyThrows,
                   Rollback, Emit, EmitLast, EmitDecodeFails, SendSentinel, Abort,
                   NoDraftsInv, LoopPoints, memVars, callVars, callConst, history
        <3> QED
            BY <3>1 DEF EogNeverDecoded
    <2> QED
        BY <2>1, <2>2
<1>6. CASE AbortGeneration \/ UNCHANGED vars
    <2>1. UNCHANGED <<mem, pc, prompt_tokens, slid>>
        BY <1>6 DEF AbortGeneration, vars, memVars, callVars, callConst, history
    <2> QED
        BY <2>1 DEF EogNeverDecoded
<1> QED
    BY <1>1, <1>2, <1>3, <1>4, <1>5, <1>6 DEF Next, Generate

\* "An end-of-generation token is never decoded" (native-lib.cpp:966-969): it
\* is true of calls that do not draft.
THEOREM EngineNeverDecodesEog == ASSUME NoDrafts PROVE Spec => []EogNeverDecoded
<1>1. Init => MInv /\ EndInv /\ NoDraftsInv /\ EogNeverDecoded
    BY DEF Init, MInv, QuietInv, MirrorInv, EndInv, EntryInv, PrefillEnds, CursorInv,
           NoDraftsInv, EogNeverDecoded, LoopPoints
<1>2. NoDraftsInv /\ [Next]_vars => NoDraftsInv'
    BY NoDraftsInductive
<1>3. IInv /\ MInv /\ NoDraftsInv /\ EndInv /\ [Next]_vars => EndInv'
    BY EndInvInductive DEF RollbackWorks, NoDrafts
<1>4. IInv /\ MInv /\ NoDraftsInv /\ EndInv /\ EogNeverDecoded /\ [Next]_vars
        => EogNeverDecoded'
    BY EogInductive
<1> QED
    BY <1>1, <1>2, <1>3, <1>4, EngineInvariant, MInvInductive, PTL DEF Spec

-----------------------------------------------------------------------------
\* llama.cpp is not driven into abort().

NoMedia == "vision" \notin Features

\* No recurrent tail has been emptied under its name.
NothingStale == mem.tail # "stale"

\* There is a row to sample from.
RowsInv ==
    /\ pc \notin {"media", "aborted"}
    /\ pc \in LoopPoints => logits # <<>>
    /\ pc = "prefill" /\ n_eval = Len(prompt_tokens) => logits # <<>>

LEMMA NoDecodeAborts ==
    ASSUME NothingStale, NEW pos, NEW ts, NEW answer \in DecodeAnswers(pos, ts)
    PROVE  answer.rc # "abort" /\ answer.mem.tail # "stale"
<1>1. \/ answer = [rc |-> "error", mem |-> mem]
      \/ answer = [rc |-> "ok", mem |-> Fed(mem, ts)]
      \/ answer = [rc |-> "error", mem |-> Failed(mem, ts)]
    BY DEF DecodeAnswers, NothingStale
<1> QED
    BY <1>1, DecodedTail DEF NothingStale

\* Trimming, shifting and wiping empty a tail together with its name.
LEMMA EvictedTail ==
    ASSUME NEW m, m.tail # "stale", NEW n, NEW k, NEW end
    PROVE  /\ Trimmed(m, n).tail # "stale" /\ SeqRmFrom(m, n).tail # "stale"
           /\ WindowDropped(m, n, k, end).tail # "stale" /\ Cleared.tail # "stale"
BY DEF Trimmed, SeqRmFrom, WindowDropped, Cleared

LEMMA PreparedTail ==
    ASSUME NEW m, m.tail # "stale", NEW cached, NEW p, NEW may
    PROVE  PreparedFor(m, cached, p, may).mem.tail # "stale"
<1> DEFINE plan == PlanPrefixReuse(cached, p, may)
           r == PreparedFor(m, cached, p, may)
<1>1. \/ r = [mem |-> Cleared, n_reuse |-> 0]
      \/ r = [mem |-> Trimmed(m, plan.n_reuse), n_reuse |-> plan.n_reuse]
      \/ r = [mem |-> m, n_reuse |-> plan.n_reuse]
    BY DEF PreparedFor
<1> HIDE DEF plan, r
<1>2. r.mem = Cleared \/ r.mem = Trimmed(m, plan.n_reuse) \/ r.mem = m
    BY <1>1
<1>3. r.mem.tail # "stale"
    BY <1>2 DEF Trimmed, Cleared
<1> QED
    BY <1>3 DEF r

LEMMA StaleInductive ==
    ASSUME EmbeddingsAreSafe, MemOK(mem), NothingStale, [Next]_vars PROVE NothingStale'
<1>0. mem.tail # "stale"
    BY DEF NothingStale
<1>9. ASSUME UNCHANGED mem PROVE NothingStale'
    BY <1>0, <1>9 DEF NothingStale
<1>1. CASE Lifecycle
    <2>1. CASE GetEmbedding
        <3> DEFINE wiped == SeqRmEverything(mem)
        <3>1. mem.tail = "none" /\ ~HasRecurrent
            BY <2>1, Kinds DEF GetEmbedding, EmbeddingLeaving, EmbeddingsAreSafe, MemOK
        <3>2. wiped.tail = "none"
            BY <3>1 DEF SeqRmEverything, Cleared
        <3> HIDE DEF wiped
        <3>3. PICK text \in Prompts :
                mem' \in {Fed(wiped, text), SeqRmEverything(Fed(wiped, text)),
                          wiped, Failed(wiped, text)}
            BY <2>1, <3>2 DEF GetEmbedding, EmbeddingLeaving, wiped
        <3>4. Fed(wiped, text).tail = "none" /\ Failed(wiped, text).tail # "stale"
            BY <3>1, <3>2, DecodedTail DEF Fed
        <3>5. SeqRmEverything(Fed(wiped, text)).tail = "none"
            BY <3>4 DEF SeqRmEverything, Cleared
        <3> QED
            BY <3>2, <3>3, <3>4, <3>5 DEF NothingStale
    <2>2. CASE InitLlama \/ ResetContext \/ DisposeLlama
        <3>1. mem' = Cleared
            BY <2>2 DEF InitLlama, ResetContext, ResetContextTo, DisposeLlama
        <3> QED
            BY <3>1 DEF NothingStale, Cleared
    <2>3. CASE InitRefused \/ InitVision \/ InitDraftModel
        BY <1>9, <2>3 DEF InitRefused, InitVision, InitDraftModel, memVars
    <2> QED
        BY <1>1, <2>1, <2>2, <2>3 DEF Lifecycle
<1>2. CASE StartCall
    <2>1. CASE StartWithoutContext
        BY <1>9, <2>1 DEF StartWithoutContext, memVars
    <2>2. ASSUME NEW p \in Prompts, StartMedia(p) PROVE NothingStale'
        BY <2>2 DEF StartMedia, StartMediaLeaving, NothingStale, Cleared
    <2>3. ASSUME NEW p \in Prompts, NEW media \in BOOLEAN, NEW grammar \in BOOLEAN,
                 StartText(p, media, grammar)
          PROVE  NothingStale'
        <3> DEFINE drafting == ctx_draft /\ ~media
                   m0 == IF drafting THEN Cleared ELSE mem
                   c0 == IF drafting THEN <<>> ELSE cached_tokens
                   may == ~drafting
        <3>1. mem' = PreparedFor(m0, c0, p, may).mem
            BY <2>3 DEF StartText
        <3>2. m0.tail # "stale"
            BY <1>0 DEF Cleared
        <3> HIDE DEF m0, c0, may
        <3> QED
            BY <3>1, <3>2, PreparedTail DEF NothingStale
    <2> QED
        BY <1>2, <2>1, <2>2, <2>3 DEF StartCall
<1>3. CASE Media
    <2>1. CASE MediaTokenizeFails
        BY <1>9, <2>1 DEF MediaTokenizeFails, memVars
    <2>2. CASE MediaEvaluated
        BY <1>0, <2>2, DecodedTail DEF MediaEvaluated, NothingStale
    <2>3. CASE MediaEvalFails
        <3>1. \E ts, us : mem' = Fed(mem, ts) \/ mem' = Failed(Fed(mem, ts), us)
            BY <2>3 DEF MediaEvalFails
        <3>2. PICK ts, us : mem' = Fed(mem, ts) \/ mem' = Failed(Fed(mem, ts), us)
            BY <3>1
        <3> DEFINE taken == Fed(mem, ts)
        <3>3. taken.tail # "stale"
            BY <1>0, DecodedTail
        <3> HIDE DEF taken
        <3>4. Failed(taken, us).tail # "stale"
            BY <3>3, DecodedTail
        <3> QED
            BY <3>2, <3>3, <3>4 DEF NothingStale, taken
    <2> QED
        BY <1>3, <2>1, <2>2, <2>3 DEF Media
<1>4. ASSUME NEW pos, NEW ts, NEW answer \in DecodeAnswers(pos, ts), mem' = answer.mem
      PROVE  NothingStale'
    BY <1>4, NoDecodeAborts DEF NothingStale
<1>5. CASE Prefill
    <2>1. CASE PrefillChunk
        BY <1>4, <2>1 DEF PrefillChunk
    <2>2. CASE PrefillFails
        BY <1>4, <1>9, <2>2 DEF PrefillFails, PrefillFailsLeaving, Abort, memVars
    <2>3. CASE PrefillDone
        BY <1>9, <2>3 DEF PrefillDone
    <2> QED
        BY <1>5, <2>1, <2>2, <2>3 DEF Prefill
<1>6. CASE Reply
    <2>1. CASE SampleConfirmsDraft
        BY <1>4, <2>1 DEF SampleConfirmsDraft
    <2>2. CASE EmitAndDecode \/ EmitDecodeFails
        BY <1>4, <2>2 DEF EmitAndDecode, EmitDecodeFails
    <2>3. CASE LoopShifts \/ Rollback
        <3>1. \E n, k, end : mem' \in {mem, WindowDropped(mem, n, k, end), SeqRmFrom(mem, n)}
            BY <2>3 DEF LoopShifts, Rollback
        <3> QED
            BY <1>0, <3>1, EvictedTail DEF NothingStale
    <2>4. CASE \/ LoopStops \/ LoopContinues \/ ProposeDraft \/ SamplerThrows
               \/ SampleWithoutLogits \/ SampleTarget \/ Verify \/ EmitLast
        BY <1>9, <2>4
           DEF LoopStops, LoopContinues, ProposeDraft, SamplerThrows, SampleWithoutLogits,
               SampleTarget, Verify, VerifyAccepts, VerifyRejects, VerifyExhausted,
               VerifyThrows, EmitLast, Abort, memVars
    <2> QED
        BY <1>6, <2>1, <2>2, <2>3, <2>4 DEF Reply, Emit
<1>7. CASE AbortGeneration \/ UNCHANGED vars
    BY <1>7, <1>9 DEF AbortGeneration, vars, memVars
<1> QED
    BY <1>1, <1>2, <1>3, <1>5, <1>6, <1>7 DEF Next, Generate

LEMMA RowsInductive ==
    ASSUME EmbeddingsAreSafe, NoMedia, IInv, NothingStale, RowsInv, [Next]_vars
    PROVE  RowsInv'
<1>9. MemOK(mem)
    BY DEF IInv
<1>1. CASE Lifecycle
    <2>1. CASE GetEmbedding
        <3>1. SeqRmEverything(mem).tail # "stale"
            BY <1>9, <2>1, Kinds
               DEF GetEmbedding, EmbeddingLeaving, EmbeddingsAreSafe, MemOK,
                   SeqRmEverything, Cleared
        <3> QED
            BY <2>1, <3>1 DEF GetEmbedding, EmbeddingLeaving, RowsInv, LoopPoints
    <2>2. CASE ~GetEmbedding
        BY <1>1, <2>2 DEF Lifecycle, InitLlama, InitRefused, ResetContext, ResetContextTo,
                          InitVision, InitDraftModel, DisposeLlama, RowsInv, LoopPoints
    <2> QED
        BY <2>1, <2>2
<1>2. CASE StartCall
    <2>1. CASE StartWithoutContext
        BY <2>1 DEF StartWithoutContext, RowsInv, LoopPoints
    <2>2. ASSUME NEW p \in Prompts, NEW media \in BOOLEAN, NEW grammar \in BOOLEAN,
                 StartText(p, media, grammar)
          PROVE  RowsInv'
        <3> DEFINE drafting == ctx_draft /\ ~media
                   m0 == IF drafting THEN Cleared ELSE mem
                   c0 == IF drafting THEN <<>> ELSE cached_tokens
                   may == ~drafting
                   r  == PreparedFor(m0, c0, p, may)
        <3>1. pc' = "prefill" /\ prompt_tokens' = p /\ n_eval' = r.n_reuse
            BY <2>2 DEF StartText
        <3>2. p \in Seq(Token) /\ p # <<>> /\ Len(p) \in Nat
            BY EngineAssumption
        <3>3. MemOK(m0) /\ c0 \in Seq(Token) /\ may \in BOOLEAN
            BY ClearedContent DEF IInv, TypeOK
        <3> HIDE DEF m0, c0, may
        <3>4. r.n_reuse \in 0..(Len(p) - 1)
            BY <3>2, <3>3, PreparedOK
        <3> HIDE DEF r
        <3>5. n_eval' # Len(p)
            BY <3>1, <3>2, <3>4
        <3> QED
            BY <3>1, <3>5 DEF RowsInv, LoopPoints
    <2> QED
        BY <1>2, <2>1, <2>2 DEF StartCall, StartMedia, StartMediaLeaving, NoMedia
<1>3. CASE Media
    BY <1>3 DEF Media, MediaTokenizeFails, MediaEvaluated, MediaEvalFails, RowsInv
<1>4. CASE Prefill
    <2>1. CASE PrefillChunk
        <3>1. pc' = "prefill" /\ logits' = RowsAfter(n_eval', mem') /\ UNCHANGED prompt_tokens
            BY <2>1 DEF PrefillChunk
        <3> QED
            BY <3>1 DEF RowsInv, RowsAfter, LoopPoints
    <2>2. CASE PrefillFails
        <3>1. pc' = "idle"
            BY <2>2, NoDecodeAborts DEF PrefillFails, PrefillFailsLeaving, ReturnSilently
        <3> QED
            BY <3>1 DEF RowsInv, LoopPoints
    <2>3. CASE PrefillDone
        <3>1. pc = "prefill" /\ pc' = "head" /\ UNCHANGED logits /\ n_eval = Len(prompt_tokens)
            BY <2>3 DEF PrefillDone, IInv, PrefillInv, TypeOK
        <3> QED
            BY <3>1 DEF RowsInv
    <2> QED
        BY <1>4, <2>1, <2>2, <2>3 DEF Prefill
<1>5. CASE Reply
    <2>1. CASE SendSentinel
        BY <2>1 DEF SendSentinel, RowsInv, LoopPoints
    <2>2. CASE SampleConfirmsDraft /\ ~SendSentinel
        <3>1. /\ pc' = "verify"
              /\ logits' = [k \in 1..Len(draft_tokens) |-> VerificationRow(k)]
              /\ draft_tokens # <<>>
            BY <2>2 DEF SampleConfirmsDraft
        <3>2. Len(draft_tokens) \in Nat /\ Len(draft_tokens) # 0
            BY <3>1 DEF IInv, TypeOK
        <3>3. Len(logits') = Len(draft_tokens)
            BY <3>1, <3>2
        <3>4. logits' # <<>>
            BY <3>2, <3>3
        <3> QED
            BY <3>1, <3>4 DEF RowsInv
    <2>3. CASE EmitAndDecode
        <3>1. logits' # <<>> /\ pc' = "head"
            BY <2>3 DEF EmitAndDecode
        <3> QED
            BY <3>1 DEF RowsInv
    <2>4. CASE \/ LoopContinues \/ ProposeDraft \/ SampleTarget \/ VerifyAccepts
               \/ VerifyRejects \/ VerifyExhausted \/ VerifyThrows
               \/ (LoopShifts \/ Rollback) /\ ~SendSentinel
        <3>1. pc \in LoopPoints /\ pc' \in LoopPoints /\ UNCHANGED logits
            BY <2>4 DEF LoopContinues, LoopShifts, AfterHead, ProposeDraft, SampleTarget,
                        VerifyAccepts, VerifyRejects, VerifyExhausted, VerifyThrows,
                        Rollback, LoopPoints, memVars
        <3> QED
            BY <3>1 DEF RowsInv, LoopPoints
    <2>5. ~SampleWithoutLogits
        BY DEF SampleWithoutLogits, RowsInv, LoopPoints
    <2> QED
        BY <1>5, <2>1, <2>2, <2>3, <2>4, <2>5
           DEF Reply, LoopStops, SamplerThrows, Verify, Emit, EmitLast, EmitDecodeFails
<1>6. CASE AbortGeneration \/ UNCHANGED vars
    <2>1. UNCHANGED <<pc, logits, n_eval, prompt_tokens>>
        BY <1>6 DEF AbortGeneration, vars, memVars, callVars, callConst
    <2> QED
        BY <2>1 DEF RowsInv
<1> QED
    BY <1>1, <1>2, <1>3, <1>4, <1>5, <1>6 DEF Next, Generate

\* A text-only engine never asks llama.cpp for what it answers with abort(), "not
\* a C++ exception, so it kills the app" (native-lib.cpp:743-744), as long as
\* embeddings are left to models with attention only.
THEOREM EngineNeverAborts ==
    ASSUME EmbeddingsAreSafe, NoMedia PROVE Spec => []NeverAborts
<1>1. Init => RowsInv /\ NothingStale
    BY DEF Init, RowsInv, NothingStale, Cleared, LoopPoints
<1>2. IInv /\ NothingStale /\ [Next]_vars => NothingStale'
    BY StaleInductive DEF IInv
<1>3. IInv /\ NothingStale /\ RowsInv /\ [Next]_vars => RowsInv'
    BY RowsInductive
<1>4. RowsInv => NeverAborts
    BY DEF RowsInv, NeverAborts
<1> QED
    BY <1>1, <1>2, <1>3, <1>4, EngineInvariant, PTL DEF Spec
=============================================================================
