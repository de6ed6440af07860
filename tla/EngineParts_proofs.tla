------------------------- MODULE EngineParts_proofs -------------------------
(***************************************************************************)
(* What the two parts of the engine promise it, for sequences of any       *)
(* length and every architecture: facts about the operators of PrefixPlan  *)
(* and LlamaMemory that the engine's proofs cite.                          *)
(*                                                                         *)
(* The planner keeps a common prefix short of the prompt.  In the memory,  *)
(* decoding appends to Content, an accepted trim keeps a prefix, wiping    *)
(* leaves nothing; the engine's proofs argue about Content alone.  MemOK   *)
(* is the invariant of a memory reached through these operations.          *)
(***************************************************************************)
EXTENDS PrefixPlan, LlamaMemory, WellFoundedInduction, TLAPS

\* A nonempty set of naturals has a least element.
LEMMA LeastNatural ==
    ASSUME NEW T, T \subseteq Nat, T # {}
    PROVE  \E least \in T : \A k \in T : ~(k < least)
<1>1. \A p \in Nat \X Nat : p[1] < p[2] => p \in OpToRel(<, Nat)
    BY DEF OpToRel
<1>2. \A m, n \in Nat : m < n => <<m, n>> \in OpToRel(<, Nat)
    BY <1>1
<1>3. \E least \in T : \A k \in T : <<k, least>> \notin OpToRel(<, Nat)
    BY NatLessThanWellFounded, WFMin, Zenon
<1> QED
    BY <1>2, <1>3

\* nl_common_prefix_len returns: some index ends the loop, and it is the length
\* of a longest agreement.
LEMMA CommonPrefixLenCorrect ==
    ASSUME NEW S, NEW a \in Seq(S), NEW c \in Seq(S)
    PROVE  /\ CommonPrefixLen(a, c) \in 0..Shorter(a, c)
           /\ LongestAgreement(a, c, CommonPrefixLen(a, c))
<1> DEFINE Stops == {k \in 0..Shorter(a, c) :
                        k < Shorter(a, c) => a[k + 1] # c[k + 1]}
<1>1. Shorter(a, c) \in Nat
    BY DEF Shorter
<1>2. Shorter(a, c) \in Stops /\ Stops \subseteq Nat
    BY <1>1
<1>3. PICK i \in Stops : \A k \in Stops : ~(k < i)
    BY <1>2, LeastNatural
<1>4. Agree(a, c, i)
    <2> SUFFICES ASSUME NEW k \in 1..i PROVE a[k] = c[k]
        BY DEF Agree
    <2>1. k - 1 \in 0..Shorter(a, c) /\ k - 1 < i /\ k - 1 < Shorter(a, c)
        BY <1>1, <1>3
    <2>2. k - 1 \notin Stops
        BY <1>3, <2>1
    <2> QED
        BY <2>1, <2>2
<1>5. LongestAgreement(a, c, i) /\ i \in 0..Shorter(a, c)
    BY <1>1, <1>3, <1>4 DEF LongestAgreement
<1> QED
    BY <1>5 DEF CommonPrefixLen

\* A plan for a nonempty prompt keeps a common prefix short of the prompt.  It
\* either clears and keeps nothing, or trims to a shorter cache, or leaves a
\* cache that is a prefix of the prompt as it is.
LEMMA PlanPrefixReuseSound ==
    ASSUME NEW S, NEW cached \in Seq(S), NEW prompt \in Seq(S),
           NEW may_reuse \in BOOLEAN, prompt # <<>>,
           NEW plan, plan = PlanPrefixReuse(cached, prompt, may_reuse),
           NEW n, n = plan.n_reuse
    PROVE  /\ n \in 0..(Len(prompt) - 1)
           /\ n <= Len(cached)
           /\ SubSeq(cached, 1, n) = SubSeq(prompt, 1, n)
           /\ plan.needs_trim => 0 < n /\ n < Len(cached)
           /\ plan.needs_clear => n = 0
           /\ ~plan.needs_trim /\ ~plan.needs_clear => n = Len(cached) /\ may_reuse
<1>0. Len(prompt) \in Nat /\ Len(prompt) > 0 /\ Len(cached) \in Nat
    OBVIOUS
<1>1. CASE plan = ClearPlan
    <2>1. n = 0 /\ ~plan.needs_trim /\ plan.needs_clear
        BY <1>1 DEF ClearPlan
    <2> QED
        BY <1>0, <2>1
<1>2. CASE plan # ClearPlan
    <2> DEFINE i == CommonPrefixLen(cached, prompt)
               m == IF i = Len(prompt) THEN i - 1 ELSE i
    <2>1. may_reuse /\ plan = PlanReusing(cached, m)
        BY <1>2 DEF PlanPrefixReuse, PlanFor
    <2>2. i \in 0..Shorter(cached, prompt) /\ LongestAgreement(cached, prompt, i)
        BY CommonPrefixLenCorrect
    <2>3. i \in Nat /\ i <= Len(cached) /\ i <= Len(prompt) /\ Agree(cached, prompt, i)
        BY <1>0, <2>2 DEF LongestAgreement, Shorter
    <2> HIDE DEF i
    <2>4. m \in 0..(Len(prompt) - 1) /\ m <= Len(cached) /\ Agree(cached, prompt, m)
        BY <1>0, <2>3 DEF Agree
    <2> HIDE DEF m
    <2>5. m # 0
        BY <1>2, <2>1 DEF PlanReusing
    <2>10. plan = [n_reuse |-> m, needs_trim |-> m < Len(cached), needs_clear |-> FALSE]
        BY <2>1, <2>5 DEF PlanReusing
    <2>6. n = m
        BY <2>10
    <2>11. plan.needs_trim = (m < Len(cached)) /\ plan.needs_clear = FALSE
        BY <2>10
    <2>7. (plan.needs_trim <=> m < Len(cached)) /\ ~plan.needs_clear
        BY <2>11, Zenon
    <2>8. SubSeq(cached, 1, m) = SubSeq(prompt, 1, m)
        BY <1>0, <2>4 DEF Agree
    <2>9. /\ plan.needs_trim => 0 < n /\ n < Len(cached)
          /\ ~plan.needs_trim => n = Len(cached)
        BY <1>0, <2>4, <2>5, <2>6, <2>7
    <2> QED
        BY <1>0, <2>1, <2>4, <2>5, <2>6, <2>7, <2>8, <2>9
<1> QED
    BY <1>1, <1>2

-----------------------------------------------------------------------------
\* A recurrent tail that names no live cell describes nothing, and a live one
\* ends where its state does unless a shift or a failure has blended it.
MemOK(m) ==
    /\ m \in Memory
    /\ m.intact <= Len(m.toks) /\ m.last >= -1
    /\ ~HasAttention => m.toks = <<>>
    /\ ~HasRecurrent => m.state = <<>> /\ m.last = -1 /\ m.tail = "none"
    /\ m.tail # "live" => m.state = <<>> /\ m.last = -1
    /\ m.tail = "live" /\ m.state # Blend => m.last = Len(m.state) - 1

\* The three kinds of memory, spelled out.
LEMMA Kinds ==
    \/ Arch = "attention" /\ HasAttention /\ ~HasRecurrent
    \/ Arch = "recurrent" /\ ~HasAttention /\ HasRecurrent
    \/ Arch = "hybrid" /\ HasAttention /\ HasRecurrent
BY MemoryAssumption DEF Architectures, HasAttention, HasRecurrent

\* Content is a token sequence or Blend.
LEMMA ContentType ==
    ASSUME NEW m, MemOK(m)
    PROVE  Content(m) \in Seq(Token) \cup {Blend}
<1>1. AttentionContent(m) \in Seq(Token) \cup {Blend}
    BY DEF MemOK, Memory, AttentionContent
<1>2. m.state \in Seq(Token) \cup {Blend}
    BY DEF MemOK, Memory
<1>3. CASE Arch = "attention"
    BY <1>1, <1>3 DEF Content
<1>4. CASE Arch = "recurrent"
    BY <1>2, <1>4 DEF Content
<1>5. CASE Arch = "hybrid"
    BY <1>1, <1>2, <1>5 DEF Content
<1> QED
    BY <1>3, <1>4, <1>5, Kinds

\* Positions start at -1, the answer for an empty sequence.
LEMMA PosMaxType ==
    ASSUME NEW m, MemOK(m)
    PROVE  PosMax(m) \in Int /\ PosMax(m) >= -1
<1>1. Len(m.toks) \in Nat /\ m.last \in Int /\ m.last >= -1
    BY DEF MemOK, Memory
<1> QED
    BY <1>1, Kinds DEF PosMax, Smaller

\* A context that was just created or wiped holds nothing.
LEMMA ClearedContent == MemOK(Cleared) /\ Content(Cleared) = <<>>
<1>1. MemOK(Cleared)
    BY DEF MemOK, Memory, Cleared
<1>2. AttentionContent(Cleared) = <<>>
    BY DEF AttentionContent, Cleared
<1> QED
    BY <1>1, <1>2, Kinds DEF Content, Cleared

\* getEmbedding's whole-range removal keeps MemOK, stale tail or not.
LEMMA WipedOK ==
    ASSUME NEW m, MemOK(m)
    PROVE  MemOK(SeqRmEverything(m))
<1> DEFINE t == IF m.tail = "none" THEN "none" ELSE "stale"
<1>1. SeqRmEverything(m) = [toks |-> <<>>, intact |-> 0, state |-> <<>>,
                            last |-> -1, tail |-> t]
    BY DEF SeqRmEverything, Cleared
<1>2. t \in {"none", "stale"} /\ (~HasRecurrent => t = "none")
    BY DEF MemOK
<1> HIDE DEF t
<1> QED
    BY <1>1, <1>2 DEF MemOK, Memory

\* Decoding keeps MemOK.
LEMMA FedOK ==
    ASSUME NEW m, MemOK(m), NEW ts \in Seq(Token)
    PROVE  MemOK(Fed(m, ts))
<1> DEFINE f == Fed(m, ts)
<1>1. /\ f.toks = IF HasAttention THEN m.toks \o ts ELSE <<>>
      /\ f.intact = IF HasAttention /\ m.intact = Len(m.toks)
                    THEN Len(m.toks) + Len(ts) ELSE m.intact
      /\ f.state = IF HasRecurrent /\ m.state # Blend THEN m.state \o ts ELSE m.state
      /\ f.last = IF HasRecurrent THEN m.last + Len(ts) ELSE m.last
      /\ f.tail = IF HasRecurrent /\ ts # <<>> THEN "live" ELSE m.tail
    BY DEF Fed
<1>2. m.toks \in Seq(Token) /\ m.intact \in Nat /\ m.state \in Seq(Token) \cup {Blend}
      /\ m.last \in Int /\ m.tail \in {"none", "live", "stale"}
      /\ Len(m.toks) \in Nat /\ Len(ts) \in Nat /\ (ts = <<>> <=> Len(ts) = 0)
    BY DEF MemOK, Memory
<1>3. f.toks \in Seq(Token) /\ f.intact \in Nat /\ f.intact <= Len(f.toks)
    BY <1>1, <1>2 DEF MemOK
<1>4. f.state \in Seq(Token) \cup {Blend} /\ f.last \in Int
      /\ f.tail \in {"none", "live", "stale"}
    BY <1>1, <1>2
<1>5. f \in Memory
    BY <1>3, <1>4 DEF Memory, Fed
<1>6. f.tail # "live" => f.state = <<>> /\ f.last = -1
    BY <1>1, <1>2 DEF MemOK
<1>7. f.tail = "live" /\ f.state # Blend => f.last = Len(f.state) - 1
    <2> SUFFICES ASSUME f.tail = "live", f.state # Blend
                 PROVE  f.last = Len(f.state) - 1
        OBVIOUS
    <2>1. CASE ~HasRecurrent
        BY <1>1, <2>1 DEF MemOK
    <2>2. CASE HasRecurrent
        <3>1. m.state \in Seq(Token) /\ f.state = m.state \o ts /\ f.last = m.last + Len(ts)
            BY <1>1, <1>2, <2>2
        <3>2. m.state # Blend
            BY <1>1
        <3>3. m.last = Len(m.state) - 1
            BY <1>2, <3>1, <3>2 DEF MemOK
        <3> QED
            BY <1>2, <3>1, <3>3
    <2> QED
        BY <2>1, <2>2
<1>8. f.last >= -1
    BY <1>1, <1>2 DEF MemOK
<1> HIDE DEF f
<1>9. MemOK(f)
    BY <1>1, <1>3, <1>5, <1>6, <1>7, <1>8 DEF MemOK
<1> QED
    BY <1>9 DEF f

\* A decode appends its tokens to what the memory describes, if it describes
\* anything.
LEMMA FedContent ==
    ASSUME NEW m, MemOK(m), NEW ts \in Seq(Token), Content(m) # Blend
    PROVE  Content(Fed(m, ts)) = Content(m) \o ts
<1> DEFINE f == Fed(m, ts)
<1>1. m.toks \in Seq(Token) /\ m.intact \in Nat /\ m.state \in Seq(Token) \cup {Blend}
    BY DEF MemOK, Memory
<1>2. ASSUME HasAttention, m.intact = Len(m.toks)
      PROVE  AttentionContent(f) = m.toks \o ts
    <2>1. f.toks = m.toks \o ts /\ f.intact = Len(m.toks) + Len(ts)
        BY <1>2 DEF Fed
    <2> QED
        BY <1>1, <2>1 DEF AttentionContent
<1>3. ASSUME HasRecurrent, m.state # Blend
      PROVE  f.state = m.state \o ts
    BY <1>3 DEF Fed
<1> HIDE DEF f
<1>4. CASE Arch = "attention"
    BY <1>2, <1>4, Kinds DEF Content, AttentionContent, f
<1>5. CASE Arch = "recurrent"
    BY <1>3, <1>5, Kinds DEF Content, f
<1>6. CASE Arch = "hybrid"
    <2>1. m.state = AttentionContent(m) /\ m.state # Blend
        BY <1>6 DEF Content
    <2>2. m.intact = Len(m.toks) /\ m.state = m.toks
        BY <2>1 DEF AttentionContent
    <2> QED
        BY <1>2, <1>3, <1>6, <2>1, <2>2, Kinds DEF Content, f
<1> QED
    BY <1>4, <1>5, <1>6, Kinds

-----------------------------------------------------------------------------
\* Evicting the positions from n on keeps MemOK, refused or not.
LEMMA TrimmedOK ==
    ASSUME NEW m, MemOK(m), NEW n \in Nat, CanTrim(m, n)
    PROVE  MemOK(Trimmed(m, n))
<1> DEFINE r == Trimmed(m, n)
           k == Smaller(n, Len(m.toks))
<1>1. m.toks \in Seq(Token) /\ m.intact \in Nat /\ m.state \in Seq(Token) \cup {Blend}
      /\ m.last \in Int /\ m.tail \in {"none", "live", "stale"} /\ Len(m.toks) \in Nat
    BY DEF MemOK, Memory
<1>2. k \in Nat /\ k <= Len(m.toks) /\ k <= n /\ (k = n \/ k = Len(m.toks))
    BY <1>1 DEF Smaller
<1>3. r.toks = SubSeq(m.toks, 1, k) /\ r.intact = Smaller(m.intact, n)
    BY DEF Trimmed
<1> HIDE DEF k
<1>4. /\ r.toks \in Seq(Token) /\ Len(r.toks) = k
      /\ r.intact \in Nat /\ r.intact <= Len(r.toks)
      /\ m.toks = <<>> => r.toks = <<>>
    BY <1>1, <1>2, <1>3 DEF MemOK, Smaller
<1>5. CASE m.tail = "live" /\ n <= m.last
    <2>1. r.state = <<>> /\ r.last = -1 /\ r.tail = "none"
        BY <1>5 DEF Trimmed
    <2> QED
        BY <1>4, <2>1 DEF MemOK, Memory, Trimmed
<1>6. CASE ~(m.tail = "live" /\ n <= m.last)
    <2>1. r.state = m.state /\ r.last = m.last /\ r.tail = m.tail
        BY <1>6 DEF Trimmed
    <2>2. r \in Memory
        BY <1>1, <1>4, <2>1 DEF Memory, Trimmed
    <2> HIDE DEF r
    <2>3. MemOK(r)
        BY <1>4, <2>1, <2>2 DEF MemOK
    <2> QED
        BY <2>3 DEF r
<1> QED
    BY <1>5, <1>6

LEMMA SeqRmFromOK ==
    ASSUME NEW m, MemOK(m), NEW n \in Nat
    PROVE  MemOK(SeqRmFrom(m, n))
BY TrimmedOK DEF SeqRmFrom

\* An accepted trim to a nonempty proper prefix leaves that prefix; a memory
\* with a recurrent state never accepts one ("exactly the rewind seq_rm
\* refuses", native-lib.cpp:872-877).
LEMMA TrimmedContent ==
    ASSUME NEW m, MemOK(m), NEW n \in Nat, CanTrim(m, n),
           Content(m) # Blend, 0 < n, n < Len(Content(m))
    PROVE  Content(Trimmed(m, n)) = SubSeq(Content(m), 1, n)
<1>1. m.toks \in Seq(Token) /\ m.intact \in Nat /\ m.state \in Seq(Token) \cup {Blend}
      /\ m.tail \in {"none", "live", "stale"} /\ Len(m.toks) \in Nat /\ m.last \in Int
    BY DEF MemOK, Memory
<1>2. CASE HasRecurrent
    <2>1. Content(m) = m.state /\ m.state \in Seq(Token)
        BY <1>1, <1>2, Kinds DEF Content
    <2>2. m.tail = "live"
        BY <1>1, <2>1 DEF MemOK
    <2>3. m.last = Len(m.state) - 1
        BY <2>1, <2>2 DEF MemOK
    <2> QED
        BY <1>1, <2>1, <2>2, <2>3 DEF CanTrim
<1>3. CASE ~HasRecurrent
    <2>1. Arch = "attention" /\ Content(m) = AttentionContent(m)
        BY <1>3, Kinds DEF Content
    <2>2. m.intact = Len(m.toks) /\ Content(m) = m.toks
        BY <2>1 DEF AttentionContent
    <2> DEFINE r == Trimmed(m, n)
    <2>3. Smaller(n, Len(m.toks)) = n /\ Smaller(m.intact, n) = n
        BY <1>1, <2>2 DEF Smaller
    <2>4. r.toks = SubSeq(m.toks, 1, n) /\ r.intact = n
        BY <2>3 DEF Trimmed
    <2>5. Len(r.toks) = n
        BY <1>1, <2>2, <2>4
    <2> HIDE DEF r
    <2>6. Content(r) = r.toks
        BY <2>1, <2>4, <2>5 DEF Content, AttentionContent
    <2> QED
        BY <2>2, <2>4, <2>6 DEF r
<1> QED
    BY <1>2, <1>3

\* The context shift keeps MemOK: what it blends, it marks as blended.
LEMMA WindowDroppedOK ==
    ASSUME NEW m, MemOK(m), NEW keep \in Nat, NEW discard \in Nat, NEW n_cur \in Nat
    PROVE  MemOK(WindowDropped(m, keep, discard, n_cur))
<1> DEFINE r == WindowDropped(m, keep, discard, n_cur)
           k == Smaller(keep, Len(m.toks))
<1>1. m.toks \in Seq(Token) /\ m.intact \in Nat /\ m.state \in Seq(Token) \cup {Blend}
      /\ m.last \in Int /\ m.tail \in {"none", "live", "stale"} /\ Len(m.toks) \in Nat
    BY DEF MemOK, Memory
<1>2. k \in Nat /\ k <= Len(m.toks) /\ (k = keep \/ k = Len(m.toks))
    BY <1>1 DEF Smaller
<1>3. r.toks = SubSeq(m.toks, 1, k) \o SubSeq(m.toks, keep + discard + 1, Len(m.toks))
      /\ r.intact = Smaller(m.intact, keep)
    BY DEF WindowDropped
<1> HIDE DEF k
<1>4. /\ SubSeq(m.toks, 1, k) \in Seq(Token)
      /\ Len(SubSeq(m.toks, 1, k)) = k
      /\ SubSeq(m.toks, keep + discard + 1, Len(m.toks)) \in Seq(Token)
      /\ Len(SubSeq(m.toks, keep + discard + 1, Len(m.toks))) \in Nat
    BY <1>1, <1>2
<1> DEFINE front == SubSeq(m.toks, 1, k)
           back  == SubSeq(m.toks, keep + discard + 1, Len(m.toks))
<1>13. /\ r.toks = front \o back
       /\ front \in Seq(Token) /\ Len(front) = k /\ back \in Seq(Token) /\ Len(back) \in Nat
    BY <1>3, <1>4
<1> HIDE DEF front, back, r
<1>14. r.toks \in Seq(Token) /\ Len(r.toks) >= k
    BY <1>2, <1>13
<1>15. r.intact \in Nat /\ r.intact <= m.intact /\ r.intact <= keep
    BY <1>1, <1>3 DEF Smaller
<1>5. /\ r.toks \in Seq(Token) /\ Len(r.toks) >= k
      /\ r.intact \in Nat /\ r.intact <= m.intact /\ r.intact <= keep
    BY <1>14, <1>15
<1> USE DEF r
<1>6. r.intact <= Len(r.toks)
    BY <1>1, <1>2, <1>5 DEF MemOK
<1>7. m.toks = <<>> => r.toks = <<>>
    <2> SUFFICES ASSUME m.toks = <<>> PROVE r.toks = <<>>
        OBVIOUS
    <2>1. k = 0 /\ Len(m.toks) = 0
        BY <1>2
    <2>2. Len(r.toks) = 0
        BY <1>1, <1>3, <1>4, <2>1
    <2> QED
        BY <1>5, <2>2
<1>8. /\ r.state = IF m.tail = "live" THEN Blend ELSE m.state
      /\ r.last = IF m.tail = "live" /\ keep + discard <= m.last /\ m.last < n_cur
                  THEN m.last - discard ELSE m.last
      /\ r.tail = m.tail
    BY DEF WindowDropped
<1>9. r.state \in Seq(Token) \cup {Blend} /\ r.tail \in {"none", "live", "stale"}
    BY <1>1, <1>8
<1>10. r.last \in Int /\ r.last >= -1
    BY <1>1, <1>8 DEF MemOK
<1>11. r \in Memory
    BY <1>5, <1>9, <1>10 DEF Memory, WindowDropped
<1> HIDE DEF r
<1>12. MemOK(r)
    BY <1>6, <1>7, <1>8, <1>10, <1>11 DEF MemOK
<1> QED
    BY <1>12 DEF r

\* A failed decode keeps MemOK: its unfinished cells are gone or blended.
LEMMA FailedOK ==
    ASSUME NEW m, MemOK(m), NEW ts \in Seq(Token), ts # <<>>
    PROVE  MemOK(Failed(m, ts))
<1> DEFINE f == Fed(m, ts)
           filled == [f EXCEPT !.intact = m.intact,
                               !.state  = IF HasRecurrent THEN Blend ELSE m.state]
<1>1. MemOK(f)
    BY FedOK
<1>2. f.toks = (IF HasAttention THEN m.toks \o ts ELSE <<>>)
      /\ f.tail = (IF HasRecurrent /\ ts # <<>> THEN "live" ELSE m.tail)
    BY DEF Fed
<1>3. m.toks \in Seq(Token) /\ m.intact \in Nat /\ Len(ts) \in Nat
      /\ m.state \in Seq(Token) \cup {Blend} /\ m.intact <= Len(m.toks)
    BY DEF MemOK, Memory
<1>4. m.intact <= Len(f.toks)
    BY <1>2, <1>3 DEF MemOK
<1> HIDE DEF f
<1>5. /\ filled.toks = f.toks /\ filled.intact = m.intact /\ filled.last = f.last
      /\ filled.state = (IF HasRecurrent THEN Blend ELSE m.state)
      /\ filled.tail = f.tail /\ filled \in Memory
    BY <1>1, <1>3 DEF MemOK, Memory
<1> HIDE DEF filled
<1>6. MemOK(filled)
    BY <1>1, <1>2, <1>4, <1>5 DEF MemOK
<1>7. PosMax(m) + 1 \in Nat
    BY PosMaxType
<1>8. MemOK(SeqRmFrom(filled, PosMax(m) + 1))
    BY <1>6, <1>7, SeqRmFromOK
<1> QED
    BY <1>8 DEF Failed, f, filled

-----------------------------------------------------------------------------
\* The memory ends behind the n-th token: attention cells and recurrent state
\* agree on it.
EndsAt(m, n) ==
    /\ HasAttention => Len(m.toks) = n
    /\ HasRecurrent => m.last = n - 1

LEMMA EndsAtPosMax ==
    ASSUME NEW m, MemOK(m), NEW n \in Nat, EndsAt(m, n)
    PROVE  PosMax(m) = n - 1
<1>1. Len(m.toks) \in Nat /\ m.last \in Int
    BY DEF MemOK, Memory
<1> QED
    BY <1>1, Kinds DEF PosMax, Smaller, EndsAt

LEMMA ClearedEnds == EndsAt(Cleared, 0)
BY DEF EndsAt, Cleared

LEMMA FedEnds ==
    ASSUME NEW m, MemOK(m), NEW n \in Nat, EndsAt(m, n), NEW ts \in Seq(Token)
    PROVE  EndsAt(Fed(m, ts), n + Len(ts))
<1>1. m.toks \in Seq(Token) /\ m.last \in Int /\ Len(ts) \in Nat
    BY DEF MemOK, Memory
<1>2. HasAttention => Fed(m, ts).toks = m.toks \o ts
    BY DEF Fed
<1>3. HasRecurrent => Fed(m, ts).last = m.last + Len(ts)
    BY DEF Fed
<1>4. Len(m.toks \o ts) = Len(m.toks) + Len(ts)
    BY <1>1
<1>5. HasAttention => Len(Fed(m, ts).toks) = n + Len(ts)
    BY <1>2, <1>4 DEF EndsAt
<1>6. HasRecurrent => Fed(m, ts).last = (n + Len(ts)) - 1
    BY <1>1, <1>3 DEF EndsAt
<1> QED
    BY <1>5, <1>6 DEF EndsAt

\* An accepted trim leaves the memory ending where it was asked to.
LEMMA TrimmedEnds ==
    ASSUME NEW m, MemOK(m), NEW n \in Nat, EndsAt(m, n),
           NEW k \in Nat, k < n, CanTrim(m, k)
    PROVE  EndsAt(Trimmed(m, k), k)
<1>1. m.toks \in Seq(Token) /\ m.last \in Int /\ Len(m.toks) \in Nat
      /\ m.tail \in {"none", "live", "stale"}
    BY DEF MemOK, Memory
<1>2. ASSUME HasAttention PROVE Len(Trimmed(m, k).toks) = k
    <2>1. Len(m.toks) = n /\ Smaller(k, Len(m.toks)) = k
        BY <1>1, <1>2 DEF EndsAt, Smaller
    <2>2. Trimmed(m, k).toks = SubSeq(m.toks, 1, k)
        BY <2>1 DEF Trimmed
    <2> QED
        BY <1>1, <2>1, <2>2
<1>3. ASSUME HasRecurrent PROVE Trimmed(m, k).last = k - 1
    <2>1. m.last = n - 1 /\ k <= m.last
        BY <1>1, <1>3 DEF EndsAt
    <2>2. m.tail = "live"
        BY <1>1, <2>1 DEF MemOK
    <2>3. k = 0
        BY <1>1, <2>1, <2>2 DEF CanTrim
    <2> QED
        BY <2>1, <2>2, <2>3 DEF Trimmed
<1> QED
    BY <1>2, <1>3 DEF EndsAt

\* A context shift inside the memory moves its end back by what was dropped.
LEMMA WindowDroppedEnds ==
    ASSUME NEW m, MemOK(m), NEW n \in Nat, EndsAt(m, n),
           NEW keep \in Nat, NEW discard \in Nat, keep + discard < n
    PROVE  EndsAt(WindowDropped(m, keep, discard, n), n - discard)
<1>1. m.toks \in Seq(Token) /\ m.last \in Int /\ Len(m.toks) \in Nat
      /\ m.tail \in {"none", "live", "stale"}
    BY DEF MemOK, Memory
<1>2. ASSUME HasAttention PROVE Len(WindowDropped(m, keep, discard, n).toks) = n - discard
    <2> DEFINE front == SubSeq(m.toks, 1, keep)
               back  == SubSeq(m.toks, keep + discard + 1, Len(m.toks))
    <2>1. Len(m.toks) = n /\ Smaller(keep, Len(m.toks)) = keep
        BY <1>1, <1>2 DEF EndsAt, Smaller
    <2>2. /\ front \in Seq(Token) /\ Len(front) = keep
          /\ back \in Seq(Token) /\ Len(back) = n - keep - discard
        BY <1>1, <2>1
    <2>3. WindowDropped(m, keep, discard, n).toks = front \o back
        BY <2>1 DEF WindowDropped
    <2> HIDE DEF front, back
    <2>4. Len(front \o back) = keep + (n - keep - discard)
        BY <2>2
    <2> QED
        BY <2>3, <2>4
<1>3. ASSUME HasRecurrent PROVE WindowDropped(m, keep, discard, n).last = (n - discard) - 1
    <2>1. m.last = n - 1 /\ keep + discard <= m.last /\ m.last < n
        BY <1>1, <1>3 DEF EndsAt
    <2>2. m.tail = "live"
        BY <1>1, <2>1 DEF MemOK
    <2>3. WindowDropped(m, keep, discard, n).last = m.last - discard
        BY <2>1, <2>2 DEF WindowDropped
    <2> QED
        BY <1>1, <2>1, <2>3
<1> QED
    BY <1>2, <1>3 DEF EndsAt

\* No decode leaves more cells than were there and in its batch.
LEMMA FedLength ==
    ASSUME NEW m, MemOK(m), NEW ts \in Seq(Token)
    PROVE  Len(Fed(m, ts).toks) \in Nat /\ Len(Fed(m, ts).toks) <= Len(m.toks) + Len(ts)
<1>1. m.toks \in Seq(Token) /\ Len(m.toks) \in Nat /\ Len(ts) \in Nat
    BY DEF MemOK, Memory
<1>2. Len(m.toks \o ts) = Len(m.toks) + Len(ts) /\ Len(<<>>) = 0
    BY <1>1
<1>3. Fed(m, ts).toks = m.toks \o ts \/ Fed(m, ts).toks = <<>>
    BY DEF Fed
<1> QED
    BY <1>1, <1>2, <1>3

LEMMA FailedLength ==
    ASSUME NEW m, MemOK(m), NEW ts \in Seq(Token)
    PROVE  Len(Failed(m, ts).toks) \in Nat /\ Len(Failed(m, ts).toks) <= Len(m.toks) + Len(ts)
<1> DEFINE f == Fed(m, ts)
           filled == [f EXCEPT !.intact = m.intact,
                               !.state = IF HasRecurrent THEN Blend ELSE m.state]
           n == PosMax(m) + 1
           k == Smaller(n, Len(filled.toks))
<1>1. Len(f.toks) \in Nat /\ Len(f.toks) <= Len(m.toks) + Len(ts) /\ f.toks \in Seq(Token)
    BY FedLength, FedOK DEF MemOK, Memory
<1>2. filled.toks = f.toks
    BY DEF Fed
<1>3. n \in Nat
    BY PosMaxType
<1> HIDE DEF filled, f, n
<1>4. k \in Nat /\ k <= Len(f.toks)
    BY <1>1, <1>2, <1>3 DEF Smaller
<1>5. Trimmed(filled, n).toks = SubSeq(f.toks, 1, k)
    BY <1>2 DEF Trimmed
<1> HIDE DEF k
<1>6. Len(SubSeq(f.toks, 1, k)) = k
    BY <1>1, <1>4
<1>7. Failed(m, ts) = SeqRmFrom(filled, n)
    BY DEF Failed, filled, f, n
<1>8. Len(SeqRmFrom(filled, n).toks) \in Nat
      /\ Len(SeqRmFrom(filled, n).toks) <= Len(f.toks)
    BY <1>1, <1>2, <1>4, <1>5, <1>6 DEF SeqRmFrom
<1> QED
    BY <1>1, <1>7, <1>8 DEF MemOK, Memory

\* Of all operations only getEmbedding's removal leaves a stale tail.
LEMMA DecodedTail ==
    ASSUME NEW m, m.tail # "stale", NEW ts
    PROVE  Fed(m, ts).tail # "stale" /\ Failed(m, ts).tail # "stale"
<1>1. Fed(m, ts).tail # "stale"
    BY DEF Fed
<1> DEFINE f == Fed(m, ts)
           filled == [f EXCEPT !.intact = m.intact,
                               !.state = IF HasRecurrent THEN Blend ELSE m.state]
<1>2. filled.tail = f.tail
    BY DEF Fed
<1> HIDE DEF filled
<1>3. SeqRmFrom(filled, PosMax(m) + 1).tail # "stale"
    BY <1>1, <1>2 DEF SeqRmFrom, Trimmed
<1> QED
    BY <1>1, <1>3 DEF Failed, filled
=============================================================================
