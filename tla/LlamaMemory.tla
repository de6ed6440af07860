---------------------------- MODULE LlamaMemory -----------------------------
(***************************************************************************)
(* The memory of one llama_context, sequence 0, as the bridges use it: the *)
(* attention KV cache (llama-kv-cache.cpp), the recurrent state            *)
(* (llama-memory-recurrent.cpp) and the hybrid of the two                  *)
(* (llama-memory-hybrid.cpp), chosen by Arch.                              *)
(*                                                                         *)
(* Tensors are abstracted to what they were computed from.  An attention   *)
(* cell keeps its token; `intact` counts the leading cells whose keys and  *)
(* values were computed with exactly the cells before them in view.  A     *)
(* recurrent layer keeps one state, the fold of the tokens it was fed, or  *)
(* Blend when no token sequence describes it any more.                     *)
(***************************************************************************)
EXTENDS Integers, Sequences

CONSTANTS Token,   \* token ids
          Blend,   \* contents that are not what any prefill would compute
          Arch,    \* "attention", "recurrent" or "hybrid"
          NCtx     \* cells of the attention cache: llama_n_ctx

Architectures == {"attention", "recurrent", "hybrid"}

ASSUME MemoryAssumption ==
    /\ Blend \notin Seq(Token)
    /\ Arch \in Architectures
    /\ NCtx \in Nat

HasAttention == Arch \in {"attention", "hybrid"}
HasRecurrent == Arch \in {"recurrent", "hybrid"}

Smaller(a, b) == IF a < b THEN a ELSE b

Memory == [toks   : Seq(Token),                   \* attention cells 0, 1, ...
           intact : Nat,
           state  : Seq(Token) \cup {Blend},      \* recurrent state
           last   : Int,                          \* pos of the tail cell
           tail   : {"none", "live", "stale"}]    \* cells[0].tail: -1, a cell
                                                  \* of seq 0, an emptied cell

\* A new context, and llama_memory_clear: all cells reset, tails included.
Cleared == [toks |-> <<>>, intact |-> 0, state |-> <<>>, last |-> -1, tail |-> "none"]

AttentionContent(m) == IF m.intact = Len(m.toks) THEN m.toks ELSE Blend

\* The token sequence whose prefill would leave this memory, if there is one.
Content(m) ==
    CASE Arch = "attention" -> AttentionContent(m)
      [] Arch = "recurrent" -> m.state
      [] Arch = "hybrid"    -> IF m.state = AttentionContent(m) THEN m.state ELSE Blend

\* seq_pos_max
PosMax(m) ==
    CASE Arch = "attention" -> Len(m.toks) - 1
      [] Arch = "recurrent" -> m.last
      [] Arch = "hybrid"    -> Smaller(Len(m.toks) - 1, m.last)

\* The consistency check of llama_batch_allocr: positions stay consecutive.
Accepts(m, pos) == PosMax(m) >= 0 => pos = PosMax(m) + 1

\* The attention cache finds a slot for n more tokens.
HasRoom(m, n) == HasAttention => Len(m.toks) + n <= NCtx

\* A successful decode of the tokens ts.
Fed(m, ts) ==
    [toks   |-> IF HasAttention THEN m.toks \o ts ELSE <<>>,
     intact |-> IF HasAttention /\ m.intact = Len(m.toks)
                THEN Len(m.toks) + Len(ts) ELSE m.intact,
     state  |-> IF HasRecurrent /\ m.state # Blend THEN m.state \o ts ELSE m.state,
     last   |-> IF HasRecurrent THEN m.last + Len(ts) ELSE m.last,
     tail   |-> IF HasRecurrent /\ ts # <<>> THEN "live" ELSE m.tail]

\* llama_memory_seq_rm(mem, 0, n, -1): evict the positions from n on.  A live
\* recurrent state at or past n refuses, and then nothing is removed; n = 0
\* removes it whole.
CanTrimAnything(m, n) == TRUE     \* mutant: the refusal is missing
CanTrim(m, n) == ~(m.tail = "live" /\ 0 < n /\ n <= m.last)

Trimmed(m, n) ==
    [toks   |-> SubSeq(m.toks, 1, Smaller(n, Len(m.toks))),
     intact |-> Smaller(m.intact, n),
     state  |-> IF m.tail = "live" /\ n <= m.last THEN <<>> ELSE m.state,
     last   |-> IF m.tail = "live" /\ n <= m.last THEN -1 ELSE m.last,
     tail   |-> IF m.tail = "live" /\ n <= m.last THEN "none" ELSE m.tail]

SeqRmFrom(m, n) == IF CanTrim(m, n) THEN Trimmed(m, n) ELSE m

\* llama_memory_seq_rm(mem, -1, -1, -1): every sequence, every position.  The
\* recurrent cells are emptied but cells[0].tail still names one of them.
SeqRmEverything(m) ==
    [Cleared EXCEPT !.tail = IF m.tail = "none" THEN "none" ELSE "stale"]

\* llama_memory_seq_rm(mem, 0, keep, keep + discard).
CanDropWindow(m, keep, discard) ==
    ~(m.tail = "live" /\ 0 < keep /\ keep <= m.last /\ m.last < keep + discard)

\* That removal followed by llama_memory_seq_add(mem, 0, keep + discard, n_cur,
\* -discard): the attention tail slides back with the keys and values it was
\* computed with, and of the recurrent state only the position changes.
WindowDropped(m, keep, discard, n_cur) ==
    [toks   |-> SubSeq(m.toks, 1, Smaller(keep, Len(m.toks)))
                    \o SubSeq(m.toks, keep + discard + 1, Len(m.toks)),
     intact |-> Smaller(m.intact, keep),
     state  |-> IF m.tail = "live" THEN Blend ELSE m.state,
     last   |-> IF m.tail = "live" /\ keep + discard <= m.last /\ m.last < n_cur
                THEN m.last - discard ELSE m.last,
     tail   |-> m.tail]

\* A decode whose graph computation failed: the cells of its batch (one
\* micro-batch, n_ubatch = n_batch) are filled with unfinished values, then
\* llama_context::decode asks for their removal and ignores the answer.
Failed(m, ts) ==
    LET filled == [Fed(m, ts) EXCEPT
                      !.intact = m.intact,
                      !.state  = IF HasRecurrent THEN Blend ELSE m.state]
    IN  SeqRmFrom(filled, PosMax(m) + 1)
=============================================================================
