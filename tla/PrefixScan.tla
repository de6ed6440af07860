----------------------------- MODULE PrefixScan -----------------------------
(***************************************************************************)
(* nl_plan_prefix_reuse as the program runs it: the early return, the      *)
(* while loop of nl_common_prefix_len one iteration per step, and the      *)
(* decision taken from the index the loop leaves.  The engine modules use  *)
(* the closed form PlanPrefixReuse of PrefixPlan; this module shows that   *)
(* the loop computes it and that every plan can be carried out.            *)
(***************************************************************************)
EXTENDS PrefixPlan

CONSTANTS Token,       \* token ids
          MaxLen       \* bound: longest sequence the caller passes

ASSUME ScanAssumption == MaxLen \in Nat

VARIABLES cached,      \* argument `cached`
          prompt,      \* argument `prompt`
          may_reuse,   \* argument `may_reuse`
          i,           \* index of the while loop
          plan,        \* the plan being filled in
          pc           \* "entry", "scan" or "done"

vars == <<cached, prompt, may_reuse, i, plan, pc>>

Inputs == UNION {[1..n -> Token] : n \in 0..MaxLen}

TypeOK ==
    /\ cached \in Inputs /\ prompt \in Inputs /\ may_reuse \in BOOLEAN
    /\ i \in 0..MaxLen /\ plan \in Plan /\ pc \in {"entry", "scan", "done"}

Init ==
    /\ cached \in Inputs /\ prompt \in Inputs /\ may_reuse \in BOOLEAN
    /\ i = 0 /\ pc = "entry"
    /\ plan = [n_reuse |-> 0, needs_trim |-> FALSE, needs_clear |-> FALSE]

\* The condition of the while loop (and a mutant that stops one token early).
StopsEarly == i + 1 < Shorter(cached, prompt) /\ cached[i + 1] = prompt[i + 1]
Agreeing   == i < Shorter(cached, prompt) /\ cached[i + 1] = prompt[i + 1]

\* Start from a known-clean context rather than trusting what is there.
ReturnClear ==
    /\ pc = "entry"
    /\ ~may_reuse \/ cached = <<>> \/ prompt = <<>>
    /\ plan' = ClearPlan
    /\ pc' = "done"
    /\ UNCHANGED <<cached, prompt, may_reuse, i>>

EnterScan ==
    /\ pc = "entry"
    /\ may_reuse /\ cached # <<>> /\ prompt # <<>>
    /\ pc' = "scan"
    /\ UNCHANGED <<cached, prompt, may_reuse, i, plan>>

ScanStep ==
    /\ pc = "scan"
    /\ Agreeing
    /\ i' = i + 1
    /\ UNCHANGED <<cached, prompt, may_reuse, plan, pc>>

\* The loop ends and the plan is returned.
ReturnPlan ==
    /\ pc = "scan"
    /\ ~Agreeing
    /\ plan' = PlanFor(cached, prompt, i)
    /\ pc' = "done"
    /\ UNCHANGED <<cached, prompt, may_reuse, i>>

Next == ReturnClear \/ EnterScan \/ ScanStep \/ ReturnPlan

Spec == Init /\ [][Next]_vars

-----------------------------------------------------------------------------
\* The loop returns the longest common prefix: no token past plan.n_reuse that
\* could have been reused is prefilled again, except the one kept back for its
\* logits.  (nl-kv-reuse.h:56, "Length of the longest common prefix")
ReuseIsMaximal ==
    pc = "done" /\ may_reuse /\ plan.n_reuse < Len(prompt) - 1 =>
        \/ plan.n_reuse = Len(cached)
        \/ cached[plan.n_reuse + 1] # prompt[plan.n_reuse + 1]
        \/ cached = <<>>

\* Carrying the plan out on a memory holding `cached` leaves a prefix of the
\* prompt that is short of it by at least one token: trim only when there is a
\* tail, clear only when nothing is kept, neither only for a pure append.
PlanIsSound ==
    pc = "done" =>
        /\ prompt # <<>> => plan.n_reuse < Len(prompt)
        /\ plan.n_reuse <= Len(cached)
        /\ Agree(cached, prompt, plan.n_reuse)
        /\ plan.needs_clear <=> plan.n_reuse = 0
        /\ plan.needs_trim <=> 0 < plan.n_reuse /\ plan.n_reuse < Len(cached)

\* The closed form the engine modules use is what the loop computes.
LoopComputesPlan ==
    pc = "done" => plan = PlanPrefixReuse(cached, prompt, may_reuse)
=============================================================================
