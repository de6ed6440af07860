----------------------------- MODULE PrefixPlan -----------------------------
(***************************************************************************)
(* The KV-cache prefix planner of src/ios/shared_cpp/common/nl-kv-reuse.h: *)
(* given the token sequence the cache is believed to hold and the prompt   *)
(* of the next generation, how many leading tokens need not be prefilled   *)
(* again, and what must happen to the memory first.  Both bridges include  *)
(* that header, so these operators are shared by every engine module.      *)
(*                                                                         *)
(* Positions are 0-based in the code and 1-based here: "n tokens reused"   *)
(* means prompt[1..n], i.e. positions 0..n-1.                              *)
(***************************************************************************)
EXTENDS Integers, Sequences

\* The first n tokens of a and b are the same.
Agree(a, b, n) == \A k \in 1..n : a[k] = b[k]

Shorter(a, b) == IF Len(a) < Len(b) THEN Len(a) ELSE Len(b)

\* What the loop of nl_common_prefix_len leaves in i: every earlier token
\* agrees, and i has run into the end of one sequence or into a mismatch.
LongestAgreement(a, b, i) ==
    /\ i \in 0..Shorter(a, b)
    /\ Agree(a, b, i)
    /\ i < Shorter(a, b) => a[i + 1] # b[i + 1]

CommonPrefixLen(a, b) ==
    CHOOSE i \in 0..Shorter(a, b) : LongestAgreement(a, b, i)

\* struct nl_prefix_plan
Plan == [n_reuse : Nat, needs_trim : BOOLEAN, needs_clear : BOOLEAN]

ClearPlan == [n_reuse |-> 0, needs_trim |-> FALSE, needs_clear |-> TRUE]

\* nl_plan_prefix_reuse after the scan: `common` is the length it found.  One
\* token of the prompt is always left to decode, or there would be no fresh
\* logits to sample from.
PlanReusing(cached, n) ==
    IF n = 0
    THEN ClearPlan
    ELSE [n_reuse |-> n, needs_trim |-> n < Len(cached), needs_clear |-> FALSE]

\* Mutants of PlanFor: nothing is kept back, always one token, or two.
PlanKeepsNothingBack(cached, prompt, common) == PlanReusing(cached, common)
PlanAlwaysKeepsOneBack(cached, prompt, common) ==
    PlanReusing(cached, IF common > 0 THEN common - 1 ELSE 0)
PlanKeepsTwoBack(cached, prompt, common) ==
    PlanReusing(cached, IF common = Len(prompt) THEN common - 2 ELSE common)

PlanFor(cached, prompt, common) ==
    PlanReusing(cached, IF common = Len(prompt) THEN common - 1 ELSE common)

PlanPrefixReuse(cached, prompt, may_reuse) ==
    IF ~may_reuse \/ cached = <<>> \/ prompt = <<>>
    THEN ClearPlan
    ELSE PlanFor(cached, prompt, CommonPrefixLen(cached, prompt))
=============================================================================
