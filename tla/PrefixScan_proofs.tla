-------------------------- MODULE PrefixScan_proofs -------------------------
(***************************************************************************)
(* PrefixScan for every token set and every length of its arguments: the   *)
(* loop computes PlanPrefixReuse, and every plan is sound and maximal.     *)
(*                                                                         *)
(* The invariant the loop keeps is that everything before i agrees; its    *)
(* exit condition then makes i a longest agreement, of which there is only *)
(* one, so it is the value CommonPrefixLen chooses.                        *)
(***************************************************************************)
EXTENDS PrefixScan, TLAPS

\* Arguments for which the scan is skipped.
NothingToReuse == ~may_reuse \/ cached = <<>> \/ prompt = <<>>

\* What is known while the loop runs, and of the index it leaves.
Scanning == ~NothingToReuse /\ i <= Shorter(cached, prompt) /\ Agree(cached, prompt, i)

Returned ==
    \/ NothingToReuse /\ plan = ClearPlan
    \/ /\ ~NothingToReuse
       /\ LongestAgreement(cached, prompt, i)
       /\ plan = PlanFor(cached, prompt, i)

ScanInv ==
    /\ TypeOK
    /\ pc = "entry" => i = 0
    /\ pc = "scan" => Scanning
    /\ pc = "done" => Returned

-----------------------------------------------------------------------------
\* Arguments are sequences of tokens with a length.
LEMMA InputsAreSeqs ==
    ASSUME NEW s \in Inputs
    PROVE  s \in Seq(Token) /\ Len(s) \in 0..MaxLen /\ (s = <<>> <=> Len(s) = 0)
<1>1. PICK n \in 0..MaxLen : s \in [1..n -> Token]
    BY DEF Inputs
<1>2. n \in Nat
    BY ScanAssumption
<1> QED
    BY <1>1, <1>2, ScanAssumption

\* Of two longest agreements neither can be longer: the code's "length of the
\* longest common prefix" (nl-kv-reuse.h:56) is one number.
LEMMA LongestAgreementUnique ==
    ASSUME NEW a \in Inputs, NEW c \in Inputs,
           NEW m \in Nat, NEW n \in Nat,
           LongestAgreement(a, c, m), LongestAgreement(a, c, n)
    PROVE  m = n
<1>1. Len(a) \in Nat /\ Len(c) \in Nat
    BY InputsAreSeqs, ScanAssumption
<1>2. ~(m < n)
    <2> SUFFICES ASSUME m < n PROVE FALSE
        OBVIOUS
    <2>1. m + 1 \in 1..n /\ m < Shorter(a, c)
        BY <1>1 DEF LongestAgreement, Shorter
    <2> QED
        BY <2>1 DEF LongestAgreement, Agree
<1>3. ~(n < m)
    <2> SUFFICES ASSUME n < m PROVE FALSE
        OBVIOUS
    <2>1. n + 1 \in 1..m /\ n < Shorter(a, c)
        BY <1>1 DEF LongestAgreement, Shorter
    <2> QED
        BY <2>1 DEF LongestAgreement, Agree
<1> QED
    BY <1>2, <1>3

\* A plan made from an agreement of cached and prompt is a plan, whichever of
\* the two is the shorter.
LEMMA PlanForType ==
    ASSUME NEW a \in Inputs, NEW c \in Inputs, c # <<>>,
           NEW n \in Nat, n <= Shorter(a, c)
    PROVE  PlanFor(a, c, n) \in Plan
<1>1. Len(a) \in Nat /\ Len(c) \in Nat /\ Len(c) > 0
    BY InputsAreSeqs, ScanAssumption
<1> QED
    BY <1>1 DEF PlanFor, PlanReusing, Plan, ClearPlan, Shorter

-----------------------------------------------------------------------------
\* Every step of nl_plan_prefix_reuse keeps ScanInv.
LEMMA ScanInvInductive == ScanInv /\ [Next]_vars => ScanInv'
<1> SUFFICES ASSUME ScanInv, [Next]_vars PROVE ScanInv'
    OBVIOUS
<1> USE DEF ScanInv, TypeOK, NothingToReuse
<1>1. Len(cached) \in Nat /\ Len(prompt) \in Nat
      /\ Len(cached) <= MaxLen /\ Len(prompt) <= MaxLen /\ MaxLen \in Nat
    BY InputsAreSeqs, ScanAssumption
<1>2. Shorter(cached, prompt) \in 0..MaxLen
    BY <1>1 DEF Shorter
<1>3. CASE ReturnClear
    BY <1>3 DEF ReturnClear, Returned, Plan, ClearPlan
<1>4. CASE EnterScan
    BY <1>4, <1>2 DEF EnterScan, Scanning, Agree
<1>5. CASE ScanStep
    <2>1. i + 1 \in 0..MaxLen /\ i + 1 <= Shorter(cached, prompt)
        BY <1>1, <1>5, <1>2 DEF ScanStep, Agreeing
    <2>2. Agree(cached, prompt, i + 1)
        BY <1>5, <1>2 DEF ScanStep, Agreeing, Scanning, Agree
    <2> QED
        BY <1>5, <2>1, <2>2 DEF ScanStep, Scanning
<1>6. CASE ReturnPlan
    <2>1. LongestAgreement(cached, prompt, i)
        BY <1>6, <1>2 DEF ReturnPlan, Agreeing, Scanning, LongestAgreement
    <2>2. PlanFor(cached, prompt, i) \in Plan
        BY <1>6, PlanForType DEF ReturnPlan, Scanning
    <2> QED
        BY <1>6, <2>1, <2>2 DEF ReturnPlan, Scanning, Returned
<1>7. CASE UNCHANGED vars
    BY <1>7 DEF vars, Scanning, Returned
<1> QED
    BY <1>3, <1>4, <1>5, <1>6, <1>7 DEF Next

\* ScanInv holds throughout the scan, whatever the arguments.
THEOREM ScanInvariant == Spec => []ScanInv
<1>1. Init => ScanInv
    BY ScanAssumption DEF Init, ScanInv, TypeOK, Plan
<1> QED
    BY <1>1, ScanInvInductive, PTL DEF Spec

\* The index stays in range and the plan is one: no read past the end of either
\* sequence.
THEOREM ScanTypeOK == Spec => []TypeOK
<1>1. ScanInv => TypeOK
    BY DEF ScanInv
<1> QED
    BY <1>1, ScanInvariant, PTL

\* A finished plan can be carried out: it keeps a common prefix that leaves at
\* least one prompt token to decode, trims exactly when the cache has a tail
\* and clears exactly when nothing is kept.
THEOREM ScanSound == Spec => []PlanIsSound
<1>1. ScanInv => PlanIsSound
    <2> SUFFICES ASSUME ScanInv, pc = "done" PROVE PlanIsSound
        BY DEF PlanIsSound
    <2> USE DEF ScanInv, TypeOK, NothingToReuse
    <2>1. /\ Len(cached) \in Nat /\ Len(prompt) \in Nat /\ i \in Nat
          /\ prompt # <<>> => Len(prompt) > 0
          /\ cached # <<>> => Len(cached) > 0
        BY InputsAreSeqs, ScanAssumption
    <2>2. CASE NothingToReuse /\ plan = ClearPlan
        BY <2>1, <2>2 DEF PlanIsSound, ClearPlan, Agree
    <2>3. CASE /\ ~NothingToReuse
               /\ LongestAgreement(cached, prompt, i)
               /\ plan = PlanFor(cached, prompt, i)
        <3>1. i <= Len(cached) /\ i <= Len(prompt) /\ Agree(cached, prompt, i)
            BY <2>1, <2>3 DEF LongestAgreement, Shorter
        <3>2. plan.n_reuse = IF i = Len(prompt) THEN i - 1 ELSE i
            BY <2>1, <2>3 DEF PlanFor, PlanReusing, ClearPlan
        <3>3. Agree(cached, prompt, plan.n_reuse)
            BY <2>1, <3>1, <3>2 DEF Agree
        <3>4. /\ plan.needs_clear <=> plan.n_reuse = 0
              /\ plan.needs_trim <=> 0 < plan.n_reuse /\ plan.n_reuse < Len(cached)
            <4> DEFINE n == IF i = Len(prompt) THEN i - 1 ELSE i
            <4>1. n \in Nat
                BY <2>1, <2>3
            <4>2. CASE n = 0
                BY <2>1, <2>3, <4>2 DEF PlanFor, PlanReusing, ClearPlan
            <4>3. CASE n # 0
                <5>1. plan = [n_reuse |-> n, needs_trim |-> n < Len(cached),
                              needs_clear |-> FALSE]
                    BY <2>3, <4>3 DEF PlanFor, PlanReusing
                <5>2. n > 0 /\ plan.n_reuse = n
                    BY <4>1, <4>3, <5>1
                <5> HIDE DEF n
                <5>3. (plan.needs_trim <=> n < Len(cached)) /\ ~plan.needs_clear
                    BY <5>1, Zenon
                <5> QED
                    BY <5>2, <5>3
            <4> QED
                BY <4>2, <4>3
        <3> QED
            BY <2>1, <2>3, <3>1, <3>2, <3>3, <3>4 DEF PlanIsSound
    <2> QED
        BY <2>2, <2>3 DEF Returned
<1> QED
    BY <1>1, ScanInvariant, PTL

\* Nothing that could be reused is prefilled again, but for the token kept back.
THEOREM ScanMaximal == Spec => []ReuseIsMaximal
<1>1. ScanInv => ReuseIsMaximal
    <2> SUFFICES ASSUME ScanInv, pc = "done", may_reuse,
                        plan.n_reuse < Len(prompt) - 1, cached # <<>>
                 PROVE  \/ plan.n_reuse = Len(cached)
                        \/ cached[plan.n_reuse + 1] # prompt[plan.n_reuse + 1]
        BY DEF ReuseIsMaximal
    <2> USE DEF ScanInv, TypeOK, NothingToReuse
    <2>1. /\ Len(cached) \in Nat /\ Len(prompt) \in Nat /\ i \in Nat
          /\ prompt = <<>> => Len(prompt) = 0
        BY InputsAreSeqs, ScanAssumption
    <2>2. ~NothingToReuse
        BY <2>1 DEF Returned, ClearPlan
    <2>3. LongestAgreement(cached, prompt, i) /\ plan = PlanFor(cached, prompt, i)
        BY <2>2 DEF Returned
    <2>4. plan.n_reuse = i /\ i # Len(prompt)
        BY <2>1, <2>3 DEF PlanFor, PlanReusing, ClearPlan
    <2> QED
        BY <2>1, <2>3, <2>4 DEF LongestAgreement, Shorter
<1> QED
    BY <1>1, ScanInvariant, PTL

\* The closed form the engine modules use is what the code's loop returns.
THEOREM ScanComputesPlan == Spec => []LoopComputesPlan
<1>1. ScanInv => LoopComputesPlan
    <2> SUFFICES ASSUME ScanInv, pc = "done"
                 PROVE  plan = PlanPrefixReuse(cached, prompt, may_reuse)
        BY DEF LoopComputesPlan
    <2> USE DEF ScanInv, TypeOK, NothingToReuse
    <2>1. CASE NothingToReuse /\ plan = ClearPlan
        BY <2>1 DEF PlanPrefixReuse
    <2>2. CASE /\ ~NothingToReuse
               /\ LongestAgreement(cached, prompt, i)
               /\ plan = PlanFor(cached, prompt, i)
        <3>1. i \in 0..Shorter(cached, prompt)
            BY <2>2 DEF LongestAgreement
        <3>2. /\ CommonPrefixLen(cached, prompt) \in 0..Shorter(cached, prompt)
              /\ LongestAgreement(cached, prompt, CommonPrefixLen(cached, prompt))
            BY <2>2, <3>1 DEF CommonPrefixLen
        <3>3. CommonPrefixLen(cached, prompt) = i
            BY <2>2, <3>1, <3>2, LongestAgreementUnique
        <3> QED
            BY <2>2, <3>3 DEF PlanPrefixReuse
    <2> QED
        BY <2>1, <2>2 DEF Returned
<1> QED
    BY <1>1, ScanInvariant, PTL
=============================================================================
