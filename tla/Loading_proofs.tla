--------------------------- MODULE Loading_proofs ---------------------------
(***************************************************************************)
(* Objects, devices and windows for every number of objects, every set of  *)
(* windows and every order of calls and failures.                          *)
(***************************************************************************)
EXTENDS Loading, TLAPS

\* A running call has what the code freed before it, and has not forgotten the
\* latch; a context is made for the devices the model was loaded for.
CallInv ==
    /\ gpu_unusable => call.devices = "cpu"
    /\ call.method = "none" <=> call.step = "none"
    /\ call.step = "none" => call = Idle
    /\ call.method = "initLlama" => ctx = nullptr
    /\ call.method = "initLlama" /\ call.step = "model" => model = nullptr
    /\ call.method = "initLlama" /\ call.step = "context" =>
           model # nullptr /\ model.devices = call.devices
    /\ call.method = "initDraftModel" => ctx_draft = nullptr
    /\ call.method = "initDraftModel" /\ call.step = "model" =>
           model_draft = nullptr

\* Ids are given out in order, and no two pointers lead to one object.
Apart(p, q) == p # nullptr => p # q
IdInv ==
    /\ model.id <= made /\ ctx.id <= made /\ model_draft.id <= made
    /\ ctx_draft.id <= made /\ mtmd_ctx.id <= made
    /\ Apart(model, ctx) /\ Apart(model, model_draft) /\ Apart(model, ctx_draft)
    /\ Apart(model, mtmd_ctx)
    /\ Apart(ctx, model_draft) /\ Apart(ctx, ctx_draft) /\ Apart(ctx, mtmd_ctx)
    /\ Apart(model_draft, ctx_draft) /\ Apart(model_draft, mtmd_ctx)
    /\ Apart(ctx_draft, mtmd_ctx)

\* The heap is what the pointers lead to, inside a call too; only a draft model
\* may be there before its context.
HeapInv == heap = {model, ctx, model_draft, ctx_draft, mtmd_ctx} \ {nullptr}
OwnerInv ==
    /\ ctx # nullptr => ctx.of = model.id /\ ctx.devices = model.devices
    /\ call.method # "initDraftModel" => ctx_draft.of = model_draft.id

WindowInv ==
    /\ window = active_n_ctx
    /\ model # nullptr /\ call.method # "initLlama" => active_n_ctx > 0

IInv == /\ TypeOK /\ CallInv /\ IdInv /\ HeapInv /\ OwnerInv /\ WindowInv
        /\ LoadsStayOnCpu

-----------------------------------------------------------------------------
\* A new object is one, and is none of those the pointers led to.
LEMMA NewIsFresh ==
    ASSUME made \in 0..MaxObjects, made < MaxObjects,
           NEW d \in Device, NEW of \in 0..MaxObjects
    PROVE  /\ New(d, of) \in Object /\ New(d, of) # nullptr
           /\ New(d, of).id = made + 1 /\ New(d, of).devices = d
           /\ New(d, of).of = of
           /\ \A p \in Pointer : p.id <= made => p # New(d, of)
<1>1. made + 1 \in 1..MaxObjects
    BY LoadingAssumption
<1> QED
    BY <1>1, LoadingAssumption DEF New, Object, Pointer, nullptr, Device

LEMMA InitInv == ASSUME Init PROVE IInv
<1>1. TypeOK
    <2>1. nullptr \in Pointer
        BY DEF Pointer
    <2>2. call \in [method : {"none", "initLlama", "initDraftModel"},
                    devices : Device, n_ctx : Nat,
                    step : {"none", "model", "context"}]
        BY DEF Init, Idle, Device
    <2>3. made \in 0..MaxObjects /\ heap \subseteq Object
        BY LoadingAssumption DEF Init
    <2> QED
        BY <2>1, <2>2, <2>3 DEF Init, TypeOK, Device
<1> QED
    BY <1>1 DEF Init, IInv, CallInv, IdInv, Apart, HeapInv, OwnerInv, WindowInv,
        LoadsStayOnCpu, Idle, nullptr

\* A call that is answered leaves what the invariant says of running calls.
LEMMA IdleCall ==
    /\ Idle \in [method : {"none", "initLlama", "initDraftModel"},
                 devices : Device, n_ctx : Nat, step : {"none", "model", "context"}]
    /\ Idle.method = "none" /\ Idle.step = "none" /\ Idle.devices = "cpu"
BY DEF Idle, Device

LEMMA RefuseLoadInv == ASSUME IInv, RefuseLoad PROVE IInv'
<1> USE DEF RefuseLoad, Return, pointers
<1>1. TypeOK'
    BY IdleCall DEF IInv, TypeOK
<1>2. CallInv' /\ OwnerInv' /\ WindowInv'
    BY IdleCall DEF IInv, CallInv, OwnerInv, WindowInv
<1>3. IdInv' /\ HeapInv' /\ LoadsStayOnCpu'
    BY DEF IInv, IdInv, Apart, HeapInv, LoadsStayOnCpu
<1> QED
    BY <1>1, <1>2, <1>3 DEF IInv

LEMMA BeginInitLlamaInv ==
    ASSUME IInv, NEW d \in Device, NEW n \in Windows, BeginInitLlama(d, n)
    PROVE  IInv'
<1> USE DEF BeginInitLlama, GoOn
<1>1. TypeOK'
    BY LoadingAssumption DEF IInv, TypeOK, Live, Allowed, Device, Pointer
<1>2. CallInv'
    BY DEF IInv, CallInv, Allowed
<1>3. IdInv'
    BY LoadingAssumption DEF IInv, TypeOK, IdInv, Apart, nullptr
<1>4. HeapInv'
    BY DEF IInv, IdInv, Apart, HeapInv, Live
<1>5. OwnerInv' /\ WindowInv' /\ LoadsStayOnCpu'
    BY DEF IInv, CallInv, OwnerInv, WindowInv, LoadsStayOnCpu, Idle
<1> QED
    BY <1>1, <1>2, <1>3, <1>4, <1>5 DEF IInv

LEMMA BeginInitDraftModelInv ==
    ASSUME IInv, NEW d \in Device, BeginInitDraftModel(d)
    PROVE  IInv'
<1> USE DEF BeginInitDraftModel, GoOn
<1>1. TypeOK'
    BY LoadingAssumption DEF IInv, TypeOK, Live, Allowed, Device, Pointer
<1>2. CallInv'
    BY DEF IInv, CallInv, Allowed
<1>3. IdInv'
    BY LoadingAssumption DEF IInv, TypeOK, IdInv, Apart, nullptr
<1>4. HeapInv'
    BY DEF IInv, IdInv, Apart, HeapInv, Live
<1>5. OwnerInv' /\ WindowInv' /\ LoadsStayOnCpu'
    BY DEF IInv, CallInv, OwnerInv, WindowInv, LoadsStayOnCpu, Idle
<1> QED
    BY <1>1, <1>2, <1>3, <1>4, <1>5 DEF IInv

\* A model is loaded for the devices of the call.
LEMMA LoadModelInv == ASSUME IInv, LoadModel PROVE IInv'
<1> DEFINE p == New(call.devices, 0)
<1>1. /\ call.method \in {"none", "initLlama", "initDraftModel"}
      /\ call.devices \in Device /\ call.n_ctx \in Nat /\ call.step = "model"
      /\ call.method # "none" /\ made \in 0..MaxObjects /\ made < MaxObjects
    BY DEF IInv, TypeOK, CallInv, LoadModel, Tries
<1>2. /\ p \in Object /\ p # nullptr /\ p.id = made + 1
      /\ p.devices = call.devices /\ p.of = 0
      /\ \A q \in Pointer : q.id <= made => q # p
    BY <1>1, NewIsFresh, LoadingAssumption
<1>3. /\ call' = [call EXCEPT !.step = "context"]
      /\ call'.method = call.method /\ call'.devices = call.devices
      /\ call'.n_ctx = call.n_ctx /\ call'.step = "context"
    BY DEF LoadModel, GoOn, IInv, TypeOK
<1>4. /\ heap' = heap \cup {p} /\ made' = made + 1
      /\ UNCHANGED <<gpu_unusable, active_n_ctx, ctx, ctx_draft, mtmd_ctx,
                      is_initialized, window, answer>>
      /\ attempt' = [kind |-> "model", devices |-> call.devices,
                     latched |-> gpu_unusable, ok |-> TRUE]
    BY DEF LoadModel, Tries, GoOn
<1>5. \/ /\ call.method = "initLlama" /\ model = nullptr
         /\ model' = p /\ model_draft' = model_draft
      \/ /\ call.method = "initDraftModel" /\ model_draft = nullptr
         /\ model_draft' = p /\ model' = model
    BY <1>1 DEF LoadModel, Loaded, IInv, CallInv
<1>6. /\ model \in Pointer /\ ctx \in Pointer /\ model_draft \in Pointer
      /\ ctx_draft \in Pointer /\ mtmd_ctx \in Pointer /\ Object \subseteq Pointer
    BY DEF IInv, TypeOK, Pointer
<1> HIDE DEF p
<1>7. TypeOK'
    <2>1. call' \in [method : {"none", "initLlama", "initDraftModel"},
                     devices : Device, n_ctx : Nat,
                     step : {"none", "model", "context"}]
        BY <1>1, <1>3 DEF IInv, TypeOK
    <2>2. attempt' \in [kind : {"none", "model", "context", "projector"},
                        devices : Device, latched : BOOLEAN, ok : BOOLEAN]
        BY <1>1, <1>4 DEF IInv, TypeOK
    <2>3. made' \in 0..MaxObjects /\ heap' \subseteq Object
        BY <1>1, <1>2, <1>4, LoadingAssumption DEF IInv, TypeOK
    <2> QED
        BY <2>1, <2>2, <2>3, <1>2, <1>4, <1>5, <1>6 DEF IInv, TypeOK
<1>8. CallInv'
    BY <1>1, <1>2, <1>3, <1>4, <1>5 DEF IInv, CallInv
<1>9. IdInv'
    <2>1. \A q \in Pointer : q.id <= made => q.id <= made'
        BY <1>1, <1>4, LoadingAssumption DEF Pointer, Object, nullptr
    <2>2. p.id <= made'
        BY <1>1, <1>2, <1>4
    <2> QED
        BY <1>2, <1>4, <1>5, <1>6, <2>1, <2>2 DEF IInv, IdInv, Apart
<1>10. HeapInv'
    BY <1>2, <1>4, <1>5 DEF IInv, HeapInv
<1>11. OwnerInv'
    BY <1>3, <1>4, <1>5 DEF IInv, CallInv, OwnerInv
<1>12. WindowInv' /\ LoadsStayOnCpu'
    BY <1>3, <1>4, <1>5 DEF IInv, CallInv, WindowInv, LoadsStayOnCpu
<1> QED
    BY <1>7, <1>8, <1>9, <1>10, <1>11, <1>12 DEF IInv

\* What an attempt records has its type, and the latch is not ignored by a call.
LEMMA AttemptOK ==
    ASSUME IInv, NEW k \in {"model", "context", "projector"}, NEW d \in Device,
           NEW ok \in BOOLEAN, Tries(k, d, ok)
    PROVE  /\ attempt' \in [kind : {"none", "model", "context", "projector"},
                            devices : Device, latched : BOOLEAN, ok : BOOLEAN]
           /\ made' \in 0..MaxObjects
           /\ made' = IF ok THEN made + 1 ELSE made
           /\ attempt'.kind = k /\ attempt'.devices = d
           /\ attempt'.latched = gpu_unusable /\ attempt'.ok = ok
           /\ ok => made < MaxObjects
BY LoadingAssumption DEF IInv, TypeOK, Tries

\* The ways on from a failed attempt: a second one on the CPU, or the answer.
LEMMA AfterFailure ==
    ASSUME IInv, call.method # "none",
           \/ call.devices = "auto" /\ RetryOnCpu /\ UNCHANGED is_initialized
           \/ Fails
    PROVE  /\ call' \in [method : {"none", "initLlama", "initDraftModel"},
                         devices : Device, n_ctx : Nat,
                         step : {"none", "model", "context"}]
           /\ answer' \in [method : {"none", "initLlama", "refused",
                                      "resetContext", "initVision",
                                      "initDraftModel", "dispose"},
                            ok : BOOLEAN]
           /\ gpu_unusable' \in BOOLEAN /\ is_initialized' \in BOOLEAN
           /\ call'.devices = "cpu"
           /\ \/ call' = Idle /\ call'.method = "none" /\ call'.step = "none"
              \/ call'.method = call.method /\ call'.step = "model"
<1>1. CASE RetryOnCpu /\ UNCHANGED is_initialized
    BY <1>1 DEF RetryOnCpu, GoOn, IInv, TypeOK, Device
<1>2. CASE Fails
    BY <1>2, IdleCall DEF Fails, Return, IInv, TypeOK
<1> QED
    BY <1>1, <1>2

LEMMA LoadModelFailsInv == ASSUME IInv, LoadModelFails PROVE IInv'
<1>1. /\ call.step = "model" /\ call.devices \in Device /\ call.method # "none"
      /\ Tries("model", call.devices, FALSE)
    BY DEF IInv, TypeOK, CallInv, LoadModelFails
<1>2. UNCHANGED <<active_n_ctx, pointers, heap, window>>
    BY DEF LoadModelFails
<1>3. \/ call.devices = "auto" /\ RetryOnCpu /\ UNCHANGED is_initialized
      \/ Fails
    BY DEF LoadModelFails
<1>4. TypeOK'
    BY <1>1, <1>2, <1>3, AttemptOK, AfterFailure DEF IInv, TypeOK, pointers
<1>5. CallInv'
    BY <1>1, <1>2, <1>3, AfterFailure DEF IInv, CallInv, pointers
<1>6. IdInv' /\ HeapInv'
    BY <1>1, <1>2, AttemptOK DEF IInv, IdInv, Apart, HeapInv, pointers
<1>7. OwnerInv' /\ WindowInv'
    BY <1>1, <1>2, <1>3, AfterFailure
        DEF IInv, CallInv, OwnerInv, WindowInv, pointers, nullptr
<1>8. LoadsStayOnCpu'
    BY <1>1, AttemptOK DEF IInv, CallInv, LoadsStayOnCpu
<1> QED
    BY <1>4, <1>5, <1>6, <1>7, <1>8 DEF IInv

\* The context of the main model: same devices, same window on both sides.
LEMMA CreateContextInv == ASSUME IInv, CreateContext PROVE IInv'
<1> DEFINE p == New(call.devices, model.id)
<1>1. /\ call.method = "initLlama" /\ call.step = "context"
      /\ call.devices \in Device /\ call.n_ctx \in Nat
      /\ Tries("context", call.devices, TRUE)
      /\ ctx = nullptr /\ model # nullptr /\ model.devices = call.devices
    BY DEF IInv, TypeOK, CallInv, CreateContext
<1>2. /\ made \in 0..MaxObjects /\ made < MaxObjects /\ made' = made + 1
      /\ made' \in 0..MaxObjects
      /\ model \in Pointer /\ ctx \in Pointer /\ model_draft \in Pointer
      /\ ctx_draft \in Pointer /\ mtmd_ctx \in Pointer /\ Object \subseteq Pointer
    BY <1>1, AttemptOK DEF IInv, TypeOK, Pointer
<1>3. model.id \in 0..MaxObjects
    BY <1>2, LoadingAssumption DEF Pointer, Object, nullptr
<1>4. /\ p \in Object /\ p # nullptr /\ p.id = made + 1
      /\ p.devices = call.devices /\ p.of = model.id
      /\ \A q \in Pointer : q.id <= made => q # p
    BY <1>1, <1>2, <1>3, NewIsFresh
<1>5. /\ ctx' = p /\ heap' = heap \cup {p} /\ is_initialized' = TRUE
      /\ call' = Idle /\ answer' = [method |-> "initLlama", ok |-> TRUE]
      /\ active_n_ctx' = Window(call.n_ctx) /\ window' = Window(call.n_ctx)
      /\ UNCHANGED <<gpu_unusable, model, model_draft, ctx_draft, mtmd_ctx>>
    BY DEF CreateContext, Return, Remembers
<1>6. Window(call.n_ctx) \in Nat /\ Window(call.n_ctx) > 0
    BY <1>1, LoadingAssumption DEF Window
<1> HIDE DEF p
<1>7. TypeOK'
    <2>1. attempt' \in [kind : {"none", "model", "context", "projector"},
                        devices : Device, latched : BOOLEAN, ok : BOOLEAN]
        BY <1>1, AttemptOK
    <2> QED
        BY <2>1, <1>2, <1>4, <1>5, <1>6, IdleCall DEF IInv, TypeOK
<1>8. CallInv'
    BY <1>5, IdleCall DEF IInv, CallInv
<1>9. IdInv'
    <2>1. \A q \in Pointer : q.id <= made => q.id <= made'
        BY <1>2, LoadingAssumption DEF Pointer, Object, nullptr
    <2>2. p.id <= made'
        BY <1>2, <1>4
    <2> QED
        BY <1>1, <1>2, <1>4, <1>5, <2>1, <2>2 DEF IInv, IdInv, Apart
<1>10. HeapInv'
    BY <1>1, <1>4, <1>5 DEF IInv, HeapInv
<1>11. OwnerInv' /\ WindowInv'
    BY <1>1, <1>4, <1>5, <1>6 DEF IInv, OwnerInv, WindowInv
<1>12. LoadsStayOnCpu'
    BY <1>1, AttemptOK DEF LoadsStayOnCpu
<1> QED
    BY <1>7, <1>8, <1>9, <1>10, <1>11, <1>12 DEF IInv

LEMMA CreateDraftContextInv == ASSUME IInv, CreateDraftContext PROVE IInv'
<1> DEFINE p == New(call.devices, model_draft.id)
<1>1. /\ call.method = "initDraftModel" /\ call.step = "context"
      /\ call.devices \in Device
      /\ Tries("context", call.devices, TRUE)
      /\ ctx_draft = nullptr
    BY DEF IInv, TypeOK, CallInv, CreateDraftContext
<1>2. /\ made \in 0..MaxObjects /\ made < MaxObjects /\ made' = made + 1
      /\ made' \in 0..MaxObjects
      /\ model \in Pointer /\ ctx \in Pointer /\ model_draft \in Pointer
      /\ ctx_draft \in Pointer /\ mtmd_ctx \in Pointer /\ Object \subseteq Pointer
    BY <1>1, AttemptOK DEF IInv, TypeOK, Pointer
<1>3. model_draft.id \in 0..MaxObjects
    BY <1>2, LoadingAssumption DEF Pointer, Object, nullptr
<1>4. /\ p \in Object /\ p # nullptr /\ p.id = made + 1 /\ p.of = model_draft.id
      /\ \A q \in Pointer : q.id <= made => q # p
    BY <1>1, <1>2, <1>3, NewIsFresh
<1>5. /\ ctx_draft' = p /\ heap' = heap \cup {p}
      /\ call' = Idle /\ answer' = [method |-> "initDraftModel", ok |-> TRUE]
      /\ UNCHANGED <<gpu_unusable, active_n_ctx, model, ctx, model_draft,
                      mtmd_ctx, is_initialized, window>>
    BY DEF CreateDraftContext, Return
<1> HIDE DEF p
<1>6. TypeOK'
    <2>1. attempt' \in [kind : {"none", "model", "context", "projector"},
                        devices : Device, latched : BOOLEAN, ok : BOOLEAN]
        BY <1>1, AttemptOK
    <2> QED
        BY <2>1, <1>2, <1>4, <1>5, IdleCall DEF IInv, TypeOK
<1>7. CallInv'
    BY <1>5, IdleCall DEF IInv, CallInv
<1>8. IdInv'
    <2>1. \A q \in Pointer : q.id <= made => q.id <= made'
        BY <1>2, LoadingAssumption DEF Pointer, Object, nullptr
    <2>2. p.id <= made'
        BY <1>2, <1>4
    <2> QED
        BY <1>1, <1>2, <1>4, <1>5, <2>1, <2>2 DEF IInv, IdInv, Apart
<1>9. HeapInv'
    BY <1>1, <1>4, <1>5 DEF IInv, HeapInv
<1>10. OwnerInv' /\ WindowInv'
    BY <1>1, <1>4, <1>5 DEF IInv, OwnerInv, WindowInv
<1>11. LoadsStayOnCpu'
    BY <1>1, AttemptOK DEF LoadsStayOnCpu
<1> QED
    BY <1>6, <1>7, <1>8, <1>9, <1>10, <1>11 DEF IInv

\* The weights go with the failed context.
LEMMA CreateContextFailsInv == ASSUME IInv, CreateContextFails PROVE IInv'
<1>1. /\ call.method = "initLlama" /\ call.step = "context"
      /\ call.devices \in Device
      /\ Tries("context", call.devices, FALSE)
      /\ ctx = nullptr
    BY DEF IInv, TypeOK, CallInv, CreateContextFails
<1>2. /\ heap' = heap \ Live(model) /\ model' = nullptr
      /\ UNCHANGED <<active_n_ctx, ctx, model_draft, ctx_draft, mtmd_ctx, window>>
    BY DEF CreateContextFails
<1>3. \/ call.devices = "auto" /\ RetryOnCpu /\ UNCHANGED is_initialized
      \/ Fails
    BY DEF CreateContextFails, ReloadsOnCpu
<1>4. nullptr \in Pointer /\ nullptr.id = 0 /\ made \in Nat
    BY LoadingAssumption DEF Pointer, nullptr, IInv, TypeOK
<1>5. TypeOK'
    BY <1>1, <1>2, <1>3, <1>4, AttemptOK, AfterFailure DEF IInv, TypeOK
<1>6. CallInv'
    BY <1>1, <1>2, <1>3, AfterFailure DEF IInv, CallInv
<1>7. IdInv'
    BY <1>1, <1>2, <1>4, AttemptOK DEF IInv, IdInv, Apart
<1>8. HeapInv'
    BY <1>2 DEF IInv, HeapInv, IdInv, Apart, Live
<1>9. OwnerInv' /\ WindowInv'
    BY <1>1, <1>2, <1>3, AfterFailure DEF IInv, CallInv, OwnerInv, WindowInv
<1>10. LoadsStayOnCpu'
    BY <1>1, AttemptOK DEF LoadsStayOnCpu
<1> QED
    BY <1>5, <1>6, <1>7, <1>8, <1>9, <1>10 DEF IInv

LEMMA CreateDraftContextFailsInv ==
    ASSUME IInv, CreateDraftContextFails PROVE IInv'
<1>1. /\ call.method = "initDraftModel" /\ call.step = "context"
      /\ call.devices \in Device
      /\ Tries("context", call.devices, FALSE)
      /\ ctx_draft = nullptr
    BY DEF IInv, TypeOK, CallInv, CreateDraftContextFails
<1>2. /\ heap' = heap \ Live(model_draft) /\ model_draft' = nullptr
      /\ UNCHANGED <<active_n_ctx, model, ctx, ctx_draft, mtmd_ctx, window>>
    BY DEF CreateDraftContextFails, DraftFreed
<1>3. Fails
    BY DEF CreateDraftContextFails
<1>4. /\ nullptr \in Pointer /\ nullptr.id = 0 /\ nullptr.of = 0 /\ made \in Nat
    BY LoadingAssumption DEF Pointer, nullptr, IInv, TypeOK
<1>5. call' = Idle /\ UNCHANGED gpu_unusable
    BY <1>3 DEF Fails, Return
<1>6. TypeOK'
    BY <1>1, <1>2, <1>3, <1>4, AttemptOK, AfterFailure DEF IInv, TypeOK
<1>7. CallInv'
    BY <1>5, IdleCall DEF IInv, CallInv
<1>8. IdInv'
    BY <1>1, <1>2, <1>4, AttemptOK DEF IInv, IdInv, Apart
<1>9. HeapInv'
    BY <1>2 DEF IInv, HeapInv, IdInv, Apart, Live
<1>10. OwnerInv' /\ WindowInv'
    BY <1>1, <1>2, <1>4, <1>5 DEF IInv, OwnerInv, WindowInv
<1>11. LoadsStayOnCpu'
    BY <1>1, AttemptOK DEF LoadsStayOnCpu
<1> QED
    BY <1>6, <1>7, <1>8, <1>9, <1>10, <1>11 DEF IInv

\* A rebuilt context belongs to the model it replaces the context of.
LEMMA ResetContextInv ==
    ASSUME IInv, NEW n \in Windows, ResetContext(n)
    PROVE  IInv'
<1>1. /\ call = Idle /\ call' = Idle
      /\ \E ok \in BOOLEAN : answer' = [method |-> "resetContext", ok |-> ok]
      /\ UNCHANGED <<gpu_unusable, model, model_draft, ctx_draft, mtmd_ctx,
                      is_initialized>>
    BY DEF ResetContext, Return
<1>2. CASE model = nullptr
    <2>1. UNCHANGED <<active_n_ctx, ctx, heap, made, attempt, window>>
        BY <1>2 DEF ResetContext
    <2>2. TypeOK'
        BY <1>1, <2>1, IdleCall DEF IInv, TypeOK
    <2>3. CallInv' /\ OwnerInv' /\ WindowInv'
        BY <1>1, <2>1 DEF IInv, CallInv, OwnerInv, WindowInv
    <2>4. IdInv' /\ HeapInv' /\ LoadsStayOnCpu'
        BY <1>1, <2>1 DEF IInv, IdInv, Apart, HeapInv, LoadsStayOnCpu
    <2> QED
        BY <2>2, <2>3, <2>4 DEF IInv
<1>3. CASE model # nullptr
    <2> DEFINE p == New(model.devices, model.id)
    <2>1. PICK ok \in BOOLEAN :
             /\ Tries("context", model.devices, ok)
             /\ ctx' = IF ok THEN p ELSE nullptr
             /\ heap' = (heap \ Live(ctx)) \cup (IF ok THEN {p} ELSE {})
             /\ active_n_ctx' = IF ok THEN ResetWindow(n) ELSE active_n_ctx
             /\ window' = IF ok THEN ResetWindow(n) ELSE window
        BY <1>3 DEF ResetContext
    <2>2. /\ model \in Pointer /\ ctx \in Pointer /\ model_draft \in Pointer
          /\ ctx_draft \in Pointer /\ mtmd_ctx \in Pointer
          /\ Object \subseteq Pointer /\ nullptr \in Pointer /\ nullptr.id = 0
        BY DEF IInv, TypeOK, Pointer, nullptr
    <2>3. model \in Object /\ model.id \in 0..MaxObjects /\ model.devices \in Device
        BY <1>3, <2>2, LoadingAssumption DEF Pointer, Object
    <2>4. /\ attempt' \in [kind : {"none", "model", "context", "projector"},
                            devices : Device, latched : BOOLEAN, ok : BOOLEAN]
          /\ made' \in 0..MaxObjects /\ made' = IF ok THEN made + 1 ELSE made
          /\ attempt'.kind = "context"
          /\ ok => made < MaxObjects
        BY <2>1, <2>3, AttemptOK
    <2>5. made \in 0..MaxObjects /\ made \in Nat
        BY LoadingAssumption DEF IInv, TypeOK
    <2>6. ok => /\ p \in Object /\ p # nullptr /\ p.id = made + 1
                /\ p.devices = model.devices /\ p.of = model.id
                /\ \A q \in Pointer : q.id <= made => q # p
        <3> SUFFICES ASSUME ok
                     PROVE  /\ p \in Object /\ p # nullptr /\ p.id = made + 1
                            /\ p.devices = model.devices /\ p.of = model.id
                            /\ \A q \in Pointer : q.id <= made => q # p
            OBVIOUS
        <3>1. made < MaxObjects
            BY <2>1, <2>3, AttemptOK
        <3> QED
            BY <2>3, <2>5, <3>1, NewIsFresh
    <2>7. /\ ResetWindow(n) \in Nat /\ ResetWindow(n) > 0
        BY LoadingAssumption DEF ResetWindow, IInv, TypeOK
    <2> HIDE DEF p
    <2>8. TypeOK'
        <3>1. heap' \subseteq Object /\ ctx' \in Pointer
            BY <2>1, <2>2, <2>6 DEF IInv, TypeOK
        <3>2. active_n_ctx' \in Nat /\ window' \in Nat
            BY <2>1, <2>7 DEF IInv, TypeOK
        <3> QED
            BY <1>1, <2>2, <2>4, <3>1, <3>2, IdleCall DEF IInv, TypeOK
    <2>9. CallInv'
        BY <1>1, IdleCall DEF IInv, CallInv
    <2>10. IdInv'
        <3>1. \A q \in Pointer : q.id <= made => q.id <= made'
            BY <2>4, <2>5, LoadingAssumption DEF Pointer, Object, nullptr
        <3>2. ctx'.id <= made'
            BY <2>1, <2>2, <2>4, <2>5, <2>6
        <3>3. /\ Apart(model, ctx') /\ Apart(ctx', model_draft)
              /\ Apart(ctx', ctx_draft) /\ Apart(ctx', mtmd_ctx)
            BY <2>1, <2>2, <2>6 DEF IInv, IdInv, Apart
        <3> QED
            BY <1>1, <2>2, <3>1, <3>2, <3>3 DEF IInv, IdInv, Apart
    <2>11. HeapInv'
        BY <1>1, <2>1, <2>6 DEF IInv, IdInv, Apart, HeapInv, Live
    <2>12. OwnerInv' /\ WindowInv'
        BY <1>1, <1>3, <2>1, <2>6, <2>7 DEF IInv, OwnerInv, WindowInv
    <2>13. LoadsStayOnCpu'
        <3>1. attempt'.kind = "context"
            BY <2>4
        <3> QED
            BY <3>1 DEF LoadsStayOnCpu
    <2> QED
        BY <2>8, <2>9, <2>10, <2>11, <2>12, <2>13 DEF IInv
<1> QED
    BY <1>2, <1>3

\* A projector does not touch the pointers the invariant is about, but its own.
LEMMA InitVisionInv == ASSUME IInv, InitVision PROVE IInv'
<1>1. /\ call = Idle /\ call' = Idle
      /\ \E ok \in BOOLEAN : answer' = [method |-> "initVision", ok |-> ok]
      /\ UNCHANGED <<gpu_unusable, active_n_ctx, model, ctx, model_draft,
                      ctx_draft, is_initialized, window>>
    BY DEF InitVision, Return
<1>2. CallInv' /\ OwnerInv' /\ WindowInv'
    BY <1>1 DEF IInv, CallInv, OwnerInv, WindowInv
<1>3. /\ model \in Pointer /\ ctx \in Pointer /\ model_draft \in Pointer
      /\ ctx_draft \in Pointer /\ mtmd_ctx \in Pointer
      /\ Object \subseteq Pointer /\ nullptr \in Pointer /\ nullptr.id = 0
    BY DEF IInv, TypeOK, Pointer, nullptr
<1>4. made \in 0..MaxObjects /\ made \in Nat
    BY LoadingAssumption DEF IInv, TypeOK
<1>5. CASE model = nullptr
    <2>1. /\ mtmd_ctx' = nullptr /\ heap' = heap \ Live(mtmd_ctx)
          /\ UNCHANGED <<made, attempt>>
        BY <1>5 DEF InitVision
    <2>2. TypeOK'
        BY <1>1, <1>3, <2>1, IdleCall DEF IInv, TypeOK
    <2>3. IdInv'
        BY <1>1, <1>3, <1>4, <2>1 DEF IInv, IdInv, Apart
    <2>4. HeapInv'
        BY <1>1, <2>1 DEF IInv, IdInv, Apart, HeapInv, Live
    <2>5. LoadsStayOnCpu'
        BY <2>1 DEF IInv, LoadsStayOnCpu
    <2> QED
        BY <1>2, <2>2, <2>3, <2>4, <2>5 DEF IInv
<1>6. CASE model # nullptr
    <2> DEFINE d == Allowed("auto")  p == New(d, model.id)
    <2>1. /\ model.id \in 0..MaxObjects /\ d \in Device
          /\ gpu_unusable => d = "cpu"
        BY <1>3, <1>6, LoadingAssumption DEF Pointer, Object, Device, Allowed
    <2>2. p.devices = d
        BY DEF New
    <2>3. PICK ok \in BOOLEAN :
             /\ Tries("projector", p.devices, ok)
             /\ mtmd_ctx' = IF ok THEN p ELSE nullptr
             /\ heap' = (heap \ Live(mtmd_ctx)) \cup (IF ok THEN {p} ELSE {})
        BY <1>6 DEF InitVision
    <2> HIDE DEF d
    <2>4. Tries("projector", d, ok)
        BY <2>2, <2>3
    <2>5. /\ attempt' \in [kind : {"none", "model", "context", "projector"},
                            devices : Device, latched : BOOLEAN, ok : BOOLEAN]
          /\ made' \in 0..MaxObjects /\ made' = IF ok THEN made + 1 ELSE made
          /\ attempt'.devices = d /\ attempt'.latched = gpu_unusable
        BY <2>1, <2>4, AttemptOK
    <2>6. ok => made < MaxObjects
        BY <2>1, <2>4, AttemptOK
    <2>7. ok => /\ p \in Object /\ p # nullptr /\ p.id = made + 1
                /\ \A q \in Pointer : q.id <= made => q # p
        BY <1>4, <2>1, <2>6, NewIsFresh
    <2> HIDE DEF p
    <2>8. TypeOK'
        <3>1. heap' \subseteq Object /\ mtmd_ctx' \in Pointer
            BY <1>3, <2>3, <2>7 DEF IInv, TypeOK
        <3> QED
            BY <1>1, <1>3, <2>5, <3>1, IdleCall DEF IInv, TypeOK
    <2>9. IdInv'
        <3>1. \A q \in Pointer : q.id <= made => q.id <= made'
            BY <1>4, <2>5, LoadingAssumption DEF Pointer, Object, nullptr
        <3>2. mtmd_ctx'.id <= made'
            BY <1>3, <1>4, <2>3, <2>5, <2>7
        <3>3. /\ Apart(model, mtmd_ctx') /\ Apart(ctx, mtmd_ctx')
              /\ Apart(model_draft, mtmd_ctx') /\ Apart(ctx_draft, mtmd_ctx')
            BY <1>3, <2>3, <2>7 DEF IInv, IdInv, Apart
        <3> QED
            BY <1>1, <1>3, <3>1, <3>2, <3>3 DEF IInv, IdInv, Apart
    <2>10. HeapInv'
        BY <1>1, <2>3, <2>7 DEF IInv, IdInv, Apart, HeapInv, Live
    <2>11. LoadsStayOnCpu'
        <3>1. gpu_unusable => d = "cpu"
            BY <2>1
        <3>2. attempt'.devices = d /\ attempt'.latched = gpu_unusable
            BY <2>5
        <3> QED
            BY <3>1, <3>2 DEF LoadsStayOnCpu
    <2> QED
        BY <1>2, <2>8, <2>9, <2>10, <2>11 DEF IInv
<1> QED
    BY <1>5, <1>6

LEMMA DisposeLlamaInv == ASSUME IInv, DisposeLlama PROVE IInv'
<1> USE DEF DisposeLlama, Return
<1>1. /\ nullptr \in Pointer /\ nullptr.id = 0 /\ nullptr.of = 0 /\ made \in Nat
    BY LoadingAssumption DEF Pointer, nullptr, IInv, TypeOK
<1>2. TypeOK'
    BY <1>1, IdleCall DEF IInv, TypeOK
<1>3. CallInv' /\ OwnerInv' /\ WindowInv'
    BY <1>1, IdleCall DEF IInv, CallInv, OwnerInv, WindowInv
<1>4. IdInv'
    BY <1>1 DEF IdInv, Apart
<1>5. HeapInv'
    BY DEF IInv, HeapInv, Live
<1>6. LoadsStayOnCpu'
    BY DEF IInv, LoadsStayOnCpu
<1> QED
    BY <1>2, <1>3, <1>4, <1>5, <1>6 DEF IInv

LEMMA NextInv == ASSUME IInv, [Next]_vars PROVE IInv'
<1>1. CASE UNCHANGED vars
    BY <1>1 DEF vars, pointers, IInv, TypeOK, CallInv, IdInv, Apart, HeapInv,
        OwnerInv, WindowInv, LoadsStayOnCpu
<1>2. CASE RefuseLoad \/ InitVision \/ DisposeLlama
    BY <1>2, RefuseLoadInv, InitVisionInv, DisposeLlamaInv
<1>3. CASE LoadModel \/ LoadModelFails \/ CreateContext \/ CreateContextFails
              \/ CreateDraftContext \/ CreateDraftContextFails
    BY <1>3, LoadModelInv, LoadModelFailsInv, CreateContextInv,
        CreateContextFailsInv, CreateDraftContextInv, CreateDraftContextFailsInv
<1>4. ASSUME NEW n \in Windows, ResetContext(n) PROVE IInv'
    BY <1>4, ResetContextInv
<1>5. ASSUME NEW n \in Windows, NEW d \in Device, BeginInitLlama(d, n) PROVE IInv'
    BY <1>5, BeginInitLlamaInv
<1>6. ASSUME NEW d \in Device, BeginInitDraftModel(d) PROVE IInv'
    BY <1>6, BeginInitDraftModelInv
<1> QED
    BY <1>1, <1>2, <1>3, <1>4, <1>5, <1>6 DEF Next

\* The inductive invariant of loading: types, what a running call relies on,
\* fresh ids, the heap, who made what for whom, and the remembered window.
THEOREM LoadingInvariant == Spec => []IInv
<1>1. Init => IInv
    BY InitInv
<1>2. IInv /\ [Next]_vars => IInv'
    BY NextInv
<1> QED
    BY <1>1, <1>2, PTL DEF Spec

\* No model and no projector is given to a GPU that has failed (native-lib.cpp:
\* 71-74, the part of the promise the code keeps).
THEOREM LoadsNeverReturnToGpu == Spec => []LoadsStayOnCpu
<1>1. IInv => LoadsStayOnCpu
    BY DEF IInv
<1> QED
    BY <1>1, LoadingInvariant, PTL

\* Between calls nothing leaks and nothing dangles, whichever attempt failed.
THEOREM NothingLeaks == Spec => []PointersAreObjects
<1>1. IInv => PointersAreObjects
    BY DEF IInv, HeapInv, OwnerInv, PointersAreObjects, Live, Idle
<1> QED
    BY <1>1, LoadingInvariant, PTL

\* A reset without a window keeps the one of the live model, for all windows.
THEOREM ResetKeepsTheWindow == Spec => []ResetKeepsWindow
<1>1. IInv => ResetKeepsWindow
    BY DEF IInv, WindowInv, ResetKeepsWindow, ResetWindow, NoWindow, Idle
<1> QED
    BY <1>1, LoadingInvariant, PTL

\* initLlama gives up only after an attempt on the CPU alone has failed.
THEOREM GivesUpOnlyOnCpu == Spec => LoadFailsOnlyOnCpu
<1> DEFINE Step == call.method = "initLlama" /\ call' = Idle /\ ~answer'.ok
                      => attempt'.devices = "cpu" /\ ~attempt'.ok
<1>1. IInv /\ [Next]_vars => [Step]_vars
    <2> SUFFICES ASSUME IInv, [Next]_vars, call.method = "initLlama",
                        call' = Idle, ~answer'.ok
                 PROVE  attempt'.devices = "cpu" /\ ~attempt'.ok
        OBVIOUS
    <2>1. call # Idle /\ call.devices \in {"auto", "cpu"}
        BY DEF IInv, TypeOK, Device, Idle
    <2>2. CASE LoadModelFails
        <3>1. call.devices = "cpu"
            BY <2>1, <2>2 DEF LoadModelFails, RetryOnCpu, GoOn, Idle, IInv, TypeOK
        <3>2. Tries("model", call.devices, FALSE)
            BY <2>2 DEF LoadModelFails
        <3> QED
            BY <3>1, <3>2 DEF Tries
    <2>3. CASE CreateContextFails
        <3>1. call.devices = "cpu"
            BY <2>1, <2>3
                DEF CreateContextFails, ReloadsOnCpu, RetryOnCpu, GoOn, Idle, IInv, TypeOK
        <3>2. Tries("context", call.devices, FALSE)
            BY <2>3 DEF CreateContextFails
        <3> QED
            BY <3>1, <3>2 DEF Tries
    <2>4. CASE LoadModel
        BY <2>4 DEF LoadModel, GoOn, Idle, IInv, TypeOK
    <2>5. CASE CreateContext
        BY <2>5 DEF CreateContext, Return
    <2>6. CASE CreateDraftContext \/ CreateDraftContextFails
        BY <2>6 DEF CreateDraftContext, CreateDraftContextFails
    <2>7. CASE UNCHANGED vars
        BY <2>1, <2>7 DEF vars
    <2>8. ~RefuseLoad /\ ~InitVision /\ ~DisposeLlama
        BY <2>1 DEF RefuseLoad, InitVision, DisposeLlama
    <2>9. \A n \in Windows, d \in Device : ~BeginInitLlama(d, n)
        BY <2>1 DEF BeginInitLlama
    <2>10. \A n \in Windows : ~ResetContext(n)
        BY <2>1 DEF ResetContext
    <2>11. \A d \in Device : ~BeginInitDraftModel(d)
        BY <2>1 DEF BeginInitDraftModel
    <2> QED
        BY <2>2, <2>3, <2>4, <2>5, <2>6, <2>7, <2>8, <2>9, <2>10, <2>11 DEF Next
<1> QED
    BY <1>1, LoadingInvariant, PTL DEF Spec, LoadFailsOnlyOnCpu
=============================================================================
