------------------------------- MODULE Loading ------------------------------
(***************************************************************************)
(* How native-lib.cpp builds, rebuilds and frees its native objects, and   *)
(* falls back from the GPU to the CPU: initLlama, resetContext,            *)
(* initVision, initDraftModel and disposeLlama on the executor thread,     *)
(* one attempt to load or to create something per step.                    *)
(*                                                                         *)
(* An object is a record with the devices llama.cpp may use for it ("auto" *)
(* lets it pick every GPU) and the model it was made for.  `heap` holds    *)
(* the objects that were made and not freed.  Any attempt may fail; what a *)
(* driver does after a failure is not modelled, only who asks it again.    *)
(***************************************************************************)
EXTENDS Integers

CONSTANTS MaxObjects,    \* objects this process makes
          Windows,       \* n_ctx an application asks for; 0: the default
          DefaultWindow  \* what the RAM of the device allows

NoWindow == 0
Device   == {"auto", "cpu"}

ASSUME LoadingAssumption ==
    /\ MaxObjects \in Nat
    /\ NoWindow \in Windows /\ Windows \subseteq Nat
    /\ DefaultWindow \in Nat \ {0}

VARIABLES
    gpu_unusable, active_n_ctx,
    model, ctx, model_draft, ctx_draft, mtmd_ctx,   \* pointers
    heap, made,       \* live objects, and how many were made so far
    is_initialized,   \* the Dart flag that gates resetContext
    call,             \* the running call: its method, devices, n_ctx and step
    answer,           \* the last call and what it returned
    attempt,          \* history: the last attempt
    window            \* history: the window of the last context of model

pointers == <<model, ctx, model_draft, ctx_draft, mtmd_ctx>>
vars == <<gpu_unusable, active_n_ctx, pointers, heap, made, is_initialized,
          call, answer, attempt, window>>

nullptr == [id |-> 0, devices |-> "cpu", of |-> 0]
Object  == [id : 1..MaxObjects, devices : Device, of : 0..MaxObjects]
Pointer == Object \cup {nullptr}
Idle    == [method |-> "none", devices |-> "cpu", n_ctx |-> 0, step |-> "none"]

TypeOK ==
    /\ gpu_unusable \in BOOLEAN /\ is_initialized \in BOOLEAN
    /\ active_n_ctx \in Nat /\ window \in Nat
    /\ model \in Pointer /\ ctx \in Pointer /\ model_draft \in Pointer
    /\ ctx_draft \in Pointer /\ mtmd_ctx \in Pointer
    /\ heap \subseteq Object /\ made \in 0..MaxObjects
    /\ call \in [method : {"none", "initLlama", "initDraftModel"},
                 devices : Device, n_ctx : Nat,
                 step : {"none", "model", "context"}]
    /\ answer \in [method : {"none", "initLlama", "refused", "resetContext",
                             "initVision", "initDraftModel", "dispose"},
                   ok : BOOLEAN]
    /\ attempt \in [kind : {"none", "model", "context", "projector"},
                    devices : Device, latched : BOOLEAN, ok : BOOLEAN]

Init ==
    /\ gpu_unusable = FALSE /\ active_n_ctx = 0 /\ is_initialized = FALSE
    /\ model = nullptr /\ ctx = nullptr
    /\ model_draft = nullptr /\ ctx_draft = nullptr /\ mtmd_ctx = nullptr
    /\ heap = {} /\ made = 0 /\ call = Idle
    /\ answer = [method |-> "none", ok |-> TRUE]
    /\ attempt = [kind |-> "none", devices |-> "cpu", latched |-> FALSE, ok |-> TRUE]
    /\ window = 0

Live(p) == {p} \ {nullptr}
New(devices, of) == [id |-> made + 1, devices |-> devices, of |-> of]
Tries(kind, devices, ok) ==
    /\ ok => made < MaxObjects
    /\ attempt' = [kind |-> kind, devices |-> devices,
                   latched |-> gpu_unusable, ok |-> ok]
    /\ made' = IF ok THEN made + 1 ELSE made
Return(m, ok) == call' = Idle /\ answer' = [method |-> m, ok |-> ok]
GoOn(c)       == call' = c /\ UNCHANGED answer

\* The devices a model is loaded for.  (Mutant: the latch is not looked at.)
AsAsked(devices) == devices
Allowed(devices) == IF gpu_unusable THEN "cpu" ELSE devices

-----------------------------------------------------------------------------
\* initLlama and initDraftModel free what they replace.

RefuseLoad ==
    /\ call = Idle
    /\ Return("refused", FALSE)
    /\ is_initialized' = FALSE
    /\ UNCHANGED <<gpu_unusable, active_n_ctx, pointers, heap, made, attempt,
                    window>>

BeginInitLlama(devices, n_ctx) ==
    /\ call = Idle
    /\ heap' = heap \ (Live(ctx) \cup Live(model))
    /\ ctx' = nullptr /\ model' = nullptr
    /\ GoOn([method |-> "initLlama", devices |-> Allowed(devices),
             n_ctx |-> n_ctx, step |-> "model"])
    /\ UNCHANGED <<gpu_unusable, active_n_ctx, model_draft, ctx_draft, mtmd_ctx,
                    made, is_initialized, attempt, window>>

BeginInitDraftModel(devices) ==
    /\ call = Idle
    /\ heap' = heap \ (Live(ctx_draft) \cup Live(model_draft))
    /\ ctx_draft' = nullptr /\ model_draft' = nullptr
    /\ GoOn([method |-> "initDraftModel", devices |-> Allowed(devices),
             n_ctx |-> 0, step |-> "model"])
    /\ UNCHANGED <<gpu_unusable, active_n_ctx, model, ctx, mtmd_ctx, made,
                    is_initialized, attempt, window>>

\* llama_model_load_from_file
Loaded(p) == IF call.method = "initLlama"
             THEN model' = p /\ UNCHANGED model_draft
             ELSE model_draft' = p /\ UNCHANGED model

LoadModel ==
    /\ call.step = "model"
    /\ Tries("model", call.devices, TRUE)
    /\ Loaded(New(call.devices, 0))
    /\ heap' = heap \cup {New(call.devices, 0)}
    /\ GoOn([call EXCEPT !.step = "context"])
    /\ UNCHANGED <<gpu_unusable, active_n_ctx, ctx, ctx_draft, mtmd_ctx,
                    is_initialized, window>>

\* A failure that was not on the CPU yet is tried there.
RetryOnCpu == gpu_unusable' = TRUE /\ GoOn([call EXCEPT !.devices = "cpu",
                                                        !.step = "model"])
Fails == /\ Return(call.method, FALSE) /\ UNCHANGED gpu_unusable
         /\ is_initialized' = IF call.method = "initLlama" THEN FALSE
                              ELSE is_initialized

LoadModelFails ==
    /\ call.step = "model"
    /\ Tries("model", call.devices, FALSE)
    /\ IF call.devices = "auto"
       THEN RetryOnCpu /\ UNCHANGED is_initialized
       ELSE Fails
    /\ UNCHANGED <<active_n_ctx, pointers, heap, window>>

\* n_ctx of initLlama; resetContext without one keeps the live window.
Window(n_ctx)      == IF n_ctx > 0 THEN n_ctx ELSE DefaultWindow
ResetWindow(n_ctx) == IF n_ctx > 0 THEN n_ctx
                      ELSE IF active_n_ctx > 0 THEN active_n_ctx ELSE 4096

\* (Mutant: the window of a new model is not remembered.)
Forgets(n_ctx)   == UNCHANGED active_n_ctx
Remembers(n_ctx) == active_n_ctx' = n_ctx

\* llama_init_from_model
CreateContext ==
    /\ call.method = "initLlama" /\ call.step = "context"
    /\ Tries("context", call.devices, TRUE)
    /\ ctx' = New(call.devices, model.id)
    /\ heap' = heap \cup {ctx'}
    /\ Remembers(Window(call.n_ctx)) /\ window' = Window(call.n_ctx)
    /\ Return("initLlama", TRUE) /\ is_initialized' = TRUE
    /\ UNCHANGED <<gpu_unusable, model, model_draft, ctx_draft, mtmd_ctx>>

CreateDraftContext ==
    /\ call.method = "initDraftModel" /\ call.step = "context"
    /\ Tries("context", call.devices, TRUE)
    /\ ctx_draft' = New(call.devices, model_draft.id)
    /\ heap' = heap \cup {ctx_draft'}
    /\ Return("initDraftModel", TRUE)
    /\ UNCHANGED <<gpu_unusable, active_n_ctx, model, ctx, model_draft, mtmd_ctx,
                    is_initialized, window>>

\* The weights are on the GPU: they are freed and placed again.
\* (Mutant: there is no second try.)
GivesUp         == Fails
ReloadsOnCpu    == IF call.devices = "auto"
                   THEN RetryOnCpu /\ UNCHANGED is_initialized ELSE Fails

CreateContextFails ==
    /\ call.method = "initLlama" /\ call.step = "context"
    /\ Tries("context", call.devices, FALSE)
    /\ heap' = heap \ Live(model) /\ model' = nullptr
    /\ ReloadsOnCpu
    /\ UNCHANGED <<active_n_ctx, ctx, model_draft, ctx_draft, mtmd_ctx, window>>

\* The draft model is given up without a second try, and nothing is latched.
\* (Mutant: its weights stay.)
DraftStays == UNCHANGED heap /\ model_draft' = nullptr
DraftFreed == heap' = heap \ Live(model_draft) /\ model_draft' = nullptr

CreateDraftContextFails ==
    /\ call.method = "initDraftModel" /\ call.step = "context"
    /\ Tries("context", call.devices, FALSE)
    /\ DraftFreed
    /\ Fails
    /\ UNCHANGED <<active_n_ctx, model, ctx, ctx_draft, mtmd_ctx, window>>

-----------------------------------------------------------------------------
\* A context is built for the devices of its model.
ResetContext(n_ctx) ==
    /\ call = Idle /\ is_initialized
    /\ IF model = nullptr
       THEN /\ Return("resetContext", FALSE)
            /\ UNCHANGED <<active_n_ctx, ctx, heap, made, attempt, window>>
       ELSE \E ok \in BOOLEAN :
            LET rebuilt == New(model.devices, model.id)
            IN  /\ Tries("context", model.devices, ok)
                /\ ctx' = IF ok THEN rebuilt ELSE nullptr
                /\ heap' = (heap \ Live(ctx)) \cup (IF ok THEN {rebuilt} ELSE {})
                /\ active_n_ctx' = IF ok THEN ResetWindow(n_ctx) ELSE active_n_ctx
                /\ window' = IF ok THEN ResetWindow(n_ctx) ELSE window
                /\ Return("resetContext", ok)
    /\ UNCHANGED <<gpu_unusable, model, model_draft, ctx_draft, mtmd_ctx,
                    is_initialized>>

InitVision ==
    /\ call = Idle
    /\ IF model = nullptr
       THEN /\ mtmd_ctx' = nullptr /\ heap' = heap \ Live(mtmd_ctx)
            /\ Return("initVision", FALSE)
            /\ UNCHANGED <<made, attempt>>
       ELSE \E ok \in BOOLEAN :
            LET projector == New(Allowed("auto"), model.id)
            IN  /\ Tries("projector", projector.devices, ok)
                /\ mtmd_ctx' = IF ok THEN projector ELSE nullptr
                /\ heap' = (heap \ Live(mtmd_ctx))
                               \cup (IF ok THEN {projector} ELSE {})
                /\ Return("initVision", ok)
    /\ UNCHANGED <<gpu_unusable, active_n_ctx, model, ctx, model_draft,
                    ctx_draft, is_initialized, window>>

\* The latch and the window outlive the objects.
DisposeLlama ==
    /\ call = Idle
    /\ model' = nullptr /\ ctx' = nullptr /\ mtmd_ctx' = nullptr
    /\ model_draft' = nullptr /\ ctx_draft' = nullptr
    /\ heap' = heap \ UNION {Live(model), Live(ctx), Live(mtmd_ctx),
                             Live(model_draft), Live(ctx_draft)}
    /\ is_initialized' = FALSE
    /\ Return("dispose", TRUE)
    /\ UNCHANGED <<gpu_unusable, active_n_ctx, made, attempt, window>>

Next ==
    \/ RefuseLoad \/ InitVision \/ DisposeLlama
    \/ \E n_ctx \in Windows : \/ ResetContext(n_ctx)
                              \/ \E d \in Device : BeginInitLlama(d, n_ctx)
    \/ \E d \in Device : BeginInitDraftModel(d)
    \/ LoadModel \/ LoadModelFails \/ CreateContext \/ CreateContextFails
    \/ CreateDraftContext \/ CreateDraftContextFails

Spec == Init /\ [][Next]_vars
-----------------------------------------------------------------------------
\* "falling back to CPU" (138-147, 177-193): initLlama gives a file that passed
\* the RAM check up only after the CPU alone has failed too, wherever the GPU did.
LoadFailsOnlyOnCpu ==
    [][call.method = "initLlama" /\ call' = Idle /\ ~answer'.ok
         => attempt'.devices = "cpu" /\ ~attempt'.ok]_vars

\* "once this is set we stay on the CPU for the whole process" (71-74): nothing
\* is loaded onto the GPU any more.
LoadsStayOnCpu ==
    attempt.latched /\ attempt.kind \in {"model", "projector"} =>
        attempt.devices = "cpu"

\* The same of everything that reaches for the GPU, "a second context" included.
StaysOnCpu == attempt.latched => attempt.devices = "cpu"

\* Between calls every pointer leads to an object, every object to a pointer,
\* and a context to the model it was made for: no failure leaks or leaves half.
PointersAreObjects ==
    call = Idle =>
        /\ heap = UNION {Live(model), Live(ctx), Live(mtmd_ctx),
                         Live(model_draft), Live(ctx_draft)}
        /\ ctx # nullptr => ctx.of = model.id /\ ctx.devices = model.devices
        /\ ctx_draft.of = model_draft.id

\* A reset that names no window rebuilds the one the model's last context had
\* (41, 229), after failed loads and failed resets too.
ResetKeepsWindow ==
    call = Idle /\ model # nullptr => ResetWindow(NoWindow) = window
=============================================================================
