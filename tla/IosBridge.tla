------------------------------ MODULE IosBridge -----------------------------
(***************************************************************************)
(* The iOS plugin: NativeLlamaPlugin.swift dispatches every method but     *)
(* abortGeneration to a global, concurrent queue, so that the methods of   *)
(* LlamaBridge.mm run beside one another; what keeps them apart is the     *)
(* flag is_generating, read and written in separate steps.                 *)
(*                                                                         *)
(* Each call is one block on a thread of its own, and stops between any    *)
(* two accesses to shared state.  Answers, tokens and the sentinel reach   *)
(* Dart at once: a main queue that is late only lets the application act   *)
(* later.  Tokens are left out; a reply may go on for ever unless          *)
(* stop_generation is set.  What a generation computes is NativeEngine's   *)
(* subject: LlamaBridge.mm repeats that code.                              *)
(***************************************************************************)
EXTENDS Integers, FiniteSets

CONSTANTS MaxCalls,     \* method calls the application makes
          Methods,      \* the methods it uses
          PrefillFails, \* llama_decode may fail in a prefill
          Serialised    \* the application follows the discipline of CanCall

AllMethods == {"initModel", "initDraftModel", "initVision", "getEmbedding",
               "startGeneration", "resetContext", "dispose"}
Call    == 1..MaxCalls
Object  == {"model", "ctx", "draft", "mtmd"}

ASSUME BridgeAssumption ==
    /\ MaxCalls \in Nat
    /\ Methods \subseteq AllMethods
    /\ PrefillFails \in BOOLEAN /\ Serialised \in BOOLEAN

VARIABLES
    live,             \* native objects the bridge's pointers lead to
    is_generating, stop_generation,
    method, pc,       \* per call: what it is, where its block is
    uses,             \* per call: objects it is working on, without a lock
    eventSink,        \* the generation whose stream the sink belongs to, or 0
    stream,           \* per generation: its Dart stream
    _isInitialized,
    inTurn            \* history: asked for when every earlier stream had closed

bridge == <<live, is_generating, stop_generation>>
blocks == <<method, pc, uses>>
dart   == <<eventSink, stream, _isInitialized, inTurn>>
vars   == <<bridge, blocks, dart>>

Points == {"none", "queued", "checking", "claiming", "claimed", "prefilling",
           "decoding", "ending", "waiting", "freeing", "rebuilding", "loading",
           "answered", "refused", "over"}

TypeOK ==
    /\ live \subseteq Object
    /\ is_generating \in BOOLEAN /\ stop_generation \in BOOLEAN
    /\ method \in [Call -> AllMethods \cup {"none"}] /\ pc \in [Call -> Points]
    /\ uses \in [Call -> SUBSET Object]
    /\ eventSink \in {0} \cup Call
    /\ stream \in [Call -> {"none", "open", "closed", "cancelled"}]
    /\ _isInitialized \in BOOLEAN
    /\ inTurn \in [Call -> BOOLEAN]

Init ==
    /\ live = {} /\ is_generating = FALSE /\ stop_generation = FALSE
    /\ method = [c \in Call |-> "none"] /\ pc = [c \in Call |-> "none"]
    /\ uses = [c \in Call |-> {}]
    /\ eventSink = 0 /\ stream = [c \in Call |-> "none"]
    /\ _isInitialized = FALSE
    /\ inTurn = [c \in Call |-> FALSE]

At(c, m, point) == method[c] = m /\ pc[c] = point
GoTo(c, point)  == pc' = [pc EXCEPT ![c] = point]
Using(c, objects) == uses' = [uses EXCEPT ![c] = objects]

Unload == {"initModel", "dispose"}
Pending(c) == pc[c] \notin {"none", "answered", "refused", "over"}
Awaited(c) == Pending(c) /\ method[c] # "startGeneration"

\* A generation before it has taken the flag and cleared stop_generation, and one
\* that works on the context.
Gen(c)     == method[c] = "startGeneration"
Early(c)   == Gen(c) /\ pc[c] \in {"queued", "checking", "claiming", "claimed"}
Running(c) == Gen(c) /\ pc[c] \in {"prefilling", "decoding"}

-----------------------------------------------------------------------------
\* The application and the main thread.

\* "They still must serialise": a serialised application awaits each answer, lets
\* a generation begin before it makes any call, and makes those that do not look
\* at is_generating beside no generation.  How it knows is its own affair: it may
\* wait for a token or for the end of the stream, or guess right.
CanCall(m) ==
    Serialised =>
        /\ \A c \in Call : ~Awaited(c) /\ ~Early(c)
        /\ m \notin Unload \cup {"startGeneration", "resetContext"} =>
              \A c \in Call : ~Running(c)

Invoke(c, m) ==
    /\ pc[c] = "none" /\ \A d \in 1..(c - 1) : pc[d] # "none"
    /\ m \in {"startGeneration", "getEmbedding", "resetContext"} => _isInitialized
    /\ CanCall(m)
    /\ method' = [method EXCEPT ![c] = m]
    /\ GoTo(c, "queued")
    /\ IF m = "startGeneration"
       THEN /\ stream' = [stream EXCEPT ![c] = "open"] /\ eventSink' = c
            /\ inTurn' = [inTurn EXCEPT
                  ![c] = \A d \in Call : stream[d] \in {"none", "closed"}]
       ELSE UNCHANGED <<stream, eventSink, inTurn>>
    /\ UNCHANGED <<bridge, uses, _isInitialized>>

\* controller.onCancel: abortGeneration and the end of the subscription.
CancelStream(c) ==
    /\ stream[c] = "open"
    /\ stream' = [stream EXCEPT ![c] = "cancelled"]
    /\ eventSink' = 0 /\ stop_generation' = TRUE
    /\ UNCHANGED <<live, is_generating, blocks, _isInitialized, inTurn>>

AbortGeneration ==
    /\ stop_generation' = TRUE
    /\ UNCHANGED <<live, is_generating, blocks, dart>>

\* An answer reaches Dart.
Answer(c, ok) ==
    /\ GoTo(c, "answered") /\ Using(c, {})
    /\ _isInitialized' = CASE method[c] = "initModel" -> ok
                           [] method[c] = "dispose"   -> FALSE
                           [] OTHER                   -> _isInitialized
    /\ UNCHANGED <<method, eventSink, stream, inTurn>>

\* The sentinel reaches the sink there is; Dart closes that stream, and a closed
\* controller runs its onCancel.
SendSentinel ==
    IF eventSink = 0
    THEN UNCHANGED <<stream, eventSink, stop_generation>>
    ELSE /\ stream' = [stream EXCEPT ![eventSink] = "closed"]
         /\ eventSink' = 0 /\ stop_generation' = TRUE

-----------------------------------------------------------------------------
\* startGenerationWithRoles.

StartGeneration(c) ==
    /\ At(c, "startGeneration", "queued")
    /\ GoTo(c, IF {"ctx", "model"} \subseteq live THEN "checking" ELSE "over")
    /\ UNCHANGED <<bridge, method, uses, dart>>

RefuseGeneration(c) ==
    /\ At(c, "startGeneration", "checking") /\ is_generating
    /\ SendSentinel
    /\ GoTo(c, "refused")
    /\ UNCHANGED <<live, is_generating, method, uses, _isInitialized, inTurn>>

\* (Mutant: the test is missing.)
Untested  == TRUE
NotInUse  == ~is_generating

AdmitGeneration(c) ==
    /\ At(c, "startGeneration", "checking") /\ NotInUse
    /\ GoTo(c, "claiming")
    /\ UNCHANGED <<bridge, method, uses, dart>>

\* GenerationGuard
ClaimGeneration(c) ==
    /\ At(c, "startGeneration", "claiming")
    /\ is_generating' = TRUE
    /\ GoTo(c, "claimed")
    /\ UNCHANGED <<live, stop_generation, method, uses, dart>>

\* From here to the end of the loop: ctx, and the draft context unless a grammar
\* or media turn it off, or the projector for media.
ResetStopFlag(c) ==
    /\ At(c, "startGeneration", "claimed")
    /\ stop_generation' = FALSE
    /\ \E extra \in SUBSET ({"draft", "mtmd"} \cap live) :
          /\ Cardinality(extra) < 2
          /\ Using(c, {"ctx", "model"} \cup extra)
    /\ GoTo(c, "prefilling")
    /\ UNCHANGED <<live, is_generating, method, dart>>

\* The prompt is decoded; the loop is next.
BeginReply(c) ==
    /\ At(c, "startGeneration", "prefilling")
    /\ GoTo(c, "decoding")
    /\ UNCHANGED <<bridge, method, uses, dart>>

\* The early return of the prefill loop, which is for text only: no sentinel.
FailPrefill(c) ==
    /\ PrefillFails
    /\ At(c, "startGeneration", "prefilling") /\ "mtmd" \notin uses[c]
    /\ is_generating' = FALSE
    /\ Using(c, {}) /\ GoTo(c, "over")
    /\ UNCHANGED <<live, stop_generation, method, dart>>

\* Stopped, or at an end by itself, or with media that cannot be tokenized: the
\* sentinel leaves before the guard falls.
EndReply(c) ==
    /\ \/ At(c, "startGeneration", "decoding")
       \/ At(c, "startGeneration", "prefilling") /\ "mtmd" \in uses[c]
    /\ SendSentinel
    /\ Using(c, {}) /\ GoTo(c, "ending")
    /\ UNCHANGED <<live, is_generating, method, _isInitialized, inTurn>>

\* ~GenerationGuard
GuardFalls(c) == is_generating' = FALSE

ReturnFromGeneration(c) ==
    /\ At(c, "startGeneration", "ending")
    /\ GuardFalls(c)
    /\ GoTo(c, "over")
    /\ UNCHANGED <<live, stop_generation, method, uses, dart>>

Generation(c) ==
    \/ StartGeneration(c) \/ RefuseGeneration(c) \/ AdmitGeneration(c)
    \/ ClaimGeneration(c) \/ ResetStopFlag(c) \/ BeginReply(c) \/ FailPrefill(c)
    \/ EndReply(c) \/ ReturnFromGeneration(c)

-----------------------------------------------------------------------------
\* The other methods.

\* getEmbedding
BeginEmbedding(c) ==
    /\ At(c, "getEmbedding", "queued")
    /\ IF {"ctx", "model"} \subseteq live
       THEN /\ Using(c, {"ctx", "model"}) /\ GoTo(c, "decoding")
            /\ UNCHANGED <<method, dart>>
       ELSE Answer(c, FALSE)
    /\ UNCHANGED bridge

EndEmbedding(c) ==
    /\ At(c, "getEmbedding", "decoding")
    /\ \E ok \in BOOLEAN : Answer(c, ok)
    /\ UNCHANGED bridge

\* resetContext: the model is looked at, then the flag, then ctx is freed.
BeginReset(c) ==
    /\ At(c, "resetContext", "queued")
    /\ IF "model" \in live THEN GoTo(c, "checking") /\ UNCHANGED <<method, uses, dart>>
                           ELSE Answer(c, FALSE)
    /\ UNCHANGED bridge

RefuseReset(c) ==
    /\ At(c, "resetContext", "checking") /\ is_generating
    /\ Answer(c, FALSE)
    /\ UNCHANGED bridge

AdmitReset(c) ==
    /\ At(c, "resetContext", "checking") /\ NotInUse
    /\ GoTo(c, "freeing")
    /\ UNCHANGED <<bridge, method, uses, dart>>

FreeContext(c) ==
    /\ At(c, "resetContext", "freeing")
    /\ live' = live \ {"ctx"}
    /\ Using(c, {"model"}) /\ GoTo(c, "rebuilding")
    /\ UNCHANGED <<is_generating, stop_generation, method, dart>>

RebuildContext(c) ==
    /\ At(c, "resetContext", "rebuilding")
    /\ \E ok \in BOOLEAN : /\ live' = IF ok THEN live \cup {"ctx"} ELSE live
                           /\ Answer(c, ok)
    /\ UNCHANGED <<is_generating, stop_generation>>

\* initVision and initDraftModel free what there was, then load; a projector is
\* loaded for the text model.
Loaded(c) == IF method[c] = "initVision" THEN "mtmd" ELSE "draft"
Needs(c)  == IF method[c] = "initVision" THEN {"model"} ELSE {}

BeginLoad(c) ==
    /\ method[c] \in {"initVision", "initDraftModel"} /\ pc[c] = "queued"
    /\ live' = live \ {Loaded(c)}
    /\ IF Needs(c) \subseteq live
       THEN Using(c, Needs(c)) /\ GoTo(c, "loading") /\ UNCHANGED <<method, dart>>
       ELSE Answer(c, FALSE)
    /\ UNCHANGED <<is_generating, stop_generation>>

EndLoad(c) ==
    /\ method[c] \in {"initVision", "initDraftModel"} /\ pc[c] = "loading"
    /\ \E ok \in BOOLEAN : /\ live' = IF ok THEN live \cup {Loaded(c)} ELSE live
                           /\ Answer(c, ok)
    /\ UNCHANGED <<is_generating, stop_generation>>

\* initModel's RAM check comes before unload.
RefuseModel(c) ==
    /\ At(c, "initModel", "queued")
    /\ Answer(c, FALSE)
    /\ UNCHANGED bridge

\* unload: stop the generation, wait for the flag to fall, free everything.
\* (Mutants: the generation is not told; the wait is missing.)
LeaveIt(c) == UNCHANGED stop_generation
TellIt(c)  == stop_generation' = TRUE

BeginUnload(c) ==
    /\ method[c] \in Unload /\ pc[c] = "queued"
    /\ TellIt(c)
    /\ GoTo(c, "waiting")
    /\ UNCHANGED <<live, is_generating, method, uses, dart>>

NoWait == TRUE
Waited == ~is_generating

EndWait(c) ==
    /\ method[c] \in Unload /\ pc[c] = "waiting" /\ Waited
    /\ GoTo(c, "freeing")
    /\ UNCHANGED <<bridge, method, uses, dart>>

FreeEverything(c) ==
    /\ method[c] \in Unload /\ pc[c] = "freeing"
    /\ live' = {}
    /\ IF method[c] = "dispose" THEN Answer(c, TRUE)
       ELSE GoTo(c, "loading") /\ UNCHANGED <<method, uses, dart>>
    /\ UNCHANGED <<is_generating, stop_generation>>

LoadModel(c) ==
    /\ At(c, "initModel", "loading")
    /\ \E ok \in BOOLEAN : /\ live' = IF ok THEN {"model", "ctx"} ELSE {}
                           /\ Answer(c, ok)
    /\ UNCHANGED <<is_generating, stop_generation>>

Other(c) ==
    \/ BeginEmbedding(c) \/ EndEmbedding(c)
    \/ BeginReset(c) \/ RefuseReset(c) \/ AdmitReset(c) \/ FreeContext(c)
    \/ RebuildContext(c)
    \/ BeginLoad(c) \/ EndLoad(c)
    \/ RefuseModel(c) \/ BeginUnload(c) \/ EndWait(c) \/ FreeEverything(c)
    \/ LoadModel(c)

-----------------------------------------------------------------------------
Block(c) == Generation(c) \/ Other(c)

Application ==
    \/ \E c \in Call, m \in Methods : Invoke(c, m)
    \/ \E c \in Call : CancelStream(c)
    \/ AbortGeneration

Next == Application \/ \E c \in Call : Block(c)

Spec == Init /\ [][Next]_vars

\* The global queue runs every block it was given, but no model has to end its
\* reply before it is stopped.
HasToGoOn(c) == At(c, "startGeneration", "decoding") => stop_generation
FairSpec     == Spec /\ \A c \in Call : WF_vars(HasToGoOn(c) /\ Block(c))
-----------------------------------------------------------------------------
\* "One context cannot decode twice at once" (LlamaBridge.mm:325).
Decodes(c) == pc[c] \in {"prefilling", "decoding"}
OneDecodeAtATime == \A c, d \in Call : Decodes(c) /\ Decodes(d) => c = d

\* "Never free a context mid-decode" (156), and unload waits (827-829): no block
\* works on an object that another one has freed, or finds it gone between its
\* check and its use.
UsesAreLive == \A c \in Call : uses[c] \subseteq live

\* The busy wait of unload ends: the generation it waits for sees the flag
\* (826-829), however long its reply would be.
UnloadReturns ==
    \A c \in Call : (method[c] \in Unload /\ pc[c] = "waiting") ~> (pc[c] = "answered")

\* The request of unload to stop (826) is not lost while it waits (827-829): a
\* generation takes requests back when it begins (347), and none begins meanwhile.
StopIsNotLost ==
    \A c \in Call : method[c] \in Unload /\ pc[c] = "waiting" => stop_generation

\* The refusal is for callers who do not serialise (332-337): one who waits for
\* the end of a stream before asking for the next is served.
ServedInTurn == \A c \in Call : pc[c] = "refused" => ~inTurn[c]
=============================================================================
