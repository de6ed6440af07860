---------------------------- MODULE AndroidPlugin ---------------------------
(***************************************************************************)
(* The Dart API (native_llama.dart) and the Android plugin                 *)
(* (NativeLlamaPlugin.kt) of one process, around an engine reduced to what *)
(* they see of it: a call that frees and rebuilds its state, and a         *)
(* generation that sends tokens and the sentinel.                          *)
(*                                                                         *)
(* Three kinds of threads run: the main thread, which handles the method   *)
(* and event channels and drains the Looper queue `posts`; one executor    *)
(* thread per plugin instance, which drains `queue`; and Dart.  Messages   *)
(* between Dart and the main thread arrive in order and are handled as     *)
(* they are sent.  What is sent on an event sink reaches the stream that   *)
(* was listening when the sink was made, or nobody (Flutter's contract,    *)
(* not modelled further).  A process may attach a plugin instance again    *)
(* after the last one was detached: the statics of the engine stay.        *)
(***************************************************************************)
EXTENDS Integers, Sequences

CONSTANTS MaxAttach,    \* plugin instances this process may create
          MaxStreams,   \* generateResponse streams that are listened to
          MaxCalls,     \* calls that are answered by the executor
          MaxTokens,    \* tokens in a reply: models stop by themselves
          Calls,        \* the methods the application uses
          Serialised    \* the application follows the discipline below

Methods  == {"initModel", "initDraftModel", "initVision", "getEmbedding",
             "resetContext", "dispose", "getCpuCores"}
Instance == 1..MaxAttach
Stream   == 1..MaxStreams
Call     == 1..MaxCalls

ASSUME PluginAssumption ==
    /\ MaxAttach \in Nat /\ MaxStreams \in Nat /\ MaxCalls \in Nat
    /\ MaxTokens \in Nat
    /\ Calls \subseteq Methods
    /\ Serialised \in BOOLEAN

VARIABLES
    isAvailable,      \* the native library could be loaded
    attached, attaches,   \* the registered instance (0: none), how many so far
    queue, running,   \* per instance: executor queue, job in a native function
    posts,            \* handler: runnables posted to the main thread
    eventSink,        \* per instance: the stream its sink belongs to (0: null)
    loaded, stop_generation,         \* engine: which of model and ctx is there
    _isInitialized,   \* Dart
    stream, received, \* per stream: its state, the events it was given
    listened,         \* streams are numbered as they are listened to: the last
    called, asked,    \* per call: its method while it waits, whether it was answered
    reloadDue,        \* a reset has failed, and no reload has succeeded since
    generated,        \* history: tokens the generation of each stream has sent
    silent,           \* history: streams whose generation sent no sentinel
    askedAfter,       \* history: the last stream listened to before each call
    ended,            \* history: Dart can know that the generations of the
                      \* streams up to this one will send it nothing more
    alone             \* history: the streams listened to when that was so of all
                      \* before them

dart    == <<_isInitialized, stream, received, listened, called, asked, reloadDue>>
known   == <<askedAfter, ended, alone>>
engine  == <<loaded, stop_generation>>
plugin  == <<isAvailable, attached, attaches, eventSink>>
workers == <<queue, running, posts, generated, silent>>
vars    == <<dart, known, engine, plugin, workers>>

Idle == [method |-> "none", id |-> 0]
Job  == [method : Methods, id : Call]
          \cup [method : {"startGeneration", "cleanUp"}, id : Stream]
          \cup [method : {"none", "detach"}, id : {0}]
Post == [kind : {"result"}, from : Instance, id : Call, ok : BOOLEAN, n : {0}]
          \cup [kind : {"token", "sentinel"}, from : Instance, id : Stream,
                 ok : {TRUE}, n : Nat]

TypeOK ==
    /\ isAvailable \in BOOLEAN /\ loaded \in {"nothing", "model", "context"}
    /\ stop_generation \in BOOLEAN /\ _isInitialized \in BOOLEAN
    /\ attaches \in 0..MaxAttach /\ attached \in {0, attaches}
    /\ queue \in [Instance -> Seq(Job)] /\ running \in [Instance -> Job]
    /\ posts \in Seq(Post)
    /\ eventSink \in [Instance -> {0} \cup Stream]
    /\ stream \in [Stream -> {"new", "created", "open", "closed", "cancelled", "lost"}]
    /\ received \in [Stream -> Seq(Stream \X Nat)]
    /\ listened \in 0..MaxStreams
    /\ called \in [Call -> Methods \cup {"none"}]
    /\ asked \in [Call -> {"no", "waiting", "answered", "lost"}]
    /\ reloadDue \in BOOLEAN
    /\ generated \in [Stream -> Nat] /\ silent \subseteq Stream
    /\ askedAfter \in [Call -> Nat] /\ ended \in Nat /\ alone \subseteq Stream

Init ==
    /\ isAvailable \in BOOLEAN
    /\ attached = 0 /\ attaches = 0
    /\ queue = [i \in Instance |-> <<>>] /\ running = [i \in Instance |-> Idle]
    /\ posts = <<>> /\ eventSink = [i \in Instance |-> 0]
    /\ loaded = "nothing" /\ stop_generation = FALSE /\ _isInitialized = FALSE
    /\ stream = [s \in Stream |-> "new"] /\ received = [s \in Stream |-> <<>>]
    /\ called = [c \in Call |-> "none"] /\ asked = [c \in Call |-> "no"]
    /\ listened = 0 /\ reloadDue = FALSE
    /\ generated = [s \in Stream |-> 0] /\ silent = {}
    /\ askedAfter = [c \in Call |-> 0] /\ ended = 0 /\ alone = {}

Execute(i, job) == queue' = [queue EXCEPT ![i] = Append(@, job)]
KnownEnded(s)   == ended' = IF s > ended THEN s ELSE ended

-----------------------------------------------------------------------------
\* The application, through the Dart API.

\* A new engine, and with it a new isolate, registers the plugin.  What an older
\* instance still posts does not reach it.
OnAttachedToEngine ==
    /\ attached = 0 /\ attaches < MaxAttach
    /\ attaches' = attaches + 1 /\ attached' = attaches + 1
    /\ _isInitialized' = FALSE /\ reloadDue' = FALSE
    /\ KnownEnded(listened)
    /\ UNCHANGED <<isAvailable, eventSink, engine, stream, received, listened,
                    called, asked, askedAfter, alone, workers>>

\* Teardown frees the engine: on the executor, behind whatever is queued there.
\* (Mutant: right here, on the main thread.)
DisposeOnMain(i)     == loaded' = "nothing" /\ UNCHANGED queue
DisposeOnExecutor(i) == /\ Execute(i, [method |-> "detach", id |-> 0])
                        /\ UNCHANGED loaded

\* The isolate is gone with its streams and futures; the executor is not.
OnDetachedFromEngine ==
    /\ attached # 0
    /\ attached' = 0
    /\ IF isAvailable THEN DisposeOnExecutor(attached)
                      ELSE UNCHANGED <<queue, loaded>>
    /\ stream' = [s \in Stream |-> CASE stream[s] = "open"    -> "lost"
                                     [] stream[s] = "created" -> "new"
                                     [] OTHER                 -> stream[s]]
    /\ asked' = [c \in Call |-> IF asked[c] = "waiting" THEN "lost" ELSE asked[c]]
    /\ UNCHANGED <<isAvailable, attaches, eventSink, stop_generation,
                    _isInitialized, received, listened, called, reloadDue, running,
                    posts, generated, silent, known>>

\* A disciplined application has one stream and one call at a time, listens to
\* a stream as it creates it (README.md:42, 57 and example) and reloads after a
\* failed reset (native_llama.dart:208-209).  What it cancels, it does not wait for.
Busy == \/ \E c \in Call : asked[c] = "waiting"
        \/ \E s \in Stream : stream[s] = "created"
CanCall      == Serialised => ~Busy
CanCreate(s) == Serialised => /\ ~Busy /\ ~reloadDue /\ s = listened + 1
                              /\ \A t \in Stream : stream[t] # "open"

\* generateResponse looks at _isInitialized when it creates the stream,
GenerateResponse(s) ==
    /\ attached # 0 /\ stream[s] = "new"
    /\ _isInitialized
    /\ CanCreate(s)
    /\ stream' = [stream EXCEPT ![s] = "created"]
    /\ UNCHANGED <<known, engine, plugin, _isInitialized, received, listened,
                    called, asked, reloadDue, workers>>

\* and no more when the stream gets its listener: onListen and then
\* startGeneration arrive on the main thread.
Listen(s) ==
    /\ attached # 0 /\ isAvailable
    /\ stream[s] = "created" /\ s = listened + 1
    /\ stream' = [stream EXCEPT ![s] = "open"] /\ listened' = s
    /\ alone' = IF ended = listened THEN alone \cup {s} ELSE alone
    /\ eventSink' = [eventSink EXCEPT ![attached] = s]
    /\ Execute(attached, [method |-> "startGeneration", id |-> s])
    /\ UNCHANGED <<isAvailable, attached, attaches, engine, _isInitialized,
                    received, called, asked, reloadDue, running, posts,
                    generated, silent, askedAfter, ended>>

\* controller.onCancel: abortGeneration() and subscription.cancel().
StoreAbort == stop_generation' = TRUE
OnCancel   == eventSink' = [eventSink EXCEPT ![attached] = 0]

CancelStream(s) ==
    /\ attached # 0 /\ stream[s] = "open"
    /\ stream' = [stream EXCEPT ![s] = "cancelled"]
    /\ StoreAbort /\ OnCancel
    /\ UNCHANGED <<isAvailable, attached, attaches, loaded, _isInitialized,
                    received, listened, called, asked, reloadDue, known, workers>>

AbortGeneration ==
    /\ attached # 0 /\ isAvailable
    /\ StoreAbort
    /\ UNCHANGED <<loaded, dart, known, plugin, workers>>

\* Without the native library a call fails at once.  (Mutant: and goes on.)
FailAndGoOn(c, m) == /\ asked' = [asked EXCEPT ![c] = "answered"]
                     /\ Execute(attached, [method |-> m, id |-> c])
Unavailable(c, m) == /\ asked' = [asked EXCEPT ![c] = "answered"]
                     /\ UNCHANGED queue

\* A method whose answer comes from the executor.
Invoke(c, m) ==
    /\ attached # 0 /\ asked[c] = "no" /\ \A d \in 1..(c - 1) : asked[d] # "no"
    /\ m \in {"getEmbedding", "resetContext"} => _isInitialized
    /\ CanCall
    /\ called' = [called EXCEPT ![c] = m]
    /\ askedAfter' = [askedAfter EXCEPT ![c] = listened]
    /\ IF isAvailable
       THEN /\ Execute(attached, [method |-> m, id |-> c])
            /\ asked' = [asked EXCEPT ![c] = "waiting"]
       ELSE Unavailable(c, m)
    /\ UNCHANGED <<plugin, engine, _isInitialized, stream, received, listened,
                    reloadDue, running, posts, generated, silent, ended, alone>>

-----------------------------------------------------------------------------
\* The executor thread of instance i.

Take(i) == /\ running[i] = Idle /\ queue[i] # <<>>
           /\ queue' = [queue EXCEPT ![i] = Tail(@)]
NextJob(i) == Head(queue[i])

Posted(i, kind, id, ok, n) ==
    [kind |-> kind, from |-> i, id |-> id, ok |-> ok, n |-> n]

\* startNativeGeneration forgets an earlier abort; without a context it returns
\* before that, and sends nothing.
StartGeneration(i) ==
    /\ Take(i) /\ NextJob(i).method = "startGeneration"
    /\ IF loaded = "context"
       THEN /\ running' = [running EXCEPT ![i] = NextJob(i)]
            /\ stop_generation' = FALSE
       ELSE UNCHANGED <<running, stop_generation>>
    /\ UNCHANGED <<loaded, dart, known, plugin, posts, generated, silent>>

Generating(i) == running[i].method = "startGeneration"

SendToken(i) ==
    LET s == running[i].id
    IN  /\ Generating(i) /\ ~stop_generation
        /\ generated[s] < MaxTokens
        /\ generated' = [generated EXCEPT ![s] = @ + 1]
        /\ posts' = Append(posts, Posted(i, "token", s, TRUE, generated[s] + 1))
    /\ UNCHANGED <<dart, known, engine, plugin, queue, running, silent>>

\* The end of the reply.  (Mutants: a stopped reply ends silently; the sentinel
\* overtakes the tokens.)
SilentIfStopped(i) ==
    IF stop_generation THEN posts
    ELSE Append(posts, Posted(i, "sentinel", running[i].id, TRUE, 0))
SentinelFirst(i) == <<Posted(i, "sentinel", running[i].id, TRUE, 0)>> \o posts
WithSentinel(i)  == Append(posts, Posted(i, "sentinel", running[i].id, TRUE, 0))

SendSentinel(i) ==
    /\ Generating(i)
    /\ posts' = WithSentinel(i)
    /\ running' = [running EXCEPT ![i] = [method |-> "cleanUp", id |-> @.id]]
    /\ UNCHANGED <<dart, known, engine, plugin, queue, generated, silent>>

\* The batch and the sampler are freed, and the thread sleeps for 50 ms.
CleanUp(i) ==
    /\ running[i].method = "cleanUp"
    /\ running' = [running EXCEPT ![i] = Idle]
    /\ UNCHANGED <<dart, known, engine, plugin, queue, posts, generated, silent>>

\* The early return of a failed prefill: no sentinel.
FailPrefill(i) ==
    /\ Generating(i) /\ generated[running[i].id] = 0
    /\ silent' = silent \cup {running[i].id}
    /\ running' = [running EXCEPT ![i] = Idle]
    /\ UNCHANGED <<dart, known, engine, plugin, queue, posts, generated>>

\* What a native function frees when it is entered.
LeftBy(m) ==
    CASE m \in {"initModel", "dispose", "detach"}        -> "nothing"
      [] m = "resetContext" /\ loaded # "nothing"        -> "model"
      [] OTHER                                           -> loaded

BeginCall(i) ==
    /\ Take(i) /\ NextJob(i).method # "startGeneration"
    /\ running' = [running EXCEPT ![i] = NextJob(i)]
    /\ loaded' = LeftBy(NextJob(i).method)
    /\ UNCHANGED <<stop_generation, dart, known, plugin, posts, generated, silent>>

\* initLlama's RAM check refuses the file before anything is freed.
RefuseLoad(i) ==
    /\ Take(i) /\ NextJob(i).method = "initModel"
    /\ posts' = Append(posts, Posted(i, "result", NextJob(i).id, FALSE, 0))
    /\ UNCHANGED <<running, engine, dart, known, plugin, generated, silent>>

\* The result of a native function and the state it leaves.
Outcomes(m) ==
    CASE m = "initModel" -> {<<TRUE, "context">>, <<FALSE, "nothing">>}
      [] m = "resetContext" /\ loaded # "nothing" ->
             {<<TRUE, "context">>, <<FALSE, "model">>}
      [] m \in {"dispose", "getCpuCores"} -> {<<TRUE, loaded>>}
      [] m = "initVision" /\ loaded # "nothing" -> BOOLEAN \X {loaded}
      [] m = "getEmbedding" /\ loaded = "context" -> BOOLEAN \X {loaded}
      [] m = "initDraftModel" -> BOOLEAN \X {loaded}
      [] OTHER -> {<<FALSE, loaded>>}

\* The result is posted to the main thread.  (Mutants: an embedding
\* that is null is not answered; the executor answers past the handler.)
PostedUnlessNull(i, ok) ==
    IF running[i].method = "getEmbedding" /\ ~ok THEN posts
    ELSE Append(posts, Posted(i, "result", running[i].id, ok, 0))
ResultFirst(i, ok)  == <<Posted(i, "result", running[i].id, ok, 0)>> \o posts
PostedResult(i, ok) == Append(posts, Posted(i, "result", running[i].id, ok, 0))

FinishCall(i) ==
    /\ running[i].method \in Methods
    /\ \E outcome \in Outcomes(running[i].method) :
          loaded' = outcome[2] /\ posts' = PostedResult(i, outcome[1])
    /\ running' = [running EXCEPT ![i] = Idle]
    /\ UNCHANGED <<stop_generation, dart, known, plugin, queue, generated, silent>>

FinishDetach(i) ==
    /\ running[i].method = "detach"
    /\ running' = [running EXCEPT ![i] = Idle]
    /\ UNCHANGED <<dart, known, engine, plugin, queue, posts, generated, silent>>

Executor(i) == \/ StartGeneration(i) \/ SendToken(i) \/ SendSentinel(i) \/ CleanUp(i)
               \/ FailPrefill(i) \/ BeginCall(i) \/ RefuseLoad(i) \/ FinishCall(i)
               \/ FinishDetach(i)

-----------------------------------------------------------------------------
\* The main thread runs the next posted runnable.  The Dart side is there to
\* see it as long as its engine is attached.

Runnable(kind) == posts # <<>> /\ Head(posts).kind = kind
HandlerTakes   == posts' = Tail(posts)
Heard          == Head(posts).from = attached
\* The stream whose sink the plugin holds, when Dart still listens to it.
SinkStream     == IF Heard THEN eventSink[attached] ELSE 0

AnswerCall ==
    LET c == Head(posts).id  ok == Head(posts).ok  m == called[c]
    IN  /\ Runnable("result") /\ HandlerTakes
        /\ IF Heard
           THEN /\ asked' = [asked EXCEPT ![c] = "answered"]
                /\ _isInitialized' = CASE m = "initModel" -> ok
                                      [] m = "dispose"   -> FALSE
                                      [] OTHER           -> _isInitialized
                /\ reloadDue' = CASE m = "resetContext" /\ ~ok -> TRUE
                                  [] m = "initModel" /\ ok     -> FALSE
                                  [] OTHER                     -> reloadDue
                /\ KnownEnded(askedAfter[c])
                /\ called' = [called EXCEPT ![c] = "none"]
           ELSE UNCHANGED <<asked, _isInitialized, reloadDue, ended, called>>
        /\ UNCHANGED <<engine, plugin, stream, received, listened, queue,
                        running, generated, silent, askedAfter, alone>>

DeliverToken ==
    /\ Runnable("token") /\ HandlerTakes
    /\ received' = IF SinkStream = 0 THEN received
                   ELSE [received EXCEPT ![SinkStream] =
                            Append(@, <<Head(posts).id, Head(posts).n>>)]
    /\ UNCHANGED <<engine, plugin, _isInitialized, stream, listened, called, asked,
                    reloadDue, queue, running, generated, silent, known>>

\* Dart closes its controller on the sentinel; a closed controller runs its
\* onCancel too.
DeliverSentinel ==
    /\ Runnable("sentinel") /\ HandlerTakes
    /\ IF SinkStream = 0
       THEN UNCHANGED <<stream, eventSink, stop_generation, ended>>
       ELSE /\ stream' = [stream EXCEPT ![SinkStream] = "closed"]
            /\ StoreAbort /\ OnCancel
            /\ IF SinkStream \in alone THEN KnownEnded(SinkStream)
                                       ELSE UNCHANGED ended
    /\ UNCHANGED <<loaded, isAvailable, attached, attaches, _isInitialized,
                    received, listened, called, asked, reloadDue, queue, running,
                    generated, silent, askedAfter, alone>>

Handler == AnswerCall \/ DeliverToken \/ DeliverSentinel

-----------------------------------------------------------------------------
Application ==
    \/ OnAttachedToEngine \/ OnDetachedFromEngine
    \/ \E s \in Stream : GenerateResponse(s) \/ Listen(s) \/ CancelStream(s)
    \/ AbortGeneration
    \/ \E c \in Call, m \in Calls : Invoke(c, m)

Next == Application \/ Handler \/ \E i \in Instance : Executor(i)

Spec == Init /\ [][Next]_vars

\* The Looper keeps dispatching, and an executor thread keeps running: it is
\* never shut down, not even by a detach.
FairSpec == Spec /\ WF_vars(Handler) /\ \A i \in Instance : WF_vars(Executor(i))
-----------------------------------------------------------------------------
\* "Generates response and streams tokens back" (native_llama.dart:81), as far as
\* the code keeps it in every application: a stream that is listened to when Dart
\* can know that no earlier generation will send anything more is given tokens of
\* its own generation, from the first on, in order, none lost or repeated,
\* although the plugin posts to whatever sink is there when the runnable runs
\* (kt:256-262).  Dart can know it of a stream that was closed after others of
\* which it knew it, and of all that were listened to before a call it has the
\* answer of: the executor and the main thread work in order.
OwnReply ==
    \A s \in alone : \A k \in 1..Len(received[s]) : received[s][k] = <<s, k>>

\* The same without the condition, as native_llama.dart:81 has it: whatever was
\* cancelled before, a stream is given no token of another one's reply.
EveryReplyIsOwn ==
    \A s \in Stream : \A k \in 1..Len(received[s]) : received[s][k][1] = s

Pending(s) ==
    \E i \in Instance :
        \/ running[i] = [method |-> "startGeneration", id |-> s]
        \/ \E k \in 1..Len(queue[i]) :
              queue[i][k] = [method |-> "startGeneration", id |-> s]

\* Such a stream, when it is closed, was closed by its own sentinel: its
\* generation has sent everything, and every token it sent has been received.
ClosedIsComplete ==
    \A s \in alone : stream[s] = "closed" =>
        ~Pending(s) /\ Len(received[s]) = generated[s]

\* Without the condition: whatever was cancelled before, no stream is closed before
\* its generation has ended.
EveryCloseIsOwn == \A s \in Stream : stream[s] = "closed" => ~Pending(s)

\* What ends a stream is under way as long as it is open: its generation is with
\* an executor that will find a context, or its sentinel is posted.  Only a failed
\* prefill ends without (native-lib.cpp:815-821).
SentinelPosted(s) ==
    \E k \in 1..Len(posts) :
        posts[k].kind = "sentinel" /\ posts[k].from = attached /\ posts[k].id = s
OpenIsServed ==
    \A s \in Stream : stream[s] = "open" =>
        s \in silent \/ Pending(s) \/ SentinelPosted(s)

\* Where call c is on instance i: queued, on the thread, or as a posted result.
InQueue(i, c)  == {k \in 1..Len(queue[i]) :
                      queue[i][k].method \in Methods /\ queue[i][k].id = c}
OnThread(i, c) == {k \in {0} : running[i].method \in Methods /\ running[i].id = c}
InPosts(i, c)  == {k \in 1..Len(posts) :
                      posts[k].kind = "result" /\ posts[k].from = i /\ posts[k].id = c}
Places(i, c)   == ({"queue"} \X InQueue(i, c)) \cup ({"thread"} \X OnThread(i, c))
                     \cup ({"posts"} \X InPosts(i, c))

\* A Result may be used once (a second reply is an IllegalStateException) and
\* must not be lost: a call that waits is in exactly one place, and a call that
\* was answered (kt:95-103), or was never made, is in none.
AnsweredOnce ==
    attached # 0 => \A c \in Call :
        IF asked[c] = "waiting"
        THEN \E p \in Places(attached, c) : Places(attached, c) = {p}
        ELSE Places(attached, c) = {}

\* "free-after-use, never during" (kt:241-243): no thread frees the model or
\* its context while a generation or an embedding runs on it.
UsesContext(i) == running[i].method \in {"startGeneration", "getEmbedding"}
FreeAfterUse ==
    [][loaded = "context" /\ loaded' # "context" =>
           \A i \in Instance : ~UsesContext(i)]_vars

\* "the only thing that closes the Dart stream": every stream that is listened
\* to ends, by its sentinel unless it is cancelled or loses its engine; only a
\* failed prefill leaves one open, until the application cancels it.
EveryStreamEnds ==
    \A s \in Stream : (stream[s] = "open") ~> (stream[s] # "open" \/ s \in silent)

\* Every future of the API completes, on an unsupported device and when a native
\* call fails too (kt:92-103, 146-148), unless its engine is detached.
EveryCallAnswered ==
    \A c \in Call : (asked[c] = "waiting") ~> (asked[c] # "waiting")
=============================================================================
