------------------------ MODULE AndroidPlugin_proofs ------------------------
(***************************************************************************)
(* AndroidPlugin for every number of plugin instances, streams, calls and  *)
(* tokens.  In every application: a call is answered once; a stream that   *)
(* is listened to when Dart can know that no earlier generation will send  *)
(* anything more is given its own reply, and all of it when it closes; one *)
(* instance frees the context only behind the job that uses it.  In a      *)
(* serialised one: no stream stays open that nothing will close.           *)
(*                                                                         *)
(* The plugin hands what a generation posts to whatever sink it finds.     *)
(* When this is the right one rests on an order that is built in several   *)
(* places: jobs go from the executor's queue to its thread to the Looper   *)
(* queue, and a generation behind a call or behind a sentinel in them      *)
(* belongs to a later stream (OrderInv).  So an answer tells that the      *)
(* streams from before the call are over, and so does a sentinel when its  *)
(* stream is the only one in hand (KnownInv); and the tokens that such a   *)
(* stream has not received yet are all in posts (TokenInv).  Instances     *)
(* that are detached keep running and posting.  That an open stream is     *)
(* served rests besides on what Dart knows of the engine: what it believes *)
(* is so unless a rebuild is in hand (ServedInv).                          *)
(***************************************************************************)
EXTENDS AndroidPlugin, SequenceTheorems, TLAPS

\* Where the generation of stream s can be on instance i: waiting for the executor,
\* running on it, or in what it posted for the sink.
IsGeneration(job) == job.method = "startGeneration"

CarriedByQueue(i, s) == \E k \in 1..Len(queue[i]) :
                            IsGeneration(queue[i][k]) /\ queue[i][k].id = s
CarriedByThread(i, s) == IsGeneration(running[i]) /\ running[i].id = s
OfReply(i, k) == posts[k].from = i /\ posts[k].kind # "result"
CarriedByPost(i, s) == \E k \in 1..Len(posts) : OfReply(i, k) /\ posts[k].id = s
CarriedByWorker(i, s) == CarriedByQueue(i, s) \/ CarriedByThread(i, s)
Carries(i, s) == CarriedByWorker(i, s) \/ CarriedByPost(i, s)

\* Instances that were never attached have nothing to do and have posted nothing.
Unused(i) == /\ queue[i] = <<>> /\ running[i] = Idle
             /\ \A k \in 1..Len(posts) : posts[k].from # i
UnusedInv == \A i \in Instance : i > attaches => Unused(i)

\* They have no sink, and streams nobody has listened to yet have no tokens.
FreshInv ==
    /\ \A i \in Instance : i > attaches => eventSink[i] = 0
    /\ \A s \in Stream : s > listened =>
          received[s] = <<>> /\ generated[s] = 0 /\ stream[s] \in {"new", "created"}

\* The sink leads to the last stream listened to, when that is still open.
SinkInv ==
    attached # 0 /\ eventSink[attached] # 0 =>
        eventSink[attached] = listened /\ stream[listened] = "open"

\* Only streams that were listened to are carried, and by an instance that is not
\* attached only those that nobody listens to any more.
CarrierInv ==
    \A i \in Instance, s \in Stream : Carries(i, s) =>
        s <= listened /\ (i # attached => stream[s] # "open")

\* What Dart can know to be over is over: the attached instance has nothing of it
\* in hand.  A stream that is alone was the next one after those.
KnownInv ==
    /\ ended <= listened
    /\ \A c \in Call : askedAfter[c] <= listened
    /\ \A s \in alone : s <= listened /\ s <= ended + 1
    /\ attached # 0 => \A s \in Stream : Carries(attached, s) => s > ended

\* The order of what one instance has in hand: generations behind a generation,
\* behind its sentinel, or behind a call belong to streams listened to later.
JobFloor(job) == IF IsGeneration(job) THEN job.id
                 ELSE IF job.method \in Methods THEN askedAfter[job.id] ELSE 0
PostFloor(p)  == IF p.kind = "sentinel" THEN p.id
                 ELSE IF p.kind = "result" THEN askedAfter[p.id] ELSE 0
QueueOrder(a) ==
    \A j, k \in 1..Len(queue[a]) :
        j < k /\ IsGeneration(queue[a][k]) => queue[a][k].id > JobFloor(queue[a][j])
ThreadOrder(a) ==
    \A k \in 1..Len(queue[a]) :
        IsGeneration(queue[a][k]) => queue[a][k].id > JobFloor(running[a])
PostOrder(a) ==
    \A k \in 1..Len(posts) : posts[k].from = a =>
        /\ \A j \in 1..Len(posts) :
              k < j /\ OfReply(a, j) => posts[j].id > PostFloor(posts[k])
        /\ \A s \in Stream : CarriedByWorker(a, s) => s > PostFloor(posts[k])
Ordered(a) == QueueOrder(a) /\ ThreadOrder(a) /\ PostOrder(a)
OrderInv == attached # 0 => Ordered(attached)

\* The tokens between the generation and its stream: what was received is the
\* beginning of what was generated, and the rest is in posts once each, in order.
Token(k, a, s) == posts[k].kind = "token" /\ posts[k].from = a /\ posts[k].id = s
InTransit(a, s) ==
    /\ Len(received[s]) <= generated[s]
    /\ \A k \in 1..Len(posts) : Token(k, a, s) =>
          posts[k].n \in (Len(received[s]) + 1)..generated[s]
    /\ \A j, k \in 1..Len(posts) : Token(j, a, s) /\ Token(k, a, s) /\ j < k =>
          posts[j].n < posts[k].n
    /\ \A n \in (Len(received[s]) + 1)..generated[s] :
          \E k \in 1..Len(posts) : Token(k, a, s) /\ posts[k].n = n
TokenInv ==
    attached # 0 /\ eventSink[attached] \in alone =>
        InTransit(attached, eventSink[attached])

-----------------------------------------------------------------------------
\* The jobs and the runnables that TypeOK speaks of.
LEMMA JobFacts ==
    ASSUME NEW job \in Job
    PROVE  /\ job.id \in Nat
           /\ IsGeneration(job) => job.id \in Stream
           /\ job.method \in Methods => job.id \in Call
           /\ IsGeneration(job) => job.method \notin Methods
BY PluginAssumption DEF Job, IsGeneration, Methods, Stream, Call

LEMMA PostFacts ==
    ASSUME NEW p \in Post
    PROVE  /\ p.id \in Nat /\ p.n \in Nat /\ p.ok \in BOOLEAN /\ p.from \in Instance
           /\ p.kind = "result" => p.id \in Call
           /\ p.kind # "result" => p.id \in Stream /\ p.kind \in {"token", "sentinel"}
<1>1. CASE p \in [kind : {"result"}, from : Instance, id : Call, ok : BOOLEAN, n : {0}]
    BY <1>1, PluginAssumption DEF Call
<1>2. CASE p \in [kind : {"token", "sentinel"}, from : Instance, id : Stream,
                  ok : {TRUE}, n : Nat]
    <2>1. p.ok \in {TRUE}
        BY <1>2
    <2>2. p.ok \in BOOLEAN
        BY <2>1, Zenon
    <2>3. Stream \subseteq Nat
        BY PluginAssumption DEF Stream
    <2> QED
        BY <1>2, <2>2, <2>3
<1> QED
    BY <1>1, <1>2 DEF Post

LEMMA JobsMade ==
    /\ Idle \in Job /\ [method |-> "detach", id |-> 0] \in Job
    /\ \A s \in Stream : /\ [method |-> "startGeneration", id |-> s] \in Job
                         /\ [method |-> "cleanUp", id |-> s] \in Job
    /\ \A m \in Methods, c \in Call : [method |-> m, id |-> c] \in Job
BY DEF Idle, Job

LEMMA PostsMade ==
    ASSUME NEW i \in Instance
    PROVE  /\ \A c \in Call, ok \in BOOLEAN : Posted(i, "result", c, ok, 0) \in Post
           /\ \A s \in Stream, n \in Nat : Posted(i, "token", s, TRUE, n) \in Post
           /\ \A s \in Stream : Posted(i, "sentinel", s, TRUE, 0) \in Post
BY DEF Posted, Post

LEMMA JobTypes ==
    ASSUME TypeOK, NEW i \in Instance
    PROVE  /\ queue[i] \in Seq(Job) /\ running[i] \in Job
           /\ \A k \in 1..Len(queue[i]) : queue[i][k] \in Job
           /\ queue[i] # <<>> => NextJob(i) \in Job /\ Tail(queue[i]) \in Seq(Job)
           /\ Idle \in Job /\ \A job \in Job : Append(queue[i], job) \in Seq(Job)
<1>1. queue[i] \in Seq(Job) /\ running[i] \in Job
    BY DEF TypeOK
<1> HIDE DEF Job
<1> QED
    BY <1>1, JobsMade DEF NextJob

LEMMA PostTypes ==
    ASSUME TypeOK
    PROVE  /\ posts # <<>> => Head(posts) \in Post /\ Tail(posts) \in Seq(Post)
           /\ \A k \in 1..Len(posts) : posts[k] \in Post
           /\ \A p \in Post : Append(posts, p) \in Seq(Post)
<1> HIDE DEF Post
<1> QED
    BY DEF TypeOK

\* A native function returns success or failure and leaves one of three states.
LEMMA OutcomeTypes ==
    ASSUME TypeOK, NEW m, NEW outcome \in Outcomes(m)
    PROVE  outcome[1] \in BOOLEAN /\ outcome[2] \in {"nothing", "model", "context"}
<1>1. loaded \in {"nothing", "model", "context"}
    BY DEF TypeOK
<1>2. \/ outcome \in {<<TRUE, "context">>, <<FALSE, "nothing">>}
      \/ outcome \in {<<TRUE, "context">>, <<FALSE, "model">>}
      \/ outcome \in {<<TRUE, loaded>>, <<FALSE, loaded>>}
      \/ outcome \in BOOLEAN \X {loaded}
    BY Zenon DEF Outcomes
<1>3. ASSUME outcome \in BOOLEAN \X {loaded}
      PROVE  outcome[1] \in BOOLEAN /\ outcome[2] = loaded
    BY <1>3
<1>4. \A a, b : outcome = <<a, b>> => outcome[1] = a /\ outcome[2] = b
    OBVIOUS
<1> QED
    BY <1>1, <1>2, <1>3, <1>4

\* The attached instance is the newest one.
LEMMA Attached ==
    ASSUME TypeOK
    PROVE  /\ attached # 0 => attached \in Instance /\ attached = attaches
           /\ attaches \in Nat /\ Instance \subseteq Nat
           /\ 0 \notin Stream /\ Stream \subseteq Nat /\ 0 \notin Instance
           /\ listened \in Nat /\ ended \in Nat /\ \A c \in Call : askedAfter[c] \in Nat
BY PluginAssumption DEF TypeOK, Instance, Stream

LEMMA Queued ==
    ASSUME TypeOK, NEW i \in Instance, NEW job \in Job, Execute(i, job)
    PROVE  queue' \in [Instance -> Seq(Job)]
<1>1. Append(queue[i], job) \in Seq(Job)
    BY JobTypes
<1> HIDE DEF Job
<1> QED
    BY <1>1 DEF Execute, TypeOK

\* Every step keeps the types.
LEMMA TypeNext ==
    ASSUME TypeOK, [Next]_vars
    PROVE  TypeOK'
<1> USE DEF dart, known, engine, plugin, workers
<1> HIDE DEF Job, Post
<1>1. ASSUME OnAttachedToEngine PROVE TypeOK'
    <2>1. attaches + 1 \in 0..MaxAttach /\ listened \in Nat /\ ended \in Nat
        BY <1>1, PluginAssumption DEF TypeOK, OnAttachedToEngine
    <2> QED
        BY <1>1, <2>1 DEF TypeOK, OnAttachedToEngine, KnownEnded
<1>2. ASSUME OnDetachedFromEngine PROVE TypeOK'
    <2>1. attached \in Instance
        BY <1>2, Attached DEF OnDetachedFromEngine
    <2>2. queue' \in [Instance -> Seq(Job)] /\ loaded' = loaded
        <3>1. CASE isAvailable
            BY <1>2, <2>1, <3>1, JobsMade, Queued DEF OnDetachedFromEngine, DisposeOnExecutor
        <3>2. CASE ~isAvailable
            BY <1>2, <3>2 DEF OnDetachedFromEngine, TypeOK
        <3> QED
            BY <3>1, <3>2
    <2>3. stream' \in [Stream -> {"new", "created", "open", "closed", "cancelled", "lost"}]
          /\ asked' \in [Call -> {"no", "waiting", "answered", "lost"}]
        BY <1>2 DEF OnDetachedFromEngine, TypeOK
    <2> QED
        BY <1>2, <2>2, <2>3 DEF OnDetachedFromEngine, TypeOK
<1>3. ASSUME NEW s \in Stream, GenerateResponse(s) PROVE TypeOK'
    BY <1>3 DEF GenerateResponse, TypeOK
<1>a. ASSUME NEW s \in Stream, Listen(s) PROVE TypeOK'
    <2>1. attached \in Instance /\ s \in 0..MaxStreams
        BY <1>a, Attached, PluginAssumption DEF Listen, Stream
    <2>2. queue' \in [Instance -> Seq(Job)]
        BY <1>a, <2>1, JobsMade, Queued DEF Listen
    <2> QED
        BY <1>a, <2>1, <2>2 DEF Listen, TypeOK
<1>4. ASSUME NEW s \in Stream, CancelStream(s) PROVE TypeOK'
    BY <1>4 DEF CancelStream, TypeOK, StoreAbort, OnCancel
<1>5. ASSUME AbortGeneration PROVE TypeOK'
    BY <1>5 DEF AbortGeneration, TypeOK, StoreAbort
<1>6. ASSUME NEW c \in Call, NEW m \in Calls, Invoke(c, m) PROVE TypeOK'
    <2>1. attached \in Instance /\ m \in Methods /\ listened \in Nat
        BY <1>6, Attached, PluginAssumption DEF Invoke
    <2>2. queue' \in [Instance -> Seq(Job)]
          /\ asked' \in [Call -> {"no", "waiting", "answered", "lost"}]
        <3>1. CASE isAvailable
            BY <1>6, <2>1, <3>1, JobsMade, Queued DEF Invoke, TypeOK
        <3>2. CASE ~isAvailable
            BY <1>6, <3>2 DEF Invoke, Unavailable, TypeOK
        <3> QED
            BY <3>1, <3>2
    <2>3. called' \in [Call -> Methods \cup {"none"}] /\ askedAfter' \in [Call -> Nat]
        BY <1>6, <2>1 DEF Invoke, TypeOK
    <2> QED
        BY <1>6, <2>2, <2>3 DEF Invoke, TypeOK
<1>7. ASSUME NEW i \in Instance, Executor(i) PROVE TypeOK'
    <2>0. Generating(i) => running[i].id \in Stream
        BY JobTypes, JobFacts DEF Generating, IsGeneration
    <2>1. ASSUME StartGeneration(i) PROVE TypeOK'
        BY <2>1, JobTypes DEF StartGeneration, Take, TypeOK
    <2>2. ASSUME SendToken(i) PROVE TypeOK'
        <3>1. /\ running[i].id \in Stream /\ generated[running[i].id] \in Nat
              /\ generated[running[i].id] + 1 \in Nat
            BY <2>0, <2>2 DEF SendToken, TypeOK
        <3>2. posts' \in Seq(Post)
            BY <2>2, <3>1, PostsMade, PostTypes DEF SendToken
        <3> QED
            BY <2>2, <3>1, <3>2 DEF SendToken, TypeOK
    <2>3. ASSUME SendSentinel(i) PROVE TypeOK'
        <3>1. posts' \in Seq(Post)
            BY <2>0, <2>3, PostTypes, PostsMade DEF SendSentinel, WithSentinel
        <3>2. running' \in [Instance -> Job]
            BY <2>0, <2>3, JobsMade DEF SendSentinel, TypeOK
        <3> QED
            BY <2>3, <3>1, <3>2 DEF SendSentinel, TypeOK
    <2>4. ASSUME FailPrefill(i) PROVE TypeOK'
        BY <2>0, <2>4, JobTypes DEF FailPrefill, TypeOK
    <2>5. ASSUME BeginCall(i) PROVE TypeOK'
        <3>1. LeftBy(NextJob(i).method) \in {"nothing", "model", "context"}
            BY DEF LeftBy, TypeOK
        <3> QED
            BY <2>5, <3>1, JobTypes DEF BeginCall, Take, TypeOK
    <2>6. ASSUME RefuseLoad(i) PROVE TypeOK'
        <3>1. NextJob(i).id \in Call
            BY <2>6, JobTypes, JobFacts DEF RefuseLoad, Take, Methods
        <3>2. posts' \in Seq(Post)
            BY <2>6, <3>1, PostTypes, PostsMade DEF RefuseLoad
        <3> QED
            BY <2>6, <3>2, JobTypes DEF RefuseLoad, Take, TypeOK
    <2>7. ASSUME FinishCall(i) PROVE TypeOK'
        <3>1. running[i].id \in Call
            BY <2>7, JobTypes, JobFacts DEF FinishCall
        <3>2. PICK outcome \in Outcomes(running[i].method) :
                loaded' = outcome[2] /\ posts' = PostedResult(i, outcome[1])
            BY <2>7 DEF FinishCall
        <3>3. outcome[1] \in BOOLEAN /\ outcome[2] \in {"nothing", "model", "context"}
            BY <3>2, OutcomeTypes
        <3>4. posts' \in Seq(Post)
            BY <3>1, <3>2, <3>3, PostTypes, PostsMade DEF PostedResult
        <3> QED
            BY <2>7, <3>2, <3>3, <3>4, JobTypes DEF FinishCall, TypeOK
    <2>8. ASSUME FinishDetach(i) \/ CleanUp(i) PROVE TypeOK'
        BY <2>8, JobTypes DEF FinishDetach, CleanUp, TypeOK
    <2> QED
        BY <1>7, <2>1, <2>2, <2>3, <2>4, <2>5, <2>6, <2>7, <2>8 DEF Executor
<1>8. ASSUME Handler PROVE TypeOK'
    <2>1. posts # <<>> /\ posts' \in Seq(Post) /\ Head(posts) \in Post
        BY <1>8, PostTypes
        DEF Handler, AnswerCall, DeliverToken, DeliverSentinel, Runnable, HandlerTakes
    <2>2. ASSUME AnswerCall PROVE TypeOK'
        <3>0. Head(posts).id \in Call /\ Head(posts).ok \in BOOLEAN
            BY <2>1, <2>2, PostFacts DEF AnswerCall, Runnable
        <3>1. asked' \in [Call -> {"no", "waiting", "answered", "lost"}]
              /\ called' \in [Call -> Methods \cup {"none"}]
            BY <2>2, <3>0 DEF AnswerCall, TypeOK
        <3>2. _isInitialized' \in BOOLEAN /\ reloadDue' \in BOOLEAN
            BY <2>2, <3>0 DEF AnswerCall, TypeOK
        <3>3. ended' \in Nat
            BY <2>2, <3>0, Attached DEF AnswerCall, KnownEnded
        <3> QED
            BY <2>1, <2>2, <3>1, <3>2, <3>3 DEF AnswerCall, TypeOK
    <2>3. ASSUME DeliverToken PROVE TypeOK'
        <3>1. <<Head(posts).id, Head(posts).n>> \in Stream \X Nat
            BY <2>1, <2>3, PostFacts DEF DeliverToken, Runnable
        <3>2. received' \in [Stream -> Seq(Stream \X Nat)]
            <4> DEFINE e == <<Head(posts).id, Head(posts).n>>
            <4>1. \A t \in Stream : Append(received[t], e) \in Seq(Stream \X Nat)
                BY <3>1 DEF TypeOK
            <4>2. CASE SinkStream = 0
                BY <2>3, <4>2 DEF DeliverToken, TypeOK
            <4>3. CASE SinkStream # 0
                BY <2>3, <4>1, <4>3 DEF DeliverToken, TypeOK
            <4> QED
                BY <4>2, <4>3
        <3> QED
            BY <2>1, <2>3, <3>2 DEF DeliverToken, TypeOK
    <2>4. ASSUME DeliverSentinel PROVE TypeOK'
        <3>1. ended' \in Nat
            BY <2>4, Attached DEF DeliverSentinel, KnownEnded, TypeOK
        <3> QED
            BY <2>1, <2>4, <3>1 DEF DeliverSentinel, TypeOK, StoreAbort, OnCancel
    <2> QED
        BY <1>8, <2>2, <2>3, <2>4 DEF Handler
<1>9. ASSUME UNCHANGED vars PROVE TypeOK'
    BY <1>9 DEF vars, TypeOK
<1> QED
    BY <1>1, <1>2, <1>3, <1>a, <1>4, <1>5, <1>6, <1>7, <1>8, <1>9 DEF Next, Application

-----------------------------------------------------------------------------
\* Taking from a queue and adding to it.
LEMMA SeqTail ==
    ASSUME NEW S, NEW q \in Seq(S), q # <<>>
    PROVE  /\ Head(q) = q[1] /\ 1 \in 1..Len(q) /\ Tail(q) \in Seq(S)
           /\ Len(Tail(q)) = Len(q) - 1
           /\ \A k \in 1..Len(Tail(q)) : Tail(q)[k] = q[k + 1] /\ k + 1 \in 1..Len(q)
OBVIOUS

LEMMA JobTail ==
    ASSUME TypeOK, NEW i \in Instance, queue[i] # <<>>
    PROVE  /\ Head(queue[i]) = queue[i][1] /\ 1 \in 1..Len(queue[i])
           /\ Len(Tail(queue[i])) = Len(queue[i]) - 1
           /\ \A k \in 1..Len(Tail(queue[i])) :
                 Tail(queue[i])[k] = queue[i][k + 1] /\ k + 1 \in 1..Len(queue[i])
<1>1. queue[i] \in Seq(Job)
    BY JobTypes
<1> QED
    BY <1>1, SeqTail

LEMMA SeqAppend ==
    ASSUME NEW S, NEW q \in Seq(S), NEW e \in S
    PROVE  /\ Append(q, e) \in Seq(S) /\ Len(Append(q, e)) = Len(q) + 1
           /\ Append(q, e)[Len(q) + 1] = e
           /\ \A k \in 1..Len(q) : Append(q, e)[k] = q[k]
           /\ \A k \in 1..Len(Append(q, e)) : k \in 1..Len(q) \/ k = Len(q) + 1
OBVIOUS

\* A step of an executor thread does one of seven things to its queue, its job
\* and the handler's queue.
TakesJob(i) == /\ running[i] = Idle /\ queue[i] # <<>>
               /\ queue' = [queue EXCEPT ![i] = Tail(@)]
KeepsQueue  == queue' = queue
Runs(i, job) == running' = [running EXCEPT ![i] = job]
CleaningUp(i) == [method |-> "cleanUp", id |-> running[i].id]
Posts(p)    == p \in Post /\ posts' = Append(posts, p)

Starts(i) == TakesJob(i) /\ Runs(i, Head(queue[i])) /\ UNCHANGED <<posts, generated>>
Drops(i)  == /\ TakesJob(i) /\ IsGeneration(Head(queue[i]))
             /\ UNCHANGED <<running, posts, generated>>
Refuses(i) ==
    /\ TakesJob(i) /\ ~IsGeneration(Head(queue[i])) /\ Head(queue[i]).method \in Methods
    /\ Posts(Posted(i, "result", Head(queue[i]).id, FALSE, 0))
    /\ UNCHANGED <<running, generated>>
Streams(i) ==
    LET s == running[i].id
    IN  /\ IsGeneration(running[i]) /\ s \in Stream
        /\ Posts(Posted(i, "token", s, TRUE, generated[s] + 1))
        /\ generated' = [generated EXCEPT ![s] = @ + 1]
        /\ KeepsQueue /\ UNCHANGED running
Ends(i) ==
    /\ IsGeneration(running[i]) /\ running[i].id \in Stream
    /\ Posts(Posted(i, "sentinel", running[i].id, TRUE, 0))
    /\ KeepsQueue /\ Runs(i, CleaningUp(i)) /\ UNCHANGED generated
Leaves(i) ==
    /\ running[i] # Idle /\ running[i].method \notin Methods
    /\ KeepsQueue /\ Runs(i, Idle) /\ UNCHANGED <<posts, generated>>
Answers(i) ==
    /\ running[i] # Idle /\ ~IsGeneration(running[i]) /\ running[i].method \in Methods
    /\ \E ok \in BOOLEAN : Posts(Posted(i, "result", running[i].id, ok, 0))
    /\ KeepsQueue /\ Runs(i, Idle) /\ UNCHANGED generated

Moves(i) == \/ Starts(i) \/ Drops(i) \/ Refuses(i) \/ Streams(i) \/ Ends(i)
            \/ Leaves(i) \/ Answers(i)

LEMMA ExecutorMoves ==
    ASSUME TypeOK, NEW i \in Instance, Executor(i)
    PROVE  Moves(i) /\ UNCHANGED <<dart, known, plugin>>
<1> USE DEF engine, IsGeneration, Take, TakesJob, KeepsQueue, Runs, NextJob, Moves
<1> HIDE DEF Job, Post
<1>0. UNCHANGED <<dart, known, plugin>>
    BY DEF Executor, StartGeneration, SendToken, SendSentinel, CleanUp, FailPrefill,
           BeginCall, RefuseLoad, FinishCall, FinishDetach
<1>1. /\ Generating(i) => running[i].id \in Stream
      /\ running[i].method \in Methods => running[i].id \in Call
    BY JobTypes, JobFacts DEF Generating
<1>2. CASE StartGeneration(i)
    BY <1>2 DEF StartGeneration, Starts, Drops
<1>3. CASE SendToken(i)
    <2>1. running[i].id \in Stream /\ generated[running[i].id] + 1 \in Nat
        BY <1>1, <1>3 DEF SendToken, TypeOK
    <2>2. Posted(i, "token", running[i].id, TRUE, generated[running[i].id] + 1) \in Post
        BY <2>1, PostsMade
    <2> QED
        BY <1>3, <2>1, <2>2 DEF SendToken, Generating, Streams, Posts
<1>4. CASE SendSentinel(i)
    <2>1. running[i].id \in Stream
        BY <1>1, <1>4 DEF SendSentinel
    <2>2. Posted(i, "sentinel", running[i].id, TRUE, 0) \in Post
        BY <2>1, PostsMade
    <2> QED
        BY <1>4, <2>1, <2>2
        DEF SendSentinel, WithSentinel, Generating, Ends, Posts, CleaningUp, TypeOK
<1>5. CASE FailPrefill(i)
    BY <1>5 DEF FailPrefill, Generating, Leaves, Idle, Methods
<1>6. CASE BeginCall(i)
    BY <1>6 DEF BeginCall, Starts
<1>7. CASE RefuseLoad(i)
    <2>1. NextJob(i).id \in Call
        BY <1>7, JobTypes, JobFacts DEF RefuseLoad, Methods
    <2>2. Posted(i, "result", NextJob(i).id, FALSE, 0) \in Post
        BY <2>1, PostsMade
    <2> QED
        BY <1>7, <2>2 DEF RefuseLoad, Refuses, Posts, Methods
<1>8. CASE FinishCall(i)
    <2>1. PICK outcome \in Outcomes(running[i].method) :
             posts' = PostedResult(i, outcome[1])
        BY <1>8 DEF FinishCall
    <2>2. outcome[1] \in BOOLEAN
        BY <2>1, OutcomeTypes
    <2>3. Posted(i, "result", running[i].id, outcome[1], 0) \in Post
        BY <1>1, <1>8, <2>2, PostsMade DEF FinishCall
    <2>4. running[i] # Idle /\ ~IsGeneration(running[i])
        BY <1>8 DEF FinishCall, Methods, Idle
    <2> QED
        BY <1>8, <2>1, <2>2, <2>3, <2>4 DEF FinishCall, Answers, PostedResult, Posts
<1>9. CASE FinishDetach(i) \/ CleanUp(i)
    BY <1>9 DEF FinishDetach, CleanUp, Leaves, Idle, Methods
<1> QED
    BY <1>0, <1>2, <1>3, <1>4, <1>5, <1>6, <1>7, <1>8, <1>9 DEF Executor

\* No executor step brings a generation to an instance that did not carry it.
LEMMA MovesShrink ==
    ASSUME TypeOK, NEW i \in Instance, Moves(i), NEW j \in Instance, NEW s
    PROVE  /\ CarriedByWorker(j, s)' => CarriedByWorker(j, s)
           /\ Carries(j, s)' => Carries(j, s)
<1> USE DEF CarriedByWorker, CarriedByQueue, CarriedByThread
<1>1. /\ queue \in [Instance -> Seq(Job)] /\ running \in [Instance -> Job]
      /\ queue[j] \in Seq(Job)
    BY DEF TypeOK
<1>2. ~IsGeneration(Idle)
    BY DEF Idle, IsGeneration
<1> HIDE DEF Job
<1>3. CarriedByQueue(j, s)' => CarriedByQueue(j, s)
    <2>1. CASE TakesJob(i)
        BY <1>1, <2>1, JobTail DEF TakesJob
    <2>2. CASE KeepsQueue
        BY <2>2 DEF KeepsQueue
    <2>3. TakesJob(i) \/ KeepsQueue
        BY Zenon DEF Moves, Starts, Drops, Refuses, Streams, Ends, Leaves, Answers
    <2> QED
        BY <2>1, <2>2, <2>3
<1>4. CarriedByThread(j, s)' => CarriedByWorker(j, s)
    <2>1. CASE Starts(i)
        BY <1>1, <2>1, JobTail DEF Starts, TakesJob, Runs
    <2>2. CASE Runs(i, Idle)
        BY <1>1, <1>2, <2>2 DEF Runs
    <2>3. CASE Runs(i, CleaningUp(i))
        <3>1. ~IsGeneration(CleaningUp(i))
            BY DEF CleaningUp, IsGeneration
        <3> QED
            BY <1>1, <2>3, <3>1 DEF Runs
    <2>4. CASE running' = running
        BY <2>4
    <2>5. Starts(i) \/ Runs(i, Idle) \/ Runs(i, CleaningUp(i)) \/ running' = running
        BY Zenon DEF Moves, Drops, Refuses, Streams, Ends, Leaves, Answers
    <2> QED
        BY <2>1, <2>2, <2>3, <2>4, <2>5
<1>5. CarriedByPost(j, s)' => Carries(j, s)
    <2>1. ASSUME NEW p, Posts(p), CarriedByPost(j, s)'
          PROVE  CarriedByPost(j, s) \/ (p.from = j /\ p.kind # "result" /\ p.id = s)
        <3>1. PICK k \in 1..Len(posts') :
                 posts'[k].from = j /\ posts'[k].kind # "result" /\ posts'[k].id = s
            BY <2>1 DEF CarriedByPost, OfReply
        <3>2. \/ k \in 1..Len(posts) /\ posts'[k] = posts[k]
              \/ posts'[k] = p
            BY <2>1, <3>1, SeqAppend DEF Posts, TypeOK
        <3> QED
            BY <3>1, <3>2 DEF CarriedByPost, OfReply
    <2>2. CASE Streams(i) \/ Ends(i)
        BY <2>1, <2>2 DEF Streams, Ends, Posted, Carries
    <2>3. CASE Refuses(i) \/ Answers(i)
        <3>1. PICK id, ok : Posts(Posted(i, "result", id, ok, 0))
            BY <2>3, Zenon DEF Refuses, Answers
        <3>2. Posted(i, "result", id, ok, 0).kind = "result"
            BY DEF Posted
        <3> QED
            BY <2>1, <3>1, <3>2, Zenon DEF Carries
    <2>4. CASE posts' = posts
        BY <2>4 DEF CarriedByPost, OfReply, Carries
    <2>5. Starts(i) \/ Drops(i) \/ Leaves(i) => posts' = posts
        BY Zenon DEF Starts, Drops, Leaves
    <2> QED
        BY <2>2, <2>3, <2>4, <2>5 DEF Moves
<1> QED
    BY <1>3, <1>4, <1>5 DEF Carries

\* A step of the main thread's loop takes the next runnable.
Dispatches ==
    posts # <<>> /\ posts' = Tail(posts) /\ UNCHANGED <<queue, running, generated>>

LEMMA HandlerDispatches ==
    ASSUME Handler
    PROVE  Dispatches /\ UNCHANGED <<isAvailable, attached, attaches, listened, askedAfter,
                                     alone, loaded, silent>>
BY DEF Handler, AnswerCall, DeliverToken, DeliverSentinel, Runnable, HandlerTakes,
       Dispatches, plugin, engine, known

LEMMA PostsTail ==
    ASSUME TypeOK, Dispatches
    PROVE  /\ Len(posts') = Len(posts) - 1 /\ Len(posts) \in Nat
           /\ \A k \in 1..Len(posts') : posts'[k] = posts[k + 1] /\ k + 1 \in 2..Len(posts)
           /\ Head(posts) = posts[1] /\ 1 \in 1..Len(posts)
<1>1. posts \in Seq(Post) /\ Len(posts) \in Nat /\ Len(posts') \in Nat
    BY DEF TypeOK, Dispatches
<1> HIDE DEF Post
<1> QED
    BY <1>1 DEF Dispatches

LEMMA DispatchShrinks ==
    ASSUME TypeOK, Dispatches, NEW j \in Instance, NEW s
    PROVE  /\ CarriedByWorker(j, s)' <=> CarriedByWorker(j, s)
           /\ Carries(j, s)' => Carries(j, s)
<1>1. CarriedByWorker(j, s)' <=> CarriedByWorker(j, s)
    BY DEF Dispatches, CarriedByWorker, CarriedByQueue, CarriedByThread
<1>2. CarriedByPost(j, s)' => CarriedByPost(j, s)
    BY PostsTail DEF CarriedByPost, OfReply
<1> QED
    BY <1>1, <1>2 DEF Carries

\* What a call of the application adds.
LEMMA EnqueueAdds ==
    ASSUME TypeOK, NEW a \in Instance, NEW job \in Job, Execute(a, job),
           UNCHANGED <<running, posts>>, NEW j \in Instance, NEW s
    PROVE  /\ CarriedByWorker(j, s)' =>
                 CarriedByWorker(j, s) \/ (j = a /\ IsGeneration(job) /\ job.id = s)
           /\ Carries(j, s)' =>
                 Carries(j, s) \/ (j = a /\ IsGeneration(job) /\ job.id = s)
<1>1. queue \in [Instance -> Seq(Job)] /\ queue[a] \in Seq(Job)
    BY DEF TypeOK
<1> HIDE DEF Job
<1>2. CarriedByQueue(j, s)' =>
         CarriedByQueue(j, s) \/ (j = a /\ IsGeneration(job) /\ job.id = s)
    BY <1>1, SeqAppend DEF Execute, CarriedByQueue
<1> QED
    BY <1>2 DEF Carries, CarriedByWorker, CarriedByThread, CarriedByPost, OfReply

\* Who carries what depends on the queues and the threads only.
LEMMA SameCarriers ==
    ASSUME UNCHANGED <<queue, running, posts>>, NEW j, NEW s
    PROVE  /\ CarriedByWorker(j, s)' <=> CarriedByWorker(j, s)
           /\ Carries(j, s)' <=> Carries(j, s)
BY DEF Carries, CarriedByWorker, CarriedByQueue, CarriedByThread, CarriedByPost, OfReply

\* A generation is handed to the attached instance when its stream is listened to,
\* and in no other step.
LEMMA CarriersNext ==
    ASSUME TypeOK, [Next]_vars, NEW j \in Instance, NEW s \in Stream
    PROVE  /\ CarriedByWorker(j, s)' => CarriedByWorker(j, s) \/ (j = attached /\ Listen(s))
           /\ Carries(j, s)' => Carries(j, s) \/ (j = attached /\ Listen(s))
<1> USE DEF dart, known, engine, plugin, workers
<1> HIDE DEF Job, Post
<1>1. CASE OnAttachedToEngine \/ AbortGeneration \/ UNCHANGED vars
           \/ \E t \in Stream : GenerateResponse(t) \/ CancelStream(t)
    <2>1. UNCHANGED <<queue, running, posts>>
        BY <1>1 DEF OnAttachedToEngine, AbortGeneration, GenerateResponse, CancelStream, vars
    <2> QED
        BY <2>1, SameCarriers
<1>2. CASE OnDetachedFromEngine
    <2>1. attached \in Instance
        BY <1>2, Attached DEF OnDetachedFromEngine
    <2>2. CASE isAvailable
        <3> DEFINE job == [method |-> "detach", id |-> 0]
        <3>1. job \in Job /\ ~IsGeneration(job)
            BY JobsMade DEF IsGeneration
        <3>2. Execute(attached, job) /\ UNCHANGED <<running, posts>>
            BY <1>2, <2>2 DEF OnDetachedFromEngine, DisposeOnExecutor
        <3> HIDE DEF job
        <3> QED
            BY <2>1, <3>1, <3>2, EnqueueAdds
    <2>3. CASE ~isAvailable
        BY <1>2, <2>3, SameCarriers DEF OnDetachedFromEngine
    <2> QED
        BY <2>2, <2>3
<1>3. ASSUME NEW t \in Stream, Listen(t)
      PROVE  /\ CarriedByWorker(j, s)' => CarriedByWorker(j, s) \/ (j = attached /\ t = s)
             /\ Carries(j, s)' => Carries(j, s) \/ (j = attached /\ t = s)
    <2> DEFINE job == [method |-> "startGeneration", id |-> t]
    <2>1. attached \in Instance
        BY <1>3, Attached DEF Listen
    <2>2. job \in Job /\ job.id = t
        BY JobsMade
    <2>3. Execute(attached, job) /\ UNCHANGED <<running, posts>>
        BY <1>3 DEF Listen
    <2> HIDE DEF job
    <2> QED
        BY <2>1, <2>2, <2>3, EnqueueAdds
<1>4. ASSUME NEW c \in Call, NEW m \in Calls, Invoke(c, m)
      PROVE  /\ CarriedByWorker(j, s)' => CarriedByWorker(j, s)
             /\ Carries(j, s)' => Carries(j, s)
    <2>1. attached \in Instance
        BY <1>4, Attached DEF Invoke
    <2>2. CASE isAvailable
        <3> DEFINE job == [method |-> m, id |-> c]
        <3>1. job \in Job /\ ~IsGeneration(job)
            BY JobsMade, PluginAssumption DEF IsGeneration, Methods
        <3>2. Execute(attached, job) /\ UNCHANGED <<running, posts>>
            BY <1>4, <2>2 DEF Invoke
        <3> HIDE DEF job
        <3> QED
            BY <2>1, <3>1, <3>2, EnqueueAdds
    <2>3. CASE ~isAvailable
        BY <1>4, <2>3, SameCarriers DEF Invoke, Unavailable
    <2> QED
        BY <2>2, <2>3
<1>5. ASSUME NEW i \in Instance, Executor(i)
      PROVE  /\ CarriedByWorker(j, s)' => CarriedByWorker(j, s)
             /\ Carries(j, s)' => Carries(j, s)
    BY <1>5, ExecutorMoves, MovesShrink
<1>6. CASE Handler
    BY <1>6, HandlerDispatches, DispatchShrinks
<1> QED
    <2>1. \/ OnAttachedToEngine \/ AbortGeneration \/ UNCHANGED vars
          \/ (\E t \in Stream : GenerateResponse(t) \/ CancelStream(t))
          \/ OnDetachedFromEngine
          \/ (\E t \in Stream : Listen(t))
          \/ (\E c \in Call, m \in Calls : Invoke(c, m))
          \/ (\E i \in Instance : Executor(i))
          \/ Handler
        BY Zenon DEF Next, Application
    <2> QED
        BY <1>1, <1>2, <1>3, <1>4, <1>5, <1>6, <2>1, Zenon

\* An executor that has never been attached does nothing.
LEMMA MovesAttached ==
    ASSUME TypeOK, UnusedInv, NEW i \in Instance, Moves(i)
    PROVE  i <= attaches
<1>1. running[i] # Idle \/ queue[i] # <<>>
    <2>1. IsGeneration(running[i]) => running[i] # Idle
        BY DEF IsGeneration, Idle
    <2> QED
        BY <2>1, Zenon
        DEF Moves, Starts, Drops, Refuses, Streams, Ends, Leaves, Answers, TakesJob
<1> QED
    BY <1>1, Attached DEF UnusedInv, Unused

\* What one executor does leaves the others alone.
LEMMA MovesAlone ==
    ASSUME TypeOK, NEW i \in Instance, Moves(i)
    PROVE  /\ \A j \in Instance : j # i => queue'[j] = queue[j] /\ running'[j] = running[j]
           /\ posts' = posts \/ \E p : Posts(p) /\ p.from = i
<1>1. \A j \in Instance : j # i => queue'[j] = queue[j] /\ running'[j] = running[j]
    BY DEF Moves, Starts, Drops, Refuses, Streams, Ends, Leaves, Answers, TakesJob,
           KeepsQueue, Runs, TypeOK
<1>2. posts' = posts \/ \E p : Posts(p) /\ p.from = i
    <2>1. \A kind, id, ok, n : Posted(i, kind, id, ok, n).from = i
        BY DEF Posted
    <2> QED
        BY <2>1, Zenon
        DEF Moves, Starts, Drops, Refuses, Streams, Ends, Leaves, Answers
<1> QED
    BY <1>1, <1>2

LEMMA PostsAppend ==
    ASSUME TypeOK, NEW p, Posts(p)
    PROVE  /\ Len(posts) \in Nat /\ Len(posts') = Len(posts) + 1
           /\ posts'[Len(posts) + 1] = p
           /\ \A k \in 1..Len(posts) : posts'[k] = posts[k]
           /\ \A k \in 1..Len(posts') : k \in 1..Len(posts) \/ k = Len(posts) + 1
BY SeqAppend DEF Posts, TypeOK

\* Every step keeps UnusedInv: jobs are handed to the attached instance only.
LEMMA UnusedNext ==
    ASSUME TypeOK, UnusedInv, [Next]_vars
    PROVE  UnusedInv'
<1> USE DEF dart, known, engine, plugin, workers, Unused
<1>1. CASE OnAttachedToEngine
    BY <1>1, Attached DEF OnAttachedToEngine, UnusedInv
<1>2. ASSUME attached # 0, UNCHANGED <<attaches, running, posts>>,
             \/ queue' = queue
             \/ \E job : Execute(attached, job)
      PROVE  UnusedInv'
    <2>1. attached \in Instance /\ attached = attaches
        BY <1>2, Attached
    <2>2. \A i \in Instance : i # attached => queue'[i] = queue[i]
        BY <1>2, <2>1 DEF Execute, TypeOK
    <2> QED
        BY <1>2, <2>1, <2>2, Attached DEF UnusedInv
<1>3. OnDetachedFromEngine => UnusedInv'
    BY <1>2 DEF OnDetachedFromEngine, DisposeOnExecutor
<1>4. ASSUME NEW s \in Stream, GenerateResponse(s) \/ Listen(s) \/ CancelStream(s)
      PROVE  UnusedInv'
    <2>1. CASE GenerateResponse(s)
        BY <2>1 DEF GenerateResponse, UnusedInv
    <2> QED
        BY <1>2, <1>4, <2>1 DEF Listen, CancelStream
<1>5. ASSUME NEW c \in Call, NEW m \in Calls, Invoke(c, m) PROVE UnusedInv'
    <2>1. attached # 0 /\ UNCHANGED <<attaches, running, posts>>
        BY <1>5 DEF Invoke
    <2>2. queue' = queue \/ Execute(attached, [method |-> m, id |-> c])
        BY <1>5 DEF Invoke, Unavailable
    <2> QED
        BY <1>2, <2>1, <2>2
<1>6. CASE AbortGeneration \/ UNCHANGED vars
    BY <1>6 DEF AbortGeneration, vars, UnusedInv
<1>7. ASSUME NEW i \in Instance, Executor(i) PROVE UnusedInv'
    <2>1. Moves(i) /\ UNCHANGED attaches
        BY <1>7, ExecutorMoves
    <2>2. i <= attaches
        BY <2>1, MovesAttached
    <2>3. ASSUME NEW k \in 1..Len(posts')
          PROVE  (k \in 1..Len(posts) /\ posts'[k] = posts[k]) \/ posts'[k].from = i
        <3>1. ASSUME NEW p, Posts(p), p.from = i
              PROVE  (k \in 1..Len(posts) /\ posts'[k] = posts[k]) \/ posts'[k].from = i
            BY <2>3, <3>1, SeqAppend DEF Posts, TypeOK
        <3>2. posts' = posts \/ \E p : Posts(p) /\ p.from = i
            BY <2>1, MovesAlone
        <3> QED
            BY <2>3, <3>1, <3>2
    <2> QED
        BY <2>1, <2>2, <2>3, MovesAlone, Attached DEF UnusedInv
<1>8. CASE Handler
    BY <1>8, HandlerDispatches, PostsTail DEF Dispatches, UnusedInv
<1> QED
    BY <1>1, <1>3, <1>4, <1>5, <1>6, <1>7, <1>8 DEF Next, Application

-----------------------------------------------------------------------------
\* Calls, for every application.  Whether a call is in one place, or in none.
IsCall(job, c) == job.method \in Methods /\ job.id = c
Answer(p, i, c) == p.kind = "result" /\ p.from = i /\ p.id = c

Single(S) == \E k \in S : S = {k}
Held(i, c) ==
    \/ Single(InQueue(i, c)) /\ OnThread(i, c) = {} /\ InPosts(i, c) = {}
    \/ InQueue(i, c) = {} /\ OnThread(i, c) = {0} /\ InPosts(i, c) = {}
    \/ InQueue(i, c) = {} /\ OnThread(i, c) = {} /\ Single(InPosts(i, c))
NotHeld(i, c) == InQueue(i, c) = {} /\ OnThread(i, c) = {} /\ InPosts(i, c) = {}

\* Every future that the isolate awaits is with the attached instance.
CallInv ==
    /\ attached = 0 => \A c \in Call : asked[c] # "waiting"
    /\ attached # 0 => \A c \in Call :
          IF asked[c] = "waiting" THEN Held(attached, c) ELSE NotHeld(attached, c)
LEMMA PlacesAre ==
    ASSUME NEW i, NEW c
    PROVE  /\ NotHeld(i, c) => Places(i, c) = {}
           /\ Held(i, c) => \E p \in Places(i, c) : Places(i, c) = {p}
<1> DEFINE Q == InQueue(i, c)
           T == OnThread(i, c)
           P == InPosts(i, c)
           S == Places(i, c)
<1>1. S = ({"queue"} \X Q) \cup ({"thread"} \X T) \cup ({"posts"} \X P)
    BY DEF Places
<1> HIDE DEF Q, T, P, S
<1>2. \A w, k : <<w, k>> \in S <=> \/ w = "queue" /\ k \in Q
                                   \/ w = "thread" /\ k \in T
                                   \/ w = "posts" /\ k \in P
    BY <1>1
<1>3. \A p \in S : p = <<p[1], p[2]>>
    BY <1>1
<1>4. Q = {} /\ T = {} /\ P = {} => S = {}
    BY <1>2, <1>3
<1>5. ASSUME NEW w, NEW k, <<w, k>> \in S,
             \A v, j : <<v, j>> \in S => v = w /\ j = k
      PROVE  \E p \in S : S = {p}
    <2>1. ASSUME NEW q \in S PROVE q = <<w, k>>
        <3>1. q = <<q[1], q[2]>>
            BY <1>3
        <3>2. q[1] = w /\ q[2] = k
            BY <1>5, <3>1
        <3> QED
            BY <3>1, <3>2
    <2>2. S = {<<w, k>>}
        BY <1>5, <2>1
    <2> QED
        BY <2>2
<1>6. ASSUME Single(Q), T = {}, P = {} PROVE \E p \in S : S = {p}
    <2>1. PICK k \in Q : Q = {k}
        BY <1>6 DEF Single
    <2>2. <<"queue", k>> \in S /\ \A v, j : <<v, j>> \in S => v = "queue" /\ j = k
        BY <1>2, <1>6, <2>1
    <2> QED
        BY <1>5, <2>2
<1>7. ASSUME Q = {}, T = {0}, P = {} PROVE \E p \in S : S = {p}
    <2>1. <<"thread", 0>> \in S /\ \A v, j : <<v, j>> \in S => v = "thread" /\ j = 0
        BY <1>2, <1>7
    <2> QED
        BY <1>5, <2>1
<1>8. ASSUME Q = {}, T = {}, Single(P) PROVE \E p \in S : S = {p}
    <2>1. PICK k \in P : P = {k}
        BY <1>8 DEF Single
    <2>2. <<"posts", k>> \in S /\ \A v, j : <<v, j>> \in S => v = "posts" /\ j = k
        BY <1>2, <1>8, <2>1
    <2> QED
        BY <1>5, <2>2
<1> QED
    BY <1>4, <1>6, <1>7, <1>8 DEF Held, NotHeld, Q, T, P, S

LEMMA CallInvIsAnsweredOnce == CallInv => AnsweredOnce
BY PlacesAre DEF CallInv, AnsweredOnce

\* Taking the head of a queue or of the runnables moves the rest up by one.
LEMMA MovedUp ==
    ASSUME NEW n \in Nat, NEW Q \in SUBSET (1..n), NEW R \in SUBSET (1..n),
           \A k \in 1..n : k \in R <=> k + 1 \in Q
    PROVE  /\ Q = {} => R = {}
           /\ 1 \in Q /\ Single(Q) => R = {}
           /\ 1 \notin Q /\ Single(Q) => Single(R)
<1>1. Q = {} => R = {}
    OBVIOUS
<1>2. ASSUME 1 \in Q, Single(Q) PROVE R = {}
    <2>1. Q = {1}
        BY <1>2 DEF Single
    <2> QED
        BY <2>1
<1>3. ASSUME 1 \notin Q, Single(Q) PROVE Single(R)
    <2>1. PICK k \in Q : Q = {k}
        BY <1>3 DEF Single
    <2>2. k \in 1..n /\ k # 1
        BY <1>3, <2>1
    <2>3. k - 1 \in 1..n /\ \A j \in 1..n : j + 1 = k <=> j = k - 1
        BY <2>2
    <2>4. \A j \in 1..n : j \in R <=> j = k - 1
        BY <2>1, <2>3
    <2>5. R = {k - 1}
        BY <2>3, <2>4
    <2> QED
        BY <2>5 DEF Single
<1> QED
    BY <1>1, <1>2, <1>3

LEMMA QueueTaken ==
    ASSUME TypeOK, NEW i \in Instance, NEW c, TakesJob(i)
    PROVE  /\ OnThread(i, c) = {}
           /\ IsCall(Head(queue[i]), c) => InQueue(i, c) # {}
           /\ InQueue(i, c) = {} => InQueue(i, c)' = {}
           /\ IsCall(Head(queue[i]), c) /\ Single(InQueue(i, c)) => InQueue(i, c)' = {}
           /\ ~IsCall(Head(queue[i]), c) /\ Single(InQueue(i, c)) => Single(InQueue(i, c)')
<1> DEFINE Q == InQueue(i, c)
           R == InQueue(i, c)'
           n == Len(queue[i])
<1>1. /\ queue[i] # <<>> /\ running[i] = Idle /\ queue'[i] = Tail(queue[i])
      /\ n \in Nat /\ Len(queue'[i]) = n - 1
      /\ Head(queue[i]) = queue[i][1] /\ 1 \in 1..n
      /\ \A k \in 1..Len(queue'[i]) : queue'[i][k] = queue[i][k + 1] /\ k + 1 \in 1..n
    BY JobTail DEF TakesJob, TypeOK
<1>2. Q = {k \in 1..n : IsCall(queue[i][k], c)}
    BY DEF InQueue, IsCall
<1>3. R = {k \in 1..Len(queue'[i]) : IsCall(queue'[i][k], c)}
    BY DEF InQueue, IsCall
<1>4. Q \in SUBSET (1..n) /\ R \in SUBSET (1..n)
    BY <1>1, <1>2, <1>3
<1>5. \A k \in 1..n : k \in R <=> k + 1 \in Q
    BY <1>1, <1>2, <1>3
<1>6. 1 \in Q <=> IsCall(Head(queue[i]), c)
    BY <1>1, <1>2
<1>7. OnThread(i, c) = {}
    BY <1>1 DEF OnThread, Idle, Methods
<1> HIDE DEF Q, R, n
<1>8. /\ Q = {} => R = {}
      /\ 1 \in Q /\ Single(Q) => R = {}
      /\ 1 \notin Q /\ Single(Q) => Single(R)
    BY <1>1, <1>4, <1>5, MovedUp
<1>9. Single(InQueue(i, c)') <=> Single(R)
    BY DEF R
<1> QED
    BY <1>6, <1>7, <1>8, <1>9 DEF Q, R

LEMMA PostTaken ==
    ASSUME TypeOK, NEW i, NEW c, Dispatches
    PROVE  /\ Answer(Head(posts), i, c) => InPosts(i, c) # {}
           /\ InPosts(i, c) = {} => InPosts(i, c)' = {}
           /\ Answer(Head(posts), i, c) /\ Single(InPosts(i, c)) => InPosts(i, c)' = {}
           /\ ~Answer(Head(posts), i, c) /\ Single(InPosts(i, c)) => Single(InPosts(i, c)')
<1> DEFINE Q == InPosts(i, c)
           R == InPosts(i, c)'
           n == Len(posts)
<1>1. /\ n \in Nat /\ Len(posts') = n - 1
      /\ Head(posts) = posts[1] /\ 1 \in 1..n
      /\ \A k \in 1..Len(posts') : posts'[k] = posts[k + 1] /\ k + 1 \in 1..n
    BY PostsTail
<1>2. Q = {k \in 1..n : Answer(posts[k], i, c)}
    BY DEF InPosts, Answer
<1>3. R = {k \in 1..Len(posts') : Answer(posts'[k], i, c)}
    BY DEF InPosts, Answer
<1>4. Q \in SUBSET (1..n) /\ R \in SUBSET (1..n)
    BY <1>1, <1>2, <1>3
<1>5. \A k \in 1..n : k \in R <=> k + 1 \in Q
    BY <1>1, <1>2, <1>3
<1>6. 1 \in Q <=> Answer(Head(posts), i, c)
    BY <1>1, <1>2
<1> HIDE DEF Q, R, n
<1>7. /\ Q = {} => R = {}
      /\ 1 \in Q /\ Single(Q) => R = {}
      /\ 1 \notin Q /\ Single(Q) => Single(R)
    BY <1>1, <1>4, <1>5, MovedUp
<1> QED
    BY <1>6, <1>7 DEF Q, R

\* A job or a runnable that is added is one more place if it is this call's.
LEMMA JobAdded ==
    ASSUME TypeOK, NEW i \in Instance, NEW c, NEW job \in Job, Execute(i, job)
    PROVE  /\ ~IsCall(job, c) => InQueue(i, c)' = InQueue(i, c)
           /\ IsCall(job, c) /\ InQueue(i, c) = {} => Single(InQueue(i, c)')
<1> DEFINE n == Len(queue[i])
<1>1. /\ n \in Nat /\ queue'[i] = Append(queue[i], job) /\ Len(queue'[i]) = n + 1
      /\ queue'[i][n + 1] = job /\ \A k \in 1..n : queue'[i][k] = queue[i][k]
    <2>1. queue \in [Instance -> Seq(Job)] /\ queue[i] \in Seq(Job)
        BY DEF TypeOK
    <2> HIDE DEF Job
    <2> QED
        BY <2>1, SeqAppend DEF Execute
<1>2. InQueue(i, c) = {k \in 1..n : IsCall(queue[i][k], c)}
    BY DEF InQueue, IsCall
<1>3. InQueue(i, c)' = {k \in 1..(n + 1) : IsCall(queue'[i][k], c)}
    BY <1>1 DEF InQueue, IsCall
<1> HIDE DEF n
<1>4. \A k \in 1..(n + 1) : k \in 1..n \/ k = n + 1
    BY <1>1
<1>5. 1..n \subseteq 1..(n + 1) /\ n + 1 \in 1..(n + 1) /\ n + 1 \notin 1..n
    BY <1>1
<1>6. ~IsCall(job, c) => InQueue(i, c)' = InQueue(i, c)
    BY <1>1, <1>2, <1>3, <1>4, <1>5
<1>7. IsCall(job, c) /\ InQueue(i, c) = {} => InQueue(i, c)' = {n + 1}
    BY <1>1, <1>2, <1>3, <1>4, <1>5
<1> QED
    BY <1>6, <1>7 DEF Single

LEMMA PostAdded ==
    ASSUME TypeOK, NEW i, NEW c, NEW p, Posts(p)
    PROVE  /\ ~Answer(p, i, c) => InPosts(i, c)' = InPosts(i, c)
           /\ Answer(p, i, c) /\ InPosts(i, c) = {} => Single(InPosts(i, c)')
<1> DEFINE n == Len(posts)
<1>1. /\ n \in Nat /\ Len(posts') = n + 1
      /\ posts'[n + 1] = p /\ \A k \in 1..n : posts'[k] = posts[k]
    BY PostsAppend
<1>2. InPosts(i, c) = {k \in 1..n : Answer(posts[k], i, c)}
    BY DEF InPosts, Answer
<1>3. InPosts(i, c)' = {k \in 1..(n + 1) : Answer(posts'[k], i, c)}
    BY <1>1 DEF InPosts, Answer
<1> HIDE DEF n
<1>4. \A k \in 1..(n + 1) : k \in 1..n \/ k = n + 1
    BY <1>1
<1>5. 1..n \subseteq 1..(n + 1) /\ n + 1 \in 1..(n + 1) /\ n + 1 \notin 1..n
    BY <1>1
<1>6. ~Answer(p, i, c) => InPosts(i, c)' = InPosts(i, c)
    BY <1>1, <1>2, <1>3, <1>4, <1>5
<1>7. Answer(p, i, c) /\ InPosts(i, c) = {} => InPosts(i, c)' = {n + 1}
    BY <1>1, <1>2, <1>3, <1>4, <1>5
<1> QED
    BY <1>6, <1>7 DEF Single

\* What an executor does with a call keeps it in one place: from the queue to the
\* thread to the runnables, or right to the runnables when the load is refused.
LEMMA MovesKeepCalls ==
    ASSUME TypeOK, NEW i \in Instance, Moves(i), NEW a \in Instance, NEW c
    PROVE  /\ Held(a, c) => Held(a, c)'
           /\ NotHeld(a, c) => NotHeld(a, c)'
<1> USE DEF Held, NotHeld
<1>0. /\ queue \in [Instance -> Seq(Job)] /\ running \in [Instance -> Job]
      /\ "none" \notin Methods /\ "startGeneration" \notin Methods
    BY DEF TypeOK, Methods
<1>p. \A kind, id, ok, n, j : Answer(Posted(i, kind, id, ok, n), j, c) <=>
                                 kind = "result" /\ i = j /\ id = c
    BY DEF Answer, Posted
<1>t. ASSUME NEW job, Runs(i, job)
      PROVE  OnThread(i, c)' = {k \in {0} : IsCall(job, c)}
    BY <1>0, <1>t DEF OnThread, Runs, IsCall
<1>o. OnThread(i, c) = {k \in {0} : IsCall(running[i], c)}
    BY DEF OnThread, IsCall
<1>n. ~IsCall(Idle, c)
    BY <1>0 DEF IsCall, Idle
<1>u. ~IsCall(CleaningUp(i), c)
    BY DEF IsCall, CleaningUp, Methods
<1>g. \A job : IsGeneration(job) => ~IsCall(job, c)
    BY <1>0 DEF IsCall, IsGeneration
<1> HIDE DEF Job
<1>1. CASE a # i
    <2>1. InQueue(a, c)' = InQueue(a, c) /\ OnThread(a, c)' = OnThread(a, c)
        BY <1>1, MovesAlone DEF InQueue, OnThread
    <2>2. InPosts(a, c)' = InPosts(a, c)
        <3>1. ASSUME NEW p, Posts(p), p.from = i PROVE InPosts(a, c)' = InPosts(a, c)
            BY <1>1, <3>1, PostAdded DEF Answer
        <3>2. CASE posts' = posts
            BY <3>2 DEF InPosts
        <3> QED
            BY <3>1, <3>2, MovesAlone
    <2> QED
        BY <2>1, <2>2
<1>2. ASSUME Starts(i)
      PROVE  /\ Held(i, c) => Held(i, c)'
             /\ NotHeld(i, c) => NotHeld(i, c)'
    <2>1. TakesJob(i) /\ InPosts(i, c)' = InPosts(i, c)
          /\ OnThread(i, c)' = {k \in {0} : IsCall(Head(queue[i]), c)}
        BY <1>2, <1>t DEF Starts, InPosts
    <2> QED
        BY <2>1, QueueTaken
<1>3. ASSUME Drops(i)
      PROVE  /\ Held(i, c) => Held(i, c)'
             /\ NotHeld(i, c) => NotHeld(i, c)'
    <2>1. TakesJob(i) /\ InPosts(i, c)' = InPosts(i, c)
          /\ OnThread(i, c)' = OnThread(i, c) /\ ~IsCall(Head(queue[i]), c)
        BY <1>3, <1>g DEF Drops, InPosts, OnThread
    <2> QED
        BY <2>1, QueueTaken
<1>4. ASSUME Refuses(i)
      PROVE  /\ Held(i, c) => Held(i, c)'
             /\ NotHeld(i, c) => NotHeld(i, c)'
    <2>1. Answer(Posted(i, "result", Head(queue[i]).id, FALSE, 0), i, c) <=>
             Head(queue[i]).id = c
        BY DEF Answer, Posted
    <2> DEFINE p == Posted(i, "result", Head(queue[i]).id, FALSE, 0)
    <2>2. TakesJob(i) /\ Posts(p) /\ OnThread(i, c)' = OnThread(i, c)
        BY <1>4 DEF Refuses, OnThread
    <2>3. IsCall(Head(queue[i]), c) <=> Head(queue[i]).id = c
        BY <1>4, Zenon DEF Refuses, IsCall
    <2>4. Answer(p, i, c) <=> Head(queue[i]).id = c
        BY <2>1
    <2> HIDE DEF p
    <2> QED
        BY <2>2, <2>3, <2>4, QueueTaken, PostAdded
<1>5. ASSUME Streams(i) \/ Ends(i)
      PROVE  /\ Held(i, c) => Held(i, c)'
             /\ NotHeld(i, c) => NotHeld(i, c)'
    <2>1. InQueue(i, c)' = InQueue(i, c)
        BY <1>5 DEF Streams, Ends, KeepsQueue, InQueue
    <2>2. OnThread(i, c) = {} /\ OnThread(i, c)' = {}
        <3>1. ~IsCall(running[i], c)
            BY <1>5, <1>g DEF Streams, Ends
        <3>2. CASE Streams(i)
            BY <1>o, <3>1, <3>2 DEF Streams, OnThread
        <3>3. CASE Ends(i)
            BY <1>o, <1>t, <1>u, <3>1, <3>3 DEF Ends
        <3> QED
            BY <1>5, <3>2, <3>3
    <2>3. InPosts(i, c)' = InPosts(i, c)
        <3>1. \E p : Posts(p) /\ ~Answer(p, i, c)
            <4>1. \/ Posts(Posted(i, "token", running[i].id, TRUE,
                                   generated[running[i].id] + 1))
                  \/ Posts(Posted(i, "sentinel", running[i].id, TRUE, 0))
                BY <1>5, Zenon DEF Streams, Ends
            <4>2. \A kind, id, ok, n :
                     kind # "result" => ~Answer(Posted(i, kind, id, ok, n), i, c)
                BY <1>p
            <4> QED
                BY <4>1, <4>2
        <3> QED
            BY <3>1, PostAdded
    <2> QED
        BY <2>1, <2>2, <2>3
<1>6. ASSUME Leaves(i)
      PROVE  /\ Held(i, c) => Held(i, c)'
             /\ NotHeld(i, c) => NotHeld(i, c)'
    <2>1. InQueue(i, c)' = InQueue(i, c) /\ InPosts(i, c)' = InPosts(i, c)
        BY <1>6 DEF Leaves, KeepsQueue, InQueue, InPosts
    <2>2. OnThread(i, c) = {} /\ OnThread(i, c)' = {}
        BY <1>6, <1>o, <1>t, <1>n DEF Leaves, IsCall
    <2> QED
        BY <2>1, <2>2
<1>7. ASSUME Answers(i)
      PROVE  /\ Held(i, c) => Held(i, c)'
             /\ NotHeld(i, c) => NotHeld(i, c)'
    <2>1. PICK ok \in BOOLEAN : Posts(Posted(i, "result", running[i].id, ok, 0))
        BY <1>7 DEF Answers
    <2> DEFINE p == Posted(i, "result", running[i].id, ok, 0)
    <2>2. InQueue(i, c)' = InQueue(i, c) /\ OnThread(i, c)' = {}
        BY <1>7, <1>t, <1>n DEF Answers, KeepsQueue, InQueue
    <2>3. Answer(p, i, c) <=> OnThread(i, c) = {0}
        BY <1>7, <1>o, <1>p DEF Answers, IsCall
    <2>4. OnThread(i, c) = {} \/ OnThread(i, c) = {0}
        BY <1>o
    <2>5. Posts(p)
        BY <2>1
    <2> HIDE DEF p
    <2> QED
        BY <2>2, <2>3, <2>4, <2>5, PostAdded
<1> QED
    BY <1>1, <1>2, <1>3, <1>4, <1>5, <1>6, <1>7 DEF Moves

\* The runnable that answers a call is the only place the call is in.
LEMMA DispatchKeepsCalls ==
    ASSUME TypeOK, Dispatches, NEW a \in Instance, NEW c
    PROVE  /\ Answer(Head(posts), a, c) => ~NotHeld(a, c) /\ (Held(a, c) => NotHeld(a, c)')
           /\ ~Answer(Head(posts), a, c) => (Held(a, c) => Held(a, c)')
           /\ NotHeld(a, c) => NotHeld(a, c)'
<1>1. InQueue(a, c)' = InQueue(a, c) /\ OnThread(a, c)' = OnThread(a, c)
    BY DEF Dispatches, InQueue, OnThread
<1> QED
    BY <1>1, PostTaken DEF Held, NotHeld

LEMMA SamePlaces ==
    ASSUME UNCHANGED <<queue, running, posts>>, NEW a, NEW c
    PROVE  /\ Held(a, c)' <=> Held(a, c)
           /\ NotHeld(a, c)' <=> NotHeld(a, c)
BY DEF Held, NotHeld, InQueue, OnThread, InPosts

\* Every step keeps CallInv, whatever the application does.
LEMMA CallNext ==
    ASSUME TypeOK, UnusedInv, CallInv, [Next]_vars
    PROVE  CallInv'
<1> USE DEF dart, known, engine, plugin, workers
<1>0. /\ attached # 0 => attached \in Instance
      /\ asked \in [Call -> {"no", "waiting", "answered", "lost"}]
    BY Attached DEF TypeOK
<1>k. ASSUME UNCHANGED attached,
             attached = 0 => asked' = asked,
             ASSUME NEW c \in Call, attached # 0
             PROVE  IF asked'[c] = "waiting" THEN Held(attached, c)' ELSE NotHeld(attached, c)'
      PROVE  CallInv'
    BY <1>k DEF CallInv
<1>1. CASE OnAttachedToEngine
    <2>1. /\ attached = 0 /\ attached' \in Instance /\ attached' > attaches /\ asked' = asked
          /\ UNCHANGED <<queue, running, posts>>
        BY <1>1, PluginAssumption DEF OnAttachedToEngine, TypeOK, Instance
    <2>2. \A c \in Call : NotHeld(attached', c)
        <3>1. Unused(attached')
            BY <2>1 DEF UnusedInv
        <3> QED
            BY <3>1 DEF Unused, NotHeld, InQueue, OnThread, InPosts, Idle, Methods
    <2>3. \A c \in Call : NotHeld(attached, c)'
        BY <2>1, <2>2 DEF NotHeld, InQueue, OnThread, InPosts
    <2> QED
        BY <2>1, <2>3 DEF CallInv, Instance
<1>2. CASE OnDetachedFromEngine
    BY <1>0, <1>2 DEF OnDetachedFromEngine, CallInv
<1>3. ASSUME NEW s \in Stream, Listen(s) PROVE CallInv'
    <2> DEFINE job == [method |-> "startGeneration", id |-> s]
    <2>1. /\ attached \in Instance /\ job \in Job /\ Execute(attached, job)
          /\ UNCHANGED <<attached, asked, running, posts>>
        BY <1>0, <1>3, JobsMade DEF Listen
    <2>2. \A c : ~IsCall(job, c)
        BY DEF IsCall, Methods
    <2> HIDE DEF job
    <2>3. \A c : /\ InQueue(attached, c)' = InQueue(attached, c)
                 /\ OnThread(attached, c)' = OnThread(attached, c)
                 /\ InPosts(attached, c)' = InPosts(attached, c)
        BY <2>1, <2>2, JobAdded DEF OnThread, InPosts
    <2>4. \A c : /\ Held(attached, c)' <=> Held(attached, c)
                 /\ NotHeld(attached, c)' <=> NotHeld(attached, c)
        BY <2>3 DEF Held, NotHeld
    <2> QED
        BY <2>1, <2>4 DEF CallInv
<1>4. CASE AbortGeneration \/ UNCHANGED vars
           \/ \E s \in Stream : GenerateResponse(s) \/ CancelStream(s)
    <2>1. UNCHANGED <<attached, asked, queue, running, posts>>
        BY <1>4 DEF AbortGeneration, GenerateResponse, CancelStream, vars
    <2>2. \A c : /\ Held(attached, c)' <=> Held(attached, c)
                 /\ NotHeld(attached, c)' <=> NotHeld(attached, c)
        BY <2>1, SamePlaces
    <2> QED
        BY <2>1, <2>2 DEF CallInv
<1>5. ASSUME NEW d \in Call, NEW m \in Calls, Invoke(d, m) PROVE CallInv'
    <2>1. /\ attached # 0 /\ attached \in Instance /\ asked[d] = "no"
          /\ UNCHANGED <<attached, running, posts>>
        BY <1>0, <1>5 DEF Invoke
    <2>2. \A c \in Call : IF asked[c] = "waiting" THEN Held(attached, c)
                                                  ELSE NotHeld(attached, c)
        BY <2>1 DEF CallInv
    <2>3. CASE isAvailable
        <3> DEFINE job == [method |-> m, id |-> d]
        <3>1. job \in Job /\ \A c : IsCall(job, c) <=> c = d
            BY JobsMade, PluginAssumption DEF IsCall
        <3>2. Execute(attached, job) /\ asked' = [asked EXCEPT ![d] = "waiting"]
            BY <1>5, <2>3 DEF Invoke
        <3> HIDE DEF job
        <3>3. \A c : /\ OnThread(attached, c)' = OnThread(attached, c)
                     /\ InPosts(attached, c)' = InPosts(attached, c)
            BY <2>1 DEF OnThread, InPosts
        <3>4. ASSUME NEW c \in Call, c # d
              PROVE  IF asked'[c] = "waiting" THEN Held(attached, c)' ELSE NotHeld(attached, c)'
            <4>1. InQueue(attached, c)' = InQueue(attached, c) /\ asked'[c] = asked[c]
                BY <1>0, <2>1, <3>1, <3>2, <3>4, JobAdded
            <4> QED
                BY <2>2, <3>3, <4>1 DEF Held, NotHeld
        <3>5. asked'[d] = "waiting" /\ Held(attached, d)'
            <4>1. NotHeld(attached, d)
                BY <2>1, <2>2
            <4>2. Single(InQueue(attached, d)')
                BY <2>1, <3>1, <3>2, <4>1, JobAdded DEF NotHeld
            <4>3. asked'[d] = "waiting"
                BY <1>0, <3>2
            <4> QED
                BY <3>3, <4>1, <4>2, <4>3 DEF Held, NotHeld
        <3> QED
            BY <2>1, <3>4, <3>5 DEF CallInv
    <2>4. CASE ~isAvailable
        <3>1. queue' = queue /\ asked' = [asked EXCEPT ![d] = "answered"]
            BY <1>5, <2>4 DEF Invoke, Unavailable
        <3>2. \A c : /\ Held(attached, c)' <=> Held(attached, c)
                     /\ NotHeld(attached, c)' <=> NotHeld(attached, c)
            BY <2>1, <3>1, SamePlaces
        <3> QED
            BY <1>0, <2>1, <2>2, <3>1, <3>2 DEF CallInv
    <2> QED
        BY <2>3, <2>4
<1>6. ASSUME NEW i \in Instance, Executor(i) PROVE CallInv'
    <2>1. Moves(i) /\ UNCHANGED <<attached, asked>>
        BY <1>6, ExecutorMoves
    <2>2. attached # 0 => \A c : /\ Held(attached, c) => Held(attached, c)'
                                 /\ NotHeld(attached, c) => NotHeld(attached, c)'
        BY <1>0, <2>1, MovesKeepCalls
    <2> QED
        BY <2>1, <2>2 DEF CallInv
<1>7. CASE Handler
    <2>1. Dispatches /\ UNCHANGED attached
        BY <1>7, HandlerDispatches
    <2>2. Head(posts) \in Post
        BY <2>1, PostTypes DEF Dispatches
    <2>3. \/ UNCHANGED asked /\ (attached # 0 =>
                \A c : ~Answer(Head(posts), attached, c))
          \/ /\ Head(posts).kind = "result" /\ Head(posts).from = attached
             /\ asked' = [asked EXCEPT ![Head(posts).id] = "answered"]
        BY <1>7 DEF Handler, AnswerCall, DeliverToken, DeliverSentinel, Runnable, Heard, Answer
    <2>4. attached = 0 => asked' = asked
        BY <2>2, <2>3, PostFacts, Attached
    <2>5. ASSUME NEW c \in Call, attached # 0
          PROVE  IF asked'[c] = "waiting" THEN Held(attached, c)' ELSE NotHeld(attached, c)'
        <3>1. IF asked[c] = "waiting" THEN Held(attached, c) ELSE NotHeld(attached, c)
            BY <2>5 DEF CallInv
        <3>2. /\ Answer(Head(posts), attached, c) =>
                    ~NotHeld(attached, c) /\ (Held(attached, c) => NotHeld(attached, c)')
              /\ ~Answer(Head(posts), attached, c) => (Held(attached, c) => Held(attached, c)')
              /\ NotHeld(attached, c) => NotHeld(attached, c)'
            BY <1>0, <2>1, <2>5, DispatchKeepsCalls
        <3>3. IF Answer(Head(posts), attached, c) THEN asked'[c] = "answered"
                                                  ELSE asked'[c] = asked[c]
            BY <1>0, <2>3, <2>5 DEF Answer
        <3> QED
            BY <3>1, <3>2, <3>3
    <2> QED
        BY <2>1, <2>4, <2>5 DEF CallInv
<1> QED
    BY <1>1, <1>2, <1>3, <1>4, <1>5, <1>6, <1>7 DEF Next, Application

-----------------------------------------------------------------------------
\* How streams open, how they are numbered, and when a stream is given a token.
LEMMA StreamMoves ==
    ASSUME TypeOK, [Next]_vars
    PROVE  /\ \A s \in Stream : stream'[s] = "open" => stream[s] = "open" \/ Listen(s)
           /\ \/ listened' = listened
              \/ /\ listened' = listened + 1 /\ listened' \in Stream
                 /\ Listen(listened') /\ attached' = attached
           /\ \/ attached' = attached
              \/ attached = 0
              \/ attached' = 0 /\ \A s \in Stream : stream'[s] # "open"
           /\ attached' # attached => ~(\E s \in Stream : Listen(s))
<1> USE DEF dart, plugin, known
<1>0. /\ stream \in [Stream -> {"new", "created", "open", "closed", "cancelled", "lost"}]
      /\ "closed" # "open"
    BY DEF TypeOK
<1>1. CASE OnAttachedToEngine
    BY <1>1 DEF OnAttachedToEngine, Listen
<1>2. CASE OnDetachedFromEngine
    <2>1. attached' = 0 /\ attached # 0 /\ listened' = listened
        BY <1>2 DEF OnDetachedFromEngine
    <2>2. \A s \in Stream : stream'[s] # "open"
        BY <1>0, <1>2 DEF OnDetachedFromEngine
    <2>3. \A s \in Stream : Listen(s) => attached' = attached
        BY DEF Listen
    <2> QED
        BY <2>1, <2>2, <2>3
<1>3. ASSUME NEW s \in Stream, GenerateResponse(s) \/ Listen(s) \/ CancelStream(s)
      PROVE  /\ \A t \in Stream : stream'[t] = "open" => stream[t] = "open" \/ Listen(t)
             /\ \/ listened' = listened
                \/ listened' = listened + 1 /\ listened' \in Stream /\ Listen(listened')
             /\ attached' = attached
    <2>1. CASE GenerateResponse(s)
        BY <1>0, <2>1 DEF GenerateResponse
    <2>2. CASE Listen(s)
        <3>1. /\ attached' = attached /\ stream' = [stream EXCEPT ![s] = "open"]
              /\ listened' = s /\ s = listened + 1
            BY <2>2 DEF Listen
        <3> QED
            BY <1>0, <2>2, <3>1
    <2>3. CASE CancelStream(s)
        BY <1>0, <2>3 DEF CancelStream
    <2> QED
        BY <1>3, <2>1, <2>2, <2>3
<1>4. CASE AbortGeneration \/ UNCHANGED vars
    BY <1>4 DEF AbortGeneration, vars
<1>5. ASSUME NEW c \in Call, NEW m \in Calls, Invoke(c, m)
      PROVE  UNCHANGED <<stream, listened, attached>>
    BY <1>5 DEF Invoke
<1>6. ASSUME NEW i \in Instance, Executor(i) PROVE UNCHANGED <<stream, listened, attached>>
    BY <1>6, ExecutorMoves
<1>7. CASE Handler
    <2>1. CASE AnswerCall \/ DeliverToken
        BY <2>1 DEF AnswerCall, DeliverToken
    <2>2. CASE DeliverSentinel
        BY <1>0, <2>2 DEF DeliverSentinel
    <2> QED
        BY <1>7, <2>1, <2>2 DEF Handler
<1> QED
    BY <1>1, <1>2, <1>3, <1>4, <1>5, <1>6, <1>7 DEF Next, Application

\* A stream is given tokens in one step only, and a generation sends them in one.
LEMMA ReceivedOnly ==
    ASSUME TypeOK, [Next]_vars, ~DeliverToken
    PROVE  UNCHANGED received
<1>1. \A i \in Instance : Executor(i) => UNCHANGED received
    BY ExecutorMoves DEF dart
<1> QED
    BY <1>1
    DEF Next, Application, Handler, OnAttachedToEngine, OnDetachedFromEngine,
        GenerateResponse, Listen, CancelStream, AbortGeneration, Invoke, AnswerCall,
        DeliverSentinel, dart, vars

LEMMA GeneratedOnly ==
    ASSUME TypeOK, [Next]_vars, NEW s \in Stream, \A i \in Instance : ~CarriedByThread(i, s)
    PROVE  generated'[s] = generated[s]
<1>1. ASSUME NEW i \in Instance, Executor(i) PROVE generated'[s] = generated[s]
    <2>1. Moves(i)
        BY <1>1, ExecutorMoves
    <2>2. CASE Streams(i)
        BY <2>2 DEF Streams, CarriedByThread, TypeOK
    <2>3. CASE ~Streams(i)
        BY <2>1, <2>3 DEF Moves, Starts, Drops, Refuses, Ends, Leaves, Answers
    <2> QED
        BY <2>2, <2>3
<1>2. CASE Handler
    BY <1>2, HandlerDispatches DEF Dispatches
<1>3. CASE Application \/ UNCHANGED vars
    BY <1>3
    DEF Application, vars, workers, OnAttachedToEngine, OnDetachedFromEngine,
        GenerateResponse, Listen, CancelStream, AbortGeneration, Invoke
<1> QED
    BY <1>1, <1>2, <1>3 DEF Next

\* Every step keeps SinkInv: onListen sets the sink, onCancel clears it.
LEMMA SinkNext ==
    ASSUME TypeOK, FreshInv, SinkInv, [Next]_vars
    PROVE  SinkInv'
<1> USE DEF dart, known, engine, plugin, workers, SinkInv
<1>0. /\ attached # 0 => attached \in Instance
      /\ eventSink \in [Instance -> {0} \cup Stream]
      /\ stream \in [Stream -> {"new", "created", "open", "closed", "cancelled", "lost"}]
    BY Attached DEF TypeOK
<1>1. CASE OnAttachedToEngine
    <2>1. attached' \in Instance /\ attached' > attaches
        BY <1>1, PluginAssumption DEF OnAttachedToEngine, TypeOK, Instance
    <2> QED
        BY <1>1, <2>1 DEF OnAttachedToEngine, FreshInv
<1>2. CASE OnDetachedFromEngine
    BY <1>2 DEF OnDetachedFromEngine
<1>3. ASSUME NEW s \in Stream, GenerateResponse(s) PROVE SinkInv'
    BY <1>0, <1>3 DEF GenerateResponse
<1>a. ASSUME NEW s \in Stream, Listen(s) PROVE SinkInv'
    <2>1. /\ attached' = attached /\ stream' = [stream EXCEPT ![s] = "open"]
          /\ listened' = s /\ eventSink' = [eventSink EXCEPT ![attached] = s]
        BY <1>a DEF Listen
    <2> QED
        BY <1>0, <2>1
<1>4. ASSUME NEW s \in Stream, CancelStream(s) PROVE SinkInv'
    BY <1>0, <1>4 DEF CancelStream, OnCancel
<1>5. CASE AbortGeneration \/ UNCHANGED vars
    BY <1>5 DEF AbortGeneration, vars
<1>6. ASSUME NEW c \in Call, NEW m \in Calls, Invoke(c, m) PROVE SinkInv'
    BY <1>6 DEF Invoke
<1>7. ASSUME NEW i \in Instance, Executor(i) PROVE SinkInv'
    BY <1>7, ExecutorMoves
<1>8. CASE AnswerCall
    BY <1>8 DEF AnswerCall
<1>9. CASE DeliverToken
    BY <1>9 DEF DeliverToken
<1>10. CASE DeliverSentinel
    <2>1. UNCHANGED <<attached, listened>>
        BY <1>10 DEF DeliverSentinel
    <2>2. CASE SinkStream = 0
        BY <1>10, <2>2 DEF DeliverSentinel
    <2>3. CASE SinkStream # 0
        <3>1. eventSink' = [eventSink EXCEPT ![attached] = 0]
            BY <1>10, <2>3 DEF DeliverSentinel, OnCancel
        <3> QED
            BY <1>0, <2>1, <3>1
    <2> QED
        BY <2>2, <2>3
<1> QED
    BY <1>1, <1>2, <1>3, <1>a, <1>4, <1>5, <1>6, <1>7, <1>8, <1>9, <1>10
    DEF Next, Application, Handler

\* A sink leads to the open stream that was listened to last, and only from the
\* attached instance.
LEMMA SinkOpen ==
    ASSUME TypeOK, SinkInv, posts # <<>>, SinkStream # 0
    PROVE  /\ attached # 0 /\ attached \in Instance /\ posts[1].from = attached
           /\ SinkStream \in Stream /\ SinkStream = eventSink[attached]
           /\ SinkStream = listened /\ stream[SinkStream] = "open"
<1>1. posts[1] = Head(posts) /\ Head(posts) \in Post
    BY PostTypes DEF TypeOK
<1>2. Head(posts).from = attached /\ SinkStream = eventSink[attached]
    BY DEF SinkStream, Heard
<1>3. attached \in Instance /\ attached # 0
    BY <1>1, <1>2, PostFacts, Attached
<1>4. SinkStream \in Stream
    BY <1>2, <1>3 DEF TypeOK
<1> QED
    BY <1>1, <1>2, <1>3, <1>4 DEF SinkInv

\* Every step keeps FreshInv.
LEMMA FreshNext ==
    ASSUME TypeOK, UnusedInv, FreshInv, SinkInv, CarrierInv, [Next]_vars
    PROVE  FreshInv'
<1> USE DEF dart, known, engine, plugin, workers
<1>0. /\ attached # 0 => attached \in Instance /\ attached = attaches
      /\ attaches \in Nat /\ Instance \subseteq Nat /\ Stream \subseteq Nat
      /\ listened \in Nat
    BY Attached
<1>1. ASSUME NEW i \in Instance, i > attaches' PROVE eventSink'[i] = 0
    <2>1. attaches' >= attaches
        <3>1. \A j \in Instance : Executor(j) => attaches' = attaches
            BY ExecutorMoves
        <3>2. Handler => attaches' = attaches
            BY HandlerDispatches
        <3>3. OnAttachedToEngine => attaches' = attaches + 1
            BY DEF OnAttachedToEngine
        <3>4. \/ OnDetachedFromEngine \/ AbortGeneration \/ UNCHANGED vars
              \/ \E s \in Stream : GenerateResponse(s) \/ Listen(s) \/ CancelStream(s)
              \/ \E c \in Call, m \in Calls : Invoke(c, m)
              => attaches' = attaches
            BY DEF OnDetachedFromEngine, GenerateResponse, Listen, CancelStream,
                   AbortGeneration, Invoke, vars
        <3>5. attaches' = attaches \/ attaches' = attaches + 1
            BY <3>1, <3>2, <3>3, <3>4, Zenon DEF Next, Application
        <3> QED
            BY <1>0, <3>5
    <2>2. i > attaches /\ (attached # 0 => i # attached)
        <3>1. attaches' \in Nat
            BY TypeNext, PluginAssumption DEF TypeOK
        <3> QED
            BY <1>0, <1>1, <2>1, <3>1
    <2>3. eventSink[i] = 0
        BY <2>2 DEF FreshInv
    <2>4. eventSink'[i] = eventSink[i]
        <3>1. eventSink \in [Instance -> {0} \cup Stream]
            BY DEF TypeOK
        <3>2. \A s \in Stream : Listen(s) \/ CancelStream(s) => eventSink'[i] = eventSink[i]
            BY <2>2, <3>1 DEF Listen, CancelStream, OnCancel
        <3>3. \A j \in Instance : Executor(j) => eventSink' = eventSink
            BY ExecutorMoves
        <3>4. DeliverSentinel => eventSink'[i] = eventSink[i]
            <4>1. CASE SinkStream = 0
                BY <4>1 DEF DeliverSentinel
            <4>2. CASE SinkStream # 0
                <5>1. ASSUME DeliverSentinel PROVE attached # 0
                    BY <4>2, <5>1, SinkOpen DEF DeliverSentinel, Runnable
                <5> QED
                    BY <2>2, <3>1, <4>2, <5>1 DEF DeliverSentinel, OnCancel
            <4> QED
                BY <4>1, <4>2
        <3> QED
            BY <3>2, <3>3, <3>4
            DEF Next, Application, Handler, OnAttachedToEngine, OnDetachedFromEngine,
                GenerateResponse, AbortGeneration, Invoke, AnswerCall, DeliverToken, vars
    <2> QED
        BY <2>3, <2>4
<1>2. ASSUME NEW s \in Stream, s > listened'
      PROVE  /\ received'[s] = <<>> /\ generated'[s] = 0
             /\ stream'[s] \in {"new", "created"}
    <2>1. listened' \in Nat /\ listened' >= listened
        BY <1>0, StreamMoves
    <2>2. s > listened /\ s # listened /\ s # listened'
        BY <1>0, <1>2, <2>1
    <2>3. received[s] = <<>> /\ generated[s] = 0 /\ stream[s] \in {"new", "created"}
        BY <2>2 DEF FreshInv
    <2>4. generated'[s] = generated[s]
        <3>1. \A i \in Instance : ~Carries(i, s)
            BY <1>0, <2>2 DEF CarrierInv
        <3> QED
            BY <3>1, GeneratedOnly DEF Carries, CarriedByWorker
    <2>5. received'[s] = received[s]
        <3>1. CASE DeliverToken
            <4>1. CASE SinkStream = 0
                BY <3>1, <4>1 DEF DeliverToken
            <4>2. CASE SinkStream # 0
                <5>1. SinkStream # s
                    BY <2>2, <3>1, <4>2, SinkOpen DEF DeliverToken, Runnable
                <5> QED
                    BY <3>1, <4>2, <5>1 DEF DeliverToken, TypeOK
            <4> QED
                BY <4>1, <4>2
        <3> QED
            BY <3>1, ReceivedOnly
    <2>6. stream'[s] \in {"new", "created"}
        <3>1. stream \in [Stream -> {"new", "created", "open", "closed", "cancelled", "lost"}]
            BY DEF TypeOK
        <3>2. \A t \in Stream : GenerateResponse(t) \/ CancelStream(t) =>
                 stream'[s] \in {"new", "created"}
            BY <2>3, <3>1 DEF GenerateResponse, CancelStream
        <3>3. \A t \in Stream : Listen(t) => stream'[s] = stream[s]
            <4>1. ASSUME NEW t \in Stream, Listen(t) PROVE stream'[s] = stream[s]
                <5>1. listened' = t /\ stream' = [stream EXCEPT ![t] = "open"]
                    BY <4>1 DEF Listen
                <5> QED
                    BY <2>2, <3>1, <5>1
            <4> QED
                BY <4>1
        <3>4. OnDetachedFromEngine => stream'[s] = "new"
            BY <2>3, <3>1 DEF OnDetachedFromEngine
        <3>5. \A j \in Instance : Executor(j) => stream' = stream
            BY ExecutorMoves
        <3>6. DeliverSentinel => stream'[s] = stream[s]
            <4>1. CASE SinkStream = 0
                BY <4>1 DEF DeliverSentinel
            <4>2. CASE SinkStream # 0
                <5>1. ASSUME DeliverSentinel PROVE SinkStream # s
                    BY <2>2, <4>2, <5>1, SinkOpen DEF DeliverSentinel, Runnable
                <5> QED
                    BY <3>1, <4>2, <5>1 DEF DeliverSentinel
            <4> QED
                BY <4>1, <4>2
        <3> QED
            BY <2>3, <3>2, <3>3, <3>4, <3>5, <3>6
            DEF Next, Application, Handler, OnAttachedToEngine, AbortGeneration, Invoke,
                AnswerCall, DeliverToken, vars
    <2> QED
        BY <2>3, <2>4, <2>5, <2>6
<1> QED
    BY <1>1, <1>2 DEF FreshInv

\* Every step keeps CarrierInv.
LEMMA CarrierNext ==
    ASSUME TypeOK, CarrierInv, [Next]_vars
    PROVE  CarrierInv'
<1>0. Stream \subseteq Nat /\ listened \in Nat /\ 0 \notin Instance
    BY Attached
<1>1. SUFFICES ASSUME NEW i \in Instance, NEW s \in Stream, Carries(i, s)'
               PROVE  s <= listened' /\ (i # attached' => stream'[s] # "open")
    BY DEF CarrierInv
<1>2. Carries(i, s) \/ (i = attached /\ Listen(s))
    BY <1>1, CarriersNext
<1>3. CASE i = attached /\ Listen(s)
    <2>1. listened' = s /\ attached' = attached
        BY <1>3 DEF Listen
    <2> QED
        BY <1>0, <1>3, <2>1
<1>4. CASE Carries(i, s)
    <2>1. s <= listened /\ (i # attached => stream[s] # "open")
        BY <1>4 DEF CarrierInv
    <2>2. s <= listened' /\ ~Listen(s)
        <3>1. Listen(s) => s = listened + 1
            BY DEF Listen
        <3>2. listened' = listened \/ listened' = listened + 1
            BY StreamMoves
        <3> QED
            BY <1>0, <2>1, <3>1, <3>2
    <2>3. i # attached' => stream'[s] # "open"
        BY <1>0, <2>1, <2>2, StreamMoves
    <2> QED
        BY <2>2, <2>3
<1> QED
    BY <1>2, <1>3, <1>4


-----------------------------------------------------------------------------
\* The order of what an instance has in hand, for every application.
LEMMA Floors ==
    /\ JobFloor(Idle) = 0
    /\ \A job : IsGeneration(job) => JobFloor(job) = job.id
    /\ \A job : job.method \in Methods => JobFloor(job) = askedAfter[job.id]
    /\ \A i \in Instance : JobFloor(CleaningUp(i)) = 0
    /\ \A p : /\ p.kind = "sentinel" => PostFloor(p) = p.id
              /\ p.kind = "result" => PostFloor(p) = askedAfter[p.id]
              /\ p.kind = "token" => PostFloor(p) = 0
BY DEF JobFloor, PostFloor, IsGeneration, Methods, Idle, CleaningUp

LEMMA SameFloors ==
    ASSUME UNCHANGED askedAfter, NEW x
    PROVE  JobFloor(x)' = JobFloor(x) /\ PostFloor(x)' = PostFloor(x)
BY DEF JobFloor, PostFloor

\* What other instances post does not matter.
LEMMA OrderOfOthers ==
    ASSUME TypeOK, NEW a \in Instance, Ordered(a), UNCHANGED askedAfter,
           queue'[a] = queue[a], running'[a] = running[a],
           posts' = posts \/ \E p : Posts(p) /\ p.from # a
    PROVE  Ordered(a)'
<1>1. QueueOrder(a)' /\ ThreadOrder(a)'
    BY SameFloors DEF Ordered, QueueOrder, ThreadOrder
<1>2. \A s : CarriedByWorker(a, s)' <=> CarriedByWorker(a, s)
    BY DEF CarriedByWorker, CarriedByQueue, CarriedByThread
<1>3. PostOrder(a)'
    <2>1. CASE posts' = posts
        BY <1>2, <2>1, SameFloors DEF Ordered, PostOrder, OfReply
    <2>2. ASSUME NEW p, Posts(p), p.from # a PROVE PostOrder(a)'
        <3>1. \A k \in 1..Len(posts') : posts'[k].from = a =>
                 k \in 1..Len(posts) /\ posts'[k] = posts[k]
            BY <2>2, PostsAppend
        <3> QED
            BY <1>2, <3>1, SameFloors DEF Ordered, PostOrder, OfReply
    <2> QED
        BY <2>1, <2>2
<1> QED
    BY <1>1, <1>3 DEF Ordered

\* The main thread takes the first runnable; all that is left of the instance is
\* later than it.
LEMMA DispatchOrder ==
    ASSUME TypeOK, NEW a \in Instance, Ordered(a), Dispatches, UNCHANGED askedAfter
    PROVE  Ordered(a)'
<1>1. QueueOrder(a)' /\ ThreadOrder(a)'
    BY SameFloors DEF Ordered, QueueOrder, ThreadOrder, Dispatches
<1>2. PostOrder(a)'
    <2>1. \A s : CarriedByWorker(a, s)' <=> CarriedByWorker(a, s)
        BY DispatchShrinks
    <2> SUFFICES ASSUME NEW k \in 1..Len(posts'), posts'[k].from = a
                 PROVE  /\ \A j \in 1..Len(posts') : k < j /\ OfReply(a, j)'
                               => posts'[j].id > PostFloor(posts'[k])
                        /\ \A s \in Stream : CarriedByWorker(a, s)
                               => s > PostFloor(posts'[k])
        BY <2>1, SameFloors DEF PostOrder
    <2>2. k + 1 \in 1..Len(posts) /\ posts'[k] = posts[k + 1]
        BY PostsTail
    <2>3. ASSUME NEW j \in 1..Len(posts'), k < j, OfReply(a, j)'
          PROVE  posts'[j].id > PostFloor(posts'[k])
        <3>1. j + 1 \in 1..Len(posts) /\ posts'[j] = posts[j + 1] /\ k + 1 < j + 1
            BY <2>3, PostsTail
        <3> QED
            BY <2>2, <2>3, <3>1 DEF Ordered, PostOrder, OfReply
    <2> QED
        BY <2>2, <2>3 DEF Ordered, PostOrder
<1> QED
    BY <1>1, <1>2 DEF Ordered

LEMMA HeadFloor ==
    ASSUME TypeOK, NEW a \in Instance, Ordered(a), Dispatches, posts[1].from = a,
           NEW s \in Stream, Carries(a, s)'
    PROVE  s > PostFloor(posts[1])
<1>1. CASE CarriedByWorker(a, s)'
    <2>1. CarriedByWorker(a, s)
        BY <1>1, DispatchShrinks
    <2> QED
        BY <2>1, PostsTail DEF Ordered, PostOrder
<1>2. CASE CarriedByPost(a, s)'
    <2>1. PICK k \in 1..Len(posts') : OfReply(a, k)' /\ posts'[k].id = s
        BY <1>2 DEF CarriedByPost
    <2>2. /\ k + 1 \in 1..Len(posts) /\ 1 \in 1..Len(posts) /\ 1 < k + 1
          /\ posts'[k] = posts[k + 1]
        BY PostsTail
    <2> QED
        BY <2>1, <2>2 DEF Ordered, PostOrder, OfReply
<1> QED
    BY <1>1, <1>2 DEF Carries

\* When a job is taken from the queue all that is left there is later than it.
LEMMA TakenOrder ==
    ASSUME TypeOK, NEW a \in Instance, Ordered(a), TakesJob(a), UNCHANGED askedAfter
    PROVE  /\ QueueOrder(a)'
           /\ \A k \in 1..Len(queue'[a]) :
                 IsGeneration(queue'[a][k]) => queue'[a][k].id > JobFloor(Head(queue[a]))
<1>1. queue[a] # <<>> /\ queue'[a] = Tail(queue[a])
    BY DEF TakesJob, TypeOK
<1>2. /\ Head(queue[a]) = queue[a][1] /\ 1 \in 1..Len(queue[a])
      /\ \A k \in 1..Len(queue'[a]) :
            queue'[a][k] = queue[a][k + 1] /\ k + 1 \in 1..Len(queue[a]) /\ 1 < k + 1
    BY <1>1, JobTail
<1>3. ASSUME NEW j \in 1..Len(queue'[a]), NEW k \in 1..Len(queue'[a]), j < k,
             IsGeneration(queue'[a][k])
      PROVE  queue'[a][k].id > JobFloor(queue'[a][j])
    <2>1. j + 1 < k + 1
        BY <1>3
    <2> QED
        BY <1>2, <1>3, <2>1 DEF Ordered, QueueOrder
<1>4. QueueOrder(a)'
    BY <1>3, SameFloors DEF QueueOrder, IsGeneration
<1>5. ASSUME NEW k \in 1..Len(queue'[a]), IsGeneration(queue'[a][k])
      PROVE  queue'[a][k].id > JobFloor(Head(queue[a]))
    BY <1>2, <1>5 DEF Ordered, QueueOrder
<1> QED
    BY <1>4, <1>5

\* What an instance posts is in order when nothing it keeps is older.
LEMMA PostedOrder ==
    ASSUME TypeOK, NEW a \in Instance, PostOrder(a), UNCHANGED askedAfter,
           NEW p, Posts(p), p.from = a,
           \A s \in Stream : CarriedByWorker(a, s)' =>
                                CarriedByWorker(a, s) /\ s > PostFloor(p),
           p.kind # "result" => CarriedByWorker(a, p.id)
    PROVE  PostOrder(a)'
<1>0. /\ Len(posts) \in Nat /\ Len(posts') = Len(posts) + 1
      /\ posts'[Len(posts) + 1] = p
      /\ \A k \in 1..Len(posts) : posts'[k] = posts[k]
      /\ \A k \in 1..Len(posts') : k \in 1..Len(posts) \/ k = Len(posts) + 1
    BY PostsAppend
<1>1. p.kind # "result" => p.id \in Stream
    BY PostFacts DEF Posts
<1> SUFFICES ASSUME NEW k \in 1..Len(posts'), posts'[k].from = a
             PROVE  /\ \A j \in 1..Len(posts') : k < j /\ OfReply(a, j)'
                           => posts'[j].id > PostFloor(posts'[k])
                    /\ \A s \in Stream : CarriedByWorker(a, s)' => s > PostFloor(posts'[k])
    BY SameFloors DEF PostOrder
<1>2. CASE k \in 1..Len(posts)
    <2>1. \A s \in Stream : CarriedByWorker(a, s) => s > PostFloor(posts'[k])
        BY <1>0, <1>2 DEF PostOrder
    <2>2. ASSUME NEW j \in 1..Len(posts'), k < j, OfReply(a, j)'
          PROVE  posts'[j].id > PostFloor(posts'[k])
        <3>1. CASE j \in 1..Len(posts)
            BY <1>0, <1>2, <2>2, <3>1 DEF PostOrder, OfReply
        <3>2. CASE j = Len(posts) + 1
            <4>1. posts'[j] = p /\ p.kind # "result"
                BY <1>0, <2>2, <3>2 DEF OfReply
            <4> QED
                BY <1>1, <2>1, <4>1
        <3> QED
            BY <1>0, <3>1, <3>2
    <2> QED
        BY <2>1, <2>2
<1>3. CASE k = Len(posts) + 1
    <2>1. \A j \in 1..Len(posts') : ~(k < j)
        BY <1>0, <1>3
    <2> QED
        BY <1>0, <1>3, <2>1
<1> QED
    BY <1>0, <1>2, <1>3

LEMMA MovesOrder ==
    ASSUME TypeOK, NEW i \in Instance, Moves(i), NEW a \in Instance, Ordered(a),
           UNCHANGED askedAfter
    PROVE  Ordered(a)'
<1>1. CASE i # a
    <2>1. queue'[a] = queue[a] /\ running'[a] = running[a]
        BY <1>1, MovesAlone
    <2>2. posts' = posts \/ \E p : Posts(p) /\ p.from # a
        BY <1>1, MovesAlone
    <2> QED
        BY <2>1, <2>2, OrderOfOthers
<1>2. CASE i = a
    <2> USE <1>2
    <2>0. /\ running \in [Instance -> Job] /\ JobFloor(Idle) = 0
          /\ JobFloor(CleaningUp(a)) = 0 /\ ~IsGeneration(Idle)
          /\ ~IsGeneration(CleaningUp(a))
          /\ \A x : JobFloor(x)' = JobFloor(x)
        BY Floors, SameFloors DEF IsGeneration, Idle, CleaningUp, TypeOK
    <2>1. \A s : CarriedByWorker(a, s)' => CarriedByWorker(a, s)
        BY MovesShrink
    <2>2. PostOrder(a)
        BY DEF Ordered
    <2>3. posts' = posts => PostOrder(a)'
        BY <2>1, <2>2, SameFloors DEF PostOrder, OfReply
    <2>4. \A job \in Job : JobFloor(job) \in Nat
        BY JobFacts, Attached DEF JobFloor
    <2>5. CASE Starts(a)
        <3>1. TakesJob(a) /\ running'[a] = Head(queue[a]) /\ posts' = posts
            BY <2>0, <2>5 DEF Starts, Runs
        <3>2. QueueOrder(a)'
              /\ \A k \in 1..Len(queue'[a]) :
                    IsGeneration(queue'[a][k]) => queue'[a][k].id > JobFloor(Head(queue[a]))
            BY <3>1, TakenOrder
        <3>3. ThreadOrder(a)'
            BY <2>0, <3>1, <3>2 DEF ThreadOrder, IsGeneration
        <3> QED
            BY <2>3, <3>1, <3>2, <3>3 DEF Ordered
    <2>6. CASE Drops(a) \/ Refuses(a)
        <3>1. /\ TakesJob(a) /\ running'[a] = Idle /\ queue[a] # <<>>
              /\ queue'[a] = Tail(queue[a])
            BY <2>6 DEF Drops, Refuses, TakesJob, TypeOK
        <3>2. QueueOrder(a)'
              /\ \A k \in 1..Len(queue'[a]) :
                    IsGeneration(queue'[a][k]) => queue'[a][k].id > JobFloor(Head(queue[a]))
            BY <3>1, TakenOrder
        <3>3. JobFloor(Head(queue[a])) \in Nat
            BY <2>4, <3>1, JobTypes DEF NextJob
        <3>4. \A k \in 1..Len(queue'[a]) : IsGeneration(queue'[a][k]) =>
                 queue'[a][k].id \in Nat
            BY <3>1, JobTypes, JobTail, JobFacts
        <3>5. ThreadOrder(a)'
            BY <2>0, <3>1, <3>2, <3>3, <3>4 DEF ThreadOrder, IsGeneration
        <3>6. PostOrder(a)'
            <4>1. CASE Drops(a)
                BY <2>3, <4>1 DEF Drops
            <4>2. CASE Refuses(a)
                <5> DEFINE p == Posted(a, "result", Head(queue[a]).id, FALSE, 0)
                <5>1. p.kind = "result" /\ p.from = a /\ p.id = Head(queue[a]).id
                    BY DEF Posted
                <5>2. Posts(p) /\ Head(queue[a]).method \in Methods
                    BY <4>2 DEF Refuses
                <5>3. PostFloor(p) = JobFloor(Head(queue[a]))
                    BY <5>1, <5>2, Floors
                <5> HIDE DEF p
                <5>4. ASSUME NEW s \in Stream, CarriedByWorker(a, s)'
                      PROVE  CarriedByWorker(a, s) /\ s > PostFloor(p)
                    BY <2>0, <2>1, <3>1, <3>2, <5>3, <5>4
                    DEF CarriedByWorker, CarriedByQueue, CarriedByThread, IsGeneration
                <5> QED
                    BY <2>2, <5>1, <5>2, <5>4, PostedOrder
            <4> QED
                BY <2>6, <4>1, <4>2
        <3> QED
            BY <3>2, <3>5, <3>6 DEF Ordered
    <2>7. ASSUME KeepsQueue PROVE QueueOrder(a)'
        BY <2>0, <2>7 DEF Ordered, QueueOrder, KeepsQueue, IsGeneration
    <2>8. ASSUME KeepsQueue,
                 running'[a] = running[a] \/ running'[a] = Idle \/ running'[a] = CleaningUp(a)
          PROVE  ThreadOrder(a)'
        <3>1. \A k \in 1..Len(queue[a]) : IsGeneration(queue[a][k]) =>
                 queue[a][k].id > JobFloor(running[a])
            BY DEF Ordered, ThreadOrder
        <3>2. JobFloor(running[a]) \in Nat
            BY <2>4, JobTypes
        <3>3. \A k \in 1..Len(queue[a]) : IsGeneration(queue[a][k]) =>
                 queue[a][k].id \in Nat
            BY JobTypes, JobFacts
        <3>4. JobFloor(running'[a]) <= JobFloor(running[a])
            BY <2>0, <2>8, <3>2
        <3> QED
            BY <2>0, <2>8, <3>1, <3>2, <3>3, <3>4 DEF ThreadOrder, KeepsQueue, IsGeneration
    <2>9. CASE Streams(a)
        <3> DEFINE p == Posted(a, "token", running[a].id, TRUE, generated[running[a].id] + 1)
        <3>1. /\ KeepsQueue /\ running' = running /\ Posts(p)
              /\ CarriedByThread(a, running[a].id)
            BY <2>9 DEF Streams, CarriedByThread
        <3>2. p.kind = "token" /\ p.from = a /\ p.id = running[a].id
            BY DEF Posted
        <3> HIDE DEF p
        <3>3. PostFloor(p) = 0
            BY <3>2, Floors
        <3>4. \A s \in Stream : s > PostFloor(p)
            BY <3>3, Attached
        <3>5. PostOrder(a)'
            BY <2>1, <2>2, <3>1, <3>2, <3>4, PostedOrder DEF CarriedByWorker
        <3> QED
            BY <2>7, <2>8, <3>1, <3>5 DEF Ordered
    <2>10. CASE Ends(a)
        <3> DEFINE p == Posted(a, "sentinel", running[a].id, TRUE, 0)
        <3>1. /\ KeepsQueue /\ running'[a] = CleaningUp(a) /\ Posts(p)
              /\ CarriedByThread(a, running[a].id) /\ IsGeneration(running[a])
            BY <2>0, <2>10 DEF Ends, Runs, CarriedByThread
        <3>2. p.kind = "sentinel" /\ p.from = a /\ p.id = running[a].id
            BY DEF Posted
        <3> HIDE DEF p
        <3>3. PostFloor(p) = JobFloor(running[a])
            BY <3>1, <3>2, Floors
        <3>4. ASSUME NEW s \in Stream, CarriedByWorker(a, s)'
              PROVE  CarriedByWorker(a, s) /\ s > PostFloor(p)
            BY <2>0, <2>1, <3>1, <3>3, <3>4
            DEF CarriedByWorker, CarriedByQueue, CarriedByThread, IsGeneration, KeepsQueue,
                Ordered, ThreadOrder
        <3>5. PostOrder(a)'
            BY <2>2, <3>1, <3>2, <3>4, PostedOrder DEF CarriedByWorker
        <3> QED
            BY <2>7, <2>8, <3>1, <3>5 DEF Ordered
    <2>11. CASE Leaves(a)
        <3>1. KeepsQueue /\ running'[a] = Idle /\ posts' = posts
            BY <2>0, <2>11 DEF Leaves, Runs
        <3> QED
            BY <2>3, <2>7, <2>8, <3>1 DEF Ordered
    <2>12. CASE Answers(a)
        <3>1. PICK ok \in BOOLEAN : Posts(Posted(a, "result", running[a].id, ok, 0))
            BY <2>12 DEF Answers
        <3> DEFINE p == Posted(a, "result", running[a].id, ok, 0)
        <3>2. p.kind = "result" /\ p.from = a /\ p.id = running[a].id
            BY DEF Posted
        <3>3. KeepsQueue /\ running'[a] = Idle /\ Posts(p) /\ running[a].method \in Methods
            BY <2>0, <2>12, <3>1 DEF Answers, Runs
        <3> HIDE DEF p
        <3>4. PostFloor(p) = JobFloor(running[a])
            BY <3>2, <3>3, Floors
        <3>5. ASSUME NEW s \in Stream, CarriedByWorker(a, s)'
              PROVE  CarriedByWorker(a, s) /\ s > PostFloor(p)
            BY <2>0, <2>1, <3>3, <3>4, <3>5
            DEF CarriedByWorker, CarriedByQueue, CarriedByThread, IsGeneration, KeepsQueue,
                Ordered, ThreadOrder
        <3>6. PostOrder(a)'
            BY <2>2, <3>2, <3>3, <3>5, PostedOrder
        <3> QED
            BY <2>7, <2>8, <3>3, <3>6 DEF Ordered
    <2> QED
        BY <2>5, <2>6, <2>9, <2>10, <2>11, <2>12 DEF Moves
<1> QED
    BY <1>1, <1>2

\* Nothing that is known or in hand is later than the last stream listened to.
LEMMA FloorsAreKnown ==
    ASSUME TypeOK, CarrierInv, KnownInv, NEW a \in Instance
    PROVE  /\ \A k \in 1..Len(queue[a]) : JobFloor(queue[a][k]) <= listened
           /\ JobFloor(running[a]) <= listened
           /\ \A k \in 1..Len(posts) : posts[k].from = a => PostFloor(posts[k]) <= listened
<1>1. \A c \in Call : askedAfter[c] <= listened
    BY DEF KnownInv
<1>2. \A s \in Stream : Carries(a, s) => s <= listened
    BY DEF CarrierInv
<1>3. ASSUME NEW job \in Job, IsGeneration(job) => Carries(a, job.id)
      PROVE  JobFloor(job) <= listened
    BY <1>1, <1>2, <1>3, JobFacts, Attached DEF JobFloor
<1>4. ASSUME NEW k \in 1..Len(queue[a]) PROVE JobFloor(queue[a][k]) <= listened
    <2>1. queue[a][k] \in Job
        BY JobTypes
    <2>2. IsGeneration(queue[a][k]) => Carries(a, queue[a][k].id)
        BY DEF Carries, CarriedByWorker, CarriedByQueue
    <2> QED
        BY <1>3, <2>1, <2>2
<1>5. JobFloor(running[a]) <= listened
    <2>1. IsGeneration(running[a]) => Carries(a, running[a].id)
        BY DEF Carries, CarriedByWorker, CarriedByThread
    <2> QED
        BY <1>3, <2>1, JobTypes
<1>6. ASSUME NEW k \in 1..Len(posts), posts[k].from = a
      PROVE  PostFloor(posts[k]) <= listened
    <2>1. posts[k] \in Post
        BY PostTypes
    <2>2. posts[k].kind # "result" => Carries(a, posts[k].id)
        BY <1>6 DEF Carries, CarriedByPost, OfReply
    <2> QED
        BY <1>1, <1>2, <2>1, <2>2, PostFacts, Attached DEF PostFloor
<1> QED
    BY <1>4, <1>5, <1>6

\* A job that is queued behind everything keeps the order when it is a generation
\* of a new stream, or no generation at all.
LEMMA QueuedOrder ==
    ASSUME TypeOK, NEW a \in Instance, Ordered(a), NEW job \in Job, Execute(a, job),
           UNCHANGED <<running, posts>>,
           \A x : (\E k \in 1..Len(queue[a]) : x = queue[a][k]) \/ x = running[a] =>
              JobFloor(x)' = JobFloor(x),
           \A x : (\E k \in 1..Len(posts) : x = posts[k] /\ x.from = a) =>
              PostFloor(x)' = PostFloor(x),
           IsGeneration(job) =>
              /\ \A k \in 1..Len(queue[a]) : job.id > JobFloor(queue[a][k])
              /\ job.id > JobFloor(running[a])
              /\ \A k \in 1..Len(posts) : posts[k].from = a => job.id > PostFloor(posts[k])
    PROVE  Ordered(a)'
<1>1. queue'[a] = Append(queue[a], job) /\ queue[a] \in Seq(Job)
    BY DEF Execute, TypeOK
<1> HIDE DEF Job
<1>2. /\ Len(queue'[a]) = Len(queue[a]) + 1 /\ queue'[a][Len(queue[a]) + 1] = job
      /\ \A k \in 1..Len(queue[a]) : queue'[a][k] = queue[a][k]
      /\ \A k \in 1..Len(queue'[a]) : k \in 1..Len(queue[a]) \/ k = Len(queue[a]) + 1
      /\ Len(queue[a]) \in Nat
    BY <1>1, SeqAppend
<1>3. QueueOrder(a)'
    <2>1. ASSUME NEW j \in 1..Len(queue'[a]), NEW k \in 1..Len(queue'[a]), j < k,
                 IsGeneration(queue'[a][k])
          PROVE  queue'[a][k].id > JobFloor(queue[a][j]) /\ j \in 1..Len(queue[a])
        <3>1. j \in 1..Len(queue[a])
            BY <1>2, <2>1
        <3>2. CASE k \in 1..Len(queue[a])
            BY <1>2, <2>1, <3>1, <3>2 DEF Ordered, QueueOrder
        <3>3. CASE k = Len(queue[a]) + 1
            BY <1>2, <2>1, <3>1, <3>3
        <3> QED
            BY <1>2, <3>1, <3>2, <3>3
    <2>2. \A x : (\E j \in 1..Len(queue[a]) : x = queue'[a][j]) => JobFloor(x)' = JobFloor(x)
        BY <1>2
    <2>3. ASSUME NEW j \in 1..Len(queue'[a]), NEW k \in 1..Len(queue'[a]), j < k,
                 IsGeneration(queue'[a][k]), NEW x, x = queue'[a][j]
          PROVE  queue'[a][k].id > JobFloor(x)'
        <3>1. queue'[a][k].id > JobFloor(queue[a][j]) /\ j \in 1..Len(queue[a])
            BY <2>1, <2>3
        <3> QED
            BY <1>2, <2>2, <2>3, <3>1
    <2> QED
        BY <2>3 DEF QueueOrder, IsGeneration
<1>4. ThreadOrder(a)'
    <2>1. \A k \in 1..Len(queue'[a]) : IsGeneration(queue'[a][k]) =>
             queue'[a][k].id > JobFloor(running[a])
        BY <1>2 DEF Ordered, ThreadOrder
    <2>2. \A x : x = running'[a] => JobFloor(x)' = JobFloor(x) /\ x = running[a]
        OBVIOUS
    <2> QED
        BY <2>1, <2>2 DEF ThreadOrder, IsGeneration
<1>5. PostOrder(a)'
    <2>1. \A s : CarriedByWorker(a, s)' =>
                    CarriedByWorker(a, s) \/ (IsGeneration(job) /\ job.id = s)
        BY EnqueueAdds
    <2>2. ASSUME NEW k \in 1..Len(posts), posts[k].from = a
          PROVE  /\ \A j \in 1..Len(posts) : k < j /\ OfReply(a, j)
                       => posts[j].id > PostFloor(posts[k])
                 /\ \A s \in Stream : CarriedByWorker(a, s)' => s > PostFloor(posts[k])
        BY <2>1, <2>2 DEF Ordered, PostOrder
    <2>3. \A x : (\E k \in 1..Len(posts) : x = posts'[k] /\ x.from = a) =>
             PostFloor(x)' = PostFloor(x)
        OBVIOUS
    <2>4. ASSUME NEW k \in 1..Len(posts), posts[k].from = a, NEW x, x = posts'[k]
          PROVE  x = posts[k] /\ PostFloor(x)' = PostFloor(x)
        BY <2>3, <2>4
    <2> QED
        BY <2>2, <2>4 DEF PostOrder, OfReply
<1> QED
    BY <1>3, <1>4, <1>5 DEF Ordered

\* Every step keeps OrderInv.  A stream that is listened to is a new one, and a
\* call that is made has not been in hand before.
LEMMA OrderNext ==
    ASSUME TypeOK, UnusedInv, CallInv, CarrierInv, KnownInv, OrderInv, [Next]_vars
    PROVE  OrderInv'
<1> USE DEF dart, known, engine, plugin, workers
<1> HIDE DEF Job, Post
<1>0. \A a \in Instance : attached = a => Ordered(a)
    BY Attached DEF OrderInv
<1>1. SUFFICES ASSUME NEW a \in Instance, attached' = a PROVE Ordered(a)'
    <2>1. TypeOK'
        BY TypeNext
    <2>2. attached' # 0 => attached' \in Instance
        BY <2>1, PluginAssumption DEF TypeOK, Instance
    <2> QED
        BY <1>1, <2>2 DEF OrderInv
<1>2. CASE OnAttachedToEngine
    <2>1. a > attaches /\ UNCHANGED <<queue, running, posts>>
        BY <1>1, <1>2, Attached DEF OnAttachedToEngine
    <2>2. queue'[a] = <<>> /\ \A k \in 1..Len(posts') : posts'[k].from # a
        BY <2>1 DEF UnusedInv, Unused
    <2> QED
        BY <2>2 DEF Ordered, QueueOrder, ThreadOrder, PostOrder
<1>3. CASE OnDetachedFromEngine
    BY <1>1, <1>3, Attached DEF OnDetachedFromEngine
<1>4. CASE AbortGeneration \/ UNCHANGED vars
           \/ \E s \in Stream : GenerateResponse(s) \/ CancelStream(s)
    <2>1. UNCHANGED <<attached, queue, running, posts, askedAfter>>
        BY <1>4 DEF AbortGeneration, vars, GenerateResponse, CancelStream
    <2>2. Ordered(a) /\ posts' = posts /\ queue'[a] = queue[a] /\ running'[a] = running[a]
        BY <1>0, <1>1, <2>1
    <2> QED
        BY <2>1, <2>2, OrderOfOthers
<1>5. ASSUME NEW s \in Stream, Listen(s) PROVE Ordered(a)'
    <2> DEFINE job == [method |-> "startGeneration", id |-> s]
    <2>1. /\ attached = a /\ Execute(a, job) /\ UNCHANGED <<running, posts, askedAfter>>
          /\ s = listened + 1
        BY <1>1, <1>5 DEF Listen
    <2>2. job \in Job /\ job.id = s
        BY JobsMade
    <2> HIDE DEF job
    <2>3. \A x \in Nat : x <= listened => job.id > x
        BY <2>1, <2>2, Attached
    <2>4. /\ \A k \in 1..Len(queue[a]) : job.id > JobFloor(queue[a][k])
          /\ job.id > JobFloor(running[a])
          /\ \A k \in 1..Len(posts) : posts[k].from = a => job.id > PostFloor(posts[k])
        <3>1. \A j \in Job : JobFloor(j) \in Nat
            BY JobFacts, Attached DEF JobFloor
        <3>2. \A p \in Post : PostFloor(p) \in Nat
            BY PostFacts, Attached DEF PostFloor
        <3>3. /\ \A k \in 1..Len(queue[a]) : queue[a][k] \in Job
              /\ running[a] \in Job /\ \A k \in 1..Len(posts) : posts[k] \in Post
            BY JobTypes, PostTypes
        <3> QED
            BY <2>3, <3>1, <3>2, <3>3, FloorsAreKnown
    <2>5. Ordered(a)
        BY <1>0, <2>1
    <2>6. \A x : JobFloor(x)' = JobFloor(x) /\ PostFloor(x)' = PostFloor(x)
        BY <2>1, SameFloors
    <2> QED
        BY <2>1, <2>2, <2>4, <2>5, <2>6, QueuedOrder
<1>6. ASSUME NEW c \in Call, NEW m \in Calls, Invoke(c, m) PROVE Ordered(a)'
    <2>1. /\ attached = a /\ UNCHANGED <<running, posts>> /\ asked[c] = "no"
          /\ askedAfter' = [askedAfter EXCEPT ![c] = listened]
        BY <1>1, <1>6 DEF Invoke
    <2>2. NotHeld(a, c) /\ Ordered(a)
        BY <1>0, <1>1, <2>1, Attached DEF CallInv
    <2>3. \A d \in Call : d # c => askedAfter'[d] = askedAfter[d]
        BY <2>1 DEF TypeOK
    <2>4. ASSUME NEW j \in Job, ~IsCall(j, c) PROVE JobFloor(j)' = JobFloor(j)
        BY <2>3, <2>4, JobFacts DEF JobFloor, IsCall, IsGeneration
    <2>5. ASSUME NEW p \in Post, p.kind = "result" => p.id # c
          PROVE  PostFloor(p)' = PostFloor(p)
        BY <2>3, <2>5, PostFacts DEF PostFloor
    <2>6. \A x : (\E k \in 1..Len(queue[a]) : x = queue[a][k]) \/ x = running[a] =>
             JobFloor(x)' = JobFloor(x)
        <3>1. \A k \in 1..Len(queue[a]) : queue[a][k] \in Job /\ ~IsCall(queue[a][k], c)
            BY <2>2, JobTypes DEF NotHeld, InQueue, IsCall
        <3>2. running[a] \in Job /\ ~IsCall(running[a], c)
            BY <2>2, JobTypes DEF NotHeld, OnThread, IsCall
        <3> QED
            BY <2>4, <3>1, <3>2
    <2>7. \A x : (\E k \in 1..Len(posts) : x = posts[k] /\ x.from = a) =>
             PostFloor(x)' = PostFloor(x)
        <3>1. \A k \in 1..Len(posts) : posts[k].from = a =>
                 posts[k] \in Post /\ (posts[k].kind = "result" => posts[k].id # c)
            BY <2>2, PostTypes DEF NotHeld, InPosts
        <3> QED
            BY <2>5, <3>1
    <2>8. CASE isAvailable
        <3> DEFINE job == [method |-> m, id |-> c]
        <3>1. job \in Job /\ ~IsGeneration(job) /\ Execute(a, job)
            BY <1>6, <2>1, <2>8, JobsMade, PluginAssumption
            DEF Invoke, IsGeneration, Methods
        <3> HIDE DEF job
        <3> QED
            BY <2>1, <2>2, <2>6, <2>7, <3>1, QueuedOrder
    <2>9. CASE ~isAvailable
        <3>1. queue' = queue
            BY <1>6, <2>9 DEF Invoke, Unavailable
        <3>2. QueueOrder(a)' /\ ThreadOrder(a)'
            BY <2>1, <2>2, <2>6, <3>1 DEF Ordered, QueueOrder, ThreadOrder, IsGeneration
        <3>3. \A s : CarriedByWorker(a, s)' <=> CarriedByWorker(a, s)
            BY <2>1, <3>1, SameCarriers
        <3>4. PostOrder(a)'
            BY <2>1, <2>2, <2>7, <3>3 DEF Ordered, PostOrder, OfReply
        <3> QED
            BY <3>2, <3>4 DEF Ordered
    <2> QED
        BY <2>8, <2>9
<1>7. ASSUME NEW i \in Instance, Executor(i) PROVE Ordered(a)'
    <2>1. Moves(i) /\ attached' = attached /\ UNCHANGED askedAfter
        BY <1>7, ExecutorMoves
    <2> QED
        BY <1>0, <1>1, <2>1, MovesOrder
<1>8. CASE Handler
    <2>1. Dispatches /\ attached' = attached /\ UNCHANGED askedAfter
        BY <1>8, HandlerDispatches
    <2> QED
        BY <1>0, <1>1, <2>1, DispatchOrder
<1> QED
    BY <1>2, <1>3, <1>4, <1>5, <1>6, <1>7, <1>8 DEF Next, Application

\* A sink that leads to a stream that is alone is given nothing but its own reply.
LEMMA HeadIsSink ==
    ASSUME TypeOK, SinkInv, CarrierInv, KnownInv, posts # <<>>, SinkStream # 0,
           SinkStream \in alone, Head(posts).kind # "result"
    PROVE  /\ Head(posts).id = SinkStream /\ ended < SinkStream
           /\ \A s \in Stream : Carries(attached, s) => s = SinkStream
<1>1. /\ attached # 0 /\ attached \in Instance /\ posts[1].from = attached
      /\ SinkStream \in Stream /\ SinkStream = listened
    BY SinkOpen
<1>2. \A s \in Stream : Carries(attached, s) => s = SinkStream /\ ended < s
    <2>1. \A s \in Stream : Carries(attached, s) => s <= listened /\ s > ended
        BY <1>1 DEF CarrierInv, KnownInv
    <2>2. listened <= ended + 1
        BY <1>1 DEF KnownInv
    <2> QED
        BY <1>1, <2>1, <2>2, Attached
<1>3. posts[1] = Head(posts) /\ Head(posts) \in Post /\ 1 \in 1..Len(posts)
    <2>1. posts \in Seq(Post)
        BY DEF TypeOK
    <2> HIDE DEF Post
    <2> QED
        BY <2>1, SeqTail, PostTypes
<1>4. Head(posts).id \in Stream /\ Carries(attached, Head(posts).id)
    BY <1>1, <1>3, PostFacts DEF Carries, CarriedByPost, OfReply
<1> QED
    BY <1>2, <1>4

\* Every step keeps KnownInv: an answer tells that everything before the call is
\* over, and the sentinel of a stream that is alone that it is over itself.
LEMMA KnownNext ==
    ASSUME TypeOK, UnusedInv, CallInv, FreshInv, SinkInv, CarrierInv, KnownInv, OrderInv,
           [Next]_vars
    PROVE  KnownInv'
<1> USE DEF dart, known, engine, plugin, workers
<1>0. /\ attached # 0 => attached \in Instance /\ Ordered(attached)
      /\ listened \in Nat /\ ended \in Nat /\ \A c \in Call : askedAfter[c] \in Nat
      /\ Stream \subseteq Nat /\ alone \subseteq Stream
    BY Attached DEF OrderInv, TypeOK
<1>1. /\ ended <= listened
      /\ \A c \in Call : askedAfter[c] <= listened
      /\ \A s \in alone : s <= listened /\ s <= ended + 1
      /\ attached # 0 => \A s \in Stream : Carries(attached, s) => s > ended
    BY DEF KnownInv
<1>2. ASSUME UNCHANGED <<ended, alone, attached, listened, askedAfter>>,
             \A s \in Stream : attached # 0 /\ Carries(attached, s)' => Carries(attached, s)
      PROVE  KnownInv'
    BY <1>1, <1>2 DEF KnownInv
<1>3. CASE OnAttachedToEngine
    <2>1. ended' = listened /\ UNCHANGED <<alone, listened, askedAfter>>
        BY <1>0, <1>1, <1>3 DEF OnAttachedToEngine, KnownEnded
    <2>2. \A s \in Stream : ~Carries(attached, s)'
        <3>1. /\ attached' > attaches /\ attached' \in Instance
              /\ UNCHANGED <<queue, running, posts>>
            BY <1>3, PluginAssumption DEF OnAttachedToEngine, TypeOK, Instance
        <3>2. PICK a \in Instance : a = attached' /\ a > attaches
            BY <3>1
        <3>3. Unused(a)
            BY <3>2 DEF UnusedInv
        <3>4. \A s : ~Carries(a, s)
            BY <3>3
            DEF Unused, Carries, CarriedByWorker, CarriedByQueue, CarriedByThread,
                CarriedByPost, OfReply, IsGeneration, Idle
        <3>5. \A s : ~Carries(a, s)'
            BY <3>1, <3>4, SameCarriers
        <3> QED
            BY <3>2, <3>5
            DEF Carries, CarriedByWorker, CarriedByQueue, CarriedByThread, CarriedByPost,
                OfReply
    <2>3. \A s \in alone : s <= ended' + 1
        BY <1>0, <1>1, <2>1
    <2>4. ended' <= listened'
        BY <1>0, <2>1
    <2> QED
        BY <1>1, <2>1, <2>2, <2>3, <2>4 DEF KnownInv
<1>4. CASE OnDetachedFromEngine
    BY <1>1, <1>4 DEF OnDetachedFromEngine, KnownInv
<1>5. CASE AbortGeneration \/ UNCHANGED vars
           \/ \E s \in Stream : GenerateResponse(s) \/ CancelStream(s)
    <2>1. UNCHANGED <<ended, alone, attached, listened, askedAfter, queue, running, posts>>
        BY <1>5 DEF AbortGeneration, vars, GenerateResponse, CancelStream
    <2> QED
        BY <1>2, <2>1, SameCarriers
<1>6. ASSUME NEW t \in Stream, Listen(t) PROVE KnownInv'
    <2>1. /\ listened' = listened + 1 /\ t = listened + 1 /\ attached' = attached
          /\ UNCHANGED <<askedAfter, ended>> /\ attached # 0
          /\ alone' = IF ended = listened THEN alone \cup {t} ELSE alone
        BY <1>6 DEF Listen
    <2>2. \A s \in Stream : Carries(attached, s)' => Carries(attached, s) \/ Listen(s)
        BY <1>0, <2>1, CarriersNext
    <2>3. \A s \in Stream : Listen(s) => s = listened + 1
        BY DEF Listen
    <2>4. \A s \in Stream : Carries(attached, s)' => s > ended
        BY <1>0, <1>1, <2>1, <2>2, <2>3
    <2>5. \A s \in alone' : s <= listened' /\ s <= ended + 1
        BY <1>0, <1>1, <2>1
    <2>6. ended <= listened' /\ \A c \in Call : askedAfter[c] <= listened'
        BY <1>0, <1>1, <2>1
    <2> QED
        BY <2>1, <2>4, <2>5, <2>6 DEF KnownInv
<1>7. ASSUME NEW c \in Call, NEW m \in Calls, Invoke(c, m) PROVE KnownInv'
    <2>1. /\ UNCHANGED <<ended, alone, attached, listened>> /\ attached # 0
          /\ askedAfter' = [askedAfter EXCEPT ![c] = listened]
        BY <1>7 DEF Invoke
    <2>2. \A s \in Stream : Carries(attached, s)' => Carries(attached, s)
        <3>1. \A s \in Stream : ~Listen(s)
            <4>1. \A s \in Stream : Listen(s) => listened' = listened + 1
                BY DEF Listen
            <4> QED
                BY <1>0, <2>1, <4>1
        <3> QED
            BY <1>0, <2>1, <3>1, CarriersNext
    <2>3. \A d \in Call : askedAfter'[d] <= listened
        BY <1>0, <1>1, <2>1 DEF TypeOK
    <2> QED
        BY <1>1, <2>1, <2>2, <2>3 DEF KnownInv
<1>8. ASSUME NEW i \in Instance, Executor(i) PROVE KnownInv'
    <2>1. Moves(i) /\ UNCHANGED <<ended, alone, attached, listened, askedAfter>>
        BY <1>8, ExecutorMoves
    <2>2. \A s \in Stream : attached # 0 /\ Carries(attached, s)' => Carries(attached, s)
        BY <1>0, <2>1, MovesShrink
    <2> QED
        BY <1>2, <2>1, <2>2
<1>9. CASE Handler
    <2>1. Dispatches /\ UNCHANGED <<alone, attached, listened, askedAfter>>
        BY <1>9, HandlerDispatches
    <2>2. \A s \in Stream : attached # 0 /\ Carries(attached, s)' => Carries(attached, s)
        BY <1>0, <2>1, DispatchShrinks
    <2>3. posts # <<>> /\ posts[1] = Head(posts) /\ Head(posts) \in Post
        BY <2>1, PostsTail, PostTypes DEF Dispatches
    <2>4. ASSUME ended' # ended,
                 NEW e \in Nat, ended' = IF e > ended THEN e ELSE ended, e <= listened,
                 \A s \in Stream : attached # 0 /\ Carries(attached, s)' => s > e
          PROVE  KnownInv'
        <3>1. ended' = e /\ e > ended
            BY <2>4
        <3>2. \A s \in alone : s <= e + 1
            BY <1>0, <1>1, <2>4, <3>1
        <3> QED
            BY <1>1, <2>1, <2>4, <3>1, <3>2 DEF KnownInv
    <2>5. CASE ended' = ended
        BY <1>2, <2>1, <2>2, <2>5
    <2>6. CASE AnswerCall /\ ended' # ended
        <3> DEFINE e == askedAfter[Head(posts).id]
        <3>1. /\ Head(posts).kind = "result" /\ Head(posts).from = attached
              /\ KnownEnded(e)
            BY <2>6 DEF AnswerCall, Runnable, Heard
        <3>2. Head(posts).id \in Call /\ attached \in Instance /\ attached # 0
            BY <2>3, <3>1, PostFacts, Attached
        <3>3. e = PostFloor(posts[1])
            BY <2>3, <3>1, Floors
        <3>4. e \in Nat /\ e <= listened
            BY <1>0, <1>1, <3>2
        <3> HIDE DEF e
        <3>5. \A s \in Stream : Carries(attached, s)' => s > e
            BY <1>0, <2>1, <2>3, <3>1, <3>2, <3>3, HeadFloor
        <3> QED
            BY <2>4, <2>6, <3>1, <3>4, <3>5 DEF KnownEnded
    <2>7. CASE DeliverSentinel /\ ended' # ended
        <3>1. /\ SinkStream # 0 /\ SinkStream \in alone /\ KnownEnded(SinkStream)
              /\ Head(posts).kind = "sentinel"
            BY <2>7 DEF DeliverSentinel, Runnable
        <3>2. /\ attached # 0 /\ attached \in Instance /\ posts[1].from = attached
              /\ SinkStream \in Stream /\ SinkStream = listened
            BY <2>3, <3>1, SinkOpen
        <3>3. Head(posts).id = SinkStream
            BY <2>3, <3>1, HeadIsSink
        <3>4. PostFloor(posts[1]) = SinkStream
            BY <2>3, <3>1, <3>3, Floors
        <3>5. \A s \in Stream : Carries(attached, s)' => s > SinkStream
            BY <1>0, <2>1, <3>2, <3>4, HeadFloor
        <3>6. SinkStream \in Nat /\ SinkStream <= listened
            BY <1>0, <3>2
        <3> QED
            BY <2>4, <2>7, <3>1, <3>5, <3>6 DEF KnownEnded
    <2>8. CASE DeliverToken
        BY <2>5, <2>8 DEF DeliverToken
    <2> QED
        BY <1>9, <2>5, <2>6, <2>7, <2>8 DEF Handler
<1> QED
    BY <1>3, <1>4, <1>5, <1>6, <1>7, <1>8, <1>9 DEF Next, Application

-----------------------------------------------------------------------------
\* The tokens of a stream that is alone, for every application.  What is counted
\* is a number.
LEMMA Counts ==
    ASSUME TypeOK, NEW s \in Stream
    PROVE  /\ Len(received[s]) \in Nat /\ generated[s] \in Nat
           /\ received[s] \in Seq(Stream \X Nat)
           /\ \A k \in 1..Len(posts) : posts[k].n \in Nat
<1>1. received[s] \in Seq(Stream \X Nat) /\ generated[s] \in Nat
    BY DEF TypeOK
<1>2. \A k \in 1..Len(posts) : posts[k].n \in Nat
    BY PostTypes, PostFacts
<1> QED
    BY <1>1, <1>2

LEMMA TransitTail ==
    ASSUME TypeOK, Dispatches, NEW a \in Instance, NEW s \in Stream, InTransit(a, s),
           ~Token(1, a, s), received'[s] = received[s]
    PROVE  InTransit(a, s)'
<1>0. /\ Len(posts) \in Nat /\ Len(posts') = Len(posts) - 1 /\ 1 \in 1..Len(posts)
      /\ \A k \in 1..Len(posts') : posts'[k] = posts[k + 1] /\ k + 1 \in 2..Len(posts)
      /\ \A k \in 2..Len(posts) : k - 1 \in 1..Len(posts') /\ posts'[k - 1] = posts[k]
      /\ \A k \in 1..Len(posts) : posts[k].n \in Nat
      /\ Len(received[s]) \in Nat /\ generated[s] \in Nat
    <2>1. /\ Len(posts) \in Nat /\ Len(posts') = Len(posts) - 1 /\ 1 \in 1..Len(posts)
          /\ \A k \in 1..Len(posts') : posts'[k] = posts[k + 1]
        BY PostsTail
    <2>2. \A k \in 2..Len(posts) : k - 1 \in 1..Len(posts') /\ (k - 1) + 1 = k
        BY <2>1
    <2>3. \A k \in 1..Len(posts') : k + 1 \in 2..Len(posts)
        BY <2>1
    <2>4. \A k \in 2..Len(posts) : posts'[k - 1] = posts[k]
        BY <2>1, <2>2
    <2> QED
        BY <2>1, <2>2, <2>3, <2>4, Counts
<1> USE <1>0
<1>1. generated' = generated
    BY DEF Dispatches
<1>2. \A k \in 1..Len(posts') : Token(k, a, s)' <=> Token(k + 1, a, s)
    BY DEF Token
<1>3. ASSUME NEW k \in 1..Len(posts'), Token(k, a, s)'
      PROVE  posts'[k].n \in (Len(received'[s]) + 1)..generated'[s]
    <2>1. k + 1 \in 1..Len(posts) /\ Token(k + 1, a, s) /\ posts'[k] = posts[k + 1]
        BY <1>2, <1>3
    <2> QED
        BY <1>1, <2>1 DEF InTransit
<1>4. ASSUME NEW j \in 1..Len(posts'), NEW k \in 1..Len(posts'),
             Token(j, a, s)', Token(k, a, s)', j < k
      PROVE  posts'[j].n < posts'[k].n
    <2>1. /\ j + 1 \in 1..Len(posts) /\ k + 1 \in 1..Len(posts) /\ j + 1 < k + 1
          /\ Token(j + 1, a, s) /\ Token(k + 1, a, s)
        BY <1>2, <1>4
    <2> QED
        BY <2>1 DEF InTransit
<1>5. ASSUME NEW n \in (Len(received'[s]) + 1)..generated'[s]
      PROVE  \E k \in 1..Len(posts') : Token(k, a, s)' /\ posts'[k].n = n
    <2>1. PICK k \in 1..Len(posts) : Token(k, a, s) /\ posts[k].n = n
        BY <1>1, <1>5 DEF InTransit
    <2>2. k \in 2..Len(posts)
        BY <2>1
    <2> QED
        BY <2>1, <2>2 DEF Token
<1> QED
    BY <1>1, <1>3, <1>4, <1>5 DEF InTransit

\* The first token under way is the next one of the reply.
LEMMA TransitHead ==
    ASSUME TypeOK, Dispatches, NEW a \in Instance, NEW s \in Stream, InTransit(a, s),
           Token(1, a, s), received'[s] = Append(received[s], <<s, posts[1].n>>)
    PROVE  posts[1].n = Len(received[s]) + 1 /\ InTransit(a, s)'
<1>0. /\ Len(posts) \in Nat /\ Len(posts') = Len(posts) - 1 /\ 1 \in 1..Len(posts)
      /\ \A k \in 1..Len(posts') : posts'[k] = posts[k + 1] /\ k + 1 \in 2..Len(posts)
      /\ \A k \in 2..Len(posts) : k - 1 \in 1..Len(posts') /\ posts'[k - 1] = posts[k]
      /\ \A k \in 1..Len(posts) : posts[k].n \in Nat
      /\ Len(received[s]) \in Nat /\ generated[s] \in Nat
    <2>1. /\ Len(posts) \in Nat /\ Len(posts') = Len(posts) - 1 /\ 1 \in 1..Len(posts)
          /\ \A k \in 1..Len(posts') : posts'[k] = posts[k + 1]
        BY PostsTail
    <2>2. \A k \in 2..Len(posts) : k - 1 \in 1..Len(posts') /\ (k - 1) + 1 = k
        BY <2>1
    <2> QED
        BY <2>1, <2>2, Counts
<1> USE <1>0
<1>1. posts[1].n = Len(received[s]) + 1
    <2>1. /\ posts[1].n \in (Len(received[s]) + 1)..generated[s]
          /\ Len(received[s]) + 1 \in (Len(received[s]) + 1)..generated[s]
        BY DEF InTransit
    <2>2. PICK k \in 1..Len(posts) : Token(k, a, s) /\ posts[k].n = Len(received[s]) + 1
        BY <2>1 DEF InTransit
    <2>3. k # 1 => posts[1].n < posts[k].n
        BY <2>2 DEF InTransit
    <2> QED
        BY <2>1, <2>2, <2>3
<1>2. Len(received'[s]) = Len(received[s]) + 1
    <2>1. <<s, posts[1].n>> \in Stream \X Nat
        BY <1>0
    <2> QED
        BY <2>1, SeqAppend, Counts
<1>3. generated' = generated /\ Len(received[s]) + 1 <= generated[s]
    BY <1>1 DEF Dispatches, InTransit
<1>4. \A k \in 1..Len(posts') : Token(k, a, s)' <=> Token(k + 1, a, s)
    BY DEF Token
<1>5. ASSUME NEW k \in 1..Len(posts'), Token(k, a, s)'
      PROVE  posts'[k].n \in (Len(received'[s]) + 1)..generated'[s]
    <2>1. k + 1 \in 1..Len(posts) /\ 1 < k + 1 /\ Token(k + 1, a, s)
          /\ posts'[k] = posts[k + 1]
        BY <1>4, <1>5
    <2>2. /\ posts[k + 1].n \in (Len(received[s]) + 1)..generated[s]
          /\ posts[1].n < posts[k + 1].n
        BY <2>1 DEF InTransit
    <2>3. posts[k + 1].n \in Nat /\ generated[s] \in Nat /\ Len(received[s]) \in Nat
        BY <2>1
    <2> HIDE <1>0
    <2>4. posts[k + 1].n \in (Len(received[s]) + 2)..generated[s]
        BY <1>1, <2>2, <2>3
    <2> QED
        BY <1>2, <1>3, <2>1, <2>3, <2>4
<1>6. ASSUME NEW j \in 1..Len(posts'), NEW k \in 1..Len(posts'),
             Token(j, a, s)', Token(k, a, s)', j < k
      PROVE  posts'[j].n < posts'[k].n
    <2>1. /\ j + 1 \in 1..Len(posts) /\ k + 1 \in 1..Len(posts) /\ j + 1 < k + 1
          /\ Token(j + 1, a, s) /\ Token(k + 1, a, s)
        BY <1>4, <1>6
    <2> QED
        BY <2>1 DEF InTransit
<1>7. ASSUME NEW n \in (Len(received'[s]) + 1)..generated'[s]
      PROVE  \E k \in 1..Len(posts') : Token(k, a, s)' /\ posts'[k].n = n
    <2>1. n \in (Len(received[s]) + 1)..generated[s] /\ n # Len(received[s]) + 1
        BY <1>2, <1>3, <1>7
    <2>2. PICK k \in 1..Len(posts) : Token(k, a, s) /\ posts[k].n = n
        BY <2>1 DEF InTransit
    <2>3. k \in 2..Len(posts)
        BY <1>1, <2>1, <2>2
    <2> QED
        BY <2>2, <2>3 DEF Token
<1> QED
    BY <1>1, <1>2, <1>3, <1>5, <1>6, <1>7 DEF InTransit

LEMMA TransitAppend ==
    ASSUME TypeOK, NEW a \in Instance, NEW s \in Stream, InTransit(a, s),
           NEW p, Posts(p), received'[s] = received[s],
           IF p.kind = "token" /\ p.from = a /\ p.id = s
           THEN p.n = generated[s] + 1 /\ generated'[s] = generated[s] + 1
           ELSE generated'[s] = generated[s]
    PROVE  InTransit(a, s)'
<1>0. /\ Len(posts) \in Nat /\ Len(posts') = Len(posts) + 1
      /\ posts'[Len(posts) + 1] = p
      /\ \A k \in 1..Len(posts) : posts'[k] = posts[k] /\ posts[k].n \in Nat
      /\ \A k \in 1..Len(posts') : k \in 1..Len(posts) \/ k = Len(posts) + 1
      /\ Len(received[s]) \in Nat /\ generated[s] \in Nat
    BY PostsAppend, Counts
<1> USE <1>0
<1>1. \A k \in 1..Len(posts) : Token(k, a, s)' <=> Token(k, a, s)
    BY DEF Token
<1>2. \A k : k = Len(posts) + 1 =>
         (Token(k, a, s)' <=> p.kind = "token" /\ p.from = a /\ p.id = s)
    BY DEF Token
<1>3. generated[s] <= generated'[s]
    OBVIOUS
<1>4. ASSUME NEW k \in 1..Len(posts'), Token(k, a, s)'
      PROVE  posts'[k].n \in (Len(received'[s]) + 1)..generated'[s]
    <2>1. CASE k \in 1..Len(posts)
        BY <1>1, <1>3, <1>4, <2>1 DEF InTransit
    <2>2. CASE k = Len(posts) + 1
        BY <1>2, <1>4, <2>2 DEF InTransit
    <2> QED
        BY <2>1, <2>2
<1>5. ASSUME NEW j \in 1..Len(posts'), NEW k \in 1..Len(posts'),
             Token(j, a, s)', Token(k, a, s)', j < k
      PROVE  posts'[j].n < posts'[k].n
    <2>1. j \in 1..Len(posts) /\ Token(j, a, s) /\ posts'[j] = posts[j]
        BY <1>1, <1>5
    <2>2. CASE k \in 1..Len(posts)
        BY <1>1, <1>5, <2>1, <2>2 DEF InTransit
    <2>3. CASE k = Len(posts) + 1
        <3>1. posts'[k].n = generated[s] + 1
            BY <1>2, <1>5, <2>3
        <3>2. posts[j].n <= generated[s]
            BY <2>1 DEF InTransit
        <3> QED
            BY <2>1, <3>1, <3>2
    <2> QED
        BY <2>2, <2>3
<1>6. ASSUME NEW n \in (Len(received'[s]) + 1)..generated'[s]
      PROVE  \E k \in 1..Len(posts') : Token(k, a, s)' /\ posts'[k].n = n
    <2>1. CASE n <= generated[s]
        <3>1. PICK k \in 1..Len(posts) : Token(k, a, s) /\ posts[k].n = n
            BY <1>6, <2>1 DEF InTransit
        <3> QED
            BY <1>1, <3>1
    <2>2. CASE n > generated[s]
        <3>1. p.kind = "token" /\ p.from = a /\ p.id = s /\ p.n = n
            BY <1>6, <2>2
        <3>2. PICK k \in 1..Len(posts') : k = Len(posts) + 1
            OBVIOUS
        <3> QED
            BY <1>2, <3>1, <3>2
    <2> QED
        BY <1>6, <2>1, <2>2
<1> QED
    BY <1>3, <1>4, <1>5, <1>6 DEF InTransit


\* A token that reaches a stream that is alone is the next one of its own reply.
LEMMA DeliveredToken ==
    ASSUME TypeOK, SinkInv, CarrierInv, KnownInv, TokenInv, DeliverToken, SinkStream # 0,
           SinkStream \in alone, NEW s \in Stream, s = SinkStream
    PROVE  /\ attached \in Instance /\ Token(1, attached, s)
           /\ received' = [received EXCEPT ![s] = Append(@, <<s, posts[1].n>>)]
           /\ posts[1].n = Len(received[s]) + 1
           /\ \A a \in Instance : a = attached => InTransit(a, s)'
<1>1. Dispatches /\ attached' = attached
    BY HandlerDispatches DEF Handler
<1>2. posts # <<>> /\ posts[1] = Head(posts) /\ 1 \in 1..Len(posts)
    BY <1>1, PostsTail DEF Dispatches
<1>3. /\ attached # 0 /\ attached \in Instance /\ posts[1].from = attached
      /\ s = eventSink[attached]
    BY <1>2, SinkOpen
<1>4. posts[1].kind = "token"
    BY <1>2 DEF DeliverToken, Runnable
<1>5. posts[1].id = s
    BY <1>2, <1>4, HeadIsSink
<1>6. received' = [received EXCEPT ![s] = Append(@, <<s, posts[1].n>>)]
    BY <1>2, <1>5 DEF DeliverToken
<1>7. received'[s] = Append(received[s], <<s, posts[1].n>>)
    BY <1>6 DEF TypeOK
<1>8. InTransit(attached, s) /\ Token(1, attached, s)
    BY <1>3, <1>4, <1>5 DEF TokenInv, Token
<1>9. ASSUME NEW a \in Instance, a = attached
      PROVE  posts[1].n = Len(received[s]) + 1 /\ InTransit(a, s)'
    BY <1>1, <1>7, <1>8, <1>9, TransitHead
<1> QED
    BY <1>3, <1>6, <1>8, <1>9

\* Every step keeps TokenInv.
LEMMA TokenNext ==
    ASSUME TypeOK, UnusedInv, FreshInv, SinkInv, CarrierInv, KnownInv, TokenInv,
           [Next]_vars
    PROVE  TokenInv'
<1> USE DEF dart, known, engine, plugin, workers
<1> HIDE DEF Job, Post
<1>0. /\ eventSink \in [Instance -> {0} \cup Stream] /\ 0 \notin Stream /\ 0 \notin Instance
      /\ \A a \in Instance, s \in Stream :
            attached = a /\ eventSink[a] = s /\ s \in alone => InTransit(a, s)
    BY Attached DEF TokenInv, TypeOK
<1>1. SUFFICES ASSUME NEW a \in Instance, attached' = a,
                      NEW s \in Stream, eventSink'[a] = s, s \in alone'
               PROVE  InTransit(a, s)'
    <2>1. TypeOK'
        BY TypeNext
    <2>2. alone' \subseteq Stream /\ (attached' # 0 => attached' \in Instance)
        BY <2>1, PluginAssumption DEF TypeOK, Instance
    <2>3. ASSUME attached' # 0, eventSink'[attached'] \in alone'
          PROVE  InTransit(attached, eventSink[attached])'
        <3>1. attached' \in Instance /\ eventSink'[attached'] \in Stream
            BY <2>2, <2>3
        <3> QED
            BY <1>1, <2>3, <3>1 DEF InTransit, Token
    <2> QED
        BY <2>3 DEF TokenInv
<1>2. ASSUME UNCHANGED <<attached, eventSink, alone, posts, received, generated>>
      PROVE  InTransit(a, s)'
    BY <1>0, <1>1, <1>2 DEF InTransit, Token
<1>3. CASE OnAttachedToEngine
    <2>1. a > attaches /\ eventSink' = eventSink
        BY <1>1, <1>3, Attached DEF OnAttachedToEngine
    <2> QED
        BY <1>0, <1>1, <2>1 DEF FreshInv
<1>4. CASE OnDetachedFromEngine
    BY <1>0, <1>1, <1>4 DEF OnDetachedFromEngine
<1>5. CASE AbortGeneration \/ UNCHANGED vars
           \/ (\E t \in Stream : GenerateResponse(t))
           \/ (\E c \in Call, m \in Calls : Invoke(c, m))
    BY <1>2, <1>5 DEF AbortGeneration, vars, GenerateResponse, Invoke
<1>6. ASSUME NEW t \in Stream, Listen(t) PROVE InTransit(a, s)'
    <2>1. /\ attached = a /\ UNCHANGED <<posts, received, generated>>
          /\ t = listened + 1 /\ eventSink' = [eventSink EXCEPT ![a] = t]
        BY <1>1, <1>6 DEF Listen
    <2>2. s = t /\ s > listened
        BY <1>0, <1>1, <2>1, Attached
    <2>3. ~Carries(a, s)
        BY <2>2, Attached DEF CarrierInv
    <2>4. \A k \in 1..Len(posts) : ~Token(k, a, s)
        BY <2>3 DEF Carries, CarriedByPost, OfReply, Token
    <2>5. received[s] = <<>> /\ generated[s] = 0
        BY <2>2 DEF FreshInv
    <2>6. Len(received[s]) = 0
        BY <2>5
    <2> QED
        BY <2>1, <2>4, <2>5, <2>6 DEF InTransit, Token
<1>7. ASSUME NEW t \in Stream, CancelStream(t) PROVE FALSE
    BY <1>0, <1>1, <1>7 DEF CancelStream, OnCancel
<1>8. ASSUME NEW i \in Instance, Executor(i) PROVE InTransit(a, s)'
    <2>1. Moves(i) /\ UNCHANGED <<attached, eventSink, alone, received>>
        BY <1>8, ExecutorMoves
    <2>2. InTransit(a, s) /\ stream[s] = "open"
        BY <1>0, <1>1, <2>1 DEF SinkInv
    <2>3. CASE Streams(i)
        <3> DEFINE t == running[i].id
                   p == Posted(i, "token", t, TRUE, generated[t] + 1)
        <3>1. /\ t \in Stream /\ Posts(p) /\ generated' = [generated EXCEPT ![t] = @ + 1]
              /\ p.kind = "token" /\ p.from = i /\ p.id = t /\ p.n = generated[t] + 1
            BY <2>3 DEF Streams, Posted
        <3>2. Carries(i, t)
            BY <2>3 DEF Streams, Carries, CarriedByWorker, CarriedByThread
        <3>3. t = s => i = a
            BY <1>1, <2>1, <2>2, <3>1, <3>2 DEF CarrierInv
        <3> HIDE DEF t, p
        <3>4. IF p.kind = "token" /\ p.from = a /\ p.id = s
              THEN p.n = generated[s] + 1 /\ generated'[s] = generated[s] + 1
              ELSE generated'[s] = generated[s]
            BY <3>1, <3>3 DEF TypeOK
        <3> QED
            BY <2>1, <2>2, <3>1, <3>4, TransitAppend
    <2>4. CASE Refuses(i) \/ Ends(i) \/ Answers(i)
        <3>1. PICK p : Posts(p) /\ p.kind # "token"
            <4>1. \A id, ok, n : /\ Posted(i, "result", id, ok, n).kind # "token"
                                 /\ Posted(i, "sentinel", id, ok, n).kind # "token"
                BY DEF Posted
            <4> QED
                BY <2>4, <4>1, Zenon DEF Refuses, Ends, Answers
        <3>2. generated' = generated
            BY <2>4 DEF Refuses, Ends, Answers
        <3> QED
            BY <2>1, <2>2, <3>1, <3>2, TransitAppend
    <2>5. CASE Starts(i) \/ Drops(i) \/ Leaves(i)
        <3>1. UNCHANGED <<posts, generated>>
            BY <2>5 DEF Starts, Drops, Leaves
        <3> QED
            BY <1>2, <2>1, <3>1
    <2> QED
        BY <2>1, <2>3, <2>4, <2>5 DEF Moves
<1>9. CASE Handler
    <2>1. Dispatches /\ attached = a /\ alone' = alone
        BY <1>1, <1>9, HandlerDispatches
    <2>2. posts[1] = Head(posts)
        BY <2>1, PostsTail
    <2>3. CASE AnswerCall \/ DeliverSentinel
        <3>1. received' = received /\ posts[1].kind # "token"
            BY <2>2, <2>3 DEF AnswerCall, DeliverSentinel, Runnable
        <3>2. eventSink[a] = s
            BY <1>0, <1>1, <2>1, <2>3 DEF AnswerCall, DeliverSentinel, OnCancel
        <3>3. InTransit(a, s)
            BY <1>0, <1>1, <2>1, <3>2
        <3> QED
            BY <2>1, <3>1, <3>3, TransitTail DEF Token
    <2>4. CASE DeliverToken
        <3>1. eventSink[a] = s /\ InTransit(a, s)
            BY <1>0, <1>1, <2>1, <2>4 DEF DeliverToken
        <3>2. CASE SinkStream = 0
            <4>1. ~Token(1, a, s)
                BY <1>0, <2>1, <2>2, <3>1, <3>2 DEF SinkStream, Heard, Token
            <4> QED
                BY <2>1, <2>4, <3>1, <3>2, <4>1, TransitTail DEF DeliverToken
        <3>3. CASE SinkStream # 0
            <4>1. s = SinkStream
                BY <2>1, <3>1, <3>3 DEF SinkStream
            <4> QED
                BY <1>1, <2>1, <2>4, <3>3, <4>1, DeliveredToken
        <3> QED
            BY <3>2, <3>3
    <2> QED
        BY <1>9, <2>3, <2>4 DEF Handler
<1> QED
    BY <1>3, <1>4, <1>5, <1>6, <1>7, <1>8, <1>9 DEF Next, Application

\* A stream that becomes alone has been given nothing yet.
LEMMA AloneNext ==
    ASSUME TypeOK, FreshInv, [Next]_vars, NEW s \in alone', s \notin alone
    PROVE  Listen(s) /\ s > listened /\ received[s] = <<>>
<1>1. \A i \in Instance : Executor(i) => UNCHANGED alone
    BY ExecutorMoves DEF known
<1>2. Handler => UNCHANGED alone
    BY HandlerDispatches
<1>3. \A t \in Stream : Listen(t) => alone' = alone \/ alone' = alone \cup {t}
    BY DEF Listen
<1>4. PICK t \in Stream : Listen(t) /\ t = s
    BY <1>1, <1>2, <1>3
    DEF Next, Application, OnAttachedToEngine, OnDetachedFromEngine, GenerateResponse,
        CancelStream, AbortGeneration, Invoke, known, vars
<1>5. s = listened + 1
    BY <1>4 DEF Listen
<1> QED
    BY <1>4, <1>5, Attached DEF FreshInv

\* Every step keeps OwnReply: the token that is delivered to a stream that is alone
\* is its next one.
LEMMA OwnReplyNext ==
    ASSUME TypeOK, FreshInv, SinkInv, CarrierInv, KnownInv, TokenInv, OwnReply,
           [Next]_vars
    PROVE  OwnReply'
<1>0. alone \subseteq Stream
    BY DEF TypeOK
<1>1. SUFFICES ASSUME NEW s \in alone', NEW k \in 1..Len(received'[s])
               PROVE  received'[s][k] = <<s, k>>
    BY DEF OwnReply
<1>2. CASE received'[s] = received[s]
    <2>1. CASE s \in alone
        BY <1>1, <1>2, <2>1 DEF OwnReply
    <2>2. CASE s \notin alone
        <3>1. Len(received[s]) = 0
            BY <2>2, AloneNext
        <3> QED
            BY <1>1, <1>2, <3>1
    <2> QED
        BY <2>1, <2>2
<1>3. CASE received'[s] # received[s]
    <2>1. DeliverToken
        BY <1>3, ReceivedOnly
    <2>2. SinkStream # 0 /\ posts # <<>> /\ s \in alone
        BY <1>3, <2>1, HandlerDispatches DEF DeliverToken, Runnable, Handler
    <2>3. SinkStream = s
        <3>1. SinkStream \in Stream
            BY <2>2, SinkOpen
        <3> QED
            BY <1>0, <1>3, <2>1, <2>2, <3>1 DEF DeliverToken, TypeOK
    <2>4. s \in Stream
        BY <1>0, <2>2
    <2>5. /\ received' = [received EXCEPT ![s] = Append(@, <<s, posts[1].n>>)]
          /\ posts[1].n = Len(received[s]) + 1
        BY <2>1, <2>2, <2>3, <2>4, DeliveredToken
    <2>6. <<s, posts[1].n>> \in Stream \X Nat
        BY <2>4, <2>5, Counts
    <2>7. received'[s] = Append(received[s], <<s, posts[1].n>>)
        BY <2>4, <2>5 DEF TypeOK
    <2>8. /\ \A j \in 1..Len(received[s]) : received'[s][j] = received[s][j]
          /\ received'[s][Len(received[s]) + 1] = <<s, posts[1].n>>
          /\ k \in 1..Len(received[s]) \/ k = Len(received[s]) + 1
        BY <1>1, <2>4, <2>6, <2>7, Counts, SeqAppend
    <2> QED
        BY <2>2, <2>5, <2>8 DEF OwnReply
<1> QED
    BY <1>2, <1>3

\* Pending is what a worker carries.
LEMMA PendingIsCarried ==
    TypeOK => \A s \in Stream : Pending(s) <=> \E i \in Instance : CarriedByWorker(i, s)
<1> SUFFICES ASSUME TypeOK, NEW s \in Stream
             PROVE  Pending(s) <=> \E i \in Instance : CarriedByWorker(i, s)
    OBVIOUS
<1>1. \A job \in Job : job = [method |-> "startGeneration", id |-> s]
                       <=> IsGeneration(job) /\ job.id = s
    BY DEF Job, IsGeneration, Methods
<1>2. \A i \in Instance : running[i] \in Job /\ \A k \in 1..Len(queue[i]) : queue[i][k] \in Job
    <2> HIDE DEF Job
    <2> QED
        BY DEF TypeOK
<1> HIDE DEF Job
<1> QED
    BY <1>1, <1>2 DEF Pending, CarriedByWorker, CarriedByQueue, CarriedByThread

LEMMA PendingIsCarriedNext ==
    (TypeOK => \A s \in Stream : Pending(s) <=> \E i \in Instance : CarriedByWorker(i, s))'
BY PendingIsCarried, PTL

\* A stream closes in one step only.
LEMMA ClosedOnly ==
    ASSUME TypeOK, [Next]_vars, NEW s \in Stream, stream[s] # "closed",
           stream'[s] = "closed"
    PROVE  DeliverSentinel /\ SinkStream = s
<1> USE DEF dart, known, engine, plugin, workers
<1>0. /\ stream \in [Stream -> {"new", "created", "open", "closed", "cancelled", "lost"}]
      /\ 0 \notin Stream
    BY Attached DEF TypeOK
<1>1. \A i \in Instance : Executor(i) => UNCHANGED stream
    BY ExecutorMoves
<1>2. \A t \in Stream : GenerateResponse(t) => stream'[s] \in {stream[s], "created"}
    BY <1>0 DEF GenerateResponse
<1>3. \A t \in Stream : CancelStream(t) => stream'[s] \in {stream[s], "cancelled"}
    BY <1>0 DEF CancelStream
<1>4. ASSUME NEW t \in Stream, Listen(t) PROVE stream'[s] \in {stream[s], "open"}
    <2>1. stream' = [stream EXCEPT ![t] = "open"]
        BY <1>4 DEF Listen
    <2> QED
        BY <1>0, <2>1
<1>5. OnDetachedFromEngine => stream'[s] \in {stream[s], "lost", "new"}
    BY <1>0 DEF OnDetachedFromEngine
<1>6. OnAttachedToEngine \/ AbortGeneration \/ UNCHANGED vars \/ AnswerCall \/ DeliverToken
         \/ (\E c \in Call, m \in Calls : Invoke(c, m)) => UNCHANGED stream
    BY DEF OnAttachedToEngine, AbortGeneration, Invoke, AnswerCall, DeliverToken, vars
<1>7. DeliverSentinel
    BY <1>1, <1>2, <1>3, <1>4, <1>5, <1>6 DEF Next, Application, Handler
<1> QED
    BY <1>0, <1>7 DEF DeliverSentinel

\* Every step keeps ClosedIsComplete.  A closed stream does not open again, and
\* the sentinel that closes one that is alone is behind all of its tokens.
LEMMA ClosedNext ==
    ASSUME TypeOK, UnusedInv, FreshInv, SinkInv, CarrierInv, KnownInv, OrderInv, TokenInv,
           ClosedIsComplete, [Next]_vars
    PROVE  ClosedIsComplete'
<1> USE DEF dart, known, engine, plugin, workers
<1> DEFINE Over(s) == /\ \A i \in Instance : ~CarriedByWorker(i, s)
                      /\ Len(received[s]) = generated[s]
<1>z. alone \subseteq Stream /\ alone' \subseteq Stream /\ 0 \notin Stream
    BY TypeNext, Attached DEF TypeOK
<1>0. \A s \in alone : stream[s] = "closed" => Over(s)
    BY <1>z, PendingIsCarried DEF ClosedIsComplete
<1>1. SUFFICES ASSUME NEW s \in alone', stream'[s] = "closed" PROVE Over(s)'
    <2>1. TypeOK'
        BY TypeNext
    <2> QED
        BY <1>z, <2>1, PendingIsCarriedNext DEF ClosedIsComplete
<1>2. s \in Stream
    BY <1>z
<1>3. ~Listen(s)
    <2>1. Listen(s) => stream'[s] = "open"
        BY <1>2 DEF Listen, TypeOK
    <2> QED
        BY <1>1, <2>1
<1>4. s \in alone
    BY <1>3, AloneNext
<1>5. CASE stream[s] = "closed"
    <2>1. Over(s)
        BY <1>0, <1>4, <1>5
    <2>2. \A i \in Instance : ~CarriedByWorker(i, s)'
        BY <1>2, <1>3, <2>1, CarriersNext
    <2>3. received'[s] = received[s]
        <3>1. CASE DeliverToken
            <4>1. CASE SinkStream = 0
                BY <3>1, <4>1 DEF DeliverToken
            <4>2. CASE SinkStream # 0
                <5>1. SinkStream # s
                    BY <1>5, <3>1, <4>2, SinkOpen DEF DeliverToken, Runnable
                <5> QED
                    BY <3>1, <5>1 DEF DeliverToken, TypeOK
            <4> QED
                BY <4>1, <4>2
        <3>2. CASE ~DeliverToken
            BY <3>2, ReceivedOnly
        <3> QED
            BY <3>1, <3>2
    <2>4. generated'[s] = generated[s]
        BY <1>2, <2>1, GeneratedOnly DEF CarriedByWorker
    <2> QED
        BY <2>1, <2>2, <2>3, <2>4
<1>6. CASE stream[s] # "closed"
    <2>1. DeliverSentinel /\ SinkStream = s /\ SinkStream # 0
        BY <1>1, <1>2, <1>6, <1>z, ClosedOnly
    <2>2. Dispatches /\ posts # <<>> /\ posts[1] = Head(posts) /\ 1 \in 1..Len(posts)
        BY <2>1, HandlerDispatches, PostsTail DEF Handler, Dispatches
    <2>3. /\ attached # 0 /\ attached \in Instance /\ posts[1].from = attached
          /\ stream[s] = "open" /\ posts[1].kind = "sentinel" /\ s = eventSink[attached]
        BY <2>1, <2>2, SinkOpen DEF DeliverSentinel, Runnable
    <2>4. posts[1].id = s /\ Ordered(attached)
        BY <1>4, <2>1, <2>2, <2>3, HeadIsSink DEF OrderInv
    <2>5. PostFloor(posts[1]) = s
        BY <2>3, <2>4, Floors
    <2>6. ~(s > s)
        BY <1>2, Attached
    <2>7. \A i \in Instance : ~CarriedByWorker(i, s)
        <3>1. ~CarriedByWorker(attached, s)
            BY <1>2, <2>2, <2>3, <2>4, <2>5, <2>6 DEF Ordered, PostOrder
        <3>2. \A i \in Instance : i # attached => ~CarriedByWorker(i, s)
            BY <1>2, <2>3 DEF CarrierInv, Carries
        <3> QED
            BY <3>1, <3>2
    <2>8. \A i \in Instance : ~CarriedByWorker(i, s)'
        BY <2>2, <2>7, DispatchShrinks
    <2>9. Len(received[s]) = generated[s]
        <3>1. \A k \in 1..Len(posts) : ~Token(k, attached, s)
            <4>1. ASSUME NEW k \in 1..Len(posts), Token(k, attached, s) PROVE FALSE
                <5>1. k # 1 /\ OfReply(attached, k) /\ posts[k].id = s
                    BY <2>3, <4>1 DEF Token, OfReply
                <5>2. 1 < k
                    BY <5>1
                <5> QED
                    BY <2>2, <2>3, <2>4, <2>5, <2>6, <5>1, <5>2 DEF Ordered, PostOrder
            <4> QED
                BY <4>1
        <3>2. InTransit(attached, s)
            BY <1>4, <2>3 DEF TokenInv
        <3>3. ~(Len(received[s]) < generated[s])
            <4>1. Len(received[s]) < generated[s] =>
                     generated[s] \in (Len(received[s]) + 1)..generated[s]
                BY <1>2, Counts
            <4> QED
                BY <3>1, <3>2, <4>1 DEF InTransit
        <3> QED
            BY <1>2, <3>2, <3>3, Counts DEF InTransit
    <2>10. UNCHANGED <<received, generated>>
        BY <2>1 DEF DeliverSentinel
    <2> QED
        BY <2>8, <2>9, <2>10
<1> QED
    BY <1>5, <1>6

-----------------------------------------------------------------------------
\* Serialised applications.  A call is the last thing in hand of its instance:
\* nothing is queued behind it before it is answered.
Waits(c) == c \in Call /\ asked[c] = "waiting"
IsResult(a, k) == posts[k].from = a /\ posts[k].kind = "result"
CallsLast(a) ==
    /\ \A k \in 1..Len(queue[a]) :
          IsGeneration(queue[a][k]) \/ (k = Len(queue[a]) /\ Waits(queue[a][k].id))
    /\ running[a].method \in Methods => queue[a] = <<>> /\ Waits(running[a].id)
    /\ \A k \in 1..Len(posts) : IsResult(a, k) =>
          /\ running[a] = Idle /\ queue[a] = <<>> /\ Waits(posts[k].id)
          /\ \A j \in 1..Len(posts) : IsResult(a, j) => j = k
NoCall(a) == /\ \A k \in 1..Len(queue[a]) : IsGeneration(queue[a][k])
             /\ running[a].method \notin Methods
             /\ \A k \in 1..Len(posts) : ~IsResult(a, k)

\* One stream at a time is open, and the sink is its own.  Between the creation of
\* a stream and its listener nothing else is asked of the engine.
OpenHasSink(a) == \A s \in Stream : stream[s] = "open" => eventSink[a] = s
CreatedAlone ==
    \A s \in Stream : stream[s] = "created" =>
        /\ _isInitialized /\ ~reloadDue
        /\ \A c \in Call : asked[c] # "waiting"
        /\ \A t \in Stream : stream[t] \in {"open", "created"} => t = s
SerialInv ==
    /\ attached = 0 => \A s \in Stream : stream[s] \notin {"open", "created"}
    /\ attached # 0 => OpenHasSink(attached) /\ CallsLast(attached)
    /\ CreatedAlone

LEMMA NobodyWaits ==
    ASSUME TypeOK, NEW a \in Instance, CallsLast(a), \A c \in Call : asked[c] # "waiting"
    PROVE  NoCall(a)
BY DEF CallsLast, NoCall, Waits

\* Results that are posted by others, and runnables that are no results.
LEMMA NoResultAdded ==
    ASSUME TypeOK, NEW a, \A j \in 1..Len(posts) : ~IsResult(a, j),
           posts' = posts \/ \E p : Posts(p) /\ (p.from # a \/ p.kind # "result")
    PROVE  \A j \in 1..Len(posts') : ~IsResult(a, j)'
<1>1. CASE posts' = posts
    BY <1>1 DEF IsResult
<1>2. ASSUME NEW p, Posts(p), p.from # a \/ p.kind # "result"
      PROVE  \A j \in 1..Len(posts') : ~IsResult(a, j)'
    BY <1>2, PostsAppend DEF IsResult
<1> QED
    BY <1>1, <1>2

\* A result that is posted when there is none is the only one.
LEMMA ResultAdded ==
    ASSUME TypeOK, NEW a, \A j \in 1..Len(posts) : ~IsResult(a, j),
           NEW p, Posts(p), p.from = a, p.kind = "result"
    PROVE  /\ Len(posts) + 1 \in 1..Len(posts')
           /\ posts'[Len(posts) + 1] = p
           /\ \A k \in 1..Len(posts') : IsResult(a, k)' <=> k = Len(posts) + 1
BY PostsAppend DEF IsResult

\* A job that is taken was followed by generations and a call at most; a call had
\* nothing behind it.
LEMMA TakenLast ==
    ASSUME TypeOK, NEW a \in Instance, CallsLast(a), TakesJob(a)
    PROVE  /\ \A k \in 1..Len(posts) : ~IsResult(a, k)
           /\ ~IsGeneration(Head(queue[a])) =>
                 /\ Waits(Head(queue[a]).id) /\ queue'[a] = <<>> /\ Len(queue[a]) = 1
           /\ \A k \in 1..Len(queue'[a]) :
                 IsGeneration(queue'[a][k]) \/ (k = Len(queue'[a]) /\ Waits(queue'[a][k].id))
           /\ running[a] = Idle /\ queue[a] # <<>> /\ queue'[a] = Tail(queue[a])
           /\ Head(queue[a]) = queue[a][1] /\ 1 \in 1..Len(queue[a])
           /\ \A k \in 1..Len(queue'[a]) :
                 queue'[a][k] = queue[a][k + 1] /\ k + 1 \in 1..Len(queue[a])
           /\ \A k \in 1..Len(queue[a]) : k # 1 =>
                 k - 1 \in 1..Len(queue'[a]) /\ queue'[a][k - 1] = queue[a][k]
<1>1. /\ queue[a] # <<>> /\ running[a] = Idle /\ queue'[a] = Tail(queue[a])
      /\ queue[a] \in Seq(Job) /\ Len(queue[a]) \in Nat
    BY DEF TakesJob, TypeOK
<1>2. /\ Head(queue[a]) = queue[a][1] /\ 1 \in 1..Len(queue[a])
      /\ Len(queue'[a]) = Len(queue[a]) - 1
      /\ \A k \in 1..Len(queue'[a]) :
            queue'[a][k] = queue[a][k + 1] /\ k + 1 \in 1..Len(queue[a])
    BY <1>1, JobTail
<1>3. \A k \in 1..Len(posts) : ~IsResult(a, k)
    BY <1>1 DEF CallsLast
<1>4. ~IsGeneration(Head(queue[a])) => Waits(Head(queue[a]).id) /\ Len(queue[a]) = 1
    BY <1>2 DEF CallsLast
<1>5. ASSUME Len(queue[a]) = 1 PROVE queue'[a] = <<>>
    <2>1. Tail(queue[a]) \in Seq(Job) /\ Len(Tail(queue[a])) = 0
        BY <1>1, <1>5, SeqTail
    <2> HIDE DEF Job
    <2> QED
        BY <1>1, <2>1, EmptySeq
<1>6. ASSUME NEW k \in 1..Len(queue'[a])
      PROVE  IsGeneration(queue'[a][k]) \/ (k = Len(queue'[a]) /\ Waits(queue'[a][k].id))
    BY <1>1, <1>2, <1>6 DEF CallsLast
<1>7. \A k \in 1..Len(queue[a]) : k # 1 => k - 1 \in 1..Len(queue'[a]) /\ (k - 1) + 1 = k
    BY <1>1, <1>2
<1> QED
    BY <1>1, <1>2, <1>3, <1>4, <1>5, <1>6, <1>7

\* What an executor does keeps calls last.
LEMMA MovesCallsLast ==
    ASSUME TypeOK, NEW i \in Instance, Moves(i), NEW a \in Instance, CallsLast(a),
           UNCHANGED asked
    PROVE  CallsLast(a)'
<1> USE DEF Waits
<1>0. running \in [Instance -> Job] /\ ~IsGeneration(Idle)
    BY DEF TypeOK, Idle, IsGeneration
<1>n. /\ Idle.method \notin Methods /\ CleaningUp(a).method \notin Methods
      /\ \A job : IsGeneration(job) => job.method \notin Methods
      /\ \A job : job.method \in Methods => job # Idle
    BY DEF Idle, CleaningUp, IsGeneration, Methods
<1>1. CASE i # a
    <2>1. queue'[a] = queue[a] /\ running'[a] = running[a]
        BY <1>1, MovesAlone
    <2>2. CASE posts' = posts
        BY <2>1, <2>2 DEF CallsLast, IsResult
    <2>3. ASSUME NEW p, Posts(p), p.from = i PROVE CallsLast(a)'
        <3>1. \A k \in 1..Len(posts') : IsResult(a, k)' =>
                 k \in 1..Len(posts) /\ posts'[k] = posts[k] /\ IsResult(a, k)
            BY <1>1, <2>3, PostsAppend DEF IsResult
        <3> QED
            BY <2>1, <3>1 DEF CallsLast
    <2> QED
        BY <2>2, <2>3, MovesAlone
<1>2. CASE i = a
    <2> USE <1>2
    <2>1. CASE Starts(a)
        <3>1. TakesJob(a) /\ running'[a] = Head(queue[a]) /\ posts' = posts
            BY <1>0, <2>1 DEF Starts, Runs
        <3>2. \A j \in 1..Len(posts') : ~IsResult(a, j)'
            BY <3>1, TakenLast DEF IsResult
        <3> QED
            BY <1>n, <3>1, <3>2, TakenLast DEF CallsLast
    <2>2. CASE Drops(a)
        <3>1. TakesJob(a) /\ running'[a] = Idle /\ posts' = posts
            BY <2>2 DEF Drops, TakesJob
        <3>2. \A j \in 1..Len(posts') : ~IsResult(a, j)'
            BY <3>1, TakenLast DEF IsResult
        <3> QED
            BY <1>n, <3>1, <3>2, TakenLast DEF CallsLast
    <2>3. CASE Refuses(a)
        <3> DEFINE p == Posted(a, "result", Head(queue[a]).id, FALSE, 0)
        <3>1. TakesJob(a) /\ running'[a] = Idle /\ Posts(p) /\ ~IsGeneration(Head(queue[a]))
            BY <2>3 DEF Refuses, TakesJob
        <3>2. p.kind = "result" /\ p.from = a /\ p.id = Head(queue[a]).id
            BY DEF Posted
        <3> HIDE DEF p
        <3>3. /\ queue'[a] = <<>> /\ Waits(p.id)
              /\ \A k \in 1..Len(posts) : ~IsResult(a, k)
            BY <3>1, <3>2, TakenLast
        <3>4. /\ posts'[Len(posts) + 1] = p
              /\ \A k \in 1..Len(posts') : IsResult(a, k)' <=> k = Len(posts) + 1
            BY <3>1, <3>2, <3>3, ResultAdded
        <3> QED
            BY <1>n, <3>1, <3>3, <3>4 DEF CallsLast
    <2>4. CASE Streams(a) \/ Ends(a)
        <3>1. \A k \in 1..Len(posts) : ~IsResult(a, k)
            BY <1>0, <2>4 DEF CallsLast, Streams, Ends
        <3>2. \E p : Posts(p) /\ p.kind # "result"
            <4>1. \A id, n : /\ Posted(a, "token", id, TRUE, n).kind # "result"
                             /\ Posted(a, "sentinel", id, TRUE, n).kind # "result"
                BY DEF Posted
            <4> QED
                BY <2>4, <4>1, Zenon DEF Streams, Ends
        <3>3. \A j \in 1..Len(posts') : ~IsResult(a, j)'
            BY <3>1, <3>2, NoResultAdded
        <3>4. queue' = queue /\ running'[a].method \notin Methods
            BY <1>0, <1>n, <2>4 DEF Streams, Ends, KeepsQueue, Runs
        <3> QED
            BY <3>3, <3>4 DEF CallsLast
    <2>5. CASE Leaves(a)
        <3>1. \A k \in 1..Len(posts) : ~IsResult(a, k)
            BY <2>5 DEF CallsLast, Leaves
        <3>2. queue' = queue /\ posts' = posts /\ running'[a] = Idle
            BY <1>0, <2>5 DEF Leaves, KeepsQueue, Runs
        <3> QED
            BY <1>n, <3>1, <3>2 DEF CallsLast, IsResult
    <2>6. CASE Answers(a)
        <3>1. PICK ok \in BOOLEAN : Posts(Posted(a, "result", running[a].id, ok, 0))
            BY <2>6 DEF Answers
        <3> DEFINE p == Posted(a, "result", running[a].id, ok, 0)
        <3>2. p.kind = "result" /\ p.from = a /\ p.id = running[a].id
            BY DEF Posted
        <3>3. Posts(p)
            BY <3>1
        <3> HIDE DEF p
        <3>4. /\ queue'[a] = <<>> /\ Waits(p.id) /\ running'[a] = Idle
              /\ \A k \in 1..Len(posts) : ~IsResult(a, k)
            BY <1>0, <2>6, <3>2 DEF Answers, KeepsQueue, Runs, CallsLast
        <3>5. /\ posts'[Len(posts) + 1] = p
              /\ \A k \in 1..Len(posts') : IsResult(a, k)' <=> k = Len(posts) + 1
            BY <3>2, <3>3, <3>4, ResultAdded
        <3> QED
            BY <1>n, <3>4, <3>5 DEF CallsLast
    <2> QED
        BY <2>1, <2>2, <2>3, <2>4, <2>5, <2>6 DEF Moves
<1> QED
    BY <1>1, <1>2

\* What is queued when no call is in hand may be anything.
LEMMA QueuedLast ==
    ASSUME TypeOK, NEW a \in Instance, NoCall(a), NEW job \in Job, Execute(a, job),
           UNCHANGED <<running, posts>>,
           IsGeneration(job) \/ (job.id \in Call /\ asked'[job.id] = "waiting")
    PROVE  CallsLast(a)'
<1>1. queue'[a] = Append(queue[a], job) /\ queue[a] \in Seq(Job)
    BY DEF Execute, TypeOK
<1> HIDE DEF Job
<1>2. /\ Len(queue'[a]) = Len(queue[a]) + 1 /\ queue'[a][Len(queue[a]) + 1] = job
      /\ \A k \in 1..Len(queue[a]) : queue'[a][k] = queue[a][k]
      /\ \A k \in 1..Len(queue'[a]) : k \in 1..Len(queue[a]) \/ k = Len(queue[a]) + 1
    BY <1>1, SeqAppend
<1>3. \A k \in 1..Len(queue'[a]) :
         \/ IsGeneration(queue'[a][k])
         \/ /\ k = Len(queue'[a]) /\ queue'[a][k].id \in Call
            /\ asked'[queue'[a][k].id] = "waiting"
    BY <1>2 DEF NoCall
<1> QED
    BY <1>3 DEF CallsLast, NoCall, IsResult, IsGeneration, Waits

\* The main thread's step, with the answer of a call or without.
LEMMA DispatchCallsLast ==
    ASSUME TypeOK, NEW a \in Instance, CallsLast(a), Dispatches,
           IsResult(a, 1) \/ UNCHANGED asked
    PROVE  CallsLast(a)' /\ (IsResult(a, 1) => NoCall(a)')
<1>1. /\ \A k \in 1..Len(posts') : posts'[k] = posts[k + 1] /\ k + 1 \in 1..Len(posts)
      /\ \A k \in 1..Len(posts') : k + 1 # 1 /\ 1 \in 1..Len(posts)
    BY PostsTail
<1>2. queue' = queue /\ running' = running
    BY DEF Dispatches
<1>3. \A k \in 1..Len(posts') : IsResult(a, k)' => IsResult(a, k + 1)
    BY <1>1 DEF IsResult
<1>4. CASE IsResult(a, 1)
    <2>1. \A k \in 1..Len(posts') : ~IsResult(a, k)'
        BY <1>1, <1>3, <1>4 DEF CallsLast
    <2>2. queue[a] = <<>> /\ running[a] = Idle
        BY <1>4, PostsTail DEF CallsLast
    <2>3. NoCall(a)'
        BY <1>2, <2>1, <2>2 DEF NoCall, Idle, Methods
    <2>4. CallsLast(a)'
        BY <1>2, <2>1, <2>2 DEF CallsLast, Idle, Methods
    <2> QED
        BY <2>3, <2>4
<1>5. CASE ~IsResult(a, 1)
    <2>1. UNCHANGED asked
        BY <1>5
    <2>2. ASSUME NEW k \in 1..Len(posts'), IsResult(a, k)'
          PROVE  /\ running[a] = Idle /\ queue[a] = <<>> /\ Waits(posts'[k].id)
                 /\ \A j \in 1..Len(posts') : IsResult(a, j)' => j = k
        <3>1. /\ IsResult(a, k + 1) /\ k + 1 \in 1..Len(posts) /\ posts'[k] = posts[k + 1]
            BY <1>1, <1>3, <2>2
        <3>2. \A j \in 1..Len(posts') : IsResult(a, j)' => j + 1 = k + 1
            BY <1>1, <1>3, <3>1 DEF CallsLast
        <3> QED
            BY <3>1, <3>2 DEF CallsLast
    <2> QED
        BY <1>2, <1>5, <2>1, <2>2 DEF CallsLast, Waits
<1> QED
    BY <1>4, <1>5

\* Every step of a serialised application keeps SerialInv.
LEMMA SerialNext ==
    ASSUME TypeOK, UnusedInv, SinkInv, SerialInv, Serialised, [Next]_vars
    PROVE  SerialInv'
<1> USE DEF dart, known, engine, plugin, workers
<1> HIDE DEF Job, Post
<1>0. /\ attached # 0 => /\ attached \in Instance /\ OpenHasSink(attached)
                         /\ CallsLast(attached)
      /\ CreatedAlone /\ 0 \notin Instance /\ 0 \notin Stream
      /\ stream \in [Stream -> {"new", "created", "open", "closed", "cancelled", "lost"}]
      /\ eventSink \in [Instance -> {0} \cup Stream]
      /\ asked \in [Call -> {"no", "waiting", "answered", "lost"}]
    BY Attached DEF SerialInv, TypeOK
\* Steps that leave the queues, or the streams and the calls, as they are.
<1>k. ASSUME NEW a \in Instance, a = attached, attached' = attached,
             OpenHasSink(a)', CallsLast(a)', CreatedAlone'
      PROVE  SerialInv'
    <2>1. attached' # 0
        BY <1>0, <1>k
    <2>2. OpenHasSink(attached)' /\ CallsLast(attached)'
        BY <1>k DEF OpenHasSink, CallsLast, IsResult, IsGeneration, Waits
    <2> QED
        BY <1>k, <2>1, <2>2 DEF SerialInv
<1>q. ASSUME NEW a, CallsLast(a), UNCHANGED <<queue, running, posts, asked>>
      PROVE  CallsLast(a)'
    BY <1>q DEF CallsLast, IsResult, IsGeneration, Waits
<1>1. CASE OnAttachedToEngine
    <2>1. /\ attached' \in Instance /\ attached' > attaches /\ attached = 0
          /\ UNCHANGED <<queue, running, posts, stream>>
        BY <1>1, PluginAssumption DEF OnAttachedToEngine, TypeOK, Instance
    <2>2. PICK a \in Instance : a = attached'
        BY <2>1
    <2>3. Unused(a)
        BY <2>1, <2>2 DEF UnusedInv
    <2>4. queue'[a] = <<>> /\ running'[a] = Idle /\ \A k \in 1..Len(posts') : posts'[k].from # a
        BY <2>1, <2>3 DEF Unused
    <2>5. CallsLast(a)'
        BY <2>4 DEF CallsLast, IsResult, Idle, Methods
    <2>6. \A s \in Stream : stream'[s] \notin {"open", "created"}
        BY <2>1 DEF SerialInv
    <2>7. attached' # 0 /\ OpenHasSink(attached)' /\ CallsLast(attached)' /\ CreatedAlone'
        BY <1>0, <2>1, <2>2, <2>5, <2>6
        DEF OpenHasSink, CreatedAlone, CallsLast, IsResult, IsGeneration, Waits
    <2> QED
        BY <2>7 DEF SerialInv
<1>2. CASE OnDetachedFromEngine
    <2>1. attached' = 0
        BY <1>2 DEF OnDetachedFromEngine
    <2>2. \A s \in Stream : stream'[s] \notin {"open", "created"}
        BY <1>0, <1>2 DEF OnDetachedFromEngine
    <2> QED
        BY <2>1, <2>2 DEF SerialInv, CreatedAlone
<1>3. ASSUME NEW s \in Stream, GenerateResponse(s) PROVE SerialInv'
    <2>1. PICK a \in Instance : a = attached
        BY <1>0, <1>3 DEF GenerateResponse
    <2>2. /\ UNCHANGED <<attached, queue, running, posts, asked, eventSink, _isInitialized,
                         reloadDue>>
          /\ a # 0 /\ stream' = [stream EXCEPT ![s] = "created"]
          /\ _isInitialized /\ ~reloadDue /\ ~Busy /\ \A t \in Stream : stream[t] # "open"
        BY <1>3, <2>1 DEF GenerateResponse, CanCreate
    <2>3. CallsLast(a)' /\ OpenHasSink(a)'
        BY <1>0, <1>q, <2>1, <2>2 DEF OpenHasSink
    <2>4. CreatedAlone'
        <3>1. \A t \in Stream : stream'[t] \in {"open", "created"} => t = s
            BY <1>0, <2>2 DEF Busy
        <3>2. \A c \in Call : asked'[c] # "waiting"
            BY <2>2 DEF Busy
        <3>3. _isInitialized' /\ ~reloadDue'
            BY <2>2, Zenon
        <3> QED
            BY <3>1, <3>2, <3>3 DEF CreatedAlone
    <2> QED
        BY <1>k, <2>1, <2>2, <2>3, <2>4
<1>4. ASSUME NEW s \in Stream, Listen(s) PROVE SerialInv'
    <2>1. PICK a \in Instance : a = attached
        BY <1>0, <1>4 DEF Listen
    <2> DEFINE job == [method |-> "startGeneration", id |-> s]
    <2>2. /\ UNCHANGED <<attached, running, posts, asked>> /\ a # 0
          /\ Execute(a, job) /\ stream[s] = "created"
          /\ stream' = [stream EXCEPT ![s] = "open"]
          /\ eventSink' = [eventSink EXCEPT ![a] = s]
        BY <1>4, <2>1 DEF Listen
    <2>3. /\ \A c \in Call : asked[c] # "waiting"
          /\ \A t \in Stream : stream[t] \in {"open", "created"} => t = s
        BY <1>0, <2>2 DEF CreatedAlone
    <2>4. NoCall(a)
        BY <1>0, <2>1, <2>2, <2>3, NobodyWaits
    <2>5. job \in Job /\ IsGeneration(job)
        BY JobsMade DEF IsGeneration
    <2> HIDE DEF job
    <2>6. CallsLast(a)'
        BY <2>2, <2>4, <2>5, QueuedLast
    <2>7. OpenHasSink(a)'
        BY <1>0, <2>2, <2>3 DEF OpenHasSink
    <2>8. CreatedAlone'
        BY <1>0, <2>2, <2>3 DEF CreatedAlone
    <2> QED
        BY <1>k, <2>1, <2>2, <2>6, <2>7, <2>8
<1>5. ASSUME NEW s \in Stream, CancelStream(s) PROVE SerialInv'
    <2>1. PICK a \in Instance : a = attached
        BY <1>0, <1>5 DEF CancelStream
    <2>2. /\ UNCHANGED <<attached, queue, running, posts, asked, _isInitialized, reloadDue>>
          /\ a # 0 /\ stream' = [stream EXCEPT ![s] = "cancelled"] /\ stream[s] = "open"
          /\ eventSink' = [eventSink EXCEPT ![a] = 0]
        BY <1>5, <2>1 DEF CancelStream, OnCancel
    <2>3. CallsLast(a)'
        BY <1>0, <1>q, <2>1, <2>2
    <2>4. OpenHasSink(a)'
        <3>1. \A t \in Stream : stream[t] = "open" => t = s
            BY <1>0, <2>1, <2>2 DEF OpenHasSink
        <3> QED
            BY <1>0, <2>2, <3>1 DEF OpenHasSink
    <2>5. CreatedAlone'
        BY <1>0, <2>2 DEF CreatedAlone
    <2> QED
        BY <1>k, <2>1, <2>2, <2>3, <2>4, <2>5
<1>6. ASSUME UNCHANGED <<attached, queue, running, posts, asked, eventSink, stream,
                         _isInitialized, reloadDue>>
      PROVE  SerialInv'
    <2>1. CreatedAlone'
        BY <1>0, <1>6 DEF CreatedAlone
    <2>2. CASE attached = 0
        BY <1>6, <2>1, <2>2 DEF SerialInv
    <2>3. CASE attached # 0
        <3>1. PICK a \in Instance : a = attached
            BY <1>0, <2>3
        <3>2. CallsLast(a)' /\ OpenHasSink(a)'
            BY <1>0, <1>6, <1>q, <2>3, <3>1 DEF OpenHasSink
        <3> QED
            BY <1>k, <1>6, <2>1, <3>1, <3>2
    <2> QED
        BY <2>2, <2>3
<1>7. CASE AbortGeneration \/ UNCHANGED vars
    BY <1>6, <1>7 DEF AbortGeneration, vars
<1>8. ASSUME NEW c \in Call, NEW m \in Calls, Invoke(c, m) PROVE SerialInv'
    <2>1. PICK a \in Instance : a = attached
        BY <1>0, <1>8 DEF Invoke
    <2> DEFINE job == [method |-> m, id |-> c]
    <2>2. /\ UNCHANGED <<attached, running, posts, eventSink, stream>> /\ a # 0
          /\ asked[c] = "no" /\ ~Busy
          /\ \/ queue' = queue /\ asked' = [asked EXCEPT ![c] = "answered"]
             \/ Execute(a, job) /\ asked' = [asked EXCEPT ![c] = "waiting"]
        BY <1>8, <2>1 DEF Invoke, Unavailable, CanCall
    <2>3. /\ \A d \in Call : asked[d] # "waiting"
          /\ \A t \in Stream : stream[t] # "created"
        BY <2>2 DEF Busy
    <2>4. NoCall(a)
        BY <1>0, <2>1, <2>2, <2>3, NobodyWaits
    <2>5. CallsLast(a)'
        <3>1. CASE queue' = queue
            BY <2>2, <2>4, <3>1 DEF NoCall, CallsLast, IsResult, IsGeneration
        <3>2. CASE Execute(a, job) /\ asked' = [asked EXCEPT ![c] = "waiting"]
            <4>1. job \in Job /\ job.id = c
                BY JobsMade, PluginAssumption
            <4>2. asked'[c] = "waiting"
                BY <1>0, <3>2
            <4> HIDE DEF job
            <4> QED
                BY <2>2, <2>4, <3>2, <4>1, <4>2, QueuedLast
        <3> QED
            BY <2>2, <3>1, <3>2
    <2>6. OpenHasSink(a)' /\ CreatedAlone'
        BY <1>0, <2>1, <2>2, <2>3 DEF OpenHasSink, CreatedAlone
    <2> QED
        BY <1>k, <2>1, <2>2, <2>5, <2>6
<1>9. ASSUME NEW i \in Instance, Executor(i) PROVE SerialInv'
    <2>1. Moves(i) /\ UNCHANGED <<attached, asked, eventSink, stream, _isInitialized, reloadDue>>
        BY <1>9, ExecutorMoves
    <2>2. CreatedAlone'
        BY <1>0, <2>1 DEF CreatedAlone
    <2>3. CASE attached = 0
        BY <2>1, <2>2, <2>3 DEF SerialInv
    <2>4. CASE attached # 0
        <3>1. PICK a \in Instance : a = attached
            BY <1>0, <2>4
        <3>2. CallsLast(a)' /\ OpenHasSink(a)'
            BY <1>0, <2>1, <2>4, <3>1, MovesCallsLast DEF OpenHasSink
        <3> QED
            BY <1>k, <2>1, <2>2, <3>1, <3>2
    <2> QED
        BY <2>3, <2>4
<1>10. CASE Handler
    <2>1. Dispatches /\ UNCHANGED attached /\ posts[1] = Head(posts) /\ posts # <<>>
          /\ Head(posts) \in Post
        BY <1>10, HandlerDispatches, PostsTail, PostTypes DEF Dispatches
    <2>2. CASE attached = 0
        <3>1. SinkStream = 0 /\ ~Heard
            BY <1>0, <2>1, <2>2, PostFacts DEF SinkStream, Heard
        <3>2. UNCHANGED stream
            BY <1>10, <3>1 DEF Handler, AnswerCall, DeliverToken, DeliverSentinel
        <3> QED
            BY <2>1, <2>2, <3>2 DEF SerialInv, CreatedAlone
    <2>3. CASE attached # 0
        <3>1. PICK a \in Instance : a = attached
            BY <1>0, <2>3
        <3>2. \/ UNCHANGED <<asked, _isInitialized, reloadDue>>
              \/ AnswerCall /\ IsResult(a, 1) /\ asked' = [asked EXCEPT ![posts[1].id] = "answered"]
            BY <1>10, <2>1, <3>1
            DEF Handler, AnswerCall, DeliverToken, DeliverSentinel, Runnable, Heard, IsResult
        <3>3. CallsLast(a)'
            BY <1>0, <2>1, <2>3, <3>1, <3>2, DispatchCallsLast
        <3>4. \A s \in Stream : stream'[s] \in {"open", "created"} =>
                 stream[s] = stream'[s] /\ (stream[s] = "open" => eventSink'[a] = s)
            <4>1. CASE AnswerCall \/ DeliverToken
                BY <1>0, <2>3, <3>1, <4>1 DEF AnswerCall, DeliverToken, OpenHasSink
            <4>2. CASE DeliverSentinel /\ SinkStream = 0
                BY <1>0, <2>3, <3>1, <4>2 DEF DeliverSentinel, OpenHasSink
            <4>3. CASE DeliverSentinel /\ SinkStream # 0
                <5>1. SinkStream \in Stream /\ SinkStream = eventSink[a]
                    BY <2>1, <3>1, <4>3, SinkOpen
                <5>2. stream' = [stream EXCEPT ![SinkStream] = "closed"]
                    BY <4>3 DEF DeliverSentinel
                <5>3. \A s \in Stream : stream[s] = "open" => s = SinkStream
                    BY <1>0, <2>3, <3>1, <5>1 DEF OpenHasSink
                <5> QED
                    BY <1>0, <5>1, <5>2, <5>3
            <4> QED
                BY <1>10, <4>1, <4>2, <4>3 DEF Handler
        <3>5. OpenHasSink(a)'
            BY <3>4 DEF OpenHasSink
        <3>6. CreatedAlone'
            <4>1. CASE UNCHANGED <<asked, _isInitialized, reloadDue>>
                <5>1. ASSUME NEW s \in Stream, stream'[s] = "created"
                      PROVE  /\ _isInitialized /\ ~reloadDue
                             /\ \A c \in Call : asked[c] # "waiting"
                             /\ \A t \in Stream : stream'[t] \in {"open", "created"} => t = s
                    BY <1>0, <3>4, <5>1 DEF CreatedAlone
                <5> QED
                    BY <4>1, <5>1 DEF CreatedAlone
            <4>2. CASE IsResult(a, 1)
                <5>1. \E c \in Call : asked[c] = "waiting"
                    BY <1>0, <2>1, <2>3, <3>1, <4>2, PostsTail DEF CallsLast, Waits
                <5>2. \A s \in Stream : stream[s] # "created"
                    BY <1>0, <5>1 DEF CreatedAlone
                <5> QED
                    BY <3>4, <5>2 DEF CreatedAlone
            <4> QED
                BY <3>2, <4>1, <4>2
        <3> QED
            BY <1>k, <2>1, <3>1, <3>3, <3>5, <3>6
    <2> QED
        BY <2>2, <2>3
<1> QED
    BY <1>1, <1>2, <1>3, <1>4, <1>5, <1>7, <1>8, <1>9, <1>10 DEF Next, Application

-----------------------------------------------------------------------------
\* Serialised applications of a process with one instance: what Dart knows of the
\* engine while the attached instance a has no call in hand that rebuilds it.
Rebuilds == {"initModel", "resetContext", "dispose"}

\* Jobs that are not generations are the calls they were made for.
IsNamed(job) == job.method \in Methods /\ called[job.id] = job.method
JobsAreNamed(a) ==
    /\ \A k \in 1..Len(queue[a]) : IsGeneration(queue[a][k]) \/ IsNamed(queue[a][k])
    /\ running[a].method \in Methods => IsNamed(running[a])

\* A rebuild is on the thread, or its answer has not reached Dart yet.
Rebuilding(a) ==
    \/ running[a].method \in Rebuilds
    \/ \E k \in 1..Len(posts) : IsResult(a, k) /\ called[posts[k].id] \in Rebuilds

\* What Dart believes is so unless a rebuild is under way; good news of a rebuild
\* is true while it is under way; and a generation that waits will find a context.
BeliefIsTrue(a) == _isInitialized /\ ~reloadDue /\ ~Rebuilding(a) => loaded = "context"
NewsIsTrue(a) ==
    \A k \in 1..Len(posts) :
        IsResult(a, k) /\ posts[k].ok /\ called[posts[k].id] \in {"initModel", "resetContext"}
            => loaded = "context"
QueuedWillStart(a) ==
    \A k \in 1..Len(queue[a]) : IsGeneration(queue[a][k]) => loaded = "context"

EndsBySentinel(a, s) ==
    \E k \in 1..Len(posts) :
        posts[k].kind = "sentinel" /\ posts[k].from = a /\ posts[k].id = s
Serves(a) ==
    \A s \in Stream : stream[s] = "open" =>
        s \in silent \/ CarriedByWorker(a, s) \/ EndsBySentinel(a, s)

EngineKnown(a) ==
    JobsAreNamed(a) /\ BeliefIsTrue(a) /\ NewsIsTrue(a) /\ QueuedWillStart(a)
ServedInv == attached # 0 => EngineKnown(attached) /\ Serves(attached)

LEMMA ServedIsOpenIsServed == TypeOK /\ SerialInv /\ ServedInv => OpenIsServed
<1> SUFFICES ASSUME TypeOK, SerialInv, ServedInv, NEW s \in Stream, stream[s] = "open"
             PROVE  s \in silent \/ Pending(s) \/ SentinelPosted(s)
    BY DEF OpenIsServed
<1>1. attached # 0 /\ attached \in Instance
    BY Attached DEF SerialInv
<1>2. s \in silent \/ CarriedByWorker(attached, s) \/ EndsBySentinel(attached, s)
    BY <1>1 DEF ServedInv, Serves
<1>3. CarriedByWorker(attached, s) => Pending(s)
    BY <1>1, PendingIsCarried
<1>4. EndsBySentinel(attached, s) => SentinelPosted(s)
    BY DEF EndsBySentinel, SentinelPosted
<1> QED
    BY <1>2, <1>3, <1>4

\* A posted sentinel stays while the runnables only grow.
LEMMA SentinelStays ==
    ASSUME TypeOK, NEW a, NEW s,
           posts' = posts \/ \E p : Posts(p)
    PROVE  EndsBySentinel(a, s) => EndsBySentinel(a, s)'
<1>1. CASE posts' = posts
    BY <1>1 DEF EndsBySentinel
<1>2. ASSUME NEW p, Posts(p) PROVE EndsBySentinel(a, s) => EndsBySentinel(a, s)'
    BY <1>2, PostsAppend DEF EndsBySentinel
<1> QED
    BY <1>1, <1>2

LEMMA SentinelAdded ==
    ASSUME TypeOK, NEW a \in Instance, NEW s,
           Posts(Posted(a, "sentinel", s, TRUE, 0))
    PROVE  EndsBySentinel(a, s)'
<1> DEFINE p == Posted(a, "sentinel", s, TRUE, 0)
<1>1. p.kind = "sentinel" /\ p.from = a /\ p.id = s
    BY DEF Posted
<1> HIDE DEF p
<1>2. Len(posts) \in Nat /\ Len(posts') = Len(posts) + 1 /\ posts'[Len(posts) + 1] = p
    BY PostsAppend DEF p
<1> QED
    BY <1>1, <1>2 DEF EndsBySentinel

\* A generation that waits is served when the head of its queue is: it starts.
LEMMA TakenServes ==
    ASSUME TypeOK, NEW a \in Instance, CallsLast(a), TakesJob(a), NEW s,
           IsGeneration(Head(queue[a])) => running'[a] = Head(queue[a]),
           CarriedByWorker(a, s)
    PROVE  CarriedByWorker(a, s)'
<1>1. /\ running[a] = Idle /\ Head(queue[a]) = queue[a][1]
      /\ \A k \in 1..Len(queue[a]) : k # 1 =>
            k - 1 \in 1..Len(queue'[a]) /\ queue'[a][k - 1] = queue[a][k]
    BY TakenLast
<1>2. ~IsGeneration(Idle)
    BY DEF Idle, IsGeneration
<1>3. PICK k \in 1..Len(queue[a]) : IsGeneration(queue[a][k]) /\ queue[a][k].id = s
    BY <1>1, <1>2 DEF CarriedByWorker, CarriedByQueue, CarriedByThread
<1>4. CASE k = 1
    BY <1>1, <1>3, <1>4 DEF CarriedByWorker, CarriedByThread
<1>5. CASE k # 1
    BY <1>1, <1>3, <1>5 DEF CarriedByWorker, CarriedByQueue
<1> QED
    BY <1>4, <1>5

\* A step of the executor keeps what is known of the engine, and what serves the
\* open stream: a generation at the head of the queue finds its context.
LEMMA ExecutorServes ==
    ASSUME TypeOK, NEW a \in Instance, CallsLast(a), EngineKnown(a), Serves(a), Executor(a)
    PROVE  EngineKnown(a)' /\ Serves(a)'
<1> USE DEF dart, known, engine, plugin, workers
<1>0. /\ queue \in [Instance -> Seq(Job)] /\ running \in [Instance -> Job]
      /\ UNCHANGED <<stream, called, _isInitialized, reloadDue>>
    BY ExecutorMoves DEF TypeOK
<1> HIDE DEF Job, Post
<1>i. /\ Idle.method \notin Methods /\ CleaningUp(a).method \notin Methods
      /\ Rebuilds \subseteq Methods /\ ~IsGeneration(Idle)
      /\ \A job : IsGeneration(job) => job.method \notin Methods /\ job # Idle
      /\ \A job : job.method \in Methods => job # Idle
    BY DEF Idle, CleaningUp, IsGeneration, Methods, Rebuilds
\* With a call or a generation on the thread or taken, no answer is in hand.
<1>r. running[a] # Idle \/ queue[a] # <<>> => \A k \in 1..Len(posts) : ~IsResult(a, k)
    BY DEF CallsLast
<1>t. ASSUME TakesJob(a)
      PROVE  /\ ~Rebuilding(a) /\ \A k \in 1..Len(posts) : ~IsResult(a, k)
             /\ IsGeneration(Head(queue[a])) \/ (IsNamed(Head(queue[a])) /\ queue'[a] = <<>>)
             /\ \A k \in 1..Len(queue'[a]) : \E j \in 1..Len(queue[a]) : queue'[a][k] = queue[a][j]
             /\ Head(queue[a]) \in Job
    <2>1. running[a] = Idle /\ queue[a] # <<>> /\ queue[a] \in Seq(Job)
        BY <1>0, <1>t DEF TakesJob
    <2>2. IsGeneration(Head(queue[a])) \/ IsNamed(Head(queue[a]))
        BY <1>t, TakenLast DEF EngineKnown, JobsAreNamed
    <2> QED
        BY <1>i, <1>r, <1>t, <2>1, <2>2, TakenLast DEF Rebuilding
\* What is left to show when no call is added.
<1>j. ASSUME \A k \in 1..Len(queue'[a]) : \E j \in 1..Len(queue[a]) : queue'[a][k] = queue[a][j],
             running'[a].method \in Methods => IsNamed(running'[a])
      PROVE  JobsAreNamed(a)' /\ (loaded' = loaded => QueuedWillStart(a)')
    BY <1>0, <1>j DEF EngineKnown, JobsAreNamed, IsNamed, QueuedWillStart
\* With no result and no rebuild in hand little is left to show.
<1>a. ASSUME \A j \in 1..Len(posts') : ~IsResult(a, j)', loaded' = loaded,
             running'[a].method \notin Rebuilds, ~Rebuilding(a)
      PROVE  BeliefIsTrue(a)' /\ NewsIsTrue(a)'
    <2>1. BeliefIsTrue(a)'
        BY <1>0, <1>a DEF EngineKnown, BeliefIsTrue, Rebuilding
    <2>2. NewsIsTrue(a)'
        BY <1>a DEF NewsIsTrue
    <2> QED
        BY <2>1, <2>2
<1>s. ASSUME posts' = posts \/ \E p : Posts(p), silent \subseteq silent',
             \A s \in Stream : CarriedByWorker(a, s) =>
                 s \in silent' \/ CarriedByWorker(a, s)' \/ EndsBySentinel(a, s)'
      PROVE  Serves(a)'
    BY <1>0, <1>s, SentinelStays DEF Serves
<1>1. ASSUME StartGeneration(a) PROVE EngineKnown(a)' /\ Serves(a)'
    <2>1. TakesJob(a) /\ IsGeneration(Head(queue[a]))
        BY <1>1 DEF StartGeneration, Take, TakesJob, NextJob, IsGeneration
    <2>2. loaded = "context"
        BY <2>1, TakenLast DEF EngineKnown, QueuedWillStart
    <2>3. running'[a] = Head(queue[a]) /\ UNCHANGED <<loaded, posts, silent>>
        BY <1>0, <1>1, <2>2 DEF StartGeneration, NextJob
    <2>4. running'[a].method \notin Methods
        BY <1>i, <2>1, <2>3
    <2>5. JobsAreNamed(a)' /\ QueuedWillStart(a)'
        BY <1>j, <1>t, <2>1, <2>3, <2>4
    <2>6. BeliefIsTrue(a)' /\ NewsIsTrue(a)'
        <3>1. \A j \in 1..Len(posts') : ~IsResult(a, j)'
            BY <1>t, <2>1, <2>3 DEF IsResult
        <3> QED
            BY <1>a, <1>i, <1>t, <2>1, <2>3, <2>4, <3>1
    <2>7. Serves(a)'
        BY <1>s, <2>1, <2>3, TakenServes
    <2> QED
        BY <2>5, <2>6, <2>7 DEF EngineKnown
\* The steps of a job that is no call.
<1>2. ASSUME UNCHANGED <<loaded, queue>>, running[a] # Idle, running[a].method \notin Methods,
             running'[a].method \notin Methods,
             \/ posts' = posts
             \/ \E p : Posts(p) /\ p.kind # "result",
             silent \subseteq silent',
             \A s \in Stream : CarriedByThread(a, s) =>
                 s \in silent' \/ CarriedByThread(a, s)' \/ EndsBySentinel(a, s)'
      PROVE  EngineKnown(a)' /\ Serves(a)'
    <2>1. JobsAreNamed(a)' /\ QueuedWillStart(a)'
        BY <1>2, <1>j
    <2>2. BeliefIsTrue(a)' /\ NewsIsTrue(a)'
        <3>1. ~Rebuilding(a) /\ \A j \in 1..Len(posts) : ~IsResult(a, j)
            BY <1>2, <1>i, <1>r DEF Rebuilding
        <3>2. \A j \in 1..Len(posts') : ~IsResult(a, j)'
            BY <1>2, <3>1, NoResultAdded
        <3> QED
            BY <1>2, <1>a, <1>i, <3>1, <3>2
    <2>3. Serves(a)'
        <3>1. \A s : CarriedByQueue(a, s) => CarriedByQueue(a, s)'
            BY <1>2 DEF CarriedByQueue
        <3> QED
            BY <1>2, <1>s, <3>1 DEF CarriedByWorker
    <2> QED
        BY <2>1, <2>2, <2>3 DEF EngineKnown
<1>g. Generating(a) => /\ IsGeneration(running[a]) /\ running[a] # Idle
                       /\ running[a].method \notin Methods /\ running[a].id \in Stream
    BY <1>i, JobTypes, JobFacts DEF Generating, IsGeneration
<1>3. ASSUME SendToken(a) PROVE EngineKnown(a)' /\ Serves(a)'
    <2> DEFINE p == Posted(a, "token", running[a].id, TRUE, generated[running[a].id] + 1)
    <2>1. p.kind # "result"
        BY DEF Posted
    <2>2. Posts(p)
        <3>1. running[a].id \in Stream /\ generated[running[a].id] + 1 \in Nat
            BY <1>3, <1>g DEF SendToken, TypeOK
        <3>2. p \in Post
            BY <3>1, PostsMade
        <3> QED
            BY <1>3, <3>2 DEF Posts, SendToken
    <2> HIDE DEF p
    <2>3. Generating(a) /\ UNCHANGED <<loaded, queue, running, silent>>
        BY <1>3 DEF SendToken
    <2> QED
        BY <1>2, <1>g, <2>1, <2>2, <2>3 DEF CarriedByThread
<1>4. ASSUME SendSentinel(a) PROVE EngineKnown(a)' /\ Serves(a)'
    <2> DEFINE p == Posted(a, "sentinel", running[a].id, TRUE, 0)
    <2>1. p.kind # "result"
        BY DEF Posted
    <2>2. Generating(a) /\ running'[a] = CleaningUp(a) /\ UNCHANGED <<loaded, queue, silent>>
        BY <1>0, <1>4 DEF SendSentinel, CleaningUp
    <2>3. Posts(p)
        <3>1. p \in Post
            BY <1>g, <2>2, PostsMade
        <3> QED
            BY <1>4, <3>1 DEF Posts, SendSentinel, WithSentinel
    <2>4. ASSUME NEW s \in Stream, CarriedByThread(a, s) PROVE EndsBySentinel(a, s)'
        BY <2>3, <2>4, SentinelAdded DEF CarriedByThread
    <2> HIDE DEF p
    <2> QED
        BY <1>2, <1>g, <1>i, <2>1, <2>2, <2>3, <2>4
<1>5. ASSUME FailPrefill(a) PROVE EngineKnown(a)' /\ Serves(a)'
    <2>1. /\ Generating(a) /\ UNCHANGED <<loaded, queue, posts>>
          /\ running'[a] = Idle /\ silent' = silent \cup {running[a].id}
        BY <1>0, <1>5 DEF FailPrefill
    <2> QED
        BY <1>2, <1>g, <1>i, <2>1 DEF CarriedByThread
<1>6. ASSUME CleanUp(a) \/ FinishDetach(a) PROVE EngineKnown(a)' /\ Serves(a)'
    <2>1. /\ running[a].method \in {"cleanUp", "detach"} /\ running'[a] = Idle
          /\ UNCHANGED <<loaded, queue, posts, silent>>
        BY <1>0, <1>6 DEF CleanUp, FinishDetach
    <2>2. running[a] # Idle /\ running[a].method \notin Methods /\ ~IsGeneration(running[a])
        BY <2>1 DEF Idle, Methods, IsGeneration
    <2> QED
        BY <1>2, <1>i, <2>1, <2>2 DEF CarriedByThread
<1>7. ASSUME BeginCall(a) PROVE EngineKnown(a)' /\ Serves(a)'
    <2>1. /\ TakesJob(a) /\ ~IsGeneration(Head(queue[a]))
          /\ running'[a] = Head(queue[a]) /\ UNCHANGED <<posts, silent>>
          /\ loaded' = LeftBy(Head(queue[a]).method)
        BY <1>0, <1>7 DEF BeginCall, Take, TakesJob, NextJob, IsGeneration
    <2>2. IsNamed(Head(queue[a])) /\ queue'[a] = <<>>
        BY <1>t, <2>1
    <2>3. JobsAreNamed(a)'
        BY <1>0, <2>1, <2>2 DEF JobsAreNamed, IsNamed
    <2>4. \A j \in 1..Len(posts') : ~IsResult(a, j)'
        BY <1>t, <2>1 DEF IsResult
    <2>5. NewsIsTrue(a)' /\ QueuedWillStart(a)'
        BY <2>2, <2>4 DEF NewsIsTrue, QueuedWillStart
    <2>6. BeliefIsTrue(a)'
        <3>1. CASE Head(queue[a]).method \in Rebuilds
            BY <2>1, <3>1 DEF BeliefIsTrue, Rebuilding
        <3>2. CASE Head(queue[a]).method \notin Rebuilds
            <4>1. loaded' = loaded
                BY <2>1, <2>2, <3>2 DEF LeftBy, Rebuilds, IsNamed, Methods
            <4> QED
                BY <1>a, <1>t, <2>1, <2>4, <3>2, <4>1
        <3> QED
            BY <3>1, <3>2
    <2>7. Serves(a)'
        BY <1>s, <2>1, TakenServes
    <2> QED
        BY <2>3, <2>5, <2>6, <2>7 DEF EngineKnown
\* The answer of call c, and where it leaves the engine.
<1>8. ASSUME NEW id, NEW ok, Posts(Posted(a, "result", id, ok, 0)), running'[a] = Idle,
             \A j \in 1..Len(posts) : ~IsResult(a, j),
             called[id] \in Rebuilds \/ (loaded' = loaded /\ ~Rebuilding(a)),
             ok /\ called[id] \in {"initModel", "resetContext"} => loaded' = "context"
      PROVE  BeliefIsTrue(a)' /\ NewsIsTrue(a)'
    <2> DEFINE p == Posted(a, "result", id, ok, 0)
               n == Len(posts)
    <2>1. p.kind = "result" /\ p.from = a /\ p.id = id /\ p.ok = ok
        BY DEF Posted
    <2> HIDE DEF p
    <2>2. n + 1 \in 1..Len(posts') /\ posts'[n + 1] = p
          /\ \A k \in 1..Len(posts') : IsResult(a, k)' <=> k = n + 1
        BY <1>8, <2>1, ResultAdded DEF p
    <2> HIDE DEF n
    <2>3. NewsIsTrue(a)'
        BY <1>0, <1>8, <2>1, <2>2 DEF NewsIsTrue
    <2>4. CASE called[id] \in Rebuilds
        <3>1. Rebuilding(a)'
            BY <1>0, <2>1, <2>2, <2>4 DEF Rebuilding
        <3> QED
            BY <2>3, <3>1 DEF BeliefIsTrue
    <2>5. CASE loaded' = loaded /\ ~Rebuilding(a)
        BY <1>0, <2>3, <2>5 DEF EngineKnown, BeliefIsTrue
    <2> QED
        BY <1>8, <2>4, <2>5
<1>9. ASSUME RefuseLoad(a) PROVE EngineKnown(a)' /\ Serves(a)'
    <2> DEFINE id == Head(queue[a]).id
               p  == Posted(a, "result", id, FALSE, 0)
    <2>1. /\ TakesJob(a) /\ Head(queue[a]).method = "initModel"
          /\ ~IsGeneration(Head(queue[a]))
          /\ posts' = Append(posts, p) /\ UNCHANGED <<loaded, silent, running>>
        BY <1>9 DEF RefuseLoad, Take, TakesJob, NextJob, IsGeneration
    <2>2. /\ IsNamed(Head(queue[a])) /\ queue'[a] = <<>> /\ Head(queue[a]) \in Job
          /\ \A j \in 1..Len(posts) : ~IsResult(a, j)
        BY <1>t, <2>1
    <2>3. Posts(p)
        <3>1. id \in Call
            BY <2>1, <2>2, JobFacts DEF IsNamed
        <3> QED
            BY <2>1, <3>1, PostsMade DEF Posts
    <2>4. called[id] = "initModel" /\ running'[a] = Idle
        BY <2>1, <2>2 DEF IsNamed, TakesJob
    <2>5. JobsAreNamed(a)' /\ QueuedWillStart(a)'
        BY <1>i, <2>2, <2>4 DEF JobsAreNamed, QueuedWillStart
    <2>6. Serves(a)'
        BY <1>s, <2>1, <2>3, TakenServes
    <2> HIDE DEF id
    <2>7. BeliefIsTrue(a)' /\ NewsIsTrue(a)'
        BY <1>8, <2>2, <2>3, <2>4 DEF Rebuilds
    <2> QED
        BY <2>5, <2>6, <2>7 DEF EngineKnown
<1>10. ASSUME FinishCall(a) PROVE EngineKnown(a)' /\ Serves(a)'
    <2> DEFINE id == running[a].id
               m  == running[a].method
    <2>1. /\ m \in Methods /\ running[a] # Idle /\ ~IsGeneration(running[a])
          /\ running'[a] = Idle /\ UNCHANGED <<queue, silent>>
        BY <1>0, <1>10, <1>i DEF FinishCall
    <2>2. PICK outcome \in Outcomes(m) :
             loaded' = outcome[2] /\ posts' = PostedResult(a, outcome[1])
        BY <1>10 DEF FinishCall
    <2> DEFINE ok == outcome[1]
               p  == Posted(a, "result", id, ok, 0)
    <2>3. ok \in BOOLEAN /\ outcome[2] \in {"nothing", "model", "context"}
        BY <2>2, OutcomeTypes
    <2>4. Posts(p)
        <3>1. id \in Call
            BY <2>1, JobTypes, JobFacts
        <3> QED
            BY <2>2, <2>3, <3>1, PostsMade DEF Posts, PostedResult
    <2>5. called[id] = m
        BY <2>1 DEF EngineKnown, JobsAreNamed, IsNamed
    <2>6. queue'[a] = <<>> /\ \A j \in 1..Len(posts) : ~IsResult(a, j)
        BY <1>r, <2>1 DEF CallsLast
    <2>7. m \notin Rebuilds => loaded' = loaded /\ ~Rebuilding(a)
        <3>1. ASSUME m \notin Rebuilds PROVE outcome[2] = loaded
            <4>1. \/ outcome \in {<<TRUE, loaded>>, <<FALSE, loaded>>}
                  \/ outcome \in BOOLEAN \X {loaded}
                BY <2>2, <3>1 DEF Outcomes, Rebuilds
            <4>2. \A b, c : outcome = <<b, c>> => outcome[2] = c
                OBVIOUS
            <4> QED
                BY <4>1, <4>2
        <3> QED
            BY <2>2, <2>6, <3>1 DEF Rebuilding
    <2>8. ok /\ m \in {"initModel", "resetContext"} => loaded' = "context"
        <3>1. ASSUME m \in {"initModel", "resetContext"}
              PROVE  \/ outcome = <<TRUE, "context">>
                     \/ \E state : outcome = <<FALSE, state>>
            BY <2>2, <3>1 DEF Outcomes
        <3>2. \A b, c : outcome = <<b, c>> => outcome[1] = b /\ outcome[2] = c
            OBVIOUS
        <3> QED
            BY <2>2, <3>1, <3>2
    <2>9. JobsAreNamed(a)' /\ QueuedWillStart(a)'
        BY <1>i, <2>1, <2>6 DEF JobsAreNamed, QueuedWillStart
    <2>10. Serves(a)'
        <3>1. \A s \in Stream : CarriedByWorker(a, s) => CarriedByWorker(a, s)'
            BY <2>1 DEF CarriedByWorker, CarriedByQueue, CarriedByThread
        <3> QED
            BY <1>s, <2>1, <2>4, <3>1
    <2> HIDE DEF id, m, ok
    <2>11. BeliefIsTrue(a)' /\ NewsIsTrue(a)'
        BY <1>8, <2>1, <2>4, <2>5, <2>6, <2>7, <2>8
    <2> QED
        BY <2>9, <2>10, <2>11 DEF EngineKnown
<1> QED
    BY <1>1, <1>3, <1>4, <1>5, <1>6, <1>7, <1>9, <1>10 DEF Executor

\* Dispatching a runnable of this or another instance.
LEMMA DispatchServes ==
    ASSUME TypeOK, NEW a \in Instance, a = attached, CallsLast(a), OpenHasSink(a),
           EngineKnown(a), Serves(a), Handler
    PROVE  EngineKnown(a)' /\ Serves(a)'
<1> USE DEF dart, known, engine, plugin, workers
<1> HIDE DEF Job, Post
<1>0. /\ Dispatches /\ UNCHANGED <<queue, running, loaded, silent>>
      /\ stream \in [Stream -> {"new", "created", "open", "closed", "cancelled", "lost"}]
    BY HandlerDispatches DEF Dispatches, TypeOK
<1>1. /\ Len(posts) \in Nat /\ Len(posts') = Len(posts) - 1
      /\ Head(posts) = posts[1] /\ 1 \in 1..Len(posts)
      /\ \A k \in 1..Len(posts') : posts'[k] = posts[k + 1] /\ k + 1 \in 2..Len(posts)
    BY <1>0, PostsTail
<1>2. \A k \in 2..Len(posts) : k - 1 \in 1..Len(posts') /\ posts'[k - 1] = posts[k]
    <2>1. \A k \in 2..Len(posts) : k - 1 \in 1..Len(posts') /\ (k - 1) + 1 = k
        BY <1>1
    <2> QED
        BY <1>1, <2>1
<1>3. ASSUME ~IsResult(a, 1) PROVE EngineKnown(a)'
    <2>1. UNCHANGED <<called, _isInitialized, reloadDue>>
        BY <1>1, <1>3
        DEF Handler, AnswerCall, DeliverToken, DeliverSentinel, Heard, Runnable, IsResult
    <2>2. JobsAreNamed(a)' /\ QueuedWillStart(a)'
        BY <1>0, <2>1 DEF EngineKnown, JobsAreNamed, IsNamed, QueuedWillStart
    <2>3. NewsIsTrue(a)'
        BY <1>0, <1>1, <2>1 DEF EngineKnown, NewsIsTrue, IsResult
    <2>4. Rebuilding(a) => Rebuilding(a)'
        <3>1. \A k \in 1..Len(posts) : IsResult(a, k) => k \in 2..Len(posts)
            BY <1>1, <1>3
        <3>2. \A k \in 2..Len(posts) : IsResult(a, k) => IsResult(a, k - 1)'
            BY <1>2 DEF IsResult
        <3> QED
            BY <1>0, <1>2, <2>1, <3>1, <3>2 DEF Rebuilding
    <2>5. BeliefIsTrue(a)'
        BY <1>0, <2>1, <2>4 DEF EngineKnown, BeliefIsTrue
    <2> QED
        BY <2>2, <2>3, <2>5 DEF EngineKnown
<1>4. ASSUME IsResult(a, 1) PROVE EngineKnown(a)'
    <2> DEFINE m  == called[posts[1].id]
               ok == posts[1].ok
    <2>1. /\ _isInitialized' = CASE m = "initModel" -> ok
                                [] m = "dispose"   -> FALSE
                                [] OTHER           -> _isInitialized
          /\ reloadDue' = CASE m = "resetContext" /\ ~ok -> TRUE
                            [] m = "initModel" /\ ok     -> FALSE
                            [] OTHER                     -> reloadDue
        BY <1>1, <1>4
        DEF Handler, AnswerCall, DeliverToken, DeliverSentinel, Heard, Runnable, IsResult
    <2>2. ok \in BOOLEAN /\ reloadDue \in BOOLEAN
        BY <1>1, PostTypes, PostFacts DEF TypeOK
    <2>3. ok /\ m \in {"initModel", "resetContext"} => loaded = "context"
        BY <1>1, <1>4 DEF EngineKnown, NewsIsTrue
    <2>4. /\ running[a] = Idle /\ queue[a] = <<>>
          /\ \A j \in 1..Len(posts) : IsResult(a, j) => j = 1
        BY <1>1, <1>4 DEF CallsLast
    <2>5. m \notin Rebuilds => ~Rebuilding(a)
        BY <2>4 DEF Idle, Rebuilds, Rebuilding
    <2>6. \A k \in 1..Len(posts') : ~IsResult(a, k)'
        <3>1. \A k \in 1..Len(posts') : IsResult(a, k)' => IsResult(a, k + 1)
            BY <1>1 DEF IsResult
        <3>2. \A k \in 1..Len(posts') : k + 1 # 1 /\ k + 1 \in 1..Len(posts)
            BY <1>1
        <3> QED
            BY <2>4, <3>1, <3>2
    <2>7. JobsAreNamed(a)' /\ QueuedWillStart(a)' /\ NewsIsTrue(a)'
        BY <1>0, <2>4, <2>6 DEF JobsAreNamed, QueuedWillStart, NewsIsTrue, Idle, Methods
    <2>8. ASSUME _isInitialized', ~reloadDue' PROVE loaded = "context"
        <3>1. CASE m = "initModel"
            <4>1. _isInitialized' = ok
                BY <2>1, <3>1
            <4>2. ok
                BY <2>8, <4>1, Zenon
            <4> QED
                BY <2>3, <3>1, <4>2
        <3>2. CASE m = "dispose"
            <4>1. m # "initModel"
                BY <3>2
            <4>2. _isInitialized' = FALSE
                <5> HIDE DEF m
                <5> QED
                    BY <2>1, <3>2, <4>1
            <4> QED
                BY <2>8, <4>2, Zenon
        <3>3. CASE m = "resetContext"
            <4>1. ASSUME ~ok PROVE reloadDue'
                <5>1. ok = FALSE
                    BY <2>2, <4>1, Zenon
                <5> HIDE DEF m, ok
                <5>2. reloadDue' = TRUE
                    BY <2>1, <3>3, <5>1
                <5> QED
                    BY <5>2
            <4>2. ok
                BY <2>8, <4>1, Zenon
            <4> QED
                BY <2>3, <3>3, <4>2
        <3>4. CASE m \notin Rebuilds
            <4>1. m # "initModel" /\ m # "dispose" /\ m # "resetContext" /\ ~Rebuilding(a)
                BY <2>5, <3>4 DEF Rebuilds
            <4>2. _isInitialized' = _isInitialized /\ reloadDue' = reloadDue
                <5> HIDE DEF m, ok
                <5> QED
                    BY <2>1, <4>1
            <4>3. _isInitialized /\ ~reloadDue
                BY <2>8, <4>2, Zenon
            <4> QED
                BY <4>1, <4>3 DEF EngineKnown, BeliefIsTrue
        <3> QED
            BY <3>1, <3>2, <3>3, <3>4 DEF Rebuilds
    <2>9. BeliefIsTrue(a)'
        BY <1>0, <2>8 DEF BeliefIsTrue
    <2> QED
        BY <2>7, <2>9 DEF EngineKnown
<1>5. Serves(a)'
    <2> SUFFICES ASSUME NEW s \in Stream, stream'[s] = "open"
                 PROVE  s \in silent' \/ CarriedByWorker(a, s)' \/ EndsBySentinel(a, s)'
        BY DEF Serves
    <2>1. stream[s] = "open"
        BY <1>0 DEF Handler, AnswerCall, DeliverToken, DeliverSentinel
    <2>2. s \in silent \/ CarriedByWorker(a, s) \/ EndsBySentinel(a, s)
        BY <2>1 DEF Serves
    <2>3. CarriedByWorker(a, s) => CarriedByWorker(a, s)'
        BY <1>0 DEF CarriedByWorker, CarriedByQueue, CarriedByThread
    <2>4. ASSUME EndsBySentinel(a, s) PROVE EndsBySentinel(a, s)'
        <3>1. PICK k \in 1..Len(posts) :
                 posts[k].kind = "sentinel" /\ posts[k].from = a /\ posts[k].id = s
            BY <2>4 DEF EndsBySentinel
        <3>2. k # 1
            <4> SUFFICES ASSUME k = 1 PROVE FALSE
                OBVIOUS
            <4>1. DeliverSentinel /\ Heard
                BY <1>1, <3>1 DEF Handler, AnswerCall, DeliverToken, Runnable, Heard
            <4>2. eventSink[a] = s /\ s # 0
                BY <2>1, Attached DEF OpenHasSink
            <4>3. stream' = [stream EXCEPT ![s] = "closed"]
                BY <4>1, <4>2 DEF DeliverSentinel, SinkStream
            <4> QED
                BY <1>0, <4>3
        <3> QED
            BY <1>2, <3>1, <3>2 DEF EndsBySentinel
    <2> QED
        BY <1>0, <2>2, <2>3, <2>4
<1> QED
    BY <1>3, <1>4, <1>5

\* Every step keeps ServedInv in a process with one instance.
LEMMA ServedNext ==
    ASSUME TypeOK, UnusedInv, SerialInv, ServedInv, Serialised, MaxAttach <= 1, [Next]_vars
    PROVE  ServedInv'
<1> USE DEF dart, known, engine, plugin, workers
<1> HIDE DEF Job, Post
<1>0. /\ \A i \in Instance : i = 1
      /\ attached # 0 => /\ attached \in Instance /\ CallsLast(attached)
                         /\ OpenHasSink(attached) /\ EngineKnown(attached) /\ Serves(attached)
      /\ queue \in [Instance -> Seq(Job)] /\ 0 \notin Instance /\ CreatedAlone
      /\ \A i \in Instance : queue[i] \in Seq(Job)
    BY PluginAssumption, Attached DEF Instance, SerialInv, ServedInv, TypeOK
<1>k. ASSUME NEW a \in Instance, a = attached, attached' = attached,
             EngineKnown(a)' /\ Serves(a)'
      PROVE  ServedInv'
    <2>1. a = attached'
        BY <1>k
    <2> QED
        BY <1>k, <2>1 DEF ServedInv
<1>1. CASE OnAttachedToEngine
    <2>1. /\ attached' \in Instance /\ attached' > attaches /\ _isInitialized' = FALSE
          /\ attached = 0 /\ UNCHANGED <<queue, running, posts, called, stream>>
        BY <1>1, PluginAssumption DEF OnAttachedToEngine, TypeOK, Instance
    <2>2. PICK a \in Instance : a = attached'
        BY <2>1
    <2>3. queue[a] = <<>> /\ running[a] = Idle /\ \A k \in 1..Len(posts) : posts[k].from # a
        BY <2>1, <2>2 DEF UnusedInv, Unused
    <2>4. EngineKnown(a)'
        BY <2>1, <2>3
        DEF EngineKnown, JobsAreNamed, BeliefIsTrue, NewsIsTrue, QueuedWillStart, IsResult,
            Idle, Methods
    <2>5. Serves(a)'
        BY <2>1 DEF SerialInv, Serves
    <2> QED
        BY <2>2, <2>4, <2>5 DEF ServedInv
<1>2. CASE OnDetachedFromEngine
    BY <1>2 DEF OnDetachedFromEngine, ServedInv
\* A job is added, and a stream may be opened that it serves.
<1>3. ASSUME NEW a \in Instance, a = attached, NEW job \in Job,
             queue' = queue \/ Execute(a, job),
             UNCHANGED <<attached, running, posts, loaded, reloadDue, _isInitialized, silent>>,
             \A k \in 1..Len(queue[a]) : IsGeneration(queue[a][k]) \/ IsNamed(queue[a][k])',
             (running[a].method \in Methods => IsNamed(running[a]))',
             \A k \in 1..Len(posts) : IsResult(a, k) => called'[posts[k].id] = called[posts[k].id],
             IsGeneration(job) => loaded = "context",
             ~IsGeneration(job) => IsNamed(job)',
             \A t \in Stream : stream'[t] = "open" => stream[t] = "open" \/ CarriedByWorker(a, t)'
      PROVE  ServedInv'
    <2>1. CallsLast(a) /\ EngineKnown(a) /\ Serves(a)
        BY <1>0, <1>3
    <2>2. /\ \A k \in 1..Len(queue'[a]) :
                \/ k \in 1..Len(queue[a]) /\ queue'[a][k] = queue[a][k]
                \/ queue'[a][k] = job
          /\ \A k \in 1..Len(queue[a]) :
                k \in 1..Len(queue'[a]) /\ queue'[a][k] = queue[a][k]
        <3>1. CASE queue' = queue
            BY <3>1
        <3>2. CASE Execute(a, job)
            <4>1. queue'[a] = Append(queue[a], job) /\ Len(queue[a]) \in Nat
                BY <1>0, <3>2 DEF Execute
            <4>2. /\ Len(queue'[a]) = Len(queue[a]) + 1
                  /\ queue'[a][Len(queue[a]) + 1] = job
                  /\ \A k \in 1..Len(queue[a]) : queue'[a][k] = queue[a][k]
                  /\ \A k \in 1..Len(queue'[a]) : k \in 1..Len(queue[a]) \/ k = Len(queue[a]) + 1
                BY <1>0, <4>1, SeqAppend
            <4> QED
                BY <4>1, <4>2
        <3> QED
            BY <1>3, <3>1, <3>2
    <2>3. JobsAreNamed(a)'
        BY <1>3, <2>2 DEF JobsAreNamed, IsNamed, IsGeneration
    <2>4. QueuedWillStart(a)'
        BY <1>3, <2>1, <2>2 DEF EngineKnown, QueuedWillStart
    <2>5. BeliefIsTrue(a)' /\ NewsIsTrue(a)'
        BY <1>3, <2>1 DEF EngineKnown, BeliefIsTrue, Rebuilding, NewsIsTrue, IsResult
    <2>6. Serves(a)'
        <3>1. \A t : CarriedByQueue(a, t) => CarriedByQueue(a, t)'
            BY <2>2 DEF CarriedByQueue
        <3> QED
            BY <1>3, <2>1, <3>1
            DEF Serves, CarriedByWorker, CarriedByThread, EndsBySentinel
    <2> QED
        BY <1>k, <1>3, <2>3, <2>4, <2>5, <2>6 DEF EngineKnown
<1>4. ASSUME NEW s \in Stream, Listen(s) PROVE ServedInv'
    <2>1. PICK a \in Instance : a = attached
        BY <1>0, <1>4 DEF Listen
    <2> DEFINE job == [method |-> "startGeneration", id |-> s]
    <2>2. /\ Execute(a, job) /\ stream[s] = "created"
          /\ stream' = [stream EXCEPT ![s] = "open"]
          /\ UNCHANGED <<attached, running, posts, loaded, called, reloadDue,
                         _isInitialized, silent>>
        BY <1>4, <2>1 DEF Listen
    <2>3. /\ _isInitialized /\ ~reloadDue /\ \A c \in Call : asked[c] # "waiting"
          /\ CallsLast(a) /\ EngineKnown(a)
        BY <1>0, <2>1, <2>2 DEF CreatedAlone
    <2>4. NoCall(a)
        BY <2>3, NobodyWaits
    <2>5. loaded = "context"
        <3>1. ~Rebuilding(a)
            BY <2>4 DEF NoCall, Rebuilding, Rebuilds, Methods
        <3> QED
            BY <2>3, <3>1 DEF EngineKnown, BeliefIsTrue
    <2>6. job \in Job /\ IsGeneration(job) /\ job.id = s
        BY JobsMade DEF IsGeneration
    <2> HIDE DEF job
    <2>7. ASSUME NEW t, t = s PROVE CarriedByWorker(a, t)'
        <3>1. queue'[a] = Append(queue[a], job) /\ Len(queue[a]) \in Nat
            BY <1>0, <2>2 DEF Execute
        <3>2. Len(queue'[a]) = Len(queue[a]) + 1 /\ queue'[a][Len(queue[a]) + 1] = job
            BY <1>0, <2>6, <3>1, SeqAppend
        <3> QED
            BY <2>6, <2>7, <3>1, <3>2 DEF CarriedByWorker, CarriedByQueue
    <2>8. \A t \in Stream : stream'[t] = "open" => stream[t] = "open" \/ CarriedByWorker(a, t)'
        BY <2>2, <2>7 DEF TypeOK
    <2>9. /\ \A k \in 1..Len(queue[a]) : IsGeneration(queue[a][k]) \/ IsNamed(queue[a][k])'
          /\ (running[a].method \in Methods => IsNamed(running[a]))'
        BY <2>2, <2>4 DEF NoCall
    <2> QED
        BY <1>3, <2>1, <2>2, <2>5, <2>6, <2>8, <2>9
<1>5. ASSUME attached # 0,
             UNCHANGED <<attached, queue, running, posts, loaded, called, _isInitialized, silent,
                         reloadDue>>,
             \A t \in Stream : stream'[t] = "open" => stream[t] = "open"
      PROVE  ServedInv'
    <2>1. PICK a \in Instance : a = attached
        BY <1>0, <1>5
    <2>2. EngineKnown(a) /\ Serves(a)
        BY <1>0, <1>5, <2>1
    <2>3. EngineKnown(a)'
        BY <1>5, <2>2
        DEF EngineKnown, JobsAreNamed, IsNamed, BeliefIsTrue, Rebuilding, NewsIsTrue,
            QueuedWillStart, IsResult
    <2>4. Serves(a)'
        BY <1>5, <2>2
        DEF Serves, CarriedByWorker, CarriedByQueue, CarriedByThread, EndsBySentinel
    <2> QED
        BY <1>k, <1>5, <2>1, <2>3, <2>4
<1>6. ASSUME NEW s \in Stream, GenerateResponse(s) \/ CancelStream(s) PROVE ServedInv'
    BY <1>5, <1>6 DEF GenerateResponse, CancelStream, TypeOK
<1>7. CASE AbortGeneration
    BY <1>5, <1>7 DEF AbortGeneration
<1>8. CASE UNCHANGED vars
    <2>1. CASE attached = 0
        BY <1>8, <2>1 DEF vars, ServedInv
    <2>2. CASE attached # 0
        BY <1>5, <1>8, <2>2 DEF vars
    <2> QED
        BY <2>1, <2>2
<1>9. ASSUME NEW c \in Call, NEW m \in Calls, Invoke(c, m) PROVE ServedInv'
    <2>1. PICK a \in Instance : a = attached
        BY <1>0, <1>9 DEF Invoke
    <2> DEFINE job == [method |-> m, id |-> c]
    <2>2. /\ queue' = queue \/ Execute(a, job)
          /\ called' = [called EXCEPT ![c] = m]
          /\ \A d \in Call : asked[d] # "waiting"
          /\ UNCHANGED <<attached, running, posts, loaded, stream, reloadDue, _isInitialized,
                         silent>>
        BY <1>9, <2>1 DEF Invoke, Unavailable, CanCall, Busy
    <2>3. CallsLast(a)
        BY <1>0, <2>1
    <2>4. NoCall(a)
        BY <2>2, <2>3, NobodyWaits
    <2>5. job \in Job /\ ~IsGeneration(job) /\ job.method = m /\ job.id = c /\ m \in Methods
        BY JobsMade, PluginAssumption DEF IsGeneration, Methods
    <2> HIDE DEF job
    <2>6. IsNamed(job)'
        BY <2>2, <2>5 DEF IsNamed, TypeOK
    <2>7. /\ \A k \in 1..Len(queue[a]) : IsGeneration(queue[a][k]) \/ IsNamed(queue[a][k])'
          /\ (running[a].method \in Methods => IsNamed(running[a]))'
          /\ \A k \in 1..Len(posts) : ~IsResult(a, k)
        BY <2>2, <2>4 DEF NoCall
    <2> QED
        BY <1>3, <2>1, <2>2, <2>5, <2>6, <2>7
<1>10. ASSUME NEW i \in Instance, Executor(i) PROVE ServedInv'
    <2>1. UNCHANGED attached
        BY <1>10, ExecutorMoves
    <2>2. CASE attached = 0
        BY <2>1, <2>2 DEF ServedInv
    <2>3. CASE attached # 0
        <3>1. i = attached
            BY <1>0, <2>3
        <3>2. EngineKnown(i)' /\ Serves(i)'
            BY <1>0, <1>10, <2>3, <3>1, ExecutorServes
        <3> QED
            BY <1>k, <2>1, <3>1, <3>2
    <2> QED
        BY <2>2, <2>3
<1>11. CASE Handler
    <2>1. UNCHANGED attached
        BY <1>11, HandlerDispatches
    <2>2. CASE attached = 0
        BY <2>1, <2>2 DEF ServedInv
    <2>3. CASE attached # 0
        <3>1. PICK a \in Instance : a = attached
            BY <1>0, <2>3
        <3>2. EngineKnown(a)' /\ Serves(a)'
            BY <1>0, <1>11, <2>3, <3>1, DispatchServes
        <3> QED
            BY <1>k, <2>1, <3>1, <3>2
    <2> QED
        BY <2>2, <2>3
<1> QED
    BY <1>1, <1>2, <1>4, <1>6, <1>7, <1>8, <1>9, <1>10, <1>11 DEF Next, Application

-----------------------------------------------------------------------------
\* The invariant of the plugin and its Dart API, for every application.
IInv ==
    /\ TypeOK /\ UnusedInv /\ CallInv /\ FreshInv /\ SinkInv /\ CarrierInv
    /\ KnownInv /\ OrderInv /\ TokenInv
    /\ OwnReply /\ ClosedIsComplete

\* Nothing has happened at first.
LEMMA IInvInit == Init => IInv /\ SerialInv /\ ServedInv
<1> SUFFICES ASSUME Init PROVE IInv /\ SerialInv /\ ServedInv
    OBVIOUS
<1> USE DEF Init
<1>1. TypeOK
    <2>1. attaches \in 0..MaxAttach /\ listened \in 0..MaxStreams /\ Idle \in Job
        BY PluginAssumption, JobsMade
    <2> HIDE DEF Job, Idle, Post
    <2>2. queue \in [Instance -> Seq(Job)] /\ running \in [Instance -> Job]
        BY <2>1
    <2>3. posts \in Seq(Post) /\ received \in [Stream -> Seq(Stream \X Nat)]
        OBVIOUS
    <2>4. /\ stream \in [Stream -> {"new", "created", "open", "closed", "cancelled", "lost"}]
          /\ called \in [Call -> Methods \cup {"none"}]
          /\ asked \in [Call -> {"no", "waiting", "answered", "lost"}]
          /\ generated \in [Stream -> Nat] /\ silent \subseteq Stream
          /\ eventSink \in [Instance -> {0} \cup Stream]
          /\ askedAfter \in [Call -> Nat] /\ ended \in Nat /\ alone \subseteq Stream
        OBVIOUS
    <2>5. /\ isAvailable \in BOOLEAN /\ stop_generation \in BOOLEAN
          /\ _isInitialized \in BOOLEAN /\ reloadDue \in BOOLEAN
        OBVIOUS
    <2> QED
        BY <2>1, <2>2, <2>3, <2>4, <2>5 DEF TypeOK
<1>2. \A i \in Instance : \A s : ~Carries(i, s)
    BY DEF Carries, CarriedByWorker, CarriedByQueue, CarriedByThread, CarriedByPost,
           IsGeneration, Idle
<1>3. UnusedInv /\ CallInv /\ FreshInv /\ SinkInv /\ CarrierInv
    BY <1>2 DEF UnusedInv, Unused, CallInv, FreshInv, SinkInv, CarrierInv
<1>4. KnownInv /\ OrderInv /\ TokenInv
    BY DEF KnownInv, OrderInv, TokenInv
<1>5. OwnReply /\ ClosedIsComplete
    BY DEF OwnReply, ClosedIsComplete
<1>6. SerialInv /\ ServedInv
    BY DEF SerialInv, CreatedAlone, ServedInv
<1> QED
    BY <1>1, <1>3, <1>4, <1>5, <1>6 DEF IInv

\* Every step keeps the invariant, whatever the application does.
LEMMA IInvNext == IInv /\ [Next]_vars => IInv'
BY TypeNext, UnusedNext, CallNext, FreshNext, SinkNext, CarrierNext, KnownNext, OrderNext,
   TokenNext, OwnReplyNext, ClosedNext
DEF IInv

\* The invariant of the Android plugin (NativeLlamaPlugin.kt) and its Dart API: of
\* every application, one that cancels and listens again at once included.
THEOREM PluginInvariant == Spec => []IInv
BY IInvInit, IInvNext, PTL DEF Spec

\* The types of all queues, sinks, streams and calls hold in every reachable state.
THEOREM PluginTypeOK == Spec => []TypeOK
<1>1. IInv => TypeOK
    BY DEF IInv
<1> QED
    BY <1>1, PluginInvariant, PTL

\* The Result of a method call is used once and not lost: while a call waits, it is
\* a job, the thread's, or a posted answer of the attached instance, and one of
\* them only; once it is answered, at the guard (kt:95-103) or by the executor
\* (kt:113 and the like), nothing is left that could answer it again.
THEOREM CallsAreAnsweredOnce == Spec => []AnsweredOnce
<1>1. IInv => AnsweredOnce
    BY CallInvIsAnsweredOnce DEF IInv
<1> QED
    BY <1>1, PluginInvariant, PTL

\* "Generates response and streams tokens back" (native_llama.dart:81), for every
\* application: although the plugin posts to whatever sink is there when the
\* runnable runs (kt:256-262), a stream that is listened to when Dart can know that
\* the generations before it will send nothing more is given its own tokens, from
\* the first on, in order, none lost or repeated.  It can know it from the answer
\* of a call made after the older streams, from the close of a stream that was
\* itself alone, and after a new attach.  Without that it is false (EveryReplyIsOwn).
THEOREM StreamsGetTheirOwnReply == Spec => []OwnReply
<1>1. IInv => OwnReply
    BY DEF IInv
<1> QED
    BY <1>1, PluginInvariant, PTL

\* The sentinel is "the only thing that closes the Dart stream": when such a stream
\* has closed, its generation is over and every token it sent has been received.
THEOREM ClosedStreamsAreComplete == Spec => []ClosedIsComplete
<1>1. IInv => ClosedIsComplete
    BY DEF IInv
<1> QED
    BY <1>1, PluginInvariant, PTL

\* A sentinel "must be sent or the caller waits forever" (native-lib.cpp:757-758):
\* in a serialised application whose process attaches the plugin once, a stream
\* that is open still has its generation with an executor that will find a
\* context, or its sentinel posted; only a failed prefill leaves it with nothing
\* (native-lib.cpp:815-821).  With a second instance this is false: the job that
\* detach leaves behind (kt:244) frees the context the second one has built.
THEOREM OpenStreamsAreServed == Serialised /\ MaxAttach <= 1 /\ Spec => []OpenIsServed
<1> SUFFICES ASSUME Serialised, MaxAttach <= 1 PROVE Spec => []OpenIsServed
    OBVIOUS
<1> DEFINE Inv == IInv /\ SerialInv /\ ServedInv
<1>1. Init => Inv
    BY IInvInit
<1>2. Inv /\ [Next]_vars => Inv'
    <2> SUFFICES ASSUME IInv, SerialInv, ServedInv, [Next]_vars
                 PROVE  IInv' /\ SerialInv' /\ ServedInv'
        OBVIOUS
    <2>1. IInv'
        BY IInvNext
    <2>2. SerialInv'
        BY SerialNext DEF IInv
    <2>3. ServedInv'
        BY ServedNext DEF IInv
    <2> QED
        BY <2>1, <2>2, <2>3
<1>3. Inv => OpenIsServed
    BY ServedIsOpenIsServed DEF IInv
<1> QED
    BY <1>1, <1>2, <1>3, PTL DEF Spec

\* "free-after-use, never during" (kt:241-243), for a process that attaches the
\* plugin once, whatever the application does: the executor frees the context in
\* a job of its own, so no generation or embedding runs on it.
THEOREM OneInstanceFreesAfterUse ==
    MaxAttach <= 1 /\ Spec => FreeAfterUse
<1> SUFFICES ASSUME MaxAttach <= 1 PROVE Spec => FreeAfterUse
    OBVIOUS
<1>1. ASSUME Next, loaded = "context", loaded' # "context",
             NEW i \in Instance
      PROVE  ~UsesContext(i)
    <2>1. \A j \in Instance : j = i
        BY <1>1, PluginAssumption DEF Instance
    <2>2. BeginCall(i) \/ FinishCall(i)
        BY <1>1, <2>1
        DEF Next, Application, Handler, Executor, OnAttachedToEngine, OnDetachedFromEngine,
            DisposeOnExecutor, GenerateResponse, Listen, CancelStream, AbortGeneration, Invoke,
            Unavailable, StartGeneration, SendToken, SendSentinel, CleanUp, FailPrefill,
            RefuseLoad, FinishDetach, AnswerCall, DeliverToken, DeliverSentinel,
            dart, known, engine, plugin, workers
    <2>3. CASE BeginCall(i)
        BY <2>3 DEF BeginCall, Take, Idle, UsesContext
    <2>4. CASE FinishCall(i)
        <3>1. PICK outcome \in Outcomes(running[i].method) : loaded' = outcome[2]
            BY <2>4 DEF FinishCall
        <3>2. running[i].method # "startGeneration"
            BY <2>4 DEF FinishCall, Methods
        <3>3. running[i].method # "getEmbedding"
            <4> SUFFICES ASSUME running[i].method = "getEmbedding" PROVE FALSE
                OBVIOUS
            <4>1. outcome \in BOOLEAN \X {loaded}
                BY <1>1, <3>1 DEF Outcomes
            <4> QED
                BY <1>1, <3>1, <4>1
        <3> QED
            BY <3>2, <3>3 DEF UsesContext
    <2> QED
        BY <2>2, <2>3, <2>4
<1>2. [Next]_vars =>
         [loaded = "context" /\ loaded' # "context" =>
             \A i \in Instance : ~UsesContext(i)]_vars
    BY <1>1
<1> QED
    BY <1>2, PTL DEF Spec, FreeAfterUse
=============================================================================
