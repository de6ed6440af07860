-------------------------- MODULE IosBridge_proofs --------------------------
(***************************************************************************)
(* A serialising application on iOS, for every number of calls and every   *)
(* choice of methods: is_generating, tested and set in separate steps on   *)
(* concurrent threads, does keep decodes apart and frees away from uses.   *)
(***************************************************************************)
EXTENDS IosBridge, TLAPS

\* A generation that owns is_generating, and one that does or is about to.
Holds(c)  == Gen(c) /\ pc[c] \in {"claimed", "prefilling", "decoding", "ending"}
Claims(c) ==
    Gen(c) /\ pc[c] \in {"claiming", "claimed", "prefilling", "decoding", "ending"}

\* The flag says whether a generation holds it, and at most one can want it.
FlagInv == is_generating <=> \E c \in Call : Holds(c)
OneGeneration ==
    /\ \A c, d \in Call : Claims(c) /\ Claims(d) => c = d
    /\ \A c, d \in Call : Early(c) /\ Early(d) => c = d

\* While a call is awaited no generation begins; none runs beside one that does not
\* look at the flag.
OneAwaited ==
    /\ \A c, d \in Call : Awaited(c) /\ Awaited(d) => c = d
    /\ \A c, d \in Call : Awaited(c) => ~Early(d)
    /\ \A c, d \in Call :
          Awaited(c) /\ method[c] \notin Unload \cup {"resetContext"} => ~Running(d)

\* Whoever is past the flag and frees or rebuilds is alone.
FreeingInv ==
    \A c \in Call :
        Awaited(c) /\ pc[c] \in {"freeing", "rebuilding", "loading"}
                   /\ method[c] \in Unload \cup {"resetContext"} => ~is_generating

UsesInv ==
    /\ \A c \in Call : uses[c] # {} =>
          \/ Running(c)
          \/ Awaited(c) /\ pc[c] \in {"decoding", "rebuilding", "loading"}
    /\ \A c \in Call :
          Decodes(c) => Running(c) \/ (Awaited(c) /\ method[c] = "getEmbedding")
    /\ \A c \in Call : Early(c) /\ pc[c] # "queued" => {"ctx",
        "model"} \subseteq live
    /\ \A c \in Call :
          method[c] = "resetContext" /\ pc[c] \in {"checking", "freeing"}
          => "model" \in live

IInv == /\ TypeOK /\ FlagInv /\ OneGeneration /\ OneAwaited
        /\ FreeingInv /\ UsesInv /\ UsesAreLive

-----------------------------------------------------------------------------
LEMMA InitInv == ASSUME Init PROVE IInv
<1>1. TypeOK
    BY DEF Init, TypeOK, Object, Points
<1>2. /\ FlagInv /\ OneGeneration /\ OneAwaited /\ FreeingInv
    BY DEF Init, FlagInv, OneGeneration, OneAwaited, FreeingInv, Gen,
        Early, Holds, Claims, Awaited, Pending
<1>3. UsesInv /\ UsesAreLive
    BY DEF Init, UsesInv, UsesAreLive, Early, Running, Decodes, Awaited, Pending,
        Gen
<1> QED
    BY <1>1, <1>2, <1>3 DEF IInv

\* The discipline is what admits a call: nobody is awaited, and a generation asked
\* for has begun, so it has claimed the flag, or is over.
LEMMA InvokeInv ==
    ASSUME IInv, Serialised, NEW c \in Call, NEW m \in Methods, Invoke(c, m)
    PROVE  IInv'
<1>1. /\ m \in AllMethods /\ pc[c] = "none"
      /\ method' = [method EXCEPT ![c] = m] /\ pc' = [pc EXCEPT ![c] = "queued"]
      /\ UNCHANGED <<live, is_generating, stop_generation, uses, _isInitialized>>
    BY BridgeAssumption DEF Invoke, GoTo, bridge
<1>2. /\ \A d \in Call : ~Awaited(d) /\ ~Early(d)
      /\ m \notin Unload \cup {"startGeneration", "resetContext"} =>
            \A d \in Call : ~Running(d)
    BY DEF Invoke, CanCall
<1>3. /\ \A d \in Call \ {c} : method'[d] = method[d] /\ pc'[d] = pc[d]
      /\ method'[c] = m /\ pc'[c] = "queued"
    BY <1>1 DEF IInv, TypeOK
<1>4. TypeOK'
    <2>1. method' \in [Call -> AllMethods \cup {"none"}] /\ pc' \in [Call -> Points]
        BY <1>1 DEF IInv, TypeOK, Points
    <2>2. /\ eventSink' \in {0} \cup Call
          /\ stream' \in [Call -> {"none", "open", "closed", "cancelled"}]
          /\ inTurn' \in [Call -> BOOLEAN]
        BY DEF Invoke, IInv, TypeOK
    <2> QED
        BY <1>1, <2>1, <2>2 DEF IInv, TypeOK
<1>5. FlagInv' /\ OneGeneration'
    BY <1>1, <1>2, <1>3 DEF IInv, FlagInv, OneGeneration, Gen, Early, Holds, Claims
<1>6. OneAwaited' /\ FreeingInv'
    BY <1>1, <1>2, <1>3 DEF IInv, OneAwaited, FreeingInv, Awaited, Pending, Gen,
        Early, Running, Unload
<1>7. UsesInv' /\ UsesAreLive'
    BY <1>1, <1>3 DEF IInv, UsesInv, UsesAreLive, Gen, Early, Running, Decodes,
        Awaited, Pending
<1> QED
    BY <1>4, <1>5, <1>6, <1>7 DEF IInv

\* The main thread's stores to stop_generation touch nothing of the invariant.
LEMMA StopInv ==
    ASSUME IInv, (\E c \in Call : CancelStream(c)) \/ AbortGeneration
    PROVE  IInv'
<1>1. UNCHANGED <<live, is_generating, method, pc, uses>>
    BY DEF CancelStream, AbortGeneration, blocks, dart
<1>2. TypeOK'
    BY DEF CancelStream, AbortGeneration, blocks, dart, IInv, TypeOK
<1>3. FlagInv' /\ OneGeneration' /\ OneAwaited' /\ FreeingInv'
    BY <1>1 DEF IInv, FlagInv, OneGeneration, OneAwaited, FreeingInv, Gen, Running,
        Early, Holds, Claims, Awaited, Pending
<1>4. UsesInv' /\ UsesAreLive'
    BY <1>1 DEF IInv, UsesInv, UsesAreLive, Gen, Early, Running, Decodes,
        Awaited, Pending
<1> QED
    BY <1>2, <1>3, <1>4 DEF IInv

-----------------------------------------------------------------------------
\* Each block moves one call from one point to another: <1>1 says which and what
\* else moves, <1>2 that the other calls stay where they are.

LEMMA StartGenerationInv ==
    ASSUME IInv, NEW c \in Call, StartGeneration(c)
    PROVE  IInv'
<1>1. /\ method[c] = "startGeneration" /\ pc[c] = "queued"
      /\ \/ pc' = [pc EXCEPT ![c] = "checking"] /\ {"ctx", "model"} \subseteq live
         \/ pc' = [pc EXCEPT ![c] = "over"]
      /\ UNCHANGED <<method, uses, live, is_generating>>
    BY DEF StartGeneration, At, GoTo, bridge, dart
<1>2. /\ pc'[c] \in {"checking", "over"}
      /\ \A d \in Call \ {c} : pc'[d] = pc[d] /\ uses'[d] = uses[d]
      /\ pc' \in [Call -> Points] /\ uses' \in [Call -> SUBSET Object]
    BY <1>1 DEF IInv, TypeOK, Points
<1>3. TypeOK'
    BY <1>1, <1>2 DEF StartGeneration, bridge, dart, IInv, TypeOK
<1>4. FlagInv' /\ OneGeneration'
    BY <1>1, <1>2 DEF IInv, FlagInv, OneGeneration, Gen, Early, Holds, Claims
<1>5. OneAwaited' /\ FreeingInv'
    BY <1>1, <1>2 DEF IInv, OneAwaited, FreeingInv, Gen, Early, Running, Awaited,
        Pending
<1>6. UsesInv' /\ UsesAreLive'
    BY <1>1, <1>2 DEF IInv, UsesInv, UsesAreLive, OneAwaited, Gen, Early,
        Running, Decodes, Awaited, Pending
<1> QED
    BY <1>3, <1>4, <1>5, <1>6 DEF IInv

LEMMA RefuseGenerationInv ==
    ASSUME IInv, NEW c \in Call, RefuseGeneration(c)
    PROVE  IInv'
<1>1. /\ method[c] = "startGeneration" /\ pc[c] = "checking" /\ is_generating
      /\ pc' = [pc EXCEPT ![c] = "refused"]
      /\ UNCHANGED <<method, uses, live, is_generating>>
    BY DEF RefuseGeneration, SendSentinel, At, GoTo
<1>2. /\ pc'[c] = "refused"
      /\ \A d \in Call \ {c} : pc'[d] = pc[d] /\ uses'[d] = uses[d]
      /\ pc' \in [Call -> Points] /\ uses' \in [Call -> SUBSET Object]
    BY <1>1 DEF IInv, TypeOK, Points
<1>3. TypeOK'
    BY <1>1, <1>2 DEF RefuseGeneration, SendSentinel, IInv, TypeOK, Object
<1>4. FlagInv' /\ OneGeneration'
    BY <1>1, <1>2 DEF IInv, FlagInv, OneGeneration, Gen, Early, Holds, Claims
<1>5. OneAwaited' /\ FreeingInv'
    BY <1>1, <1>2 DEF IInv, OneAwaited, FreeingInv, Gen, Early, Running, Awaited,
        Pending
<1>6. UsesInv' /\ UsesAreLive'
    BY <1>1, <1>2 DEF IInv, UsesInv, UsesAreLive, OneAwaited, Gen, Early,
        Running, Decodes, Awaited, Pending
<1> QED
    BY <1>3, <1>4, <1>5, <1>6 DEF IInv

LEMMA AdmitGenerationInv ==
    ASSUME IInv, NEW c \in Call, AdmitGeneration(c)
    PROVE  IInv'
<1>1. /\ method[c] = "startGeneration" /\ pc[c] = "checking" /\ ~is_generating
      /\ pc' = [pc EXCEPT ![c] = "claiming"]
      /\ UNCHANGED <<method, uses, live, is_generating>>
    BY DEF AdmitGeneration, NotInUse, At, GoTo, bridge, dart
<1>2. /\ pc'[c] = "claiming"
      /\ \A d \in Call \ {c} : pc'[d] = pc[d] /\ uses'[d] = uses[d]
      /\ pc' \in [Call -> Points] /\ uses' \in [Call -> SUBSET Object]
    BY <1>1 DEF IInv, TypeOK, Points
<1>3. TypeOK'
    BY <1>1, <1>2 DEF AdmitGeneration, bridge, dart, IInv, TypeOK
<1>4. FlagInv' /\ OneGeneration'
    BY <1>1, <1>2 DEF IInv, FlagInv, OneGeneration, Gen, Early, Holds, Claims
<1>5. OneAwaited' /\ FreeingInv'
    BY <1>1, <1>2 DEF IInv, OneAwaited, FreeingInv, Gen, Early, Running, Awaited,
        Pending
<1>6. UsesInv' /\ UsesAreLive'
    BY <1>1, <1>2 DEF IInv, UsesInv, UsesAreLive, OneAwaited, Gen, Early,
        Running, Decodes, Awaited, Pending
<1> QED
    BY <1>3, <1>4, <1>5, <1>6 DEF IInv

LEMMA ClaimGenerationInv ==
    ASSUME IInv, NEW c \in Call, ClaimGeneration(c)
    PROVE  IInv'
<1>1. /\ method[c] = "startGeneration" /\ pc[c] = "claiming"
      /\ pc' = [pc EXCEPT ![c] = "claimed"]
      /\ is_generating'
      /\ UNCHANGED <<method, uses, live>>
    BY DEF ClaimGeneration, At, GoTo, dart
<1>2. /\ pc'[c] = "claimed"
      /\ \A d \in Call \ {c} : pc'[d] = pc[d] /\ uses'[d] = uses[d]
      /\ pc' \in [Call -> Points] /\ uses' \in [Call -> SUBSET Object]
    BY <1>1 DEF IInv, TypeOK, Points
<1>3. TypeOK'
    BY <1>1, <1>2 DEF ClaimGeneration, dart, IInv, TypeOK
<1>4. FlagInv' /\ OneGeneration'
    BY <1>1, <1>2 DEF IInv, FlagInv, OneGeneration, Gen, Early, Holds, Claims
<1>5. OneAwaited' /\ FreeingInv'
    BY <1>1, <1>2 DEF IInv, OneAwaited, FreeingInv, Gen, Early, Running, Awaited,
        Pending, Gen,
        Early
<1>6. UsesInv' /\ UsesAreLive'
    BY <1>1, <1>2 DEF IInv, UsesInv, UsesAreLive, OneAwaited, Gen, Early,
        Running, Decodes, Awaited, Pending
<1> QED
    BY <1>3, <1>4, <1>5, <1>6 DEF IInv

LEMMA ResetStopFlagInv ==
    ASSUME IInv, NEW c \in Call, ResetStopFlag(c)
    PROVE  IInv'
<1>1. /\ method[c] = "startGeneration" /\ pc[c] = "claimed"
      /\ pc' = [pc EXCEPT ![c] = "prefilling"]
      /\ \E objects \in SUBSET live :
            uses' = [uses EXCEPT ![c] = {"ctx", "model"} \cup objects]
      /\ UNCHANGED <<method, live, is_generating>>
    BY DEF ResetStopFlag, At, GoTo, Using, dart
<1>2. /\ pc'[c] = "prefilling"
      /\ \A d \in Call \ {c} : pc'[d] = pc[d] /\ uses'[d] = uses[d]
      /\ pc' \in [Call -> Points] /\ uses' \in [Call -> SUBSET Object]
    BY <1>1 DEF IInv, TypeOK, Object, Points
<1>3. TypeOK'
    BY <1>1, <1>2 DEF ResetStopFlag, dart, IInv, TypeOK, Object
<1>4. FlagInv' /\ OneGeneration'
    BY <1>1, <1>2 DEF IInv, FlagInv, OneGeneration, Gen, Early, Holds, Claims
<1>5. OneAwaited' /\ FreeingInv'
    BY <1>1, <1>2 DEF IInv, OneAwaited, FreeingInv, Gen, Early, Running, Awaited,
        Pending
<1>6. UsesAreLive'
    <2>1. {"ctx", "model"} \subseteq live
        BY <1>1 DEF IInv, UsesInv, Early, Gen
    <2>2. uses'[c] \subseteq live
        BY <1>1, <2>1 DEF IInv, TypeOK
    <2> QED
        BY <1>1, <1>2, <2>2 DEF IInv, UsesAreLive
<1>7. UsesInv'
    BY <1>1, <1>2 DEF IInv, UsesInv, Gen, Early, Running, Decodes, Awaited, Pending
<1> QED
    BY <1>3, <1>4, <1>5, <1>6, <1>7 DEF IInv

LEMMA BeginReplyInv ==
    ASSUME IInv, NEW c \in Call, BeginReply(c)
    PROVE  IInv'
<1>1. /\ method[c] = "startGeneration" /\ pc[c] = "prefilling"
      /\ pc' = [pc EXCEPT ![c] = "decoding"]
      /\ UNCHANGED <<method, uses, live, is_generating>>
    BY DEF BeginReply, At, GoTo, bridge, dart
<1>2. /\ pc'[c] = "decoding"
      /\ \A d \in Call \ {c} : pc'[d] = pc[d] /\ uses'[d] = uses[d]
      /\ pc' \in [Call -> Points] /\ uses' \in [Call -> SUBSET Object]
    BY <1>1 DEF IInv, TypeOK, Points
<1>3. TypeOK'
    BY <1>1, <1>2 DEF BeginReply, bridge, dart, IInv, TypeOK
<1>4. FlagInv' /\ OneGeneration'
    BY <1>1, <1>2 DEF IInv, FlagInv, OneGeneration, Gen, Early, Holds, Claims
<1>5. OneAwaited' /\ FreeingInv'
    BY <1>1, <1>2 DEF IInv, OneAwaited, FreeingInv, Gen, Early, Running, Awaited,
        Pending
<1>6. UsesInv' /\ UsesAreLive'
    BY <1>1, <1>2 DEF IInv, UsesInv, UsesAreLive, OneAwaited, Gen, Early,
        Running, Decodes, Awaited, Pending
<1> QED
    BY <1>3, <1>4, <1>5, <1>6 DEF IInv

LEMMA EndReplyInv ==
    ASSUME IInv, NEW c \in Call, EndReply(c)
    PROVE  IInv'
<1>1. /\ method[c] = "startGeneration" /\ pc[c] \in {"prefilling", "decoding"}
      /\ pc' = [pc EXCEPT ![c] = "ending"]
      /\ uses' = [uses EXCEPT ![c] = {}]
      /\ UNCHANGED <<method, live, is_generating>>
    BY DEF EndReply, SendSentinel, At, GoTo, Using
<1>2. /\ pc'[c] = "ending" /\ \A d \in Call \ {c} : pc'[d] = pc[d] /\ uses'[d] = uses[d]
      /\ pc' \in [Call -> Points] /\ uses' \in [Call -> SUBSET Object]
    BY <1>1 DEF IInv, TypeOK, Points
<1>3. TypeOK'
    BY <1>1, <1>2 DEF EndReply, SendSentinel, IInv, TypeOK, Object
<1>4. FlagInv' /\ OneGeneration'
    BY <1>1, <1>2 DEF IInv, FlagInv, OneGeneration, Gen, Early, Holds, Claims
<1>5. OneAwaited' /\ FreeingInv'
    BY <1>1, <1>2 DEF IInv, OneAwaited, FreeingInv, Gen, Early, Running, Awaited,
        Pending
<1>6. UsesInv' /\ UsesAreLive'
    BY <1>1, <1>2 DEF IInv, UsesInv, UsesAreLive, Gen, Early, Running, Decodes,
        Awaited, Pending
<1> QED
    BY <1>3, <1>4, <1>5, <1>6 DEF IInv

LEMMA ReturnFromGenerationInv ==
    ASSUME IInv, NEW c \in Call, ReturnFromGeneration(c)
    PROVE  IInv'
<1>1. /\ method[c] = "startGeneration" /\ pc[c] = "ending"
      /\ pc' = [pc EXCEPT ![c] = "over"]
      /\ ~is_generating'
      /\ UNCHANGED <<method, uses, live>>
    BY DEF ReturnFromGeneration, GuardFalls, At, GoTo, dart
<1>2. /\ pc'[c] = "over" /\ \A d \in Call \ {c} : pc'[d] = pc[d] /\ uses'[d] = uses[d]
      /\ pc' \in [Call -> Points] /\ uses' \in [Call -> SUBSET Object]
    BY <1>1 DEF IInv, TypeOK, Points
<1>3. TypeOK'
    BY <1>1, <1>2 DEF ReturnFromGeneration, GuardFalls, dart, IInv, TypeOK, Object
<1>4. FlagInv' /\ OneGeneration'
    <2>1. Claims(c)
        BY <1>1 DEF Gen, Claims
    <2>2. \A d \in Call \ {c} : ~Claims(d)
        BY <2>1 DEF IInv, OneGeneration
    <2> QED
        BY <1>1, <1>2, <2>2 DEF IInv, FlagInv, OneGeneration, Gen, Early, Holds,
            Claims
<1>5. OneAwaited' /\ FreeingInv'
    BY <1>1, <1>2 DEF IInv, OneAwaited, FreeingInv, Gen, Early, Running, Awaited,
        Pending
<1>6. UsesInv' /\ UsesAreLive'
    BY <1>1, <1>2 DEF IInv, UsesInv, UsesAreLive, Gen, Early, Running, Decodes,
        Awaited, Pending
<1> QED
    BY <1>3, <1>4, <1>5, <1>6 DEF IInv

LEMMA FailPrefillInv ==
    ASSUME IInv, NEW c \in Call, FailPrefill(c)
    PROVE  IInv'
<1>1. /\ method[c] = "startGeneration" /\ pc[c] = "prefilling"
      /\ pc' = [pc EXCEPT ![c] = "over"]
      /\ uses' = [uses EXCEPT ![c] = {}]
      /\ ~is_generating'
      /\ UNCHANGED <<method, live>>
    BY DEF FailPrefill, At, GoTo, Using, dart
<1>2. /\ pc'[c] = "over" /\ \A d \in Call \ {c} : pc'[d] = pc[d] /\ uses'[d] = uses[d]
      /\ pc' \in [Call -> Points] /\ uses' \in [Call -> SUBSET Object]
    BY <1>1 DEF IInv, TypeOK, Points
<1>3. TypeOK'
    BY <1>1, <1>2 DEF FailPrefill, dart, IInv, TypeOK, Object
<1>4. FlagInv' /\ OneGeneration'
    <2>1. Claims(c)
        BY <1>1 DEF Gen, Claims
    <2>2. \A d \in Call \ {c} : ~Claims(d)
        BY <2>1 DEF IInv, OneGeneration
    <2> QED
        BY <1>1, <1>2, <2>2 DEF IInv, FlagInv, OneGeneration, Gen, Early, Holds,
            Claims
<1>5. OneAwaited' /\ FreeingInv'
    BY <1>1, <1>2 DEF IInv, OneAwaited, FreeingInv, Gen, Early, Running, Awaited,
        Pending
<1>6. UsesInv' /\ UsesAreLive'
    BY <1>1, <1>2 DEF IInv, UsesInv, UsesAreLive, Gen, Early, Running, Decodes,
        Awaited, Pending
<1> QED
    BY <1>3, <1>4, <1>5, <1>6 DEF IInv

LEMMA BeginEmbeddingInv ==
    ASSUME IInv, NEW c \in Call, BeginEmbedding(c)
    PROVE  IInv'
<1>1. /\ method[c] = "getEmbedding" /\ pc[c] = "queued"
      /\ \/ pc' = [pc EXCEPT ![c] = "decoding"] /\ {"ctx", "model"} \subseteq live
            /\ uses' = [uses EXCEPT ![c] = {"ctx", "model"}]
         \/ pc' = [pc EXCEPT ![c] = "answered"] /\ uses' = [uses EXCEPT ![c] = {}]
      /\ UNCHANGED <<method, live, is_generating>>
    BY DEF BeginEmbedding, Answer, At, GoTo, Using, bridge, dart
<1>2. /\ pc'[c] \in {"decoding", "answered"}
      /\ \A d \in Call \ {c} : pc'[d] = pc[d] /\ uses'[d] = uses[d]
      /\ pc' \in [Call -> Points] /\ uses' \in [Call -> SUBSET Object]
    BY <1>1 DEF IInv, TypeOK, Points
<1>3. TypeOK'
    BY <1>1, <1>2 DEF BeginEmbedding, Answer, bridge, dart, IInv, TypeOK
<1>4. FlagInv' /\ OneGeneration'
    BY <1>1, <1>2 DEF IInv, FlagInv, OneGeneration, Gen, Early, Holds, Claims
<1>5. OneAwaited' /\ FreeingInv'
    BY <1>1, <1>2 DEF IInv, OneAwaited, FreeingInv, Gen, Early, Running, Awaited,
        Pending
<1>6. UsesInv' /\ UsesAreLive'
    BY <1>1, <1>2 DEF IInv, UsesInv, UsesAreLive, Gen, Early, Running, Decodes,
        Awaited, Pending
<1> QED
    BY <1>3, <1>4, <1>5, <1>6 DEF IInv

LEMMA EndEmbeddingInv ==
    ASSUME IInv, NEW c \in Call, EndEmbedding(c)
    PROVE  IInv'
<1>1. /\ method[c] = "getEmbedding" /\ pc[c] = "decoding"
      /\ pc' = [pc EXCEPT ![c] = "answered"]
      /\ uses' = [uses EXCEPT ![c] = {}]
      /\ UNCHANGED <<method, live, is_generating>>
    BY DEF EndEmbedding, Answer, At, GoTo, Using, Unload, bridge
<1>2. /\ pc'[c] = "answered"
      /\ \A d \in Call \ {c} : pc'[d] = pc[d] /\ uses'[d] = uses[d]
      /\ pc' \in [Call -> Points] /\ uses' \in [Call -> SUBSET Object]
    BY <1>1 DEF IInv, TypeOK, Points
<1>3. TypeOK'
    BY <1>1, <1>2 DEF EndEmbedding, Answer, bridge, IInv, TypeOK
<1>4. FlagInv' /\ OneGeneration'
    BY <1>1, <1>2 DEF IInv, FlagInv, OneGeneration, Gen, Early, Holds, Claims
<1>5. OneAwaited' /\ FreeingInv'
    BY <1>1, <1>2 DEF IInv, OneAwaited, FreeingInv, Gen, Early, Running, Awaited,
        Pending
<1>6. UsesInv' /\ UsesAreLive'
    BY <1>1, <1>2 DEF IInv, UsesInv, UsesAreLive, Gen, Early, Running, Decodes,
        Awaited, Pending
<1> QED
    BY <1>3, <1>4, <1>5, <1>6 DEF IInv

LEMMA BeginResetInv ==
    ASSUME IInv, NEW c \in Call, BeginReset(c)
    PROVE  IInv'
<1>1. /\ method[c] = "resetContext" /\ pc[c] = "queued"
      /\ \/ pc' = [pc EXCEPT ![c] = "checking"] /\ UNCHANGED uses /\ "model" \in live
         \/ pc' = [pc EXCEPT ![c] = "answered"] /\ uses' = [uses EXCEPT ![c] = {}]
      /\ UNCHANGED <<method, live, is_generating>>
    BY DEF BeginReset, Answer, At, GoTo, Using, bridge, dart
<1>2. /\ pc'[c] \in {"checking", "answered"}
      /\ \A d \in Call \ {c} : pc'[d] = pc[d] /\ uses'[d] = uses[d]
      /\ pc' \in [Call -> Points] /\ uses' \in [Call -> SUBSET Object]
    BY <1>1 DEF IInv, TypeOK, Points
<1>3. TypeOK'
    BY <1>1, <1>2 DEF BeginReset, Answer, bridge, dart, IInv, TypeOK
<1>4. FlagInv' /\ OneGeneration'
    BY <1>1, <1>2 DEF IInv, FlagInv, OneGeneration, Gen, Early, Holds, Claims
<1>5. OneAwaited' /\ FreeingInv'
    BY <1>1, <1>2 DEF IInv, OneAwaited, FreeingInv, Gen, Early, Running, Awaited,
        Pending
<1>6. UsesInv' /\ UsesAreLive'
    BY <1>1, <1>2 DEF IInv, UsesInv, UsesAreLive, Gen, Early, Running, Decodes,
        Awaited, Pending
<1> QED
    BY <1>3, <1>4, <1>5, <1>6 DEF IInv

LEMMA RefuseResetInv ==
    ASSUME IInv, NEW c \in Call, RefuseReset(c)
    PROVE  IInv'
<1>1. /\ method[c] = "resetContext" /\ pc[c] = "checking"
      /\ pc' = [pc EXCEPT ![c] = "answered"]
      /\ uses' = [uses EXCEPT ![c] = {}]
      /\ UNCHANGED <<method, live, is_generating>>
    BY DEF RefuseReset, Answer, At, GoTo, Using, bridge
<1>2. /\ pc'[c] = "answered"
      /\ \A d \in Call \ {c} : pc'[d] = pc[d] /\ uses'[d] = uses[d]
      /\ pc' \in [Call -> Points] /\ uses' \in [Call -> SUBSET Object]
    BY <1>1 DEF IInv, TypeOK, Points
<1>3. TypeOK'
    BY <1>1, <1>2 DEF RefuseReset, Answer, bridge, IInv, TypeOK
<1>4. FlagInv' /\ OneGeneration'
    BY <1>1, <1>2 DEF IInv, FlagInv, OneGeneration, Gen, Early, Holds, Claims
<1>5. OneAwaited' /\ FreeingInv'
    BY <1>1, <1>2 DEF IInv, OneAwaited, FreeingInv, Gen, Early, Running, Awaited,
        Pending
<1>6. UsesInv' /\ UsesAreLive'
    BY <1>1, <1>2 DEF IInv, UsesInv, UsesAreLive, Gen, Early, Running, Decodes,
        Awaited, Pending
<1> QED
    BY <1>3, <1>4, <1>5, <1>6 DEF IInv

LEMMA AdmitResetInv ==
    ASSUME IInv, NEW c \in Call, AdmitReset(c)
    PROVE  IInv'
<1>1. /\ method[c] = "resetContext" /\ pc[c] = "checking" /\ ~is_generating
      /\ pc' = [pc EXCEPT ![c] = "freeing"]
      /\ UNCHANGED <<method, uses, live, is_generating>>
    BY DEF AdmitReset, NotInUse, At, GoTo, bridge, dart
<1>2. /\ pc'[c] = "freeing"
      /\ \A d \in Call \ {c} : pc'[d] = pc[d] /\ uses'[d] = uses[d]
      /\ pc' \in [Call -> Points] /\ uses' \in [Call -> SUBSET Object]
    BY <1>1 DEF IInv, TypeOK, Points
<1>3. TypeOK'
    BY <1>1, <1>2 DEF AdmitReset, bridge, dart, IInv, TypeOK
<1>4. FlagInv' /\ OneGeneration'
    BY <1>1, <1>2 DEF IInv, FlagInv, OneGeneration, Gen, Early, Holds, Claims
<1>5. OneAwaited' /\ FreeingInv'
    BY <1>1, <1>2 DEF IInv, OneAwaited, FreeingInv, Gen, Early, Running, Awaited,
        Pending
<1>6. UsesInv' /\ UsesAreLive'
    BY <1>1, <1>2 DEF IInv, UsesInv, UsesAreLive, Gen, Early, Running, Decodes,
        Awaited, Pending
<1> QED
    BY <1>3, <1>4, <1>5, <1>6 DEF IInv

LEMMA FreeContextInv ==
    ASSUME IInv, NEW c \in Call, FreeContext(c)
    PROVE  IInv'
<1>1. /\ method[c] = "resetContext" /\ pc[c] = "freeing"
      /\ live' = live \ {"ctx"}
      /\ pc' = [pc EXCEPT ![c] = "rebuilding"]
      /\ uses' = [uses EXCEPT ![c] = {"model"}]
      /\ UNCHANGED <<method, is_generating>>
    BY DEF FreeContext, At, GoTo, Using, dart
<1>2. /\ pc'[c] = "rebuilding"
      /\ \A d \in Call \ {c} : pc'[d] = pc[d] /\ uses'[d] = uses[d]
      /\ pc' \in [Call -> Points] /\ uses' \in [Call -> SUBSET Object]
    BY <1>1 DEF IInv, TypeOK, Object, Points
<1>3. TypeOK'
    BY <1>1, <1>2 DEF FreeContext, dart, IInv, TypeOK
<1>4. FlagInv' /\ OneGeneration'
    BY <1>1, <1>2 DEF IInv, FlagInv, OneGeneration, Gen, Early, Holds, Claims
<1>5. OneAwaited' /\ FreeingInv'
    BY <1>1, <1>2 DEF IInv, OneAwaited, FreeingInv, Gen, Early, Running, Awaited,
        Pending
<1>6. UsesInv' /\ UsesAreLive'
    <2>1. \A d \in Call \ {c} :
             uses[d] = {} /\ ~Awaited(d) /\ ~(Early(d) /\ pc[d] # "queued")
        BY <1>1 DEF IInv, UsesInv, OneAwaited, FreeingInv, FlagInv, Gen, Early,
            Running, Holds,
            Awaited, Pending
    <2> QED
        BY <1>1, <1>2, <2>1 DEF IInv, TypeOK, UsesInv, UsesAreLive, Gen, Early,
            Running, Decodes,
            Awaited, Pending
<1> QED
    BY <1>3, <1>4, <1>5, <1>6 DEF IInv

LEMMA RebuildContextInv ==
    ASSUME IInv, NEW c \in Call, RebuildContext(c)
    PROVE  IInv'
<1>1. /\ method[c] = "resetContext" /\ pc[c] = "rebuilding"
      /\ live' = live \/ live' = live \cup {"ctx"}
      /\ pc' = [pc EXCEPT ![c] = "answered"]
      /\ uses' = [uses EXCEPT ![c] = {}]
      /\ UNCHANGED <<method, is_generating>>
    BY DEF RebuildContext, Answer, At, GoTo, Using, Unload
<1>2. /\ pc'[c] = "answered"
      /\ \A d \in Call \ {c} : pc'[d] = pc[d] /\ uses'[d] = uses[d]
      /\ pc' \in [Call -> Points] /\ uses' \in [Call -> SUBSET Object]
    BY <1>1 DEF IInv, TypeOK, Points
<1>3. TypeOK'
    BY <1>1, <1>2 DEF RebuildContext, Answer, IInv, TypeOK, Object
<1>4. FlagInv' /\ OneGeneration'
    BY <1>1, <1>2 DEF IInv, FlagInv, OneGeneration, Gen, Early, Holds, Claims
<1>5. OneAwaited' /\ FreeingInv'
    BY <1>1, <1>2 DEF IInv, OneAwaited, FreeingInv, Gen, Early, Running, Awaited,
        Pending
<1>6. UsesInv' /\ UsesAreLive'
    BY <1>1, <1>2 DEF IInv, UsesInv, UsesAreLive, Gen, Early, Running, Decodes,
        Awaited, Pending
<1> QED
    BY <1>3, <1>4, <1>5, <1>6 DEF IInv

LEMMA BeginLoadInv ==
    ASSUME IInv, NEW c \in Call, BeginLoad(c)
    PROVE  IInv'
<1>1. /\ method[c] \in {"initVision", "initDraftModel"} /\ pc[c] = "queued"
      /\ \E o \in {"mtmd", "draft"} : live' = live \ {o}
      /\ \/ pc' = [pc EXCEPT ![c] = "loading"]
            /\ \/ uses' = [uses EXCEPT ![c] = {}]
               \/ "model" \in live /\ uses' = [uses EXCEPT ![c] = {"model"}]
         \/ pc' = [pc EXCEPT ![c] = "answered"] /\ uses' = [uses EXCEPT ![c] = {}]
      /\ UNCHANGED <<method, is_generating>>
    BY DEF BeginLoad, Loaded, Needs, Answer, At, GoTo, Using, Unload, bridge, dart,
        blocks
<1>2. /\ pc'[c] \in {"loading", "answered"}
      /\ \A d \in Call \ {c} : pc'[d] = pc[d] /\ uses'[d] = uses[d]
      /\ pc' \in [Call -> Points] /\ uses' \in [Call -> SUBSET Object]
    BY <1>1 DEF IInv, TypeOK, Points
<1>3. TypeOK'
    BY <1>1, <1>2 DEF BeginLoad, Loaded, Answer, bridge, dart, blocks, IInv, TypeOK,
        Object
<1>4. FlagInv' /\ OneGeneration'
    BY <1>1, <1>2 DEF IInv, FlagInv, OneGeneration, Gen, Early, Holds, Claims
<1>5. OneAwaited' /\ FreeingInv'
    BY <1>1, <1>2 DEF IInv, OneAwaited, FreeingInv, Gen, Early, Running, Awaited,
        Pending, Unload
<1>6. UsesInv' /\ UsesAreLive'
    <2>1. \A d \in Call \ {c} :
             uses[d] = {} /\ ~Awaited(d) /\ ~(Early(d) /\ pc[d] # "queued")
        BY <1>1 DEF IInv, UsesInv, OneAwaited, Awaited, Pending, Unload
    <2> QED
        BY <1>1, <1>2, <2>1 DEF IInv, TypeOK, UsesInv, UsesAreLive, Gen, Early,
            Running, Decodes,
            Awaited, Pending
<1> QED
    BY <1>3, <1>4, <1>5, <1>6 DEF IInv

LEMMA EndLoadInv ==
    ASSUME IInv, NEW c \in Call, EndLoad(c)
    PROVE  IInv'
<1>1. /\ method[c] \in {"initVision", "initDraftModel"} /\ pc[c] = "loading"
      /\ live' = live \/ \E o \in {"mtmd", "draft"} : live' = live \cup {o}
      /\ pc' = [pc EXCEPT ![c] = "answered"]
      /\ uses' = [uses EXCEPT ![c] = {}]
      /\ UNCHANGED <<method, is_generating>>
    BY DEF EndLoad, Loaded, Answer, At, GoTo, Using, Unload
<1>2. /\ pc'[c] = "answered"
      /\ \A d \in Call \ {c} : pc'[d] = pc[d] /\ uses'[d] = uses[d]
      /\ pc' \in [Call -> Points] /\ uses' \in [Call -> SUBSET Object]
    BY <1>1 DEF IInv, TypeOK, Points
<1>3. TypeOK'
    BY <1>1, <1>2 DEF EndLoad, Loaded, Answer, bridge, dart, blocks, IInv, TypeOK,
        Object
<1>4. FlagInv' /\ OneGeneration'
    BY <1>1, <1>2 DEF IInv, FlagInv, OneGeneration, Gen, Early, Holds, Claims
<1>5. OneAwaited' /\ FreeingInv'
    BY <1>1, <1>2 DEF IInv, OneAwaited, FreeingInv, Gen, Early, Running, Awaited,
        Pending
<1>6. UsesInv' /\ UsesAreLive'
    BY <1>1, <1>2 DEF IInv, UsesInv, UsesAreLive, Gen, Early, Running, Decodes,
        Awaited, Pending
<1> QED
    BY <1>3, <1>4, <1>5, <1>6 DEF IInv

LEMMA RefuseModelInv ==
    ASSUME IInv, NEW c \in Call, RefuseModel(c)
    PROVE  IInv'
<1>1. /\ method[c] = "initModel" /\ pc[c] = "queued"
      /\ pc' = [pc EXCEPT ![c] = "answered"]
      /\ uses' = [uses EXCEPT ![c] = {}]
      /\ UNCHANGED <<method, live, is_generating>>
    BY DEF RefuseModel, Answer, At, GoTo, Using, bridge
<1>2. /\ pc'[c] = "answered"
      /\ \A d \in Call \ {c} : pc'[d] = pc[d] /\ uses'[d] = uses[d]
      /\ pc' \in [Call -> Points] /\ uses' \in [Call -> SUBSET Object]
    BY <1>1 DEF IInv, TypeOK, Points
<1>3. TypeOK'
    BY <1>1, <1>2 DEF RefuseModel, Answer, bridge, IInv, TypeOK
<1>4. FlagInv' /\ OneGeneration'
    BY <1>1, <1>2 DEF IInv, FlagInv, OneGeneration, Gen, Early, Holds, Claims
<1>5. OneAwaited' /\ FreeingInv'
    BY <1>1, <1>2 DEF IInv, OneAwaited, FreeingInv, Gen, Early, Running, Awaited,
        Pending
<1>6. UsesInv' /\ UsesAreLive'
    BY <1>1, <1>2 DEF IInv, UsesInv, UsesAreLive, Gen, Early, Running, Decodes,
        Awaited, Pending
<1> QED
    BY <1>3, <1>4, <1>5, <1>6 DEF IInv

LEMMA BeginUnloadInv ==
    ASSUME IInv, NEW c \in Call, BeginUnload(c)
    PROVE  IInv'
<1>1. /\ method[c] \in Unload /\ pc[c] = "queued"
      /\ pc' = [pc EXCEPT ![c] = "waiting"]
      /\ UNCHANGED <<method, uses, live, is_generating>>
    BY DEF BeginUnload, At, GoTo, dart
<1>2. /\ pc'[c] = "waiting"
      /\ \A d \in Call \ {c} : pc'[d] = pc[d] /\ uses'[d] = uses[d]
      /\ pc' \in [Call -> Points] /\ uses' \in [Call -> SUBSET Object]
    BY <1>1 DEF IInv, TypeOK, Points
<1>3. TypeOK'
    BY <1>1, <1>2 DEF BeginUnload, TellIt, dart, IInv, TypeOK
<1>4. FlagInv' /\ OneGeneration'
    BY <1>1, <1>2 DEF IInv, FlagInv, OneGeneration, Gen, Early, Holds, Claims
<1>5. OneAwaited' /\ FreeingInv'
    BY <1>1, <1>2 DEF IInv, OneAwaited, FreeingInv, Gen, Early, Running, Awaited,
        Pending
<1>6. UsesInv' /\ UsesAreLive'
    BY <1>1, <1>2 DEF IInv, UsesInv, UsesAreLive, Gen, Early, Running, Decodes,
        Awaited, Pending
<1> QED
    BY <1>3, <1>4, <1>5, <1>6 DEF IInv

LEMMA EndWaitInv ==
    ASSUME IInv, NEW c \in Call, EndWait(c)
    PROVE  IInv'
<1>1. /\ method[c] \in Unload /\ pc[c] = "waiting" /\ ~is_generating
      /\ pc' = [pc EXCEPT ![c] = "freeing"]
      /\ UNCHANGED <<method, uses, live, is_generating>>
    BY DEF EndWait, Waited, At, GoTo, bridge, dart
<1>2. /\ pc'[c] = "freeing"
      /\ \A d \in Call \ {c} : pc'[d] = pc[d] /\ uses'[d] = uses[d]
      /\ pc' \in [Call -> Points] /\ uses' \in [Call -> SUBSET Object]
    BY <1>1 DEF IInv, TypeOK, Points
<1>3. TypeOK'
    BY <1>1, <1>2 DEF EndWait, bridge, dart, IInv, TypeOK
<1>4. FlagInv' /\ OneGeneration'
    BY <1>1, <1>2 DEF IInv, FlagInv, OneGeneration, Gen, Early, Holds, Claims
<1>5. OneAwaited' /\ FreeingInv'
    BY <1>1, <1>2 DEF IInv, OneAwaited, FreeingInv, Gen, Early, Running, Awaited,
        Pending
<1>6. UsesInv' /\ UsesAreLive'
    BY <1>1, <1>2 DEF IInv, UsesInv, UsesAreLive, Gen, Early, Running, Decodes,
        Awaited, Pending, Unload
<1> QED
    BY <1>3, <1>4, <1>5, <1>6 DEF IInv

LEMMA FreeEverythingInv ==
    ASSUME IInv, NEW c \in Call, FreeEverything(c)
    PROVE  IInv'
<1>1. /\ method[c] \in Unload /\ pc[c] = "freeing"
      /\ live' = {}
      /\ \/ pc' = [pc EXCEPT ![c] = "loading"] /\ UNCHANGED uses
         \/ pc' = [pc EXCEPT ![c] = "answered"] /\ uses' = [uses EXCEPT ![c] = {}]
      /\ UNCHANGED <<method, is_generating>>
    BY DEF FreeEverything, Answer, At, GoTo, Using, Unload, bridge, dart, blocks
<1>2. /\ pc'[c] \in {"loading", "answered"}
      /\ \A d \in Call \ {c} : pc'[d] = pc[d] /\ uses'[d] = uses[d]
      /\ pc' \in [Call -> Points] /\ uses' \in [Call -> SUBSET Object]
    BY <1>1 DEF IInv, TypeOK, Points
<1>3. TypeOK'
    BY <1>1, <1>2 DEF FreeEverything, Answer, bridge, dart, blocks, IInv, TypeOK,
        Object
<1>4. FlagInv' /\ OneGeneration'
    BY <1>1, <1>2 DEF IInv, FlagInv, OneGeneration, Gen, Early, Holds, Claims
<1>5. OneAwaited' /\ FreeingInv'
    BY <1>1, <1>2 DEF IInv, OneAwaited, FreeingInv, Gen, Early, Running, Awaited,
        Pending
<1>6. UsesInv' /\ UsesAreLive'
    <2>1. \A d \in Call \ {c} :
             uses[d] = {} /\ ~Awaited(d) /\ ~(Early(d) /\ pc[d] # "queued")
        BY <1>1 DEF IInv, UsesInv, OneAwaited, FreeingInv, FlagInv, Gen, Early,
            Running, Holds,
            Awaited, Pending, Unload
    <2> QED
        BY <1>1, <1>2, <2>1 DEF IInv, TypeOK, UsesInv, UsesAreLive, Gen, Early,
            Running, Decodes,
            Awaited, Pending
<1> QED
    BY <1>3, <1>4, <1>5, <1>6 DEF IInv

LEMMA LoadModelInv ==
    ASSUME IInv, NEW c \in Call, LoadModel(c)
    PROVE  IInv'
<1>1. /\ method[c] = "initModel" /\ pc[c] = "loading"
      /\ live' = {} \/ live' = {"model", "ctx"}
      /\ pc' = [pc EXCEPT ![c] = "answered"]
      /\ uses' = [uses EXCEPT ![c] = {}]
      /\ UNCHANGED <<method, is_generating>>
    BY DEF LoadModel, Answer, At, GoTo, Using
<1>2. /\ pc'[c] = "answered"
      /\ \A d \in Call \ {c} : pc'[d] = pc[d] /\ uses'[d] = uses[d]
      /\ pc' \in [Call -> Points] /\ uses' \in [Call -> SUBSET Object]
    BY <1>1 DEF IInv, TypeOK, Points
<1>3. TypeOK'
    BY <1>1, <1>2 DEF LoadModel, Answer, IInv, TypeOK, Object
<1>4. FlagInv' /\ OneGeneration'
    BY <1>1, <1>2 DEF IInv, FlagInv, OneGeneration, Gen, Early, Holds, Claims
<1>5. OneAwaited' /\ FreeingInv'
    BY <1>1, <1>2 DEF IInv, OneAwaited, FreeingInv, Gen, Early, Running, Awaited,
        Pending
<1>6. UsesInv' /\ UsesAreLive'
    <2>1. \A d \in Call \ {c} :
             uses[d] = {} /\ ~Awaited(d) /\ ~(Early(d) /\ pc[d] # "queued")
        BY <1>1 DEF IInv, UsesInv, OneAwaited, FreeingInv, FlagInv, Gen, Early,
            Running, Holds,
            Awaited, Pending
    <2> QED
        BY <1>1, <1>2, <2>1 DEF IInv, TypeOK, UsesInv, UsesAreLive, Gen, Early,
            Running, Decodes,
            Awaited, Pending
<1> QED
    BY <1>3, <1>4, <1>5, <1>6 DEF IInv

-----------------------------------------------------------------------------
\* Blocks keep the invariant without the discipline; only calls need it.
LEMMA NextInv == ASSUME IInv, Serialised, [Next]_vars PROVE IInv'
<1>1. CASE \E c \in Call, m \in Methods : Invoke(c, m)
    BY <1>1, InvokeInv
<1>2. CASE (\E c \in Call : CancelStream(c)) \/ AbortGeneration
    BY <1>2, StopInv
<1>3. ASSUME NEW c \in Call, Generation(c) PROVE IInv'
    BY <1>3, StartGenerationInv, RefuseGenerationInv, AdmitGenerationInv,
        ClaimGenerationInv, ResetStopFlagInv, BeginReplyInv, EndReplyInv,
        ReturnFromGenerationInv, FailPrefillInv DEF Generation
<1>4. ASSUME NEW c \in Call, Other(c) PROVE IInv'
    BY <1>4, BeginEmbeddingInv, EndEmbeddingInv, BeginResetInv, RefuseResetInv,
        AdmitResetInv, FreeContextInv, RebuildContextInv, BeginLoadInv, EndLoadInv,
        RefuseModelInv, BeginUnloadInv, EndWaitInv, FreeEverythingInv, LoadModelInv
        DEF Other
<1>5. CASE UNCHANGED vars
    BY <1>5 DEF vars, bridge, blocks, dart, IInv, TypeOK, Running, Decodes,
        FlagInv, OneGeneration,
        OneAwaited, FreeingInv, UsesInv, UsesAreLive, Gen, Early, Holds,
        Claims, Awaited, Pending
<1> QED
    BY <1>1, <1>2, <1>3, <1>4, <1>5 DEF Next, Application, Block

\* For an application that waits for what it should wait for, however many calls
\* it makes and whichever fail: flag, uses and frees fit together.
THEOREM BridgeInvariant == ASSUME Serialised PROVE Spec => []IInv
<1>1. Init => IInv
    BY InitInv
<1>2. IInv /\ [Next]_vars => IInv'
    BY NextInv
<1> QED
    BY <1>1, <1>2, PTL DEF Spec

\* No block of LlamaBridge.mm works on an object another has freed: unload waits
\* for the flag, and the flag is up for as long as a generation uses ctx.
THEOREM UsesStayLive == ASSUME Serialised PROVE Spec => []UsesAreLive
<1>1. IInv => UsesAreLive
    BY DEF IInv
<1> QED
    BY <1>1, BridgeInvariant, PTL

\* The context never decodes for two callers at once, although is_generating is
\* tested (335) and set (346) in separate steps and getEmbedding tests nothing.
THEOREM NoDecodeOverlaps == ASSUME Serialised PROVE Spec => []OneDecodeAtATime
<1>1. IInv => OneDecodeAtATime
    BY DEF IInv, OneDecodeAtATime, OneGeneration, OneAwaited, UsesInv, Gen,
        Running, Decodes, Holds,
        Claims, Awaited, Pending, Unload
<1> QED
    BY <1>1, BridgeInvariant, PTL

\* ResetStopFlag apart, a step leaves stop_generation or sets it; and a call gets to
\* the wait of unload only by BeginUnload, which sets it.
Told == stop_generation' = stop_generation \/ stop_generation' = TRUE
NoneWaits(c) ==
    /\ UNCHANGED method
    /\ pc'[c] # "waiting" /\ \A d \in Call \ {c} : pc'[d] = pc[d]

LEMMA GenerationSteps ==
    ASSUME IInv, NEW c \in Call, Generation(c)
    PROVE  NoneWaits(c) /\ (ResetStopFlag(c) \/ Told)
<1>1. pc \in [Call -> Points] /\ stop_generation \in BOOLEAN
    BY DEF IInv, TypeOK
<1>2. CASE StartGeneration(c)
    BY <1>1, <1>2 DEF StartGeneration, At, GoTo, bridge, NoneWaits, Told
<1>3. CASE RefuseGeneration(c)
    BY <1>1, <1>3 DEF RefuseGeneration, SendSentinel, At, GoTo, NoneWaits, Told
<1>4. CASE AdmitGeneration(c)
    BY <1>1, <1>4 DEF AdmitGeneration, At, GoTo, bridge, NoneWaits, Told
<1>5. CASE ClaimGeneration(c)
    BY <1>1, <1>5 DEF ClaimGeneration, At, GoTo, NoneWaits, Told
<1>6. CASE ResetStopFlag(c)
    BY <1>1, <1>6 DEF ResetStopFlag, At, GoTo, NoneWaits
<1>7. CASE BeginReply(c)
    BY <1>1, <1>7 DEF BeginReply, At, GoTo, bridge, NoneWaits, Told
<1>8. CASE EndReply(c)
    BY <1>1, <1>8 DEF EndReply, SendSentinel, At, GoTo, NoneWaits, Told
<1>9. CASE ReturnFromGeneration(c)
    BY <1>1, <1>9 DEF ReturnFromGeneration, At, GoTo, NoneWaits, Told
<1>10. CASE FailPrefill(c)
    BY <1>1, <1>10 DEF FailPrefill, At, GoTo, NoneWaits, Told
<1> QED
    BY <1>2, <1>3, <1>4, <1>5, <1>6, <1>7, <1>8, <1>9, <1>10 DEF Generation

LEMMA OtherSteps ==
    ASSUME IInv, NEW c \in Call, Other(c)
    PROVE  \/ BeginUnload(c)
           \/ NoneWaits(c) /\ UNCHANGED stop_generation
<1>1. pc \in [Call -> Points]
    BY DEF IInv, TypeOK
<1>2. ASSUME NEW ok, Answer(c, ok) PROVE NoneWaits(c)
    BY <1>1, <1>2 DEF Answer, GoTo, NoneWaits
<1>3. ASSUME NEW point, point # "waiting", GoTo(c, point), UNCHANGED method
      PROVE  NoneWaits(c)
    BY <1>1, <1>3 DEF GoTo, NoneWaits
<1>4. CASE BeginEmbedding(c) \/ EndEmbedding(c)
    BY <1>2, <1>3, <1>4 DEF BeginEmbedding, EndEmbedding, bridge
<1>5. CASE BeginReset(c) \/ RefuseReset(c) \/ AdmitReset(c)
    BY <1>2, <1>3, <1>5 DEF BeginReset, RefuseReset, AdmitReset, bridge
<1>6. CASE FreeContext(c) \/ RebuildContext(c)
    BY <1>2, <1>3, <1>6 DEF FreeContext, RebuildContext
<1>7. CASE BeginLoad(c) \/ EndLoad(c)
    BY <1>2, <1>3, <1>7 DEF BeginLoad, EndLoad
<1>8. CASE RefuseModel(c) \/ EndWait(c)
    BY <1>2, <1>3, <1>8 DEF RefuseModel, EndWait, bridge
<1>9. CASE FreeEverything(c) \/ LoadModel(c)
    BY <1>2, <1>3, <1>9 DEF FreeEverything, LoadModel
<1> QED
    BY <1>4, <1>5, <1>6, <1>7, <1>8, <1>9 DEF Other

\* A generation that is about to take requests back has not begun, and none is in
\* that place while unload is awaited.
LEMMA StopNext ==
    ASSUME IInv, StopIsNotLost, [Next]_vars
    PROVE  StopIsNotLost'
<1> SUFFICES ASSUME NEW c \in Call, method'[c] \in Unload, pc'[c] = "waiting"
             PROVE  stop_generation'
    BY DEF StopIsNotLost
<1>1. CASE \E d \in Call, m \in Methods : Invoke(d, m)
    <2> PICK d \in Call, m \in Methods : Invoke(d, m)
        BY <1>1
    <2>1. /\ pc'[d] = "queued" /\ UNCHANGED stop_generation
          /\ \A e \in Call \ {d} : pc'[e] = pc[e] /\ method'[e] = method[e]
        BY DEF Invoke, GoTo, bridge, IInv, TypeOK
    <2> QED
        BY <2>1 DEF StopIsNotLost
<1>2. CASE (\E d \in Call : CancelStream(d)) \/ AbortGeneration
    BY <1>2 DEF CancelStream, AbortGeneration
<1>3. ASSUME NEW d \in Call, Generation(d) PROVE stop_generation'
    <2>1. NoneWaits(d) /\ (ResetStopFlag(d) \/ Told)
        BY <1>3, GenerationSteps
    <2>2. method[c] \in Unload /\ pc[c] = "waiting" /\ c # d
        BY <2>1 DEF NoneWaits
    <2>3. ~ResetStopFlag(d)
        <3>1. Awaited(c)
            BY <2>2 DEF Awaited, Pending, Unload, IInv, OneAwaited
        <3>2. ~Early(d)
            BY <3>1 DEF IInv, OneAwaited
        <3> QED
            BY <3>2 DEF Early, Gen, ResetStopFlag, At
    <2>4. stop_generation
        BY <2>2 DEF StopIsNotLost
    <2> QED
        BY <2>1, <2>3, <2>4 DEF Told
<1>4. ASSUME NEW d \in Call, Other(d) PROVE stop_generation'
    <2>1. CASE BeginUnload(d)
        BY <2>1 DEF BeginUnload, TellIt
    <2>2. CASE NoneWaits(d) /\ UNCHANGED stop_generation
        BY <2>2 DEF NoneWaits, StopIsNotLost
    <2> QED
        BY <1>4, <2>1, <2>2, OtherSteps
<1>5. CASE UNCHANGED vars
    BY <1>5 DEF vars, bridge, blocks, StopIsNotLost
<1> QED
    BY <1>1, <1>2, <1>3, <1>4, <1>5 DEF Next, Application, Block

\* The busy wait of unload (827-829) is for a generation that has been told to stop
\* and cannot forget it, for any number of calls.
THEOREM StopStays == ASSUME Serialised PROVE Spec => []StopIsNotLost
<1>1. Init => StopIsNotLost
    BY DEF Init, StopIsNotLost
<1>2. IInv /\ StopIsNotLost /\ [Next]_vars => StopIsNotLost'
    BY StopNext
<1> QED
    BY <1>1, <1>2, BridgeInvariant, PTL DEF Spec
=============================================================================
