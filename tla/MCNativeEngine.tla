--------------------------- MODULE MCNativeEngine ---------------------------
(***************************************************************************)
(* Instances of NativeEngine for TLC.  b is the BOS token, which no        *)
(* sampler returns; e ends a generation (and, in a prompt, a turn); x and  *)
(* y are any two others.                                                   *)
(***************************************************************************)
EXTENDS NativeEngine

CONSTANTS b, x, y, e

MCToken    == {b, x, y, e}
MCVocab    == {x, y, e}
DraftVocab == {x, e}

\* Conversations that open with BOS.  They extend, shorten and contradict each
\* other; <<b, x, e, y>> is <<b>> answered with x and followed up with y; the
\* last one does not fit NCtx = 12.
BosPrompts == {<<b>>, <<b, x>>, <<b, x, y>>, <<b, x, e, y>>, <<b, y, y, x, x>>,
               <<b, x, x, x, x, x, x, x, x, x, x, x, x>>}
DraftPrompts == {<<b>>, <<b, x, e>>}

\* Conversations of a model without BOS: the first token can be sampled too.
NoBosPrompts == {<<x>>, <<x, y>>, <<y, x, y>>}
=============================================================================
