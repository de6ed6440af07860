---------------------------- MODULE MCUtf8Stream ----------------------------
(***************************************************************************)
(* Replies made of characters of one, two, three and four bytes, and some  *)
(* malformed ones.                                                         *)
(***************************************************************************)
EXTENDS Utf8Text

\* A, e with acute accent, the euro sign, a grinning face; the ends of the
\* ranges that two, three and four bytes encode, without the surrogates.
Characters == {65, 233, 8364, 128512}
Boundaries == {0, 127, 128, 2047, 2048, 55295, 57344, 65535, 65536, 1114111}

TextsOf(chars, n) == UNION {[1..k -> chars] : k \in 0..n}
MCTexts == TextsOf(Characters, 3) \cup TextsOf(Boundaries, 1)

Malformed == {<<130, 169, 172>>, <<226, 65, 226>>, <<240, 159, 195>>,
              <<250, 226, 130>>, <<65, 195, 195, 169, 240, 159, 152>>}

MCReplies == {InUtf8(t)[Len(t)] : t \in MCTexts} \cup Malformed
=============================================================================
