------------------------------ MODULE Utf8Text ------------------------------
(***************************************************************************)
(* What Unicode says the bytes and the UTF-16 code units of a text are,    *)
(* and what Java is to get of a reply that begins like one: the promise    *)
(* that Utf8Stream is held against.  A text is a sequence of scalar values.*)
(***************************************************************************)
EXTENDS Utf8Stream

CONSTANT Texts \* the texts a reply is compared with

\* All code points but the surrogates.
IsScalar(c) == c \in Nat /\ c < 1114112 /\ ~(55296 <= c /\ c < 57344)

ASSUME TextsAssumption ==
    \A t \in Texts : t \in Seq(Nat) /\ \A k \in 1..Len(t) : IsScalar(t[k])

\* A byte that continues a character holds six bits: the last ones of c, or of what
\* is left without them.
LastSix(c) == 128 + (c % 64)
Rest(c) == c \div 64
Utf8Of(c) ==
    CASE c < 128                -> <<c>>
      [] 128 <= c /\ c < 2048   -> <<192 + Rest(c), LastSix(c)>>
      [] 2048 <= c /\ c < 65536 -> <<224 + Rest(Rest(c)), LastSix(Rest(c)), LastSix(c)>>
      [] OTHER -> <<240 + Rest(Rest(Rest(c))), LastSix(Rest(Rest(c))), LastSix(Rest(c)), LastSix(c)>>
Utf16Of(c) ==
    IF c < 65536 THEN <<c>>
    ELSE LET v == c - 65536 IN <<55296 + v \div 1024, 56320 + (v % 1024)>>

\* What the first k of the sequences in u make together, for every k.
Joined(u) ==
    LET upTo[k \in 0..Len(u)] == IF k = 0 THEN <<>> ELSE upTo[k - 1] \o u[k]
    IN  upTo
InUtf8(t)  == Joined([k \in 1..Len(t) |-> Utf8Of(t[k])])
InUtf16(t) == Joined([k \in 1..Len(t) |-> Utf16Of(t[k])])

StartsWith(s, p) == Len(p) <= Len(s) /\ SubSeq(s, 1, Len(p)) = p

\* "only handed to Java once complete" (native-lib.cpp:408-410): the bytes of a
\* text arrive as its characters, each one as soon as its last byte is there,
\* none twice, none in parts, whatever the cuts between tokens.
WholeCharacters ==
    \A t \in Texts :
        LET bytes == InUtf8(t)
            given == {k \in 0..Len(t) : Len(bytes[k]) <= Len(received)}
            whole == CHOOSE k \in given : \A j \in given : j <= k
        IN  StartsWith(bytes[Len(t)], received) => sent = InUtf16(t)[whole]
=============================================================================
