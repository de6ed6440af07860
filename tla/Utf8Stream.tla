----------------------------- MODULE Utf8Stream -----------------------------
(***************************************************************************)
(* sendToken of native-lib.cpp: the bytes of a reply, which llama.cpp cuts *)
(* into token pieces anywhere, also inside a character, leave for Java as  *)
(* UTF-16 strings of whole characters; g_token_utf8_buf keeps the rest.    *)
(*                                                                         *)
(* Bytes are numbers and the bit patterns of the code are ranges of them.  *)
(* `reply` is what the model is going to say; a token takes the next bytes *)
(* of it.  received, handed and sent are history: the bytes sendToken was  *)
(* given, the bytes that left the buffer, the code units Java got.         *)
(***************************************************************************)
EXTENDS Integers, Sequences

CONSTANTS Replies,     \* byte sequences a model may say
          LongestPiece,\* bytes of its longest token
          BufSize      \* sizeof(buf): 128

Byte == 0..255

ASSUME Utf8Assumption ==
    /\ Replies \subseteq Seq(Byte)
    /\ LongestPiece \in Nat /\ BufSize \in Nat

VARIABLES reply, taken, running, g_token_utf8_buf, received, handed, sent

vars == <<reply, taken, running, g_token_utf8_buf, received, handed, sent>>

TypeOK ==
    /\ reply \in Seq(Byte) /\ taken \in 0..Len(reply) /\ running \in BOOLEAN
    /\ g_token_utf8_buf \in Seq(Byte)
    /\ received \in Seq(Byte) /\ handed \in Seq(Byte)

-----------------------------------------------------------------------------
\* (c & 0xC0) == 0x80
Continues(c) == c \in 128..191

\* The bytes of a character that starts with c; 0: c starts none.
Width(c) == CASE c < 128       -> 1
              [] c \in 192..223 -> 2
              [] c \in 224..239 -> 3
              [] c \in 240..247 -> 4
              [] OTHER          -> 0

\* utf8_complete_prefix_len takes an invalid lead byte as it is.
Expected(lead) == IF Width(lead) = 0 THEN 1 ELSE Width(lead)

\* Where the final sequence of s starts: back over continuation bytes.
IsStart(s, i) ==
    /\ i = 1 \/ ~Continues(s[i])
    /\ \A k \in (i + 1)..Len(s) : Continues(s[k])
StartOfLast(s) == CHOOSE i \in 1..Len(s) : IsStart(s, i)

\* (Mutants: a complete character is held back; an incomplete one is not.)
WaitsForMore(s, i) == Len(s) - i + 1 > Expected(s[i])
NeverWaits(s, i)   == i \in 1..Len(s)
EndsWhole(s, i)    == Len(s) - i + 1 >= Expected(s[i])

CompletePrefixLen(s) ==
    IF s = <<>> THEN 0
    ELSE IF EndsWhole(s, StartOfLast(s)) THEN Len(s) ELSE StartOfLast(s) - 1

\* utf8_to_utf16.  Bytes that start nothing are skipped; the low six bits of
\* the bytes that follow are taken without a look at the rest.
Low6(c) == c % 64
CodePoint(s, i) ==
    CASE Width(s[i]) = 1 -> s[i]
      [] Width(s[i]) = 2 -> (s[i] % 32) * 64 + Low6(s[i + 1])
      [] Width(s[i]) = 3 -> ((s[i] % 16) * 64 + Low6(s[i + 1])) * 64 + Low6(s[i + 2])
      [] Width(s[i]) = 4 -> (((s[i] % 8) * 64 + Low6(s[i + 1])) * 64
                                + Low6(s[i + 2])) * 64 + Low6(s[i + 3])

SurrogatePair(cp) == <<55296 + (cp - 65536) \div 1024,
                       56320 + ((cp - 65536) % 1024)>>

Units(cp) == IF cp <= 65535 THEN <<cp>> ELSE SurrogatePair(cp)

Utf16(s) ==
    LET from[i \in 1..(Len(s) + 1)] ==
            IF i > Len(s) THEN <<>>
            ELSE IF Width(s[i]) = 0 THEN from[i + 1]
            ELSE IF i + Width(s[i]) > Len(s) + 1 THEN <<>>
            ELSE Units(CodePoint(s, i)) \o from[i + Width(s[i])]
    IN  from[1]

-----------------------------------------------------------------------------
Init ==
    /\ reply = <<>> /\ taken = 0 /\ running = FALSE
    /\ g_token_utf8_buf = <<>>
    /\ received = <<>> /\ handed = <<>> /\ sent = <<>>

\* A fresh buffer per generation.  (Mutant: what the last reply left stays.)
StaleBuffer == g_token_utf8_buf
FreshBuffer == <<>>

StartGeneration ==
    /\ ~running
    /\ reply' \in Replies
    /\ taken' = 0 /\ running' = TRUE
    /\ g_token_utf8_buf' = FreshBuffer
    /\ received' = <<>> /\ handed' = <<>> /\ sent' = <<>>

\* The buffer after the complete prefix of s has left it.
HeldBack(s) == SubSeq(s, CompletePrefixLen(s) + 1, Len(s))

SendToken(n) ==
    LET piece == SubSeq(reply, taken + 1, taken + n)
        s == g_token_utf8_buf \o piece
        complete == SubSeq(s, 1, CompletePrefixLen(s))
    IN  /\ running /\ n <= BufSize /\ taken + n <= Len(reply)
        /\ taken' = taken + n
        /\ received' = received \o piece
        /\ g_token_utf8_buf' = HeldBack(s)
        /\ handed' = handed \o complete
        /\ sent' = sent \o Utf16(complete)
        /\ UNCHANGED <<reply, running>>

\* llama_token_to_piece answers a negative length: the token has no text.
DropToken(n) ==
    /\ running /\ n > BufSize /\ taken + n <= Len(reply)
    /\ taken' = taken + n
    /\ UNCHANGED <<reply, running, g_token_utf8_buf, received, handed, sent>>

\* A stop string, an end-of-generation token, an abort: at any token, with the
\* buffer as it is.
EndGeneration ==
    /\ running
    /\ running' = FALSE
    /\ UNCHANGED <<reply, taken, g_token_utf8_buf, received, handed, sent>>

Next == \/ StartGeneration \/ EndGeneration
        \/ \E n \in 1..LongestPiece : SendToken(n) \/ DropToken(n)

Spec == Init /\ [][Next]_vars
-----------------------------------------------------------------------------
\* What is held back is the beginning of one character, at most three bytes,
\* whatever bytes the model says: text cannot pile up in the buffer.
Partial(s) == /\ Len(s) < Width(s[1])
              /\ \A k \in 2..Len(s) : Continues(s[k])

HeldBackIsPartial == g_token_utf8_buf # <<>> => Partial(g_token_utf8_buf)

\* Every byte is handed on, once and in order, or still held back.
NothingLost == handed \o g_token_utf8_buf = received

\* Bytes that are characters: behind each byte that starts one come the continuation
\* bytes it announces, and no others.
HasItsBytes(s, i) ==
    LET end == i + Width(s[i])
    IN  /\ Width(s[i]) > 0 /\ end <= Len(s) + 1
        /\ \A k \in (i + 1)..(end - 1) : Continues(s[k])
        /\ end <= Len(s) => ~Continues(s[end])
WellFormed(s) ==
    /\ s # <<>> => ~Continues(s[1])
    /\ \A i \in 1..Len(s) : ~Continues(s[i]) => HasItsBytes(s, i)

\* "only handed to Java once complete" (native-lib.cpp:408-410): of a text none of
\* whose tokens was dropped, what was handed on ends with a character, and so does
\* no longer part of what came in.  A character leaves whole, with its last byte.
CharactersLeaveWhole ==
    WellFormed(reply) /\ received = SubSeq(reply, 1, taken) =>
        /\ WellFormed(handed)
        /\ \A n \in (Len(handed) + 1)..Len(received) :
              ~WellFormed(SubSeq(received, 1, n))
=============================================================================
