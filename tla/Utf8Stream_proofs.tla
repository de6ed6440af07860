-------------------------- MODULE Utf8Stream_proofs -------------------------
(***************************************************************************)
(* The buffer of sendToken for every byte sequence a model may say, also a *)
(* malformed one, and for every cut into tokens.                           *)
(***************************************************************************)
EXTENDS Utf8Text, SequenceTheorems, WellFoundedInduction, TLAPS

\* The loop of utf8_complete_prefix_len stops: the first byte that is no
\* continuation, counted from the end, or the first byte of all.
LEMMA StartFound ==
    ASSUME NEW s \in Seq(Byte), s # <<>>
    PROVE  StartOfLast(s) \in 1..Len(s) /\ IsStart(s, StartOfLast(s))
<1> DEFINE Stops == {b \in 0..(Len(s) - 1) :
                        Len(s) - b = 1 \/ ~Continues(s[Len(s) - b])}
<1>1. Len(s) \in Nat \ {0}
    OBVIOUS
<1>2. Len(s) - 1 \in Stops /\ Stops \subseteq Nat
    BY <1>1
<1>3. \A p \in Nat \X Nat : p[1] < p[2] => p \in OpToRel(<, Nat)
    BY DEF OpToRel
<1>4. \A m, n \in Nat : m < n => <<m, n>> \in OpToRel(<, Nat)
    BY <1>3
<1>5. PICK b \in Stops : \A k \in Stops : <<k, b>> \notin OpToRel(<, Nat)
    BY <1>2, NatLessThanWellFounded, WFMin, ZenonT(30)
<1>6. \A k \in Stops : ~(k < b)
    BY <1>2, <1>4, <1>5
<1> DEFINE i == Len(s) - b
<1>7. i \in 1..Len(s)
    BY <1>1, <1>2
<1>8. IsStart(s, i)
    <2>1. \A k \in (i + 1)..Len(s) : Continues(s[k])
        <3> SUFFICES ASSUME NEW k \in (i + 1)..Len(s) PROVE Continues(s[k])
            OBVIOUS
        <3>1. /\ Len(s) - k \in 0..(Len(s) - 1) /\ Len(s) - k < b
              /\ Len(s) - (Len(s) - k) = k
            BY <1>1, <1>2, <1>7
        <3>2. Len(s) - k \notin Stops
            BY <1>6, <3>1
        <3> QED
            BY <3>1, <3>2
    <2> QED
        BY <1>5, <2>1 DEF IsStart
<1> HIDE DEF i
<1>9. \E j \in 1..Len(s) : IsStart(s, j)
    BY <1>7, <1>8
<1> QED
    BY <1>9 DEF StartOfLast

\* The bytes that stay are none, or the beginning of one character.
LEMMA HeldBackPartial ==
    ASSUME NEW s \in Seq(Byte)
    PROVE  /\ CompletePrefixLen(s) \in 0..Len(s)
           /\ HeldBack(s) # <<>> => Partial(HeldBack(s))
<1>1. CASE s = <<>>
    BY <1>1 DEF CompletePrefixLen, HeldBack
<1>2. CASE s # <<>> /\ EndsWhole(s, StartOfLast(s))
    <2>1. CompletePrefixLen(s) = Len(s)
        BY <1>2 DEF CompletePrefixLen
    <2>2. HeldBack(s) = <<>>
        BY <2>1, SubSeqEmpty DEF HeldBack
    <2> QED
        BY <2>1, <2>2
<1>3. CASE s # <<>> /\ ~EndsWhole(s, StartOfLast(s))
    <2> DEFINE i == StartOfLast(s)  held == HeldBack(s)
    <2>1. i \in 1..Len(s) /\ IsStart(s, i)
        BY <1>3, StartFound
    <2>2. CompletePrefixLen(s) = i - 1
        BY <1>3 DEF CompletePrefixLen
    <2>3. held = SubSeq(s, i, Len(s))
        BY <2>1, <2>2, SMTT(20) DEF HeldBack
    <2>4. /\ Len(held) = Len(s) - i + 1
          /\ \A k \in 1..Len(held) : held[k] = s[i + k - 1]
        BY <2>1, <2>3
    <2>5. s[i] \in Byte
        BY <2>1
    <2>6. Expected(s[i]) \in 1..4 /\ (Expected(s[i]) > 1 => Width(s[i]) = Expected(s[i]))
        BY <2>5 DEF Expected, Width, Byte
    <2>7. Len(s) - i + 1 < Expected(s[i])
        BY <1>3, <2>1, <2>6 DEF EndsWhole
    <2>8. Len(held) < Width(held[1])
        BY <2>1, <2>4, <2>6, <2>7
    <2>9. \A k \in 2..Len(held) : Continues(held[k])
        <3> SUFFICES ASSUME NEW k \in 2..Len(held) PROVE Continues(held[k])
            OBVIOUS
        <3>1. held[k] = s[i + k - 1] /\ i + k - 1 \in (i + 1)..Len(s)
            BY <2>1, <2>4
        <3> QED
            BY <2>1, <3>1 DEF IsStart
    <2>10. Partial(held)
        BY <2>8, <2>9 DEF Partial
    <2> QED
        BY <2>1, <2>2, <2>10
<1> QED
    BY <1>1, <1>2, <1>3

\* What leaves and what stays make up what there was.
LEMMA SplitAtPrefix ==
    ASSUME NEW s \in Seq(Byte)
    PROVE  /\ SubSeq(s, 1, CompletePrefixLen(s)) \in Seq(Byte)
           /\ HeldBack(s) \in Seq(Byte)
           /\ SubSeq(s, 1, CompletePrefixLen(s)) \o HeldBack(s) = s
<1> DEFINE n == CompletePrefixLen(s)
<1>1. n \in 0..Len(s)
    BY HeldBackPartial
<1> HIDE DEF n
<1>2. SubSeq(s, 1, n) \o SubSeq(s, n + 1, Len(s)) = SubSeq(s, 1, Len(s))
    <2>1. 1 \in 1..(Len(s) + 1) /\ n \in (1 - 1)..Len(s) /\ Len(s) \in n..Len(s)
        BY <1>1
    <2> QED
        BY <2>1, ConcatAdjacentSubSeq, Zenon
<1>3. SubSeq(s, 1, n) \in Seq(Byte) /\ SubSeq(s, n + 1, Len(s)) \in Seq(Byte)
    BY <1>1
<1> QED
    BY <1>2, <1>3, SubSeqFull DEF HeldBack, n

\* \o under a name that the provers do not look behind.
Then(a, b) == a \o b
LEMMA BytesRegroup ==
    ASSUME NEW a, NEW b, NEW c, a \in Seq(Byte), b \in Seq(Byte), c \in Seq(Byte)
    PROVE  Then(Then(a, b), c) = Then(a, Then(b, c))
<1>1. (a \o b) \o c = a \o (b \o c)
    BY SMTT(60)
<1> QED
    BY <1>1, Zenon DEF Then
LEMMA IntsRegroup ==
    ASSUME NEW a, NEW b, NEW c, a \in Seq(Int), b \in Seq(Int), c \in Seq(Int)
    PROVE  Then(Then(a, b), c) = Then(a, Then(b, c))
<1>1. (a \o b) \o c = a \o (b \o c)
    BY SMTT(60)
<1> QED
    BY <1>1, Zenon DEF Then
LEMMA SecondPart ==
    ASSUME NEW a \in Seq(Byte), NEW b \in Seq(Byte), NEW i \in 1..Len(b)
    PROVE  (a \o b)[Len(a) + i] = b[i]
BY SMT

\* What was handed on and what stays are the bytes so far and the new piece.
LEMMA BytesKept ==
    ASSUME NEW h \in Seq(Byte), NEW b \in Seq(Byte), NEW p \in Seq(Byte)
    PROVE  (h \o SubSeq(b \o p, 1, CompletePrefixLen(b \o p))) \o HeldBack(b \o p)
                = (h \o b) \o p
<1>1. b \o p \in Seq(Byte)
    OBVIOUS
<1>2. PICK c \in Seq(Byte), k \in Seq(Byte) :
          /\ c = SubSeq(b \o p, 1, CompletePrefixLen(b \o p))
          /\ k = HeldBack(b \o p) /\ c \o k = b \o p
    BY <1>1, SplitAtPrefix, Zenon
<1>3. /\ Then(Then(h, c), k) = Then(h, Then(c, k))
      /\ Then(Then(h, b), p) = Then(h, Then(b, p))
    BY BytesRegroup, SMT
<1>4. (h \o c) \o k = h \o (c \o k) /\ (h \o b) \o p = h \o (b \o p)
    BY <1>3, Zenon DEF Then
<1> QED
    BY <1>2, <1>3, <1>4

-----------------------------------------------------------------------------
\* The invariant is inductive as it stands.
IInv == TypeOK /\ HeldBackIsPartial /\ NothingLost

LEMMA InitInv == ASSUME Init PROVE IInv
<1>1. <<>> \in Seq(Byte) /\ 0 \in 0..Len(<<>>)
    OBVIOUS
<1>2. <<>> \o <<>> = <<>>
    BY <1>1, ConcatEmptySeq, Zenon
<1>3. TypeOK
    BY <1>1 DEF Init, TypeOK
<1>4. NothingLost
    BY <1>2, Zenon DEF Init, NothingLost
<1> QED
    BY <1>3, <1>4 DEF Init, IInv, HeldBackIsPartial

\* One token: the buffer grows by its piece, then gives away its complete prefix.
LEMMA SendTokenInv ==
    ASSUME IInv, NEW n \in 1..LongestPiece, SendToken(n)
    PROVE  IInv'
<1> DEFINE piece == SubSeq(reply, taken + 1, taken + n)
           s == g_token_utf8_buf \o piece
           complete == SubSeq(s, 1, CompletePrefixLen(s))
<1>1. /\ reply \in Seq(Byte) /\ taken \in Nat /\ n \in Nat
      /\ taken + n <= Len(reply) /\ g_token_utf8_buf \in Seq(Byte)
      /\ received \in Seq(Byte) /\ handed \in Seq(Byte)
    BY Utf8Assumption DEF IInv, TypeOK, SendToken
<1>2. piece \in Seq(Byte)
    BY <1>1
<1>3. s \in Seq(Byte)
    BY <1>1, <1>2
<1>4. /\ g_token_utf8_buf' = HeldBack(s) /\ handed' = handed \o complete
      /\ received' = received \o piece
      /\ taken' = taken + n /\ reply' = reply /\ running' = running
    BY DEF SendToken
<1> HIDE DEF piece
<1>5. complete \in Seq(Byte) /\ HeldBack(s) \in Seq(Byte) /\ complete \o HeldBack(s) = s
    BY <1>3, SplitAtPrefix, Zenon
<1>6. TypeOK'
    <2>1. handed' \in Seq(Byte) /\ g_token_utf8_buf' \in Seq(Byte)
        BY <1>1, <1>4, <1>5, SMTT(20)
    <2>2. received' \in Seq(Byte)
        BY <1>1, <1>2, <1>4
    <2>3. taken' \in 0..Len(reply)
        BY <1>1, <1>4
    <2> QED
        BY <1>4, <2>1, <2>2, <2>3 DEF IInv, TypeOK
<1>7. HeldBackIsPartial'
    BY <1>3, <1>4, HeldBackPartial DEF HeldBackIsPartial
<1>8. NothingLost'
    <2>1. (handed \o complete) \o HeldBack(s) = (handed \o g_token_utf8_buf) \o piece
        BY <1>1, <1>2, BytesKept, ZenonT(30)
    <2>2. handed \o g_token_utf8_buf = received
        BY DEF IInv, NothingLost
    <2> QED
        BY <1>4, <2>1, <2>2, Zenon DEF NothingLost
<1> QED
    BY <1>6, <1>7, <1>8 DEF IInv

LEMMA NextInv == ASSUME IInv, [Next]_vars PROVE IInv'
<1>1. CASE StartGeneration
    <2>1. reply' \in Seq(Byte) /\ <<>> \o <<>> = <<>>
        BY <1>1, Utf8Assumption, ConcatEmptySeq DEF StartGeneration
    <2> QED
        BY <1>1, <2>1 DEF StartGeneration, FreshBuffer, IInv, TypeOK,
            HeldBackIsPartial, NothingLost
<1>2. CASE EndGeneration
    BY <1>2 DEF EndGeneration, IInv, TypeOK, HeldBackIsPartial, NothingLost
<1>3. ASSUME NEW n \in 1..LongestPiece, SendToken(n) PROVE IInv'
    BY <1>3, SendTokenInv
<1>4. ASSUME NEW n \in 1..LongestPiece, DropToken(n) PROVE IInv'
    BY <1>4, Utf8Assumption DEF DropToken, IInv, TypeOK, HeldBackIsPartial, NothingLost
<1>5. CASE UNCHANGED vars
    BY <1>5 DEF vars, IInv, TypeOK, HeldBackIsPartial, NothingLost
<1> QED
    BY <1>1, <1>2, <1>3, <1>4, <1>5 DEF Next

THEOREM BufferInvariant == Spec => []IInv
<1>1. Init => IInv
    BY InitInv
<1>2. IInv /\ [Next]_vars => IInv'
    BY NextInv
<1> QED
    BY <1>1, <1>2, PTL DEF Spec

\* However malformed a reply is and however it is cut, the buffer never holds
\* more than an unfinished character.
THEOREM BufferIsPartial == Spec => []HeldBackIsPartial
<1>1. IInv => HeldBackIsPartial
    BY DEF IInv
<1> QED
    BY <1>1, BufferInvariant, PTL

\* Every byte that came in went out or waits.
THEOREM BufferLosesNothing == Spec => []NothingLost
<1>1. IInv => NothingLost
    BY DEF IInv
<1> QED
    BY <1>1, BufferInvariant, PTL

-----------------------------------------------------------------------------
\* Characters.  A cut of a text is a boundary when no character lies across it.
Boundary(t, q) == q \in 0..Len(t) /\ (q < Len(t) => ~Continues(t[q + 1]))

LEMMA PrefixBytes ==
    ASSUME NEW t \in Seq(Byte), NEW q \in 0..Len(t)
    PROVE  /\ SubSeq(t, 1, q) \in Seq(Byte) /\ Len(SubSeq(t, 1, q)) = q
           /\ \A k \in 1..q : SubSeq(t, 1, q)[k] = t[k]
OBVIOUS

LEMMA WidthType == ASSUME NEW c \in Byte PROVE Width(c) \in 0..4
BY DEF Width, Byte

\* A text that is cut at a boundary leaves a text.
LEMMA CutAtBoundary ==
    ASSUME NEW t \in Seq(Byte), WellFormed(t), NEW q \in Nat, Boundary(t, q)
    PROVE  WellFormed(SubSeq(t, 1, q))
<1> DEFINE s == SubSeq(t, 1, q)
<1>1. /\ q \in 0..Len(t) /\ s \in Seq(Byte) /\ Len(s) = q
      /\ \A k \in 1..q : s[k] = t[k]
    BY PrefixBytes DEF Boundary
<1> HIDE DEF s
<1>2. s # <<>> => ~Continues(s[1])
    <2>1. s # <<>> => 1 \in 1..q /\ t # <<>>
        BY <1>1
    <2> QED
        BY <1>1, <2>1 DEF WellFormed
<1>3. ASSUME NEW i \in 1..Len(s), ~Continues(s[i])
      PROVE  HasItsBytes(s, i)
    <2> DEFINE w == Width(t[i])  end == i + w
    <2>1. i \in 1..q /\ i \in 1..Len(t) /\ s[i] = t[i] /\ t[i] \in Byte /\ w \in 0..4
        BY <1>1, WidthType
    <2> HIDE DEF w
    <2>2. /\ w > 0 /\ end <= Len(t) + 1
          /\ \A k \in (i + 1)..(end - 1) : Continues(t[k])
          /\ end <= Len(t) => ~Continues(t[end])
        BY <1>3, <2>1 DEF WellFormed, HasItsBytes, w
    <2>3. end <= q + 1
        <3>1. CASE q < end - 1
            <4>1. q + 1 \in (i + 1)..(end - 1) /\ q < Len(t)
                <5>1. i \in 1..q /\ q \in Nat /\ w \in Nat /\ Len(t) \in Nat
                    BY <1>1, <2>1
                <5> QED
                    BY <2>2, <3>1, <5>1
            <4> QED
                BY <2>2, <4>1 DEF Boundary
        <3> QED
            BY <1>1, <2>1, <3>1
    <2>4. \A k \in (i + 1)..(end - 1) : Continues(s[k])
        <3> SUFFICES ASSUME NEW k \in (i + 1)..(end - 1) PROVE Continues(s[k])
            OBVIOUS
        <3>1. k \in 1..q
            BY <1>1, <2>1, <2>3
        <3> QED
            BY <1>1, <2>2, <3>1
    <2>5. end <= Len(s) => ~Continues(s[end])
        <3> SUFFICES ASSUME end <= Len(s) PROVE ~Continues(s[end])
            OBVIOUS
        <3>1. end \in 1..q /\ end <= Len(t)
            BY <1>1, <2>1, <2>2
        <3> QED
            BY <1>1, <2>2, <3>1
    <2>6. end = i + Width(s[i])
        BY <2>1 DEF w
    <2> HIDE DEF end
    <2> QED
        BY <1>1, <2>1, <2>2, <2>3, <2>4, <2>5, <2>6 DEF HasItsBytes, w
<1>4. WellFormed(s)
    BY <1>2, <1>3 DEF WellFormed
<1> QED
    BY <1>4 DEF s

\* The other way round: where a text ends inside another one, a character does too.
LEMMA TextEndsAtBoundary ==
    ASSUME NEW t \in Seq(Byte), WellFormed(t), NEW q \in 0..Len(t),
           WellFormed(SubSeq(t, 1, q))
    PROVE  Boundary(t, q)
<1> SUFFICES ASSUME q < Len(t) PROVE ~Continues(t[q + 1])
    BY DEF Boundary
<1>1. CASE q = 0
    BY <1>1 DEF WellFormed
<1>2. CASE q > 0
    <2> DEFINE s == SubSeq(t, 1, q)  i == StartOfLast(s)
    <2>1. /\ s \in Seq(Byte) /\ Len(s) = q /\ \A k \in 1..q : s[k] = t[k]
        BY PrefixBytes
    <2>2. s # <<>> /\ WellFormed(s)
        BY <1>2, <2>1
    <2> HIDE DEF s
    <2>3. i \in 1..q /\ IsStart(s, i)
        BY <2>1, <2>2, StartFound
    <2> HIDE DEF i
    <2>4. ~Continues(s[i])
        BY <2>2, <2>3 DEF IsStart, WellFormed
    <2> DEFINE w == Width(t[i])
    <2>5. i \in 1..Len(t) /\ s[i] = t[i] /\ t[i] \in Byte /\ w \in 0..4
        BY <2>1, <2>3, WidthType
    <2>6. w > 0 /\ i + w <= q + 1 /\ (i + w <= q => ~Continues(s[i + w]))
        BY <2>1, <2>2, <2>3, <2>4, <2>5 DEF WellFormed, HasItsBytes
    <2>7. i + w <= Len(t) => ~Continues(t[i + w])
        BY <2>4, <2>5 DEF WellFormed, HasItsBytes
    <2> HIDE DEF w
    <2>8. ~(i + w <= q)
        <3>1. i + w <= q => i + w \in (i + 1)..Len(s)
            BY <2>1, <2>3, <2>5, <2>6
        <3> QED
            BY <2>3, <2>6, <3>1 DEF IsStart
    <2>9. i + w = q + 1
        BY <2>3, <2>5, <2>6, <2>8
    <2> QED
        BY <2>7, <2>9
<1> QED
    BY <1>1, <1>2

\* The bytes h + 1 to m of a text, from a boundary on: utf8_complete_prefix_len keeps
\* its whole characters, and what is left over has a byte too few.
LEMMA CompletePrefixEnds ==
    ASSUME NEW t \in Seq(Byte), WellFormed(t), NEW m \in 0..Len(t), NEW h \in 0..m,
           Boundary(t, h), NEW s \in Seq(Byte), Len(s) = m - h,
           \A k \in 1..Len(s) : s[k] = t[h + k]
    PROVE  LET q == h + CompletePrefixLen(s)
           IN  /\ Boundary(t, q)
               /\ \A n \in (q + 1)..m : ~Boundary(t, n)
<1>1. CASE s = <<>>
    <2>1. m = h /\ CompletePrefixLen(s) = 0
        BY <1>1 DEF CompletePrefixLen
    <2> QED
        BY <2>1
<1>2. CASE s # <<>>
    <2> DEFINE i == StartOfLast(s)  p == h + i  w == Width(t[p])
    <2>1. i \in 1..Len(s) /\ IsStart(s, i)
        BY <1>2, StartFound
    <2> HIDE DEF i
    <2>2. p \in (h + 1)..m /\ p \in 1..Len(t) /\ s[i] = t[p] /\ t[p] \in Byte /\ w \in 0..4
        BY <2>1, WidthType
    <2>3. ~Continues(t[p])
        BY <2>1, <2>2 DEF IsStart, Boundary
    <2>4. \A k \in (p + 1)..m : Continues(t[k])
        <3> SUFFICES ASSUME NEW k \in (p + 1)..m PROVE Continues(t[k])
            OBVIOUS
        <3>1. k - h \in (i + 1)..Len(s) /\ k - h \in 1..Len(s) /\ h + (k - h) = k
            BY <2>1
        <3> QED
            BY <2>1, <3>1 DEF IsStart
    <2>5. /\ w > 0 /\ p + w <= Len(t) + 1
          /\ \A k \in (p + 1)..(p + w - 1) : Continues(t[k])
          /\ p + w <= Len(t) => ~Continues(t[p + w])
        <3>1. HasItsBytes(t, p)
            BY <2>2, <2>3 DEF WellFormed
        <3> QED
            BY <2>2, <3>1, SMTT(20) DEF HasItsBytes
    <2>6. Expected(s[i]) = w /\ Len(s) - i + 1 = m - p + 1
        BY <2>1, <2>2, <2>5 DEF Expected
    <2> HIDE DEF w
    <2>7. CompletePrefixLen(s) = IF m - p + 1 >= w THEN Len(s) ELSE i - 1
        BY <1>2, <2>6 DEF CompletePrefixLen, EndsWhole, i
    <2>8. CASE m - p + 1 >= w
        <3>1. h + CompletePrefixLen(s) = m
            BY <2>7, <2>8
        <3>2. ~(p + w <= m)
            <4>1. p + w <= m => p + w \in (p + 1)..m /\ p + w <= Len(t)
                BY <2>2, <2>5, SMTT(20)
            <4> QED
                BY <2>4, <2>5, <4>1
        <3>3. p + w = m + 1
            <4>1. m \in Nat /\ p \in Nat /\ w \in Nat
                BY <2>2
            <4> HIDE DEF p
            <4> QED
                BY <2>8, <3>2, <4>1
        <3> QED
            BY <2>5, <3>1, <3>3 DEF Boundary
    <2>9. CASE m - p + 1 < w
        <3>1. h + CompletePrefixLen(s) = p - 1
            BY <2>1, <2>2, <2>7, <2>9
        <3>2. Boundary(t, p - 1)
            BY <2>2, <2>3 DEF Boundary
        <3>3. ASSUME NEW n \in p..m PROVE ~Boundary(t, n)
            <4>1. n + 1 \in (p + 1)..(p + w - 1) /\ n < Len(t)
                <5>1. m \in Nat /\ p \in Nat /\ w \in Nat /\ Len(t) \in Nat /\ n \in p..m
                    BY <2>2
                <5> HIDE DEF p
                <5> QED
                    BY <2>5, <2>9, <5>1
            <4>2. Continues(t[n + 1])
                BY <2>5, <4>1
            <4> QED
                BY <4>1, <4>2 DEF Boundary
        <3> QED
            BY <2>2, <3>1, <3>2, <3>3
    <2> QED
        BY <2>2, <2>8, <2>9
<1> QED
    BY <1>1, <1>2

\* Two pieces that make up the beginning of t are consecutive pieces of t.
Consecutive(t, m, a, b) ==
    /\ Len(a) \in 0..m /\ Len(b) = m - Len(a)
    /\ a = SubSeq(t, 1, Len(a))
    /\ \A k \in 1..Len(b) : b[k] = t[Len(a) + k]

LEMMA PiecesOfPrefix ==
    ASSUME NEW t \in Seq(Byte), NEW m \in 0..Len(t), NEW a \in Seq(Byte),
           NEW b \in Seq(Byte), a \o b = SubSeq(t, 1, m)
    PROVE  Consecutive(t, m, a, b)
<1>1. Len(SubSeq(t, 1, m)) = m /\ \A k \in 1..m : SubSeq(t, 1, m)[k] = t[k]
    BY PrefixBytes
<1>2. Len(a \o b) = Len(a) + Len(b) /\ Len(a) \in Nat /\ Len(b) \in Nat
    OBVIOUS
<1>3. Len(a) \in 0..m /\ Len(b) = m - Len(a)
    BY <1>1, <1>2
<1>4. \A k \in 1..Len(a) : a[k] = t[k]
    <2> SUFFICES ASSUME NEW k \in 1..Len(a) PROVE a[k] = t[k]
        OBVIOUS
    <2>1. (a \o b)[k] = a[k] /\ k \in 1..m
        BY <1>2, <1>3
    <2> QED
        BY <1>1, <2>1
<1>5. a = SubSeq(t, 1, Len(a))
    <2>1. Len(a) \in 0..Len(t)
        BY <1>3
    <2>2. /\ SubSeq(t, 1, Len(a)) \in Seq(Byte) /\ Len(SubSeq(t, 1, Len(a))) = Len(a)
          /\ \A k \in 1..Len(a) : SubSeq(t, 1, Len(a))[k] = t[k]
        BY <2>1, PrefixBytes
    <2> DEFINE c == SubSeq(t, 1, Len(a))
    <2> HIDE DEF c
    <2>3. c \in Seq(Byte) /\ Len(c) = Len(a) /\ \A k \in 1..Len(a) : c[k] = a[k]
        BY <1>4, <2>2 DEF c
    <2>4. a = c
        BY <2>3, SeqEqual
    <2> QED
        BY <2>4 DEF c
<1>6. \A k \in 1..Len(b) : b[k] = t[Len(a) + k]
    <2> SUFFICES ASSUME NEW k \in 1..Len(b) PROVE b[k] = t[Len(a) + k]
        OBVIOUS
    <2>1. (a \o b)[Len(a) + k] = b[k] /\ Len(a) + k \in 1..m
        BY <1>2, <1>3
    <2> QED
        BY <1>1, <2>1
<1> QED
    BY <1>3, <1>5, <1>6, Zenon DEF Consecutive

LEMMA PrefixOfPrefix ==
    ASSUME NEW t \in Seq(Byte), NEW m \in 0..Len(t), NEW k \in 0..m
    PROVE  SubSeq(SubSeq(t, 1, m), 1, k) = SubSeq(t, 1, k)
<1> DEFINE r == SubSeq(t, 1, m)  a == SubSeq(r, 1, k)  b == SubSeq(t, 1, k)
<1>1. r \in Seq(Byte) /\ Len(r) = m /\ \A j \in 1..m : r[j] = t[j]
    BY PrefixBytes
<1> HIDE DEF r
<1>2. a \in Seq(Byte) /\ Len(a) = k /\ \A j \in 1..k : a[j] = r[j]
    BY <1>1, PrefixBytes
<1>3. b \in Seq(Byte) /\ Len(b) = k /\ \A j \in 1..k : b[j] = t[j]
    BY PrefixBytes
<1> HIDE DEF a, b
<1>4. \A j \in 1..k : a[j] = b[j]
    BY <1>1, <1>2, <1>3
<1>5. a = b
    BY <1>2, <1>3, <1>4, SeqEqual
<1> QED
    BY <1>5 DEF a, b, r

LEMMA EmptyIsText ==
    /\ WellFormed(<<>>)
    /\ \A k \in (Len(<<>>) + 1)..Len(<<>>) : ~WellFormed(SubSeq(<<>>, 1, k))
BY DEF WellFormed

LEMMA JoinedBytes ==
    ASSUME NEW a \in Seq(Byte), NEW b \in Seq(Byte)
    PROVE  a \o b \in Seq(Byte) /\ Len(a \o b) = Len(a) + Len(b)
OBVIOUS

-----------------------------------------------------------------------------
\* Induction on the natural numbers, for a set of them.
LEMMA Counting ==
    ASSUME NEW S, 0 \in S, \A k \in Nat : k \in S => k + 1 \in S
    PROVE  \A k \in Nat : k \in S
<1> SUFFICES ASSUME \E k \in Nat : k \notin S PROVE FALSE
    OBVIOUS
<1> DEFINE Out == Nat \ S
<1>1. Out \subseteq Nat /\ Out # {}
    OBVIOUS
<1>2. \A p \in Nat \X Nat : p[1] < p[2] => p \in OpToRel(<, Nat)
    BY DEF OpToRel
<1>3. \A m, n \in Nat : m < n => <<m, n>> \in OpToRel(<, Nat)
    BY <1>2
<1> HIDE DEF Out
<1>4. PICK b \in Out : \A k \in Out : <<k, b>> \notin OpToRel(<, Nat)
    BY <1>1, NatLessThanWellFounded, WFMin, ZenonT(30)
<1>5. b \in Nat /\ b \notin S /\ \A k \in Nat : k < b => k \in S
    BY <1>1, <1>3, <1>4 DEF Out
<1>6. b - 1 \in Nat /\ b - 1 \in S
    BY <1>5
<1> QED
    BY <1>5, <1>6

-----------------------------------------------------------------------------
\* utf8_to_utf16 at byte i, given what it reads further on, and from each byte on.
ReadAt(s, f, i) ==
    IF i > Len(s) THEN <<>>
    ELSE IF Width(s[i]) = 0 THEN f[i + 1]
    ELSE IF i + Width(s[i]) > Len(s) + 1 THEN <<>>
    ELSE Units(CodePoint(s, i)) \o f[i + Width(s[i])]
ReadFrom(s, f) == f = [i \in 1..(Len(s) + 1) |-> ReadAt(s, f, i)]

LEMMA Digits ==
    ASSUME NEW d \in Nat
    PROVE  /\ d \div 1024 \in Nat /\ d % 1024 \in Nat
           /\ d % 64 \in Nat /\ d % 32 \in Nat /\ d % 16 \in Nat /\ d % 8 \in Nat
OBVIOUS

LEMMA UnitsType == ASSUME NEW c \in Nat PROVE Units(c) \in Seq(Int)
<1>1. ASSUME c > 65535 PROVE SurrogatePair(c) \in Seq(Int)
    <2> DEFINE d == c - 65536
    <2>1. d \in Nat
        BY <1>1, SMT
    <2>2. SurrogatePair(c) = <<55296 + d \div 1024, 56320 + (d % 1024)>>
        BY SMT DEF SurrogatePair
    <2> HIDE DEF d
    <2>3. 55296 + d \div 1024 \in Int /\ 56320 + (d % 1024) \in Int
        BY <2>1, Digits, SMT
    <2> QED
        BY <2>2, <2>3, SMT
<1> QED
    BY <1>1, SMT DEF Units

LEMMA ByteNat == \A b \in Byte : b \in Nat
BY DEF Byte

LEMMA CodePointType ==
    ASSUME NEW s \in Seq(Byte), NEW i \in 1..Len(s), Width(s[i]) # 0,
           i + Width(s[i]) <= Len(s) + 1
    PROVE  CodePoint(s, i) \in Nat
<1>1. \A k \in 1..Len(s) : /\ s[k] \in Nat /\ Low6(s[k]) \in Nat
                          /\ s[k] % 32 \in Nat /\ s[k] % 16 \in Nat /\ s[k] % 8 \in Nat
    <2> SUFFICES ASSUME NEW k \in 1..Len(s)
                 PROVE  /\ s[k] \in Nat /\ Low6(s[k]) \in Nat
                        /\ s[k] % 32 \in Nat /\ s[k] % 16 \in Nat /\ s[k] % 8 \in Nat
        OBVIOUS
    <2>1. s[k] \in Byte
        OBVIOUS
    <2> DEFINE b == s[k]
    <2> HIDE DEF b
    <2>2. b \in Nat
        BY <2>1, ByteNat DEF b
    <2>3. Low6(b) \in Nat
        BY <2>2, Digits DEF Low6
    <2>4. b % 32 \in Nat /\ b % 16 \in Nat /\ b % 8 \in Nat
        BY <2>2, Digits
    <2> QED
        BY <2>2, <2>3, <2>4 DEF b
<1>2. Width(s[i]) \in 1..4 /\ Len(s) \in Nat
    BY WidthType
<1> DEFINE w == Width(s[i])
<1>3. w = 1 => CodePoint(s, i) = s[i]
    BY DEF CodePoint
<1>4. w = 2 => CodePoint(s, i) = (s[i] % 32) * 64 + Low6(s[i + 1])
    BY DEF CodePoint
<1>5. w = 3 => CodePoint(s, i)
                  = ((s[i] % 16) * 64 + Low6(s[i + 1])) * 64 + Low6(s[i + 2])
    BY DEF CodePoint
<1>6. w = 4 => CodePoint(s, i) = (((s[i] % 8) * 64 + Low6(s[i + 1])) * 64
                                     + Low6(s[i + 2])) * 64 + Low6(s[i + 3])
    BY DEF CodePoint
<1>7. \A k \in 0..(w - 1) : i + k \in 1..Len(s)
    BY <1>2
<1>8. /\ w \in {1, 2, 3, 4}
      /\ w >= 1 => i \in 1..Len(s)
      /\ w >= 2 => i + 1 \in 1..Len(s)
      /\ w >= 3 => i + 2 \in 1..Len(s)
      /\ w >= 4 => i + 3 \in 1..Len(s)
    BY <1>2, <1>7
<1> HIDE DEF w
<1>9. CASE w = 1
    BY <1>1, <1>3, <1>8, <1>9
<1>10. CASE w = 2
    <2>1. i \in 1..Len(s) /\ i + 1 \in 1..Len(s)
        BY <1>8, <1>10
    <2>2. s[i] % 32 \in Nat /\ Low6(s[i + 1]) \in Nat
        BY <1>1, <2>1
    <2> DEFINE a == s[i] % 32  b == Low6(s[i + 1])
    <2> HIDE DEF a, b
    <2>3. a \in Nat /\ b \in Nat
        BY <2>2 DEF a, b
    <2>4. a * 64 + b \in Nat
        BY <2>3
    <2> QED
        BY <1>4, <1>10, <2>4 DEF a, b
<1>11. CASE w = 3
    <2>1. i \in 1..Len(s) /\ i + 1 \in 1..Len(s) /\ i + 2 \in 1..Len(s)
        BY <1>8, <1>11
    <2>2. s[i] % 16 \in Nat /\ Low6(s[i + 1]) \in Nat /\ Low6(s[i + 2]) \in Nat
        BY <1>1, <2>1
    <2> DEFINE a == s[i] % 16  b == Low6(s[i + 1])  c == Low6(s[i + 2])
    <2> HIDE DEF a, b, c
    <2>3. a \in Nat /\ b \in Nat /\ c \in Nat
        BY <2>2 DEF a, b, c
    <2>4. (a * 64 + b) * 64 + c \in Nat
        BY <2>3
    <2> QED
        BY <1>5, <1>11, <2>4 DEF a, b, c
<1>12. CASE w = 4
    <2>1. /\ i \in 1..Len(s) /\ i + 1 \in 1..Len(s)
          /\ i + 2 \in 1..Len(s) /\ i + 3 \in 1..Len(s)
        BY <1>8, <1>12
    <2>2. /\ s[i] % 8 \in Nat /\ Low6(s[i + 1]) \in Nat
          /\ Low6(s[i + 2]) \in Nat /\ Low6(s[i + 3]) \in Nat
        BY <1>1, <2>1
    <2> DEFINE a == s[i] % 8  b == Low6(s[i + 1])  c == Low6(s[i + 2])  d == Low6(s[i + 3])
    <2> HIDE DEF a, b, c, d
    <2>3. a \in Nat /\ b \in Nat /\ c \in Nat /\ d \in Nat
        BY <2>2 DEF a, b, c, d
    <2>4. ((a * 64 + b) * 64 + c) * 64 + d \in Nat
        BY <2>3
    <2> QED
        BY <1>6, <1>12, <2>4 DEF a, b, c, d
<1> QED
    BY <1>8, <1>9, <1>10, <1>11, <1>12

LEMMA ReadAtCases ==
    ASSUME NEW s, NEW f, NEW i, NEW w,
           s \in Seq(Byte) /\ i \in 1..Len(s) /\ w = Width(s[i])
    PROVE  /\ w \in 0..4
           /\ w = 0 => ReadAt(s, f, i) = f[i + 1]
           /\ w # 0 /\ i + w <= Len(s) + 1
                 => ReadAt(s, f, i) = Units(CodePoint(s, i)) \o f[i + w]
           /\ w # 0 /\ i + w > Len(s) + 1 => ReadAt(s, f, i) = <<>>
<1>1. i \in Nat /\ Len(s) \in Nat /\ ~(i > Len(s)) /\ w \in 0..4
    BY WidthType
<1>2. ReadAt(s, f, i) = IF w = 0 THEN f[i + 1]
                        ELSE IF i + w > Len(s) + 1 THEN <<>>
                        ELSE Units(CodePoint(s, i)) \o f[i + w]
    BY <1>1 DEF ReadAt
<1>3. i + w <= Len(s) + 1 => ~(i + w > Len(s) + 1)
    BY <1>1
<1> QED
    BY <1>1, <1>2, <1>3

\* The recursion has a solution: it can be built from the last byte backwards.
LEMMA ReadFromExists ==
    ASSUME NEW s \in Seq(Byte)
    PROVE  \E f \in [1..(Len(s) + 1) -> Seq(Int)] : ReadFrom(s, f)
<1> DEFINE Tails(k) == (Len(s) + 1 - k)..(Len(s) + 1)
           Built(k) == \E g \in [Tails(k) -> Seq(Int)] :
                           \A i \in Tails(k) : g[i] = ReadAt(s, g, i)
           S == {k \in Nat : k <= Len(s) => Built(k)}
<1>l. Len(s) \in Nat
    OBVIOUS
<1>1. 0 \in S
    <2> DEFINE g == [i \in Tails(0) |-> <<>>]
    <2>1. g \in [Tails(0) -> Seq(Int)]
        OBVIOUS
    <2>2. \A i \in Tails(0) : i > Len(s) /\ g[i] = <<>>
        BY <1>l
    <2> HIDE DEF g
    <2>3. \A i \in Tails(0) : g[i] = ReadAt(s, g, i)
        BY <2>2 DEF ReadAt
    <2> QED
        BY <2>1, <2>3
<1>2. ASSUME NEW k \in Nat, k \in S PROVE k + 1 \in S
    <2> SUFFICES ASSUME k + 1 <= Len(s) PROVE Built(k + 1)
        OBVIOUS
    <2>1. PICK g \in [Tails(k) -> Seq(Int)] : \A i \in Tails(k) : g[i] = ReadAt(s, g, i)
        BY <1>2, <1>l
    <2> DEFINE n == Len(s) - k
               h == [i \in Tails(k + 1) |-> IF i = n THEN ReadAt(s, g, n) ELSE g[i]]
    <2>2. /\ n \in 1..Len(s) /\ n + 1 \in Tails(k)
          /\ \A i \in Tails(k + 1) : i = n \/ i \in Tails(k)
          /\ \A i \in Tails(k) : i \in Tails(k + 1) /\ i # n
        BY <1>l
    <2>3. /\ ReadAt(s, g, n) \in Seq(Int)
          /\ \A i \in Tails(k + 1) : i <= Len(s) =>
                /\ i + 1 \in Tails(k)
                /\ s[i] \in Byte /\ Width(s[i]) \in 0..4
                /\ Width(s[i]) # 0 /\ i + Width(s[i]) <= Len(s) + 1
                      => i + Width(s[i]) \in Tails(k)
        <3>1. ASSUME NEW i \in Tails(k + 1), i <= Len(s)
              PROVE  /\ i + 1 \in Tails(k) /\ i \in 1..Len(s)
                     /\ s[i] \in Byte /\ Width(s[i]) \in 0..4
                     /\ Width(s[i]) # 0 /\ i + Width(s[i]) <= Len(s) + 1
                           => i + Width(s[i]) \in Tails(k)
            <4>1. i \in 1..Len(s) /\ i + 1 \in Tails(k) /\ i >= n
                BY <1>l, <3>1
            <4>2. s[i] \in Byte /\ Width(s[i]) \in 0..4
                BY <4>1, WidthType
            <4> QED
                BY <1>l, <4>1, <4>2
        <3>2. n \in Tails(k + 1) /\ n <= Len(s)
            BY <1>l
        <3>3. ReadAt(s, g, n) \in Seq(Int)
            <4> DEFINE w == Width(s[n])
            <4>1. /\ w \in 0..4
                  /\ w = 0 => ReadAt(s, g, n) = g[n + 1]
                  /\ w # 0 /\ n + w <= Len(s) + 1
                        => ReadAt(s, g, n) = Units(CodePoint(s, n)) \o g[n + w]
                  /\ w # 0 /\ n + w > Len(s) + 1 => ReadAt(s, g, n) = <<>>
                BY <2>2, ReadAtCases
            <4>2. w # 0 /\ n + w <= Len(s) + 1 => Units(CodePoint(s, n)) \in Seq(Int)
                BY <2>2, CodePointType, UnitsType
            <4>3. w # 0 /\ n + w <= Len(s) + 1 => g[n + w] \in Seq(Int)
                BY <2>1, <3>1, <3>2
            <4>4. w = 0 => g[n + 1] \in Seq(Int)
                BY <2>1, <2>2
            <4>5. <<>> \in Seq(Int) /\ \A a, b \in Seq(Int) : a \o b \in Seq(Int)
                OBVIOUS
            <4>6. n + w <= Len(s) + 1 \/ n + w > Len(s) + 1
                BY <2>2, <4>1
            <4> HIDE DEF w, n
            <4> QED
                BY <4>1, <4>2, <4>3, <4>4, <4>5, <4>6
        <3> QED
            BY <3>1, <3>3
    <2> HIDE DEF n
    <2>4. /\ h \in [Tails(k + 1) -> Seq(Int)]
          /\ h[n] = ReadAt(s, g, n) /\ \A i \in Tails(k) : h[i] = g[i]
        BY <2>1, <2>2, <2>3
    <2> HIDE DEF h
    <2>5. \A i \in Tails(k + 1) : ReadAt(s, h, i) = ReadAt(s, g, i)
        <3> SUFFICES ASSUME NEW i \in Tails(k + 1) PROVE ReadAt(s, h, i) = ReadAt(s, g, i)
            OBVIOUS
        <3>1. CASE i <= Len(s)
            <4> DEFINE w == Width(s[i])
            <4>1. i \in 1..Len(s)
                BY <1>l, <3>1
            <4>2. /\ w \in 0..4
                  /\ w = 0 => ReadAt(s, g, i) = g[i + 1] /\ ReadAt(s, h, i) = h[i + 1]
                  /\ w # 0 /\ i + w <= Len(s) + 1
                        => /\ ReadAt(s, g, i) = Units(CodePoint(s, i)) \o g[i + w]
                           /\ ReadAt(s, h, i) = Units(CodePoint(s, i)) \o h[i + w]
                  /\ w # 0 /\ i + w > Len(s) + 1
                        => ReadAt(s, g, i) = <<>> /\ ReadAt(s, h, i) = <<>>
                <5>1. /\ w \in 0..4
                      /\ w = 0 => ReadAt(s, g, i) = g[i + 1]
                      /\ w # 0 /\ i + w <= Len(s) + 1
                            => ReadAt(s, g, i) = Units(CodePoint(s, i)) \o g[i + w]
                      /\ w # 0 /\ i + w > Len(s) + 1 => ReadAt(s, g, i) = <<>>
                    BY <4>1, ReadAtCases
                <5>2. /\ w = 0 => ReadAt(s, h, i) = h[i + 1]
                      /\ w # 0 /\ i + w <= Len(s) + 1
                            => ReadAt(s, h, i) = Units(CodePoint(s, i)) \o h[i + w]
                      /\ w # 0 /\ i + w > Len(s) + 1 => ReadAt(s, h, i) = <<>>
                    BY <4>1, ReadAtCases
                <5> HIDE DEF w, h
                <5> QED
                    BY <5>1, <5>2
            <4>3. /\ h[i + 1] = g[i + 1]
                  /\ w # 0 /\ i + w <= Len(s) + 1 => h[i + w] = g[i + w]
                BY <2>3, <2>4, <3>1
            <4>4. i + w <= Len(s) + 1 \/ i + w > Len(s) + 1
                BY <4>1, <4>2
            <4> HIDE DEF w, h
            <4>5. CASE w = 0
                BY <4>2, <4>3, <4>5
            <4>6. CASE w # 0 /\ i + w <= Len(s) + 1
                BY <4>2, <4>3, <4>6
            <4>7. CASE w # 0 /\ i + w > Len(s) + 1
                BY <4>2, <4>7
            <4> QED
                BY <4>4, <4>5, <4>6, <4>7
        <3>2. CASE i > Len(s)
            BY <3>2 DEF ReadAt
        <3> QED
            BY <1>l, <3>1, <3>2
    <2>6. \A i \in Tails(k + 1) : h[i] = ReadAt(s, h, i)
        BY <2>1, <2>2, <2>4, <2>5
    <2> QED
        BY <2>4, <2>6
<1> HIDE DEF S
<1>3. \A k \in Nat : k \in S
    BY <1>1, <1>2, Counting
<1>4. Built(Len(s))
    <2>1. Len(s) \in S
        BY <1>3, <1>l
    <2> HIDE DEF Built
    <2> QED
        BY <2>1, <1>l DEF S
<1>5. Tails(Len(s)) = 1..(Len(s) + 1)
    BY <1>l
<1>6. PICK f \in [1..(Len(s) + 1) -> Seq(Int)] :
          \A i \in 1..(Len(s) + 1) : f[i] = ReadAt(s, f, i)
    BY <1>4, <1>5
<1> QED
    BY <1>6 DEF ReadFrom

\* Induction from the end of a sequence.
LEMMA Downwards ==
    ASSUME NEW n \in Nat, NEW S, n \in S,
           \A k \in 1..(n - 1) : (\A j \in (k + 1)..n : j \in S) => k \in S
    PROVE  \A k \in 1..n : k \in S
<1> DEFINE T == {b \in Nat : \A k \in 1..n : n - k <= b => k \in S}
<1>1. 0 \in T
    BY SMT
<1>2. ASSUME NEW b \in Nat, b \in T PROVE b + 1 \in T
    <2> SUFFICES ASSUME NEW k \in 1..n, n - k <= b + 1 PROVE k \in S
        OBVIOUS
    <2>1. CASE n - k <= b
        BY <1>2, <2>1
    <2>2. CASE n - k = b + 1
        <3>1. k \in 1..(n - 1)
            BY <2>2
        <3>2. \A j \in (k + 1)..n : j \in 1..n /\ n - j <= b
            BY <2>2
        <3>3. \A j \in (k + 1)..n : j \in S
            BY <1>2, <3>2
        <3> QED
            BY <3>1, <3>3
    <2> QED
        BY <2>1, <2>2
<1> HIDE DEF T
<1>3. \A b \in Nat : b \in T
    BY <1>1, <1>2, Counting
<1>4. \A k \in 1..n : n - k \in Nat
    OBVIOUS
<1> QED
    BY <1>3, <1>4 DEF T

\* A byte past the end reads as nothing.
LEMMA ReadEnd ==
    ASSUME NEW s \in Seq(Byte), NEW f, ReadFrom(s, f)
    PROVE  /\ f[Len(s) + 1] = <<>>
           /\ \A i \in 1..Len(s) : f[i] = ReadAt(s, f, i)
<1>1. Len(s) \in Nat
    OBVIOUS
<1>2. \A i \in 1..(Len(s) + 1) : f[i] = ReadAt(s, f, i)
    BY DEF ReadFrom
<1>3. ReadAt(s, f, Len(s) + 1) = <<>>
    BY <1>1 DEF ReadAt
<1>4. Len(s) + 1 \in 1..(Len(s) + 1) /\ \A i \in 1..Len(s) : i \in 1..(Len(s) + 1)
    BY <1>1
<1> QED
    BY <1>2, <1>3, <1>4

LEMMA ReadType ==
    ASSUME NEW s \in Seq(Byte), NEW f, ReadFrom(s, f)
    PROVE  f \in [1..(Len(s) + 1) -> Seq(Int)]
<1> DEFINE n == Len(s) + 1  S == {i \in 1..n : f[i] \in Seq(Int)}
<1>1. Len(s) \in Nat /\ n \in Nat /\ n \in 1..n
    OBVIOUS
<1>2. n \in S
    <2>1. f[Len(s) + 1] = <<>>
        BY ReadEnd
    <2>2. <<>> \in Seq(Int)
        OBVIOUS
    <2> QED
        BY <1>1, <2>1, <2>2, Zenon
<1>3. ASSUME NEW i \in 1..(n - 1), \A j \in (i + 1)..n : j \in S PROVE i \in S
    <2> DEFINE w == Width(s[i])
    <2>1. i \in 1..Len(s) /\ i \in 1..n
        BY <1>1
    <2>2. /\ w \in 0..4
          /\ w = 0 => f[i] = f[i + 1]
          /\ w # 0 /\ i + w <= Len(s) + 1 => f[i] = Units(CodePoint(s, i)) \o f[i + w]
          /\ w # 0 /\ i + w > Len(s) + 1 => f[i] = <<>>
        <3>1. f[i] = ReadAt(s, f, i)
            BY <2>1, ReadEnd
        <3>2. /\ w \in 0..4
              /\ w = 0 => ReadAt(s, f, i) = f[i + 1]
              /\ w # 0 /\ i + w <= Len(s) + 1
                    => ReadAt(s, f, i) = Units(CodePoint(s, i)) \o f[i + w]
              /\ w # 0 /\ i + w > Len(s) + 1 => ReadAt(s, f, i) = <<>>
            BY <2>1, ReadAtCases
        <3> HIDE DEF w
        <3> QED
            BY <3>1, <3>2
    <2>3. w # 0 /\ i + w <= Len(s) + 1 => Units(CodePoint(s, i)) \in Seq(Int)
        BY <2>1, CodePointType, UnitsType
    <2> HIDE DEF w
    <2>4. i + 1 \in (i + 1)..n /\ (w # 0 /\ i + w <= Len(s) + 1 => i + w \in (i + 1)..n)
        BY <1>1, <2>1, <2>2
    <2>5. \A j \in (i + 1)..n : f[j] \in Seq(Int)
        BY <1>3
    <2>6. <<>> \in Seq(Int) /\ \A a, b \in Seq(Int) : a \o b \in Seq(Int)
        OBVIOUS
    <2>7. i + w <= Len(s) + 1 \/ i + w > Len(s) + 1
        BY <2>1, <2>2
    <2>8. f[i] \in Seq(Int)
        BY <2>2, <2>3, <2>4, <2>5, <2>6, <2>7
    <2> QED
        BY <2>1, <2>8
<1> HIDE DEF S
<1>4. \A i \in 1..n : i \in S
    BY <1>1, <1>2, <1>3, Downwards
<1>5. \A i \in 1..n : f[i] \in Seq(Int)
    BY <1>4 DEF S
<1> QED
    BY <1>5 DEF ReadFrom

LEMMA ReadsIsRead ==
    ASSUME NEW s \in Seq(Byte)
    PROVE  \E f \in [1..(Len(s) + 1) -> Seq(Int)] : ReadFrom(s, f) /\ Utf16(s) = f[1]
<1>1. PICK g : ReadFrom(s, g)
    BY ReadFromExists
<1> DEFINE c == CHOOSE f : ReadFrom(s, f)
<1>2. ReadFrom(s, c)
    BY <1>1, Zenon
<1>3. Utf16(s) = c[1]
    BY Zenon DEF Utf16, ReadFrom, ReadAt
<1> HIDE DEF c
<1>4. c \in [1..(Len(s) + 1) -> Seq(Int)]
    BY <1>2, ReadType
<1> QED
    BY <1>2, <1>3, <1>4

\* The bytes of a character read the same wherever they stand.
LEMMA CodePointSame ==
    ASSUME NEW s, NEW b, NEW i \in Nat, NEW j \in Nat, Width(b[j]) \in 1..4,
           \A k \in 0..(Width(b[j]) - 1) : s[i + k] = b[j + k]
    PROVE  CodePoint(s, i) = CodePoint(b, j)
<1> DEFINE w == Width(b[j])
<1>1. /\ s[i] = b[j]
      /\ w >= 2 => s[i + 1] = b[j + 1]
      /\ w >= 3 => s[i + 2] = b[j + 2]
      /\ w >= 4 => s[i + 3] = b[j + 3]
    <2>1. 0 \in 0..(w - 1) /\ i + 0 = i /\ j + 0 = j
        OBVIOUS
    <2>2. /\ w >= 2 => 1 \in 0..(w - 1)
          /\ w >= 3 => 2 \in 0..(w - 1)
          /\ w >= 4 => 3 \in 0..(w - 1)
        OBVIOUS
    <2> QED
        BY <2>1, <2>2
<1>2. Width(s[i]) = w
    BY <1>1
<1>3. w \in {1, 2, 3, 4}
    OBVIOUS
<1>4. /\ w = 1 => CodePoint(s, i) = s[i] /\ CodePoint(b, j) = b[j]
      /\ w = 2 => /\ CodePoint(s, i) = (s[i] % 32) * 64 + Low6(s[i + 1])
                  /\ CodePoint(b, j) = (b[j] % 32) * 64 + Low6(b[j + 1])
      /\ w = 3 => /\ CodePoint(s, i) = ((s[i] % 16) * 64 + Low6(s[i + 1])) * 64
                                           + Low6(s[i + 2])
                  /\ CodePoint(b, j) = ((b[j] % 16) * 64 + Low6(b[j + 1])) * 64
                                           + Low6(b[j + 2])
      /\ w = 4 => /\ CodePoint(s, i) = (((s[i] % 8) * 64 + Low6(s[i + 1])) * 64
                                           + Low6(s[i + 2])) * 64 + Low6(s[i + 3])
                  /\ CodePoint(b, j) = (((b[j] % 8) * 64 + Low6(b[j + 1])) * 64
                                           + Low6(b[j + 2])) * 64 + Low6(b[j + 3])
    BY <1>2, <1>3 DEF CodePoint
<1> HIDE DEF w
<1>5. CASE w = 1
    BY <1>1, <1>4, <1>5
<1>6. CASE w = 2
    <2>1. s[i] = b[j] /\ s[i + 1] = b[j + 1]
        BY <1>1, <1>6
    <2> QED
        BY <1>4, <1>6, <2>1
<1>7. CASE w = 3
    <2>1. s[i] = b[j] /\ s[i + 1] = b[j + 1] /\ s[i + 2] = b[j + 2]
        BY <1>1, <1>7
    <2> QED
        BY <1>4, <1>7, <2>1
<1>8. CASE w = 4
    <2>1. /\ s[i] = b[j] /\ s[i + 1] = b[j + 1]
          /\ s[i + 2] = b[j + 2] /\ s[i + 3] = b[j + 3]
        BY <1>1, <1>8
    <2> QED
        BY <1>4, <1>8, <2>1
<1> QED
    BY <1>3, <1>5, <1>6, <1>7, <1>8

\* Where a text a ends and b follows, b reads as it does alone.
LEMMA ReadShift ==
    ASSUME NEW a \in Seq(Byte), NEW b \in Seq(Byte), NEW f, NEW g,
           ReadFrom(a \o b, f), ReadFrom(b, g)
    PROVE  f[Len(a) + 1] = g[1]
<1> DEFINE s == a \o b  n == Len(a)  m == Len(b) + 1
           S == {i \in 1..m : f[n + i] = g[i]}
<1>1. /\ s \in Seq(Byte) /\ n \in Nat /\ m \in Nat /\ m \in 1..m /\ 1 \in 1..m
      /\ Len(b) \in Nat /\ Len(s) = n + Len(b)
      /\ \A i \in 1..Len(b) : s[n + i] = b[i]
    OBVIOUS
<1> HIDE DEF s
<1>r. ReadFrom(s, f)
    BY DEF s
<1>2. m \in S
    <2>1. f[Len(s) + 1] = <<>> /\ g[Len(b) + 1] = <<>>
        BY <1>1, <1>r, ReadEnd
    <2>2. n + m = Len(s) + 1
        BY <1>1
    <2> QED
        BY <1>1, <2>1, <2>2
<1>3. ASSUME NEW i \in 1..(m - 1), \A j \in (i + 1)..m : j \in S PROVE i \in S
    <2> DEFINE w == Width(b[i])
    <2>1. i \in 1..Len(b) /\ i \in 1..m /\ n + i \in 1..Len(s) /\ s[n + i] = b[i]
        BY <1>1
    <2>2. /\ w \in 0..4
          /\ w = 0 => g[i] = g[i + 1] /\ f[n + i] = f[(n + i) + 1]
          /\ w # 0 /\ i + w <= Len(b) + 1 => g[i] = Units(CodePoint(b, i)) \o g[i + w]
          /\ w # 0 /\ (n + i) + w <= Len(s) + 1
                => f[n + i] = Units(CodePoint(s, n + i)) \o f[(n + i) + w]
          /\ w # 0 /\ i + w > Len(b) + 1 => g[i] = <<>>
          /\ w # 0 /\ (n + i) + w > Len(s) + 1 => f[n + i] = <<>>
        <3>1. /\ w \in 0..4
              /\ w = 0 => ReadAt(b, g, i) = g[i + 1]
              /\ w # 0 /\ i + w <= Len(b) + 1
                    => ReadAt(b, g, i) = Units(CodePoint(b, i)) \o g[i + w]
              /\ w # 0 /\ i + w > Len(b) + 1 => ReadAt(b, g, i) = <<>>
            BY <2>1, ReadAtCases
        <3>2. /\ w = 0 => ReadAt(s, f, n + i) = f[(n + i) + 1]
              /\ w # 0 /\ (n + i) + w <= Len(s) + 1
                    => ReadAt(s, f, n + i) = Units(CodePoint(s, n + i)) \o f[(n + i) + w]
              /\ w # 0 /\ (n + i) + w > Len(s) + 1 => ReadAt(s, f, n + i) = <<>>
            <4> DEFINE j == n + i  v == Width(s[j])
            <4>1. j \in 1..Len(s) /\ v = w
                BY <2>1
            <4> HIDE DEF j, v, w
            <4>2. v = Width(s[j])
                BY DEF v
            <4>3. /\ v \in 0..4
                  /\ v = 0 => ReadAt(s, f, j) = f[j + 1]
                  /\ v # 0 /\ j + v <= Len(s) + 1
                        => ReadAt(s, f, j) = Units(CodePoint(s, j)) \o f[j + v]
                  /\ v # 0 /\ j + v > Len(s) + 1 => ReadAt(s, f, j) = <<>>
                <5>1. s \in Seq(Byte)
                    BY <1>1
                <5> QED
                    BY <4>1, <4>2, <5>1, ReadAtCases
            <4> QED
                BY <4>1, <4>3, Zenon DEF j
        <3>3. g[i] = ReadAt(b, g, i) /\ f[n + i] = ReadAt(s, f, n + i)
            BY <1>1, <1>r, <2>1, ReadEnd
        <3> QED
            BY <3>1, <3>2, <3>3
    <2>3. w # 0 /\ i + w <= Len(b) + 1 => CodePoint(s, n + i) = CodePoint(b, i)
        <3> SUFFICES ASSUME w # 0, i + w <= Len(b) + 1
                     PROVE  CodePoint(s, n + i) = CodePoint(b, i)
            OBVIOUS
        <3>1. \A k \in 0..(w - 1) : s[(n + i) + k] = b[i + k]
            <4> SUFFICES ASSUME NEW k \in 0..(w - 1) PROVE s[(n + i) + k] = b[i + k]
                OBVIOUS
            <4>1. n \in Nat /\ Len(b) \in Nat /\ i \in 1..Len(b) /\ w \in 0..4
                BY <1>1, <2>1, <2>2
            <4> HIDE DEF n, w
            <4>2. i + k \in 1..Len(b) /\ (n + i) + k = n + (i + k)
                BY <4>1
            <4> QED
                BY <1>1, <4>2
        <3>2. w \in 1..4 /\ n + i \in Nat /\ i \in Nat
            <4>1. n \in Nat /\ i \in 1..Len(b) /\ w \in 0..4
                BY <1>1, <2>1, <2>2
            <4> HIDE DEF n, w
            <4> QED
                BY <4>1
        <3> QED
            BY <3>1, <3>2, CodePointSame
    <2> HIDE DEF w
    <2>4. \A j \in (i + 1)..m : f[n + j] = g[j]
        BY <1>3
    <2> HIDE DEF n, m
    <2>5. /\ (n + i) + 1 = n + (i + 1) /\ (n + i) + w = n + (i + w)
          /\ i + 1 \in (i + 1)..m
          /\ i + w <= Len(b) + 1 <=> (n + i) + w <= Len(s) + 1
          /\ i + w > Len(b) + 1 <=> (n + i) + w > Len(s) + 1
          /\ w # 0 /\ i + w <= Len(b) + 1 => i + w \in (i + 1)..m
          /\ i + w <= Len(b) + 1 \/ i + w > Len(b) + 1
        BY <1>1, <2>1, <2>2 DEF m
    <2>6. CASE w = 0
        BY <2>2, <2>4, <2>5, <2>6, <2>1
    <2>7. CASE w # 0 /\ i + w <= Len(b) + 1
        <3>1. f[n + (i + w)] = g[i + w]
            BY <2>4, <2>5, <2>7
        <3> QED
            BY <2>2, <2>3, <2>5, <2>7, <2>1, <3>1
    <2>8. CASE w # 0 /\ i + w > Len(b) + 1
        BY <2>2, <2>5, <2>8, <2>1
    <2> QED
        BY <2>5, <2>6, <2>7, <2>8
<1> HIDE DEF S
<1>4. \A i \in 1..m : i \in S
    BY <1>1, <1>2, <1>3, Downwards
<1> QED
    BY <1>1, <1>4 DEF S

\* utf8_to_utf16 piece by piece: a text and what follows it can be read apart.
LEMMA Utf16Concat ==
    ASSUME NEW a \in Seq(Byte), WellFormed(a), NEW b \in Seq(Byte)
    PROVE  Utf16(a \o b) = Utf16(a) \o Utf16(b)
<1> DEFINE s == a \o b  n == Len(a)
<1>1. /\ s \in Seq(Byte) /\ n \in Nat /\ n + 1 \in Nat /\ n + 1 \in 1..(n + 1)
      /\ Len(b) \in Nat /\ Len(s) = n + Len(b) /\ \A i \in 1..n : s[i] = a[i]
    OBVIOUS
<1>2. PICK f \in [1..(Len(s) + 1) -> Seq(Int)] : ReadFrom(s, f) /\ Utf16(s) = f[1]
    BY <1>1, ReadsIsRead
<1>3. PICK g \in [1..(n + 1) -> Seq(Int)] : ReadFrom(a, g) /\ Utf16(a) = g[1]
    BY ReadsIsRead
<1>4. PICK e \in [1..(Len(b) + 1) -> Seq(Int)] : ReadFrom(b, e) /\ Utf16(b) = e[1]
    BY ReadsIsRead
<1> DEFINE t == e[1]
           AtStart(i) == i <= n => ~Continues(a[i])
           S == {i \in 1..(n + 1) : AtStart(i) => f[i] = g[i] \o t}
<1>5. f[n + 1] = t
    BY <1>2, <1>4, ReadShift
<1>6. t \in Seq(Int)
    <2>1. 1 \in 1..(Len(b) + 1)
        BY <1>1
    <2> QED
        BY <1>4, <2>1
<1> HIDE DEF t, s
<1>7. n + 1 \in S
    <2>1. g[n + 1] = <<>>
        BY <1>3, ReadEnd
    <2>2. <<>> \o t = t
        BY <1>6
    <2> QED
        BY <1>1, <1>5, <2>1, <2>2
<1>8. ASSUME NEW i \in 1..((n + 1) - 1), \A j \in (i + 1)..(n + 1) : j \in S
      PROVE  i \in S
    <2>1. i \in 1..n /\ i \in 1..(n + 1) /\ i \in 1..Len(s) /\ s[i] = a[i] /\ a[i] \in Byte
        BY <1>1
    <2> SUFFICES ASSUME ~Continues(a[i]) PROVE f[i] = g[i] \o t
        BY <2>1
    <2> DEFINE w == Width(a[i])
    <2>2. /\ w > 0 /\ i + w <= n + 1
          /\ i + w <= n => ~Continues(a[i + w])
        BY <2>1 DEF WellFormed, HasItsBytes
    <2>3. w \in 0..4
        BY <2>1, WidthType
    <2>4. /\ w # 0 /\ i + w <= n + 1
                => ReadAt(a, g, i) = Units(CodePoint(a, i)) \o g[i + w]
          /\ w # 0 /\ i + w <= Len(s) + 1
                => ReadAt(s, f, i) = Units(CodePoint(s, i)) \o f[i + w]
        <3>1. /\ w \in 0..4
              /\ w = 0 => ReadAt(a, g, i) = g[i + 1]
              /\ w # 0 /\ i + w <= Len(a) + 1
                    => ReadAt(a, g, i) = Units(CodePoint(a, i)) \o g[i + w]
              /\ w # 0 /\ i + w > Len(a) + 1 => ReadAt(a, g, i) = <<>>
            BY <2>1, ReadAtCases
        <3>2. /\ w \in 0..4
              /\ w = 0 => ReadAt(s, f, i) = f[i + 1]
              /\ w # 0 /\ i + w <= Len(s) + 1
                    => ReadAt(s, f, i) = Units(CodePoint(s, i)) \o f[i + w]
              /\ w # 0 /\ i + w > Len(s) + 1 => ReadAt(s, f, i) = <<>>
            <4>1. w = Width(s[i]) /\ s \in Seq(Byte) /\ i \in 1..Len(s)
                BY <1>1, <2>1
            <4> HIDE DEF w
            <4> QED
                BY <4>1, ReadAtCases
        <3> QED
            BY <3>1, <3>2
    <2>5. g[i] = ReadAt(a, g, i) /\ f[i] = ReadAt(s, f, i)
        BY <1>1, <1>2, <1>3, <2>1, ReadEnd
    <2>6. CodePoint(s, i) = CodePoint(a, i)
        <3>1. \A k \in 0..(w - 1) : s[i + k] = a[i + k]
            <4> SUFFICES ASSUME NEW k \in 0..(w - 1) PROVE s[i + k] = a[i + k]
                OBVIOUS
            <4>1. n \in Nat /\ i \in 1..n /\ w \in 0..4 /\ i + w <= n + 1
                BY <1>1, <2>1, <2>2, <2>3
            <4> HIDE DEF n, w
            <4>2. i + k \in 1..n
                BY <4>1
            <4> QED
                BY <1>1, <4>2
        <3>2. w \in 1..4 /\ i \in Nat
            <4>1. n \in Nat /\ i \in 1..n /\ w \in 0..4 /\ w > 0
                BY <1>1, <2>1, <2>2, <2>3
            <4> HIDE DEF n, w
            <4> QED
                BY <4>1
        <3> QED
            BY <3>1, <3>2, CodePointSame
    <2> DEFINE u == Units(CodePoint(a, i))  j == i + w
    <2>7. u \in Seq(Int)
        <3>1. CodePoint(a, i) \in Nat
            <4>1. i \in 1..Len(a) /\ Width(a[i]) # 0 /\ i + Width(a[i]) <= Len(a) + 1
                BY <2>1, <2>2
            <4> QED
                BY <4>1, CodePointType, Zenon
        <3> QED
            BY <3>1, UnitsType
    <2>8. j \in (i + 1)..(n + 1) /\ j \in 1..(n + 1) /\ j <= Len(s) + 1 /\ w # 0
        <3>1. /\ n \in Nat /\ i \in 1..n /\ w \in 0..4 /\ w > 0 /\ i + w <= n + 1
              /\ Len(b) \in Nat /\ Len(s) = n + Len(b)
            BY <1>1, <2>1, <2>2, <2>3
        <3> HIDE DEF n, w
        <3> QED
            BY <3>1
    <2>9. g[i] = u \o g[j] /\ f[i] = u \o f[j]
        BY <2>2, <2>4, <2>5, <2>6, <2>8
    <2>10. f[j] = g[j] \o t
        BY <1>8, <2>2, <2>8
    <2>11. g[j] \in Seq(Int)
        BY <1>3, <2>8
    <2> HIDE DEF u, j
    <2>12. u \o (g[j] \o t) = (u \o g[j]) \o t
        <3> DEFINE x == g[j]
        <3>1. x \in Seq(Int)
            BY <2>11
        <3> HIDE DEF x
        <3>2. Then(Then(u, x), t) = Then(u, Then(x, t))
            BY <1>6, <2>7, <3>1, IntsRegroup, SMT
        <3> QED
            BY <3>2, Zenon DEF x, Then
    <2> QED
        BY <2>9, <2>10, <2>12
<1> HIDE DEF S
<1>9. \A i \in 1..(n + 1) : i \in S
    BY <1>1, <1>7, <1>8, Downwards
<1>10. AtStart(1)
    <2>1. 1 <= n => a # <<>>
        OBVIOUS
    <2> QED
        BY <2>1 DEF WellFormed
<1>11. 1 \in S
    BY <1>1, <1>9
<1>12. f[1] = g[1] \o t
    BY <1>10, <1>11 DEF S
<1> QED
    BY <1>2, <1>3, <1>4, <1>12 DEF s, t

\* One character: a byte that starts one and the bytes it announces.
OneCharacter(s) ==
    /\ s \in Seq(Byte) /\ Len(s) \in 1..4
    /\ Width(s[1]) = Len(s)
    /\ \A k \in 2..Len(s) : Continues(s[k])

LEMMA StartsNot == \A b \in Byte : Width(b) # 0 => ~Continues(b)
BY DEF Byte, Width, Continues

LEMMA OneRead ==
    ASSUME NEW s, OneCharacter(s)
    PROVE  Utf16(s) = Units(CodePoint(s, 1))
<1>1. /\ s \in Seq(Byte) /\ Len(s) \in 1..4 /\ 1 \in 1..Len(s)
      /\ Width(s[1]) # 0 /\ 1 + Width(s[1]) = Len(s) + 1
      /\ 1 + Width(s[1]) <= Len(s) + 1
    BY DEF OneCharacter
<1>2. PICK f \in [1..(Len(s) + 1) -> Seq(Int)] : ReadFrom(s, f) /\ Utf16(s) = f[1]
    BY <1>1, ReadsIsRead
<1> DEFINE w == Width(s[1])
<1>3. /\ w \in 0..4
      /\ w = 0 => ReadAt(s, f, 1) = f[1 + 1]
      /\ w # 0 /\ 1 + w <= Len(s) + 1
            => ReadAt(s, f, 1) = Units(CodePoint(s, 1)) \o f[1 + w]
      /\ w # 0 /\ 1 + w > Len(s) + 1 => ReadAt(s, f, 1) = <<>>
    BY <1>1, ReadAtCases
<1>4. f[1] = ReadAt(s, f, 1)
    BY <1>1, <1>2, ReadEnd
<1>5. f[Len(s) + 1] = <<>>
    BY <1>1, <1>2, ReadEnd
<1>6. CodePoint(s, 1) \in Nat
    BY <1>1, CodePointType, Zenon
<1>7. Units(CodePoint(s, 1)) \in Seq(Int)
    BY <1>6, UnitsType
<1> DEFINE u == Units(CodePoint(s, 1))
<1> HIDE DEF u
<1>8. u \o <<>> = u
    BY <1>7 DEF u
<1> QED
    BY <1>1, <1>2, <1>3, <1>4, <1>5, <1>8 DEF u

-----------------------------------------------------------------------------
\* The bytes of every scalar value are one character, and read as that value.
LEMMA Quotient ==
    ASSUME NEW c \in Nat
    PROVE  c \div 64 \in Nat /\ c % 64 \in 0..63 /\ c = 64 * (c \div 64) + (c % 64)
BY SMT
LEMMA TailByte ==
    ASSUME NEW y \in 0..63
    PROVE  Low6(128 + y) = y /\ Continues(128 + y) /\ 128 + y \in Byte
BY DEF Low6, Continues, Byte
LEMMA LeadOfTwo ==
    ASSUME NEW y \in 0..31
    PROVE  (192 + y) % 32 = y /\ 192 + y \in Byte /\ Width(192 + y) = 2
BY DEF Byte, Width
LEMMA LeadOfThree ==
    ASSUME NEW y \in 0..15
    PROVE  (224 + y) % 16 = y /\ 224 + y \in Byte /\ Width(224 + y) = 3
BY DEF Byte, Width
LEMMA LeadOfFour ==
    ASSUME NEW y \in 0..7
    PROVE  (240 + y) % 8 = y /\ 240 + y \in Byte /\ Width(240 + y) = 4
BY DEF Byte, Width

\* The bytes that carry the bits x, y, z, v.
Two(x, y)         == <<192 + x, 128 + y>>
Three(x, y, z)    == <<224 + x, 128 + y, 128 + z>>
Four(x, y, z, v)  == <<240 + x, 128 + y, 128 + z, 128 + v>>

LEMMA EncodedOne ==
    ASSUME NEW c,
           c \in 0..127
    PROVE  OneCharacter(<<c>>) /\ CodePoint(<<c>>, 1) = c
<1>1. c \in Byte /\ Width(c) = 1 /\ <<c>> \in Seq(Byte)
    BY DEF Byte, Width
<1> QED
    BY <1>1 DEF OneCharacter, CodePoint

LEMMA EncodedTwo ==
    ASSUME NEW x, NEW y,
           x \in 0..31 /\ y \in 0..63
    PROVE  /\ OneCharacter(Two(x, y))
           /\ CodePoint(Two(x, y), 1) = x * 64 + y
<1> DEFINE a == 192 + x  b == 128 + y  s == <<a, b>>
<1>1. /\ a \in Byte /\ b \in Byte /\ Width(a) = 2 /\ Continues(b)
      /\ a % 32 = x /\ Low6(b) = y
    BY TailByte, LeadOfTwo
<1> HIDE DEF a, b
<1>2. s \in Seq(Byte) /\ Len(s) = 2 /\ s[1] = a /\ s[1 + 1] = b /\ s[2] = b
    BY <1>1
<1> HIDE DEF s
<1>3. OneCharacter(s)
    BY <1>1, <1>2 DEF OneCharacter
<1>4. CodePoint(s, 1) = (s[1] % 32) * 64 + Low6(s[1 + 1])
    BY <1>1, <1>2 DEF CodePoint
<1> QED
    BY <1>1, <1>2, <1>3, <1>4 DEF Two, s, a, b

LEMMA EncodedThree ==
    ASSUME NEW x, NEW y, NEW z,
           x \in 0..15 /\ y \in 0..63 /\ z \in 0..63
    PROVE  /\ OneCharacter(Three(x, y, z))
           /\ CodePoint(Three(x, y, z), 1) = (x * 64 + y) * 64 + z
<1> DEFINE a == 224 + x  b == 128 + y  c == 128 + z  s == <<a, b, c>>
<1>1. /\ a \in Byte /\ b \in Byte /\ c \in Byte /\ Width(a) = 3
      /\ Continues(b) /\ Continues(c)
      /\ a % 16 = x /\ Low6(b) = y /\ Low6(c) = z
    BY TailByte, LeadOfThree
<1> HIDE DEF a, b, c
<1>2. /\ s \in Seq(Byte) /\ Len(s) = 3 /\ s[1] = a /\ s[1 + 1] = b /\ s[1 + 2] = c
      /\ s[2] = b /\ s[3] = c
    BY <1>1
<1> HIDE DEF s
<1>3. OneCharacter(s)
    <2>1. \A k \in 2..3 : k = 2 \/ k = 3
        OBVIOUS
    <2> QED
        BY <1>1, <1>2, <2>1 DEF OneCharacter
<1>4. CodePoint(s, 1) = ((s[1] % 16) * 64 + Low6(s[1 + 1])) * 64 + Low6(s[1 + 2])
    BY <1>1, <1>2 DEF CodePoint
<1> QED
    BY <1>1, <1>2, <1>3, <1>4 DEF Three, s, a, b, c

LEMMA EncodedFour ==
    ASSUME NEW x, NEW y, NEW z, NEW v,
           x \in 0..7 /\ y \in 0..63 /\ z \in 0..63 /\ v \in 0..63
    PROVE  /\ OneCharacter(Four(x, y, z, v))
           /\ CodePoint(Four(x, y, z, v), 1)
                = ((x * 64 + y) * 64 + z) * 64 + v
<1> DEFINE a == 240 + x  b == 128 + y  c == 128 + z  d == 128 + v  s == <<a, b, c, d>>
<1>1. /\ a \in Byte /\ b \in Byte /\ c \in Byte /\ d \in Byte /\ Width(a) = 4
      /\ Continues(b) /\ Continues(c) /\ Continues(d)
      /\ a % 8 = x /\ Low6(b) = y /\ Low6(c) = z /\ Low6(d) = v
    BY TailByte, LeadOfFour
<1> HIDE DEF a, b, c, d
<1>2. /\ s \in Seq(Byte) /\ Len(s) = 4
      /\ s[1] = a /\ s[1 + 1] = b /\ s[1 + 2] = c /\ s[1 + 3] = d
      /\ s[2] = b /\ s[3] = c /\ s[4] = d
    BY <1>1
<1> HIDE DEF s
<1>3. OneCharacter(s)
    <2>1. \A k \in 2..4 : k = 2 \/ k = 3 \/ k = 4
        OBVIOUS
    <2> QED
        BY <1>1, <1>2, <2>1 DEF OneCharacter
<1>4. CodePoint(s, 1) = (((s[1] % 8) * 64 + Low6(s[1 + 1])) * 64
                            + Low6(s[1 + 2])) * 64 + Low6(s[1 + 3])
    BY <1>1, <1>2 DEF CodePoint
<1> QED
    BY <1>1, <1>2, <1>3, <1>4 DEF Four, s, a, b, c, d

\* The ranges of Utf8Of, with the code point as the number its bytes carry.
LEMMA Encoded ==
    ASSUME NEW c, IsScalar(c)
    PROVE  OneCharacter(Utf8Of(c)) /\ CodePoint(Utf8Of(c), 1) = c
<1>1. c \in Nat /\ c < 1114112
    BY SMT DEF IsScalar
<1> DEFINE r == c % 64  d == c \div 64  q == d % 64  e == d \div 64  p == e % 64  o == e \div 64
<1>2. r \in 0..63 /\ d \in Nat /\ c = 64 * d + r
    BY <1>1, Quotient
<1>3. LastSix(c) = 128 + r /\ Rest(c) = d
    BY DEF LastSix, Rest
<1> HIDE DEF r, d
<1>4. q \in 0..63 /\ e \in Nat /\ d = 64 * e + q
    BY <1>2, Quotient
<1>5. LastSix(d) = 128 + q /\ Rest(d) = e
    BY DEF LastSix, Rest
<1> HIDE DEF q, e
<1>6. p \in 0..63 /\ o \in Nat /\ e = 64 * o + p
    BY <1>4, Quotient
<1>7. LastSix(e) = 128 + p /\ Rest(e) = o
    BY DEF LastSix, Rest
<1> HIDE DEF p, o
<1>8. CASE c < 128
    <2>1. c \in 0..127
        BY <1>1, <1>8
    <2>2. Utf8Of(c) = <<c>>
        BY <2>1 DEF Utf8Of
    <2>3. OneCharacter(<<c>>) /\ CodePoint(<<c>>, 1) = c
        BY <2>1, EncodedOne
    <2> QED
        BY <2>2, <2>3
<1>9. CASE 128 <= c /\ c < 2048
    <2>1. d \in 0..31
        BY <1>1, <1>2, <1>9, SMT
    <2>2. Utf8Of(c) = Two(d, r)
        BY <1>1, <1>3, <1>9, SMT DEF Utf8Of, Two
    <2>3. d * 64 + r = c
        BY <1>1, <1>2, SMT
    <2>4. /\ OneCharacter(Two(d, r))
          /\ CodePoint(Two(d, r), 1) = d * 64 + r
        BY <1>2, <2>1, EncodedTwo
    <2> QED
        BY <2>2, <2>3, <2>4
<1>10. CASE 2048 <= c /\ c < 65536
    <2>1. e \in 0..15
        BY <1>1, <1>2, <1>4, <1>10, SMT
    <2>2. Utf8Of(c) = Three(e, q, r)
        BY <1>1, <1>3, <1>5, <1>10, SMT DEF Utf8Of, Three
    <2>3. (e * 64 + q) * 64 + r = c
        BY <1>1, <1>2, <1>4, SMT
    <2>4. /\ OneCharacter(Three(e, q, r))
          /\ CodePoint(Three(e, q, r), 1) = (e * 64 + q) * 64 + r
        BY <1>2, <1>4, <2>1, EncodedThree
    <2> QED
        BY <2>2, <2>3, <2>4
<1>11. CASE 65536 <= c
    <2>1. o \in 0..7
        BY <1>1, <1>2, <1>4, <1>6, SMT
    <2>2. Utf8Of(c) = Four(o, p, q, r)
        BY <1>1, <1>3, <1>5, <1>7, <1>11, SMT DEF Utf8Of, Four
    <2>3. ((o * 64 + p) * 64 + q) * 64 + r = c
        BY <1>1, <1>2, <1>4, <1>6, SMT
    <2>4. o \in 0..7 /\ p \in 0..63 /\ q \in 0..63 /\ r \in 0..63
        BY <1>2, <1>4, <1>6, <2>1
    <2>5. /\ OneCharacter(Four(o, p, q, r))
          /\ CodePoint(Four(o, p, q, r), 1) = ((o * 64 + p) * 64 + q) * 64 + r
        BY <2>4, EncodedFour, SMT
    <2> QED
        BY <2>2, <2>3, <2>5
<1> QED
    BY <1>1, <1>8, <1>9, <1>10, <1>11, SMT

\* utf8_to_utf16 makes its UTF-16 units of them.
LEMMA EncodedRead ==
    ASSUME NEW c, IsScalar(c)
    PROVE  Utf16(Utf8Of(c)) = Utf16Of(c)
<1>1. OneCharacter(Utf8Of(c)) /\ CodePoint(Utf8Of(c), 1) = c
    BY Encoded
<1>2. Utf16(Utf8Of(c)) = Units(c)
    BY <1>1, OneRead
<1>3. c \in Nat
    BY SMT DEF IsScalar
<1>4. Units(c) = Utf16Of(c)
    BY <1>3, SMT DEF Units, SurrogatePair, Utf16Of
<1> QED
    BY <1>2, <1>4

\* Joined, one sequence at a time.
JoinAt(u, f, k) == IF k = 0 THEN <<>> ELSE f[k - 1] \o u[k]
JoinedBy(u, f) == f = [k \in 0..Len(u) |-> JoinAt(u, f, k)]

LEMMA JoinedByExists ==
    ASSUME NEW X, NEW u \in Seq(Seq(X))
    PROVE  \E f \in [0..Len(u) -> Seq(X)] : JoinedBy(u, f)
<1> DEFINE Built(n) == \E g \in [0..n -> Seq(X)] : \A k \in 0..n : g[k] = JoinAt(u, g, k)
           S == {n \in Nat : n <= Len(u) => Built(n)}
<1>1. Len(u) \in Nat /\ \A k \in 1..Len(u) : u[k] \in Seq(X)
    OBVIOUS
<1>2. 0 \in S
    <2> DEFINE g == [k \in 0..0 |-> <<>>]
    <2>1. g \in [0..0 -> Seq(X)]
        OBVIOUS
    <2>2. \A k \in 0..0 : k = 0 /\ g[k] = <<>>
        OBVIOUS
    <2> HIDE DEF g
    <2>3. \A k \in 0..0 : g[k] = JoinAt(u, g, k)
        BY <2>2 DEF JoinAt
    <2> QED
        BY <2>1, <2>3
<1> HIDE DEF Built
<1>3. ASSUME NEW n \in Nat, n \in S PROVE n + 1 \in S
    <2> SUFFICES ASSUME n + 1 <= Len(u) PROVE Built(n + 1)
        OBVIOUS
    <2>0. Built(n)
        BY <1>1, <1>3
    <2>1. PICK g \in [0..n -> Seq(X)] : \A k \in 0..n : g[k] = JoinAt(u, g, k)
        BY <2>0 DEF Built
    <2> DEFINE m == n + 1
               h == [k \in 0..m |-> IF k = m THEN JoinAt(u, g, m) ELSE g[k]]
    <2>2. /\ m \in 1..Len(u) /\ m - 1 \in 0..n /\ m # 0 /\ m \in 0..m
          /\ \A k \in 0..m : k = m \/ k \in 0..n
          /\ \A k \in 0..n : k \in 0..m /\ k # m
          /\ \A k \in 0..m : k # 0 => k - 1 \in 0..n
        BY <1>1
    <2>3. JoinAt(u, g, m) \in Seq(X)
        <3>1. g[m - 1] \in Seq(X) /\ u[m] \in Seq(X)
            BY <1>1, <2>1, <2>2
        <3>2. JoinAt(u, g, m) = g[m - 1] \o u[m]
            BY <2>2 DEF JoinAt
        <3> HIDE DEF m
        <3> QED
            BY <3>1, <3>2
    <2> HIDE DEF m
    <2>4. /\ h \in [0..m -> Seq(X)]
          /\ h[m] = JoinAt(u, g, m) /\ \A k \in 0..n : h[k] = g[k]
        BY <2>1, <2>2, <2>3
    <2> HIDE DEF h
    <2>5. \A k \in 0..m : JoinAt(u, h, k) = JoinAt(u, g, k)
        BY <2>2, <2>4 DEF JoinAt
    <2>6. \A k \in 0..m : h[k] = JoinAt(u, h, k)
        BY <2>1, <2>2, <2>4, <2>5
    <2> QED
        BY <2>4, <2>6 DEF m, Built
<1> HIDE DEF S
<1>4. \A n \in Nat : n \in S
    BY <1>2, <1>3, Counting
<1>5. Built(Len(u))
    BY <1>1, <1>4 DEF S
<1> QED
    BY <1>5 DEF JoinedBy, Built

LEMMA JoinedSteps ==
    ASSUME NEW X, NEW u \in Seq(Seq(X))
    PROVE  /\ Joined(u)[0] = <<>>
           /\ \A k \in 1..Len(u) : Joined(u)[k] = Joined(u)[k - 1] \o u[k]
           /\ \A k \in 0..Len(u) : Joined(u)[k] \in Seq(X)
<1> DEFINE f == Joined(u)
<1>1. JoinedBy(u, f)
    <2>1. PICK g : JoinedBy(u, g)
        BY JoinedByExists
    <2> DEFINE c == CHOOSE e : JoinedBy(u, e)
    <2>2. JoinedBy(u, c)
        BY <2>1, Zenon
    <2>3. f = c
        BY Zenon DEF Joined, JoinedBy, JoinAt
    <2> QED
        BY <2>2, <2>3
<1> HIDE DEF f
<1>2. Len(u) \in Nat /\ \A k \in 1..Len(u) : u[k] \in Seq(X)
    OBVIOUS
<1>3. \A k \in 0..Len(u) : f[k] = JoinAt(u, f, k)
    BY <1>1 DEF JoinedBy
<1>4. f[0] = <<>>
    BY <1>2, <1>3 DEF JoinAt
<1>5. \A k \in 1..Len(u) : f[k] = f[k - 1] \o u[k]
    <2> SUFFICES ASSUME NEW k \in 1..Len(u) PROVE f[k] = f[k - 1] \o u[k]
        OBVIOUS
    <2>1. k \in 0..Len(u) /\ k # 0
        BY <1>2
    <2>2. f[k] = JoinAt(u, f, k)
        BY <1>3, <2>1
    <2> QED
        BY <2>1, <2>2 DEF JoinAt
<1>6. \A k \in 0..Len(u) : f[k] \in Seq(X)
    <2> DEFINE S == {k \in Nat : k <= Len(u) => f[k] \in Seq(X)}
    <2>1. 0 \in S
        <3>1. <<>> \in Seq(X)
            OBVIOUS
        <3> QED
            BY <1>4, <3>1
    <2>2. ASSUME NEW k \in Nat, k \in S PROVE k + 1 \in S
        <3> SUFFICES ASSUME k + 1 <= Len(u) PROVE f[k + 1] \in Seq(X)
            OBVIOUS
        <3>1. k + 1 \in 1..Len(u) /\ (k + 1) - 1 = k
            BY <1>2
        <3>2. f[k] \in Seq(X)
            BY <1>2, <2>2
        <3>3. f[k + 1] = f[(k + 1) - 1] \o u[k + 1]
            BY <1>5, <3>1
        <3>4. u[k + 1] \in Seq(X)
            BY <1>2, <3>1
        <3>5. f[k + 1] = f[k] \o u[k + 1]
            BY <3>1, <3>3
        <3> QED
            BY <3>2, <3>4, <3>5
    <2> HIDE DEF S
    <2>3. \A k \in Nat : k \in S
        BY <2>1, <2>2, Counting
    <2> QED
        BY <1>2, <2>3 DEF S
<1> QED
    BY <1>4, <1>5, <1>6 DEF f

-----------------------------------------------------------------------------
\* A text and one character more is a text.
LEMMA OneMore ==
    ASSUME NEW a \in Seq(Byte), WellFormed(a), NEW b, OneCharacter(b)
    PROVE  WellFormed(a \o b)
<1> DEFINE s == a \o b  n == Len(a)
<1>1. /\ s \in Seq(Byte) /\ n \in Nat /\ Len(b) \in 1..4 /\ Len(s) = n + Len(b)
      /\ \A i \in 1..n : s[i] = a[i]
      /\ \A i \in 1..Len(b) : s[n + i] = b[i]
      /\ b \in Seq(Byte)
    BY DEF OneCharacter
<1> HIDE DEF s
<1>2. b[1] \in Byte /\ Width(b[1]) = Len(b) /\ \A k \in 2..Len(b) : Continues(b[k])
    BY <1>1 DEF OneCharacter
<1>3. ~Continues(b[1])
    BY <1>1, <1>2, StartsNot
<1>4. s[n + 1] = b[1]
    BY <1>1
<1>5. \A k \in (n + 2)..Len(s) : Continues(s[k])
    <2> SUFFICES ASSUME NEW k \in (n + 2)..Len(s) PROVE Continues(s[k])
        OBVIOUS
    <2>1. k - n \in 2..Len(b) /\ k - n \in 1..Len(b) /\ n + (k - n) = k
        BY <1>1
    <2> QED
        BY <1>1, <1>2, <2>1
<1>6. s # <<>> => ~Continues(s[1])
    <2>1. CASE n = 0
        BY <1>3, <1>4, <2>1
    <2>2. CASE n > 0
        <3>1. a # <<>> /\ 1 \in 1..n
            BY <1>1, <2>2
        <3> QED
            BY <1>1, <3>1 DEF WellFormed
    <2> QED
        BY <1>1, <2>1, <2>2
<1>7. ASSUME NEW i \in 1..Len(s), ~Continues(s[i]) PROVE HasItsBytes(s, i)
    <2>1. CASE i \in 1..n
        <3> DEFINE w == Width(a[i])
        <3>1. s[i] = a[i] /\ a[i] \in Byte /\ w \in 0..4
            BY <1>1, <2>1, WidthType
        <3>2. /\ w > 0 /\ i + w <= n + 1
              /\ \A k \in (i + 1)..(i + w - 1) : Continues(a[k])
              /\ i + w <= n => ~Continues(a[i + w])
            BY <1>7, <2>1, <3>1 DEF WellFormed, HasItsBytes
        <3>3. \A k \in (i + 1)..(i + w - 1) : Continues(s[k])
            <4>1. \A k \in (i + 1)..(i + w - 1) : k \in 1..n
                BY <1>1, <2>1, <3>1, <3>2, SMTT(20)
            <4> QED
                BY <1>1, <3>2, <4>1
        <3>4. ~Continues(s[i + w])
            <4>1. CASE i + w <= n
                <5>1. i + w \in 1..n
                    BY <1>1, <2>1, <3>1, <4>1
                <5> QED
                    BY <1>1, <3>2, <4>1, <5>1
            <4>2. CASE i + w = n + 1
                BY <1>3, <1>4, <4>2
            <4> QED
                BY <1>1, <2>1, <3>1, <3>2, <4>1, <4>2
        <3>5. w = Width(s[i]) /\ i + w <= Len(s) + 1
            BY <1>1, <2>1, <3>1, <3>2
        <3> HIDE DEF w
        <3>6. /\ Width(s[i]) > 0 /\ i + Width(s[i]) <= Len(s) + 1
              /\ ~Continues(s[i + Width(s[i])])
              /\ \A k \in (i + 1)..(i + Width(s[i]) - 1) : Continues(s[k])
            BY <3>2, <3>3, <3>4, <3>5, Zenon
        <3>7. i \in Nat /\ w \in Nat /\ Len(s) \in Nat
            BY <1>1, <3>1
        <3> QED
            BY <3>5, <3>6, <3>7 DEF HasItsBytes
    <2>2. CASE i = n + 1
        <3>1. Width(s[i]) = Len(b) /\ i + Len(b) = Len(s) + 1
            BY <1>1, <1>2, <1>4, <2>2
        <3>2. \A k \in (i + 1)..(i + Len(b) - 1) : Continues(s[k])
            BY <1>1, <1>5, <2>2
        <3> QED
            BY <1>1, <2>2, <3>1, <3>2 DEF HasItsBytes
    <2>3. i \in 1..n \/ i = n + 1 \/ i \in (n + 2)..Len(s)
        BY <1>1
    <2> QED
        BY <1>5, <1>7, <2>1, <2>2, <2>3
<1> QED
    BY <1>6, <1>7 DEF WellFormed, s
-----------------------------------------------------------------------------
\* The bytes and the units of the texts, one character at a time.
LEMMA TextSteps ==
    ASSUME NEW t \in Texts
    PROVE  /\ Len(t) \in Nat /\ \A k \in 1..Len(t) : IsScalar(t[k])
           /\ InUtf8(t)[0] = <<>> /\ InUtf16(t)[0] = <<>>
           /\ \A k \in 1..Len(t) : InUtf8(t)[k] = InUtf8(t)[k - 1] \o Utf8Of(t[k])
           /\ \A k \in 1..Len(t) : InUtf16(t)[k] = InUtf16(t)[k - 1] \o Utf16Of(t[k])
           /\ \A k \in 0..Len(t) : InUtf8(t)[k] \in Seq(Byte)
<1> DEFINE n == Len(t)
           u == [k \in 1..n |-> Utf8Of(t[k])]
           v == [k \in 1..n |-> Utf16Of(t[k])]
<1>0. n \in Nat /\ \A k \in 1..n : t[k] \in Nat
    BY TextsAssumption
<1>1. n \in Nat /\ \A k \in 1..n : IsScalar(t[k])
    BY TextsAssumption
<1>2. \A k \in 1..n : Utf8Of(t[k]) \in Seq(Byte)
    BY <1>1, Encoded DEF OneCharacter
<1>3. \A k \in 1..n : Utf16Of(t[k]) \in Seq(Int)
    <2> SUFFICES ASSUME NEW k \in 1..n PROVE Utf16Of(t[k]) \in Seq(Int)
        OBVIOUS
    <2>1. IsScalar(t[k])
        BY <1>1
    <2>2. t[k] \in Nat
        BY <1>0
    <2>3. Units(t[k]) \in Seq(Int)
        BY <2>2, UnitsType
    <2>4. Units(t[k]) = Utf16Of(t[k])
        BY <2>2, SMTT(20) DEF Units, SurrogatePair, Utf16Of
    <2> QED
        BY <2>3, <2>4
<1> HIDE DEF n
<1>4. /\ u \in Seq(Seq(Byte)) /\ Len(u) = n
      /\ v \in Seq(Seq(Int)) /\ Len(v) = n
      /\ \A k \in 1..n : u[k] = Utf8Of(t[k]) /\ v[k] = Utf16Of(t[k])
    BY <1>1, <1>2, <1>3
<1>5. InUtf8(t) = Joined(u) /\ InUtf16(t) = Joined(v)
    BY DEF InUtf8, InUtf16, n
<1> HIDE DEF u, v
<1>6. /\ Joined(u)[0] = <<>>
      /\ \A k \in 1..Len(u) : Joined(u)[k] = Joined(u)[k - 1] \o u[k]
      /\ \A k \in 0..Len(u) : Joined(u)[k] \in Seq(Byte)
    BY <1>4, JoinedSteps, Zenon
<1>7. /\ Joined(v)[0] = <<>>
      /\ \A k \in 1..Len(v) : Joined(v)[k] = Joined(v)[k - 1] \o v[k]
      /\ \A k \in 0..Len(v) : Joined(v)[k] \in Seq(Int)
    BY <1>4, JoinedSteps, Zenon
<1> QED
    BY <1>1, <1>4, <1>5, <1>6, <1>7 DEF n

\* They are a text in the sense of the buffer, and read as their UTF-16 units.
LEMMA TextRead ==
    ASSUME NEW t \in Texts
    PROVE  \A k \in 0..Len(t) :
               /\ InUtf8(t)[k] \in Seq(Byte) /\ WellFormed(InUtf8(t)[k])
               /\ Utf16(InUtf8(t)[k]) = InUtf16(t)[k]
<1> DEFINE n == Len(t)  a == InUtf8(t)  b == InUtf16(t)
           S == {k \in Nat : k <= n => WellFormed(a[k]) /\ Utf16(a[k]) = b[k]}
<1>1. /\ n \in Nat /\ \A k \in 1..n : IsScalar(t[k])
      /\ a[0] = <<>> /\ b[0] = <<>>
      /\ \A k \in 1..n : a[k] = a[k - 1] \o Utf8Of(t[k])
      /\ \A k \in 1..n : b[k] = b[k - 1] \o Utf16Of(t[k])
      /\ \A k \in 0..n : a[k] \in Seq(Byte)
    BY TextSteps
<1> HIDE DEF n, a, b
<1>2. 0 \in S
    <2>1. <<>> \in Seq(Byte) /\ Len(<<>>) = 0
        OBVIOUS
    <2>2. PICK f \in [1..(Len(<<>>) + 1) -> Seq(Int)] :
              ReadFrom(<<>>, f) /\ Utf16(<<>>) = f[1]
        BY <2>1, ReadsIsRead
    <2>3. f[Len(<<>>) + 1] = <<>>
        BY <2>1, <2>2, ReadEnd
    <2>4. Utf16(<<>>) = <<>>
        BY <2>1, <2>2, <2>3
    <2> QED
        BY <1>1, <2>4, EmptyIsText
<1>3. ASSUME NEW k \in Nat, k \in S PROVE k + 1 \in S
    <2> SUFFICES ASSUME k + 1 <= n
                 PROVE  WellFormed(a[k + 1]) /\ Utf16(a[k + 1]) = b[k + 1]
        OBVIOUS
    <2> DEFINE j == k + 1  x == Utf8Of(t[j])
    <2>1. j \in 1..n /\ j - 1 = k /\ k \in 0..n
        BY <1>1
    <2>2. WellFormed(a[k]) /\ Utf16(a[k]) = b[k] /\ a[k] \in Seq(Byte)
        BY <1>1, <1>3, <2>1
    <2> HIDE DEF j
    <2>3. a[j] = a[k] \o x /\ b[j] = b[k] \o Utf16Of(t[j]) /\ IsScalar(t[j])
        BY <1>1, <2>1
    <2>4. OneCharacter(x) /\ Utf16(x) = Utf16Of(t[j])
        BY <2>3, Encoded, EncodedRead
    <2> HIDE DEF x
    <2>5. WellFormed(a[k] \o x)
        BY <2>2, <2>4, OneMore
    <2>6. x \in Seq(Byte)
        BY <2>4 DEF OneCharacter
    <2>7. Utf16(a[k] \o x) = Utf16(a[k]) \o Utf16(x)
        BY <2>2, <2>6, Utf16Concat
    <2> QED
        BY <2>2, <2>3, <2>4, <2>5, <2>7 DEF j
<1> HIDE DEF S
<1>4. \A k \in Nat : k \in S
    BY <1>2, <1>3, Counting
<1>5. \A k \in 0..n : k \in Nat /\ k <= n
    BY <1>1
<1>6. \A k \in 0..n : WellFormed(a[k]) /\ Utf16(a[k]) = b[k]
    BY <1>4, <1>5 DEF S
<1> QED
    BY <1>1, <1>6 DEF n, a, b

\* The bytes of its first characters begin the bytes of a text.
LEMMA TextBegins ==
    ASSUME NEW t \in Texts, NEW k \in 0..Len(t)
    PROVE  /\ Len(InUtf8(t)[k]) <= Len(InUtf8(t)[Len(t)])
           /\ \A i \in 1..Len(InUtf8(t)[k]) : InUtf8(t)[Len(t)][i] = InUtf8(t)[k][i]
<1> DEFINE n == Len(t)  a == InUtf8(t)
           Begins(p, s) == Len(p) <= Len(s) /\ \A i \in 1..Len(p) : s[i] = p[i]
           S == {m \in Nat : k <= m /\ m <= n => Begins(a[k], a[m])}
<1>0. /\ Len(t) \in Nat /\ \A m \in 1..Len(t) : IsScalar(t[m])
      /\ a[0] = <<>> /\ InUtf16(t)[0] = <<>>
      /\ \A m \in 1..Len(t) : a[m] = a[m - 1] \o Utf8Of(t[m])
      /\ \A m \in 1..Len(t) : InUtf16(t)[m] = InUtf16(t)[m - 1] \o Utf16Of(t[m])
      /\ \A m \in 0..Len(t) : a[m] \in Seq(Byte)
    BY TextSteps
<1> HIDE DEF a
<1>1. /\ n \in Nat /\ k \in Nat /\ k <= n /\ k \in 0..n /\ \A m \in 1..n : IsScalar(t[m])
      /\ \A m \in 1..n : a[m] = a[m - 1] \o Utf8Of(t[m])
      /\ \A m \in 0..n : a[m] \in Seq(Byte)
    <2>1. k \in Nat /\ k <= Len(t)
        BY <1>0
    <2> QED
        BY <1>0, <2>1, Zenon
<1> HIDE DEF n
<1>2. Begins(a[k], a[k])
    <2>1. a[k] \in Seq(Byte)
        BY <1>1
    <2> QED
        BY <2>1
<1>3. 0 \in S
    <2>1. k <= 0 => k = 0
        BY <1>1
    <2> QED
        BY <1>2, <2>1
<1>4. ASSUME NEW m \in Nat, m \in S PROVE m + 1 \in S
    <2> SUFFICES ASSUME k <= m + 1, m + 1 <= n PROVE Begins(a[k], a[m + 1])
        OBVIOUS
    <2>1. CASE k = m + 1
        BY <1>2, <2>1
    <2>2. CASE k <= m
        <3> DEFINE j == m + 1  x == Utf8Of(t[j])
        <3>1. j \in 1..n /\ j - 1 = m /\ m \in 0..n /\ k \in 0..n
            BY <1>1, <2>2
        <3>2. Begins(a[k], a[m])
            BY <1>1, <1>4, <2>2
        <3> HIDE DEF j
        <3>3. a[j] = a[m] \o x /\ OneCharacter(x) /\ a[m] \in Seq(Byte) /\ a[k] \in Seq(Byte)
            BY <1>1, <3>1, Encoded
        <3>4. x \in Seq(Byte)
            BY <3>3 DEF OneCharacter
        <3> HIDE DEF x
        <3>5. /\ Len(a[j]) = Len(a[m]) + Len(x)
              /\ \A i \in 1..Len(a[m]) : a[j][i] = a[m][i]
              /\ Len(a[m]) \in Nat /\ Len(x) \in Nat /\ Len(a[k]) \in Nat
            BY <3>3, <3>4
        <3>6. Len(a[k]) <= Len(a[j])
            BY <3>2, <3>5
        <3>7. \A i \in 1..Len(a[k]) : i \in 1..Len(a[m]) /\ a[m][i] = a[k][i]
            BY <3>2, <3>5
        <3> QED
            BY <3>5, <3>6, <3>7 DEF j
    <2> QED
        BY <1>1, <2>1, <2>2
<1> HIDE DEF S
<1>5. \A m \in Nat : m \in S
    BY <1>3, <1>4, Counting
<1>6. Begins(a[k], a[n])
    BY <1>1, <1>5 DEF S
<1> QED
    BY <1>6 DEF n, a

\* No character of a text begins inside another one.
LEMMA BetweenCharacters ==
    ASSUME NEW t \in Texts, NEW k \in 1..Len(t), NEW q \in Nat,
           Len(InUtf8(t)[k - 1]) < q, q < Len(InUtf8(t)[k])
    PROVE  ~Boundary(InUtf8(t)[Len(t)], q)
<1> DEFINE a == InUtf8(t)  p == a[k - 1]  x == Utf8Of(t[k])  s == a[Len(t)]
<1>0. /\ Len(t) \in Nat /\ \A m \in 1..Len(t) : IsScalar(t[m])
      /\ a[0] = <<>> /\ InUtf16(t)[0] = <<>>
      /\ \A m \in 1..Len(t) : a[m] = a[m - 1] \o Utf8Of(t[m])
      /\ \A m \in 1..Len(t) : InUtf16(t)[m] = InUtf16(t)[m - 1] \o Utf16Of(t[m])
      /\ \A m \in 0..Len(t) : a[m] \in Seq(Byte)
    BY TextSteps
<1>1. /\ Len(t) \in Nat /\ IsScalar(t[k]) /\ k \in 0..Len(t)
      /\ k - 1 \in 0..Len(t) /\ Len(t) \in 0..Len(t)
    BY <1>0
<1>2. OneCharacter(x)
    BY <1>1, Encoded
<1>3. Len(a[k]) <= Len(s) /\ \A i \in 1..Len(a[k]) : s[i] = a[k][i]
    BY <1>1, TextBegins, Zenon
<1>4. s \in Seq(Byte) /\ a[k] \in Seq(Byte) /\ p \in Seq(Byte) /\ a[k] = p \o x
    BY <1>0, <1>1, Zenon
<1> HIDE DEF a, p, x, s
<1>5. x \in Seq(Byte) /\ \A i \in 2..Len(x) : Continues(x[i])
    BY <1>2 DEF OneCharacter
<1>6. Len(a[k]) = Len(p) + Len(x) /\ Len(p) \in Nat /\ Len(x) \in Nat /\ Len(s) \in Nat
    BY <1>4, <1>5
<1>7. Len(p) < q /\ q < Len(a[k])
    BY DEF a, p
<1>8. /\ q + 1 \in 1..Len(a[k]) /\ q < Len(s)
      /\ (q + 1) - Len(p) \in 2..Len(x) /\ (q + 1) - Len(p) \in 1..Len(x)
      /\ Len(p) + ((q + 1) - Len(p)) = q + 1
    BY <1>3, <1>6, <1>7
<1>9. \A i \in 1..Len(x) : (p \o x)[Len(p) + i] = x[i]
    BY <1>4, <1>5, SecondPart
<1>10. Continues(s[q + 1])
    BY <1>3, <1>4, <1>5, <1>8, <1>9
<1> QED
    BY <1>8, <1>10 DEF Boundary, s, a
-----------------------------------------------------------------------------
\* What Java has of a text t that the bytes so far begin: its whole characters up to
\* the last boundary, as utf8_to_utf16 reads them in one go.
Arrived(t) ==
    /\ Boundary(t, Len(handed))
    /\ \A n \in (Len(handed) + 1)..Len(received) : ~Boundary(t, n)
    /\ sent = Utf16(SubSeq(t, 1, Len(handed)))

TextInv ==
    \A t \in Seq(Byte) :
        WellFormed(t) /\ StartsWith(t, received) => Arrived(t)

\* Before the first byte of a text there is nothing of it to hand on.
LEMMA NothingArrived ==
    ASSUME NEW t \in Seq(Byte), WellFormed(t)
    PROVE  /\ Boundary(t, Len(<<>>))
           /\ \A n \in (Len(<<>>) + 1)..Len(<<>>) : ~Boundary(t, n)
           /\ <<>> = Utf16(SubSeq(t, 1, Len(<<>>)))
<1>1. Len(<<>>) = 0 /\ <<>> \in Seq(Byte) /\ SubSeq(t, 1, 0) = <<>> /\ Len(t) \in Nat
    OBVIOUS
<1>2. PICK f \in [1..(Len(<<>>) + 1) -> Seq(Int)] :
          ReadFrom(<<>>, f) /\ Utf16(<<>>) = f[1]
    BY <1>1, ReadsIsRead
<1>3. f[Len(<<>>) + 1] = <<>>
    BY <1>1, <1>2, ReadEnd
<1>4. Utf16(<<>>) = <<>>
    BY <1>1, <1>2, <1>3
<1>5. Boundary(t, 0)
    <2>1. 0 < Len(t) => t # <<>>
        OBVIOUS
    <2> QED
        BY <1>1, <2>1 DEF Boundary, WellFormed
<1>6. \A n \in (0 + 1)..0 : FALSE
    OBVIOUS
<1> QED
    BY <1>1, <1>4, <1>5, <1>6

\* One token: its piece completes characters, which leave, and begins another one.
LEMMA SendArrives ==
    ASSUME IInv, IInv', TextInv, NEW n \in 1..LongestPiece, SendToken(n),
           NEW t \in Seq(Byte), WellFormed(t), StartsWith(t, received')
    PROVE  Arrived(t)'
<1> DEFINE piece == SubSeq(reply, taken + 1, taken + n)
           s == g_token_utf8_buf \o piece
           complete == SubSeq(s, 1, CompletePrefixLen(s))
           m == Len(received')  h == Len(handed)
<1>1. /\ g_token_utf8_buf \in Seq(Byte) /\ received \in Seq(Byte) /\ handed \in Seq(Byte)
      /\ received' \in Seq(Byte) /\ handed' \in Seq(Byte) /\ g_token_utf8_buf' \in Seq(Byte)
      /\ m \in 0..Len(t) /\ received' = SubSeq(t, 1, m)
    <2>1. /\ g_token_utf8_buf \in Seq(Byte) /\ received \in Seq(Byte)
          /\ handed \in Seq(Byte)
        BY DEF IInv, TypeOK
    <2>2. /\ received' \in Seq(Byte) /\ handed' \in Seq(Byte)
          /\ g_token_utf8_buf' \in Seq(Byte)
        BY Zenon DEF IInv, TypeOK
    <2>3. m <= Len(t) /\ received' = SubSeq(t, 1, m)
        BY DEF StartsWith
    <2>4. m \in 0..Len(t)
        BY <2>2, <2>3
    <2> QED
        BY <2>1, <2>2, <2>3, <2>4
<1>2. piece \in Seq(Byte) /\ s \in Seq(Byte)
    <2>1. /\ reply \in Seq(Byte) /\ taken \in Nat /\ n \in Nat
          /\ taken + n <= Len(reply)
        BY Utf8Assumption DEF IInv, TypeOK, SendToken
    <2>2. piece \in Seq(Byte)
        BY <2>1
    <2> HIDE DEF piece
    <2> QED
        BY <1>1, <2>2
<1>3. /\ g_token_utf8_buf' = HeldBack(s) /\ handed' = handed \o complete
      /\ received' = received \o piece /\ sent' = sent \o Utf16(complete)
    BY DEF SendToken
<1> HIDE DEF piece, m
<1>4. handed \o g_token_utf8_buf = received /\ handed' \o g_token_utf8_buf' = received'
    BY DEF IInv, NothingLost
<1>5. Arrived(t)
    <2>1. received \o piece = SubSeq(t, 1, m)
        BY <1>1, <1>3
    <2>2. Consecutive(t, m, received, piece)
        BY <1>1, <1>2, <2>1, PiecesOfPrefix
    <2>3. Len(received) \in 0..m /\ received = SubSeq(t, 1, Len(received))
        BY <2>2, Zenon DEF Consecutive
    <2>4. Len(received) <= Len(t)
        BY <1>1, <2>3
    <2> QED
        BY <2>3, <2>4 DEF StartsWith, TextInv
<1>6. handed \o s = SubSeq(t, 1, m)
    <2>1. (handed \o g_token_utf8_buf) \o piece = handed \o (g_token_utf8_buf \o piece)
        <3>1. /\ handed \in Seq(Byte) /\ g_token_utf8_buf \in Seq(Byte)
              /\ piece \in Seq(Byte)
            BY <1>1, <1>2
        <3>2. Then(Then(handed, g_token_utf8_buf), piece)
                = Then(handed, Then(g_token_utf8_buf, piece))
            BY <3>1, BytesRegroup, SMT
        <3> QED
            BY <3>2, Zenon DEF Then
    <2> QED
        BY <1>1, <1>3, <1>4, <2>1
<1> HIDE DEF s
<1>7. /\ h \in 0..m /\ Len(s) = m - h /\ handed = SubSeq(t, 1, h)
      /\ \A k \in 1..Len(s) : s[k] = t[h + k]
    <2>1. Consecutive(t, m, handed, s)
        BY <1>1, <1>2, <1>6, PiecesOfPrefix
    <2> QED
        BY <2>1, Zenon DEF Consecutive
<1>8. Boundary(t, h) /\ sent = Utf16(handed)
    BY <1>5, <1>7 DEF Arrived
<1> DEFINE q == h + CompletePrefixLen(s)
<1>9. Boundary(t, q) /\ \A k \in (q + 1)..m : ~Boundary(t, k)
    BY <1>1, <1>2, <1>7, <1>8, CompletePrefixEnds
<1>10. complete \in Seq(Byte) /\ Len(complete) = CompletePrefixLen(s)
    <2>1. CompletePrefixLen(s) \in 0..Len(s)
        BY <1>2, HeldBackPartial
    <2> QED
        BY <1>2, <2>1
<1> HIDE DEF complete
<1>11. Len(handed') = q /\ handed' = SubSeq(t, 1, q)
    <2>1. Len(handed') = q
        <3>1. Len(handed \o complete) = Len(handed) + Len(complete)
            BY <1>1, <1>10, JoinedBytes
        <3> QED
            BY <1>3, <1>10, <3>1, Zenon
    <2>2. handed' \o g_token_utf8_buf' = SubSeq(t, 1, m)
        BY <1>1, <1>4
    <2>3. Consecutive(t, m, handed', g_token_utf8_buf')
        BY <1>1, <2>2, PiecesOfPrefix
    <2>4. handed' = SubSeq(t, 1, Len(handed'))
        BY <2>3, Zenon DEF Consecutive
    <2> QED
        BY <2>1, <2>4
<1>12. sent' = Utf16(handed')
    <2>1. h \in Nat
        BY <1>1
    <2>2. WellFormed(handed)
        BY <1>7, <1>8, <2>1, CutAtBoundary
    <2>3. Utf16(handed \o complete) = Utf16(handed) \o Utf16(complete)
        BY <1>1, <1>10, <2>2, Utf16Concat
    <2> QED
        BY <1>3, <1>8, <2>3
<1> HIDE DEF q
<1>13. \A k \in (q + 1)..m : ~Boundary(t, k)
    BY <1>9
<1> QED
    BY <1>9, <1>11, <1>12, <1>13, Zenon DEF Arrived, m

LEMMA TextNext == ASSUME IInv, IInv', TextInv, [Next]_vars PROVE TextInv'
<1> SUFFICES ASSUME NEW t \in Seq(Byte), WellFormed(t), StartsWith(t, received')
             PROVE  Arrived(t)'
    BY DEF TextInv
<1>1. CASE StartGeneration
    BY <1>1, NothingArrived DEF StartGeneration, Arrived
<1>2. ASSUME NEW n \in 1..LongestPiece, SendToken(n) PROVE Arrived(t)'
    BY <1>2, SendArrives
<1>3. ASSUME UNCHANGED <<received, handed, sent>> PROVE Arrived(t)'
    BY <1>3 DEF TextInv, Arrived
<1>4. ASSUME NEW n \in 1..LongestPiece, DropToken(n) PROVE UNCHANGED <<received, handed, sent>>
    BY <1>4 DEF DropToken
<1>5. EndGeneration \/ UNCHANGED vars => UNCHANGED <<received, handed, sent>>
    BY DEF EndGeneration, vars
<1> QED
    BY <1>1, <1>2, <1>3, <1>4, <1>5 DEF Next

LEMMA TextInvariant == Spec => [](IInv /\ TextInv)
<1>1. Init => TextInv
    <2> SUFFICES ASSUME Init, NEW t \in Seq(Byte), WellFormed(t) PROVE Arrived(t)
        BY DEF TextInv
    <2> QED
        BY NothingArrived DEF Init, Arrived
<1>2. IInv /\ IInv' /\ TextInv /\ [Next]_vars => TextInv'
    BY TextNext
<1> QED
    BY <1>1, <1>2, BufferInvariant, PTL DEF Spec

-----------------------------------------------------------------------------
\* "only handed to Java once complete" (native-lib.cpp:408-410), and then at once: the
\* bytes of a text leave in whole characters, each with the token that completes it.
THEOREM CharactersAreNotCut == Spec => []CharactersLeaveWhole
<1>1. ASSUME IInv, TextInv PROVE CharactersLeaveWhole
    <2> SUFFICES ASSUME WellFormed(reply), received = SubSeq(reply, 1, taken)
                 PROVE  /\ WellFormed(handed)
                        /\ \A k \in (Len(handed) + 1)..Len(received) :
                              ~WellFormed(SubSeq(received, 1, k))
        BY DEF CharactersLeaveWhole
    <2> DEFINE m == Len(received)  h == Len(handed)
    <2>1. /\ reply \in Seq(Byte) /\ received \in Seq(Byte) /\ handed \in Seq(Byte)
          /\ g_token_utf8_buf \in Seq(Byte) /\ handed \o g_token_utf8_buf = received
          /\ taken \in 0..Len(reply)
        BY <1>1 DEF IInv, TypeOK, NothingLost
    <2>2. m = taken /\ m \in 0..Len(reply)
        BY <2>1, PrefixBytes
    <2>3. Arrived(reply)
        BY <1>1, <2>1, <2>2 DEF TextInv, StartsWith
    <2>4. Consecutive(reply, m, handed, g_token_utf8_buf)
        BY <2>1, <2>2, PiecesOfPrefix
    <2>5. h \in 0..m /\ handed = SubSeq(reply, 1, h)
        BY <2>4, Zenon DEF Consecutive
    <2>6. Boundary(reply, h) /\ \A k \in (h + 1)..m : ~Boundary(reply, k)
        BY <2>3 DEF Arrived
    <2> HIDE DEF m, h
    <2>7. WellFormed(handed)
        <3>1. h \in Nat
            BY <2>2, <2>5
        <3> QED
            BY <2>1, <2>5, <2>6, <3>1, CutAtBoundary
    <2>8. ASSUME NEW k \in (h + 1)..m PROVE ~WellFormed(SubSeq(received, 1, k))
        <3>1. k \in 0..Len(reply) /\ k \in 0..m
            BY <2>1, <2>2, <2>5
        <3>2. SubSeq(received, 1, k) = SubSeq(reply, 1, k)
            BY <2>1, <2>2, <3>1, PrefixOfPrefix
        <3> QED
            BY <2>1, <2>6, <3>1, <3>2, TextEndsAtBoundary
    <2> QED
        BY <2>7, <2>8 DEF m, h
<1> QED
    BY <1>1, TextInvariant, PTL

\* A set of numbers up to n that is not empty has a largest one.
LEMMA Largest ==
    ASSUME NEW n \in Nat, NEW G \in SUBSET (0..n), 0 \in G
    PROVE  \E k \in G : \A j \in G : j <= k
<1> SUFFICES ASSUME \A k \in G : \E j \in G : j > k PROVE FALSE
    OBVIOUS
<1> DEFINE S == {m \in Nat : \E k \in G : k >= m}
<1>1. 0 \in S
    OBVIOUS
<1>2. ASSUME NEW m \in Nat, m \in S PROVE m + 1 \in S
    <2>1. PICK k \in G : k >= m
        BY <1>2
    <2>2. PICK j \in G : j > k
        OBVIOUS
    <2>3. j >= m + 1
        BY <2>1, <2>2
    <2> QED
        BY <2>3
<1> HIDE DEF S
<1>3. n + 1 \in S
    <2>1. \A m \in Nat : m \in S
        BY <1>1, <1>2, Counting
    <2> QED
        BY <2>1
<1>4. PICK k \in G : k >= n + 1
    BY <1>3 DEF S
<1> QED
    BY <1>4

\* "only handed to Java once complete" (native-lib.cpp:408-410): of any text, cut
\* into tokens in any way, Java has the UTF-16 units of the characters whose last byte
\* has come, each of them once, in order, and nothing else.
THEOREM CharactersArrive == Spec => []WholeCharacters
<1>1. ASSUME IInv, TextInv, NEW t \in Texts,
             StartsWith(InUtf8(t)[Len(t)], received)
      PROVE  LET given == {k \in 0..Len(t) : Len(InUtf8(t)[k]) <= Len(received)}
                 whole == CHOOSE k \in given : \A j \in given : j <= k
             IN  sent = InUtf16(t)[whole]
    <2> DEFINE a == InUtf8(t)  n == Len(t)  s == a[n]
               h == Len(handed)  m == Len(received)
               given == {k \in 0..n : Len(a[k]) <= m}
               whole == CHOOSE k \in given : \A j \in given : j <= k
    <2>1. /\ Len(t) \in Nat /\ \A k \in 1..Len(t) : IsScalar(t[k])
          /\ InUtf8(t)[0] = <<>> /\ InUtf16(t)[0] = <<>>
          /\ \A k \in 1..Len(t) : InUtf8(t)[k] = InUtf8(t)[k - 1] \o Utf8Of(t[k])
          /\ \A k \in 1..Len(t) : InUtf16(t)[k] = InUtf16(t)[k - 1] \o Utf16Of(t[k])
          /\ \A k \in 0..Len(t) : InUtf8(t)[k] \in Seq(Byte)
        BY TextSteps
    <2>2. \A k \in 0..n : /\ a[k] \in Seq(Byte) /\ WellFormed(a[k])
                          /\ Utf16(a[k]) = InUtf16(t)[k]
        BY TextRead
    <2>3. \A k \in 0..n : Len(a[k]) <= Len(s) /\ \A i \in 1..Len(a[k]) : s[i] = a[k][i]
        BY TextBegins
    <2>4. \A k \in 1..n, q \in Nat :
              Len(a[k - 1]) < q /\ q < Len(a[k]) => ~Boundary(s, q)
        BY BetweenCharacters
    <2>5. n \in Nat /\ a[0] = <<>>
        BY <2>1
    <2> HIDE DEF a, n
    <2>6. s \in Seq(Byte) /\ WellFormed(s)
        BY <2>2, <2>5
    <2> HIDE DEF s
    <2>7. /\ received \in Seq(Byte) /\ handed \in Seq(Byte)
          /\ g_token_utf8_buf \in Seq(Byte) /\ handed \o g_token_utf8_buf = received
          /\ m \in Nat /\ h \in Nat /\ h <= m /\ m <= Len(s)
        <3>1. /\ received \in Seq(Byte) /\ handed \in Seq(Byte)
              /\ g_token_utf8_buf \in Seq(Byte) /\ handed \o g_token_utf8_buf = received
            BY <1>1 DEF IInv, TypeOK, NothingLost
        <3>2. h <= m
            BY <3>1
        <3>3. m <= Len(s)
            BY <1>1 DEF StartsWith, s, a, n
        <3> QED
            BY <3>1, <3>2, <3>3
    <2>8. Arrived(s)
        <3>1. StartsWith(s, received)
            BY <1>1 DEF s, a, n
        <3> QED
            BY <1>1, <2>6, <3>1 DEF TextInv
    <2>9. /\ Boundary(s, h) /\ sent = Utf16(SubSeq(s, 1, h))
          /\ \A k \in (h + 1)..m : ~Boundary(s, k)
        BY <2>8 DEF Arrived
    <2>10. whole \in given /\ \A j \in given : j <= whole
        <3>1. 0 \in given
            BY <2>5, <2>7
        <3>2. given \in SUBSET (0..n)
            OBVIOUS
        <3> HIDE DEF given
        <3>3. \E k \in given : \A j \in given : j <= k
            BY <2>5, <3>1, <3>2, Largest
        <3> QED
            BY <3>3
    <2>11. whole \in 0..n /\ Len(a[whole]) <= m /\ (whole + 1 \in 0..n => Len(a[whole + 1]) > m)
        <3> DEFINE w == whole
        <3> HIDE DEF whole
        <3>1. whole \in 0..n /\ Len(a[whole]) <= m
            BY <2>10
        <3>2. ASSUME whole + 1 \in 0..n PROVE Len(a[whole + 1]) > m
            <4>1. whole + 1 \notin given
                BY <2>10, <3>1
            <4>2. a[whole + 1] \in Seq(Byte)
                BY <2>2, <3>2
            <4> QED
                BY <2>7, <3>2, <4>1, <4>2
        <3> QED
            BY <3>1, <3>2
    <2> HIDE DEF whole
    <2>12. /\ a[whole] \in Seq(Byte) /\ Len(a[whole]) \in Nat /\ WellFormed(a[whole])
           /\ Utf16(a[whole]) = InUtf16(t)[whole]
           /\ Len(a[whole]) <= Len(s) /\ \A i \in 1..Len(a[whole]) : s[i] = a[whole][i]
        BY <2>2, <2>3, <2>11
    <2> DEFINE b == a[whole]
    <2> HIDE DEF b
    <2>13. b \in Seq(Byte) /\ Len(b) \in 0..Len(s) /\ b = SubSeq(s, 1, Len(b))
        <3>1. b \in Seq(Byte) /\ Len(b) \in 0..Len(s) /\ \A i \in 1..Len(b) : s[i] = b[i]
            BY <2>6, <2>12 DEF b
        <3> DEFINE c == SubSeq(s, 1, Len(b))
        <3>2. c \in Seq(Byte) /\ Len(c) = Len(b) /\ \A i \in 1..Len(b) : c[i] = s[i]
            BY <2>6, <3>1, PrefixBytes
        <3> HIDE DEF c
        <3>3. \A i \in 1..Len(b) : b[i] = c[i]
            BY <3>1, <3>2
        <3>4. b = c
            BY <3>1, <3>2, <3>3, SeqEqual
        <3> QED
            BY <3>1, <3>4 DEF c
    <2>14. Boundary(s, Len(b))
        <3>1. WellFormed(SubSeq(s, 1, Len(b)))
            BY <2>12, <2>13 DEF b
        <3> QED
            BY <2>6, <2>13, <3>1, TextEndsAtBoundary
    <2>15. Len(b) <= h
        <3>1. Len(b) \in Nat /\ Len(b) <= m
            BY <2>11, <2>12 DEF b
        <3>2. Len(b) > h => Len(b) \in (h + 1)..m
            BY <2>7, <3>1
        <3> QED
            BY <2>7, <2>9, <2>14, <3>1, <3>2
    <2>16. ~(Len(b) < h)
        <3> SUFFICES ASSUME Len(b) < h PROVE FALSE
            OBVIOUS
        <3>1. CASE whole = n
            <4>1. Len(b) = Len(s)
                BY <3>1 DEF b, s
            <4> QED
                BY <2>7, <2>13, <4>1
        <3>2. CASE whole # n
            <4> DEFINE k == whole + 1
            <4>1. k \in 1..n /\ k \in 0..n /\ k - 1 = whole
                BY <2>5, <2>11, <3>2
            <4>2. Len(a[k]) > m
                BY <2>11, <4>1
            <4>3. a[k] \in Seq(Byte)
                BY <2>2, <4>1
            <4>4. h < Len(a[k])
                BY <2>7, <4>2, <4>3
            <4>5. Len(a[k - 1]) < h
                BY <4>1 DEF b
            <4> QED
                BY <2>4, <2>7, <2>9, <4>1, <4>4, <4>5
        <3> QED
            BY <3>1, <3>2
    <2>17. Len(b) = h
        BY <2>7, <2>13, <2>15, <2>16
    <2>18. sent = InUtf16(t)[whole]
        BY <2>9, <2>12, <2>13, <2>17 DEF b
    <2> QED
        BY <2>18 DEF whole, a, n
<1>2. IInv /\ TextInv => WholeCharacters
    BY <1>1 DEF WholeCharacters
<1> QED
    BY <1>2, TextInvariant, PTL
=============================================================================
