-------------------------- MODULE Checkpoint_proofs --------------------------
(***************************************************************************)
(* Proofs about OutputFile and Checkpoint: for any set of records, any     *)
(* buffer that takes a record and any dedup limit, what a run leaves of    *)
(* its output file, and that the state file never claims more of it than   *)
(* is durable.                                                             *)
(***************************************************************************)
EXTENDS Checkpoint, DurableFile_proofs, FiniteSetTheorems, SequenceTheorems, TLAPS

Piece == Records \X {1, 2}

\* What has been written, in the file or on its way to it.
Content == file \o buf

\* The sequence s starts with t.
Prefix(t, s) == /\ t \in Seq(Piece) /\ s \in Seq(Piece)
                /\ Len(t) <= Len(s)
                /\ \A k \in 1 .. Len(t) : t[k] = s[k]

\* Pieces belong together, but for the seams in S.
Neat(s, S) == \A k \in 1 .. (Len(s) - 1) : Joined(s[k], s[k + 1]) \/ k \in S

\* Position n of s is not in the middle of a line.
StartsAfter(s, n) == n < Len(s) => s[n + 1][2] = 1

\* What s has behind position n ends with the end of a line.
EndsAfter(s, n) == n < Len(s) => s[Len(s)][2] = 2

\* Behind position n of s, a line of i begins at k.
Begins(s, n, i, k) == k \in (n + 1) .. Len(s) /\ s[k] = <<i, 1>>

WrittenOnce(s, n, R) ==
    \A i \in R : \A k, l \in Nat : Begins(s, n, i, k) /\ Begins(s, n, i, l) => k = l

-----------------------------------------------------------------------------
(* Sequences of pieces.                                                    *)

LEMMA PieceParts ==
    ASSUME NEW p \in Piece
    PROVE  /\ p[1] \in Records /\ p[2] \in {1, 2}
           /\ p = <<p[1], p[2]>>
BY DEF Piece

LEMMA CutOff ==
    ASSUME NEW s \in Seq(Piece), NEW m \in 0 .. Len(s)
    PROVE  /\ Prefix(Upto(s, m), s)
           /\ Len(Upto(s, m)) = m
BY DEF Prefix, Upto

LEMMA Rest ==
    ASSUME NEW s \in Seq(Piece), NEW m \in 0 .. Len(s)
    PROVE  /\ Beyond(s, m) \in Seq(Piece)
           /\ Len(Beyond(s, m)) = Len(s) - m
           /\ \A k \in 1 .. (Len(s) - m) : Beyond(s, m)[k] = s[m + k]
           /\ Upto(s, m) \o Beyond(s, m) = s
<1>1. m \in Nat /\ Len(s) \in Nat /\ m <= Len(s)
  OBVIOUS
<1>2. \A k \in (m + 1) .. Len(s) : s[k] \in Piece
  BY <1>1, ElementOfSeq
<1>3. /\ Beyond(s, m) \in Seq(Piece)
      /\ Len(Beyond(s, m)) = Len(s) - m
      /\ \A k \in 1 .. (Len(s) - m) : Beyond(s, m)[k] = s[m + k]
  BY <1>1, <1>2, SubSeqProperties DEF Beyond
<1>4. Upto(s, m) \in Seq(Piece) /\ Len(Upto(s, m)) = m /\ \A k \in 1 .. m : Upto(s, m)[k] = s[k]
  BY CutOff DEF Prefix
<1> DEFINE t == Upto(s, m) \o Beyond(s, m)
<1>5. t \in Seq(Piece) /\ Len(t) = Len(s)
      /\ \A k \in 1 .. Len(s) : t[k] = IF k <= m THEN Upto(s, m)[k] ELSE Beyond(s, m)[k - m]
  BY <1>1, <1>3, <1>4, ConcatProperties
<1>6. \A k \in 1 .. Len(s) : t[k] = s[k]
  BY <1>1, <1>3, <1>4, <1>5
<1>7. t = s
  BY <1>5, <1>6, SeqEqual
<1> QED
  BY <1>3, <1>7

LEMMA PrefixOfItself == ASSUME NEW s \in Seq(Piece) PROVE Prefix(s, s)
BY DEF Prefix

LEMMA PrefixOfMore ==
    ASSUME NEW s \in Seq(Piece), NEW t \in Seq(Piece)
    PROVE  Prefix(s, s \o t)
BY DEF Prefix

LEMMA PrefixTransitive ==
    ASSUME NEW s, NEW t, NEW u, Prefix(s, t), Prefix(t, u)
    PROVE  Prefix(s, u)
BY DEF Prefix

\* Of two prefixes of the same sequence one is a prefix of the other.
LEMMA PrefixesInLine ==
    ASSUME NEW s, NEW t, NEW u, Prefix(s, u), Prefix(t, u), Len(s) <= Len(t)
    PROVE  Prefix(s, t)
BY DEF Prefix

LEMMA SameLengthPrefix ==
    ASSUME NEW s, NEW u, Prefix(s, u), Len(s) = Len(u)
    PROVE  s = u
BY DEF Prefix

\* A part of what is to follow is a part of the whole.
LEMMA PrefixBehind ==
    ASSUME NEW s \in Seq(Piece), NEW t \in Seq(Piece), NEW m \in 0 .. Len(t)
    PROVE  /\ Prefix(s \o Upto(t, m), s \o t)
           /\ Prefix(s, s \o Upto(t, m))
           /\ Len(s \o Upto(t, m)) = Len(s) + m
<1>1. Prefix(Upto(t, m), t) /\ Len(Upto(t, m)) = m
  BY CutOff
<1>2. Upto(t, m) \in Seq(Piece) /\ \A k \in 1 .. m : Upto(t, m)[k] = t[k]
  BY <1>1 DEF Prefix
<1> HIDE DEF Upto
<1> QED
  BY <1>2, <1>1 DEF Prefix

LEMMA LinePieces ==
    ASSUME NEW i \in Records
    PROVE  /\ Line(i) \in Seq(Piece) /\ Len(Line(i)) = 2
           /\ Line(i)[1] = <<i, 1>> /\ Line(i)[2] = <<i, 2>>
BY DEF Line, Piece

\* A record in one piece, seen element by element.
LEMMA WholeAt ==
    ASSUME NEW s \in Seq(Piece), NEW i
    PROVE  i \in Whole(s) <=>
              /\ i \in Records
              /\ \E k \in 1 .. (Len(s) - 1) : s[k] = <<i, 1>> /\ s[k + 1] = <<i, 2>>
<1>1. ASSUME i \in Records, NEW k \in 1 .. (Len(s) - 1)
      PROVE  SubSeq(s, k, k + 1) = Line(i) <=> s[k] = <<i, 1>> /\ s[k + 1] = <<i, 2>>
  <2> DEFINE t == SubSeq(s, k, k + 1)
  <2>1. k \in Int /\ k + 1 \in Int /\ k <= k + 1 /\ (k + 1) - k + 1 = 2
        /\ k + 1 - 1 = k /\ k + 2 - 1 = k + 1
    OBVIOUS
  <2>2. \A l \in k .. (k + 1) : s[l] \in Piece
    BY ElementOfSeq
  <2>3. t \in Seq(Piece) /\ Len(t) = 2 /\ \A l \in 1 .. 2 : t[l] = s[k + l - 1]
    BY <2>1, <2>2, SubSeqProperties
  <2>4. t[1] = s[k] /\ t[2] = s[k + 1]
    BY <2>1, <2>3
  <2>5. t = Line(i) <=> \A l \in 1 .. 2 : t[l] = Line(i)[l]
    BY <1>1, <2>3, LinePieces, SeqEqual
  <2>6. (\A l \in 1 .. 2 : t[l] = Line(i)[l]) <=> t[1] = Line(i)[1] /\ t[2] = Line(i)[2]
    OBVIOUS
  <2> QED
    BY <1>1, <2>4, <2>5, <2>6, LinePieces
<1> QED
  BY <1>1 DEF Whole

LEMMA NothingWhole == Whole(<<>>) = {}
BY DEF Whole

LEMMA WholeOfPrefix ==
    ASSUME NEW s, NEW t, Prefix(t, s)
    PROVE  Whole(t) \subseteq Whole(s)
<1> SUFFICES ASSUME NEW i \in Whole(t) PROVE i \in Whole(s)
  OBVIOUS
<1>1. t \in Seq(Piece) /\ s \in Seq(Piece)
  BY DEF Prefix
<1>2. PICK k \in 1 .. (Len(t) - 1) : t[k] = <<i, 1>> /\ t[k + 1] = <<i, 2>>
  BY <1>1, WholeAt
<1>3. k \in 1 .. (Len(s) - 1) /\ s[k] = t[k] /\ s[k + 1] = t[k + 1]
  BY DEF Prefix
<1>4. i \in Records
  BY <1>1, WholeAt
<1> QED
  BY <1>1, <1>2, <1>3, <1>4, WholeAt

\* What is durable of a file is durable of any that goes on where it was synced.
LEMMA WholeOfUpto ==
    ASSUME NEW s, NEW t, NEW u, Prefix(s, u), Prefix(t, u),
           NEW m \in 0 .. Len(s), NEW n \in m .. Len(t)
    PROVE  Whole(Upto(s, m)) \subseteq Whole(Upto(t, n))
<1>1. /\ Prefix(Upto(s, m), u) /\ Len(Upto(s, m)) = m
      /\ Prefix(Upto(t, n), u) /\ Len(Upto(t, n)) = n
  <2>1. s \in Seq(Piece) /\ t \in Seq(Piece) /\ n \in 0 .. Len(t)
    BY DEF Prefix
  <2> QED
    BY <2>1, CutOff, PrefixTransitive
<1>2. Prefix(Upto(s, m), Upto(t, n))
  <2>1. m <= n
    OBVIOUS
  <2> QED
    BY <1>1, <2>1, PrefixesInLine
<1> QED
  BY <1>2, WholeOfPrefix

LEMMA NeatPrefix ==
    ASSUME NEW s, NEW t, Prefix(t, s), NEW S, NEW T, Neat(s, S),
           \A k \in 1 .. (Len(t) - 1) : k \in S => k \in T
    PROVE  Neat(t, T)
<1> SUFFICES ASSUME NEW k \in 1 .. (Len(t) - 1) PROVE Joined(t[k], t[k + 1]) \/ k \in T
  BY DEF Neat
<1>1. k \in 1 .. (Len(s) - 1) /\ s[k] = t[k] /\ s[k + 1] = t[k + 1]
  BY DEF Prefix
<1> QED
  BY <1>1 DEF Neat

LEMMA StartsAfterPrefix ==
    ASSUME NEW s, NEW t, Prefix(t, s), NEW n \in Nat, StartsAfter(s, n)
    PROVE  StartsAfter(t, n)
BY DEF Prefix, StartsAfter

LEMMA BeginsInPrefix ==
    ASSUME NEW s, NEW t, Prefix(t, s), NEW n \in Nat, NEW i, NEW k, Begins(t, n, i, k)
    PROVE  Begins(s, n, i, k)
BY DEF Prefix, Begins

LEMMA WrittenOncePrefix ==
    ASSUME NEW s, NEW t, Prefix(t, s), NEW n \in Nat, NEW R, WrittenOnce(s, n, R)
    PROVE  WrittenOnce(t, n, R)
BY BeginsInPrefix DEF WrittenOnce

-----------------------------------------------------------------------------
(* One more line.                                                          *)

LEMMA LineBehind ==
    ASSUME NEW s \in Seq(Piece), NEW i \in Records
    PROVE  /\ s \o Line(i) \in Seq(Piece)
           /\ Prefix(s, s \o Line(i))
           /\ Len(s \o Line(i)) = Len(s) + 2
           /\ (s \o Line(i))[Len(s) + 1] = <<i, 1>>
           /\ (s \o Line(i))[Len(s) + 2] = <<i, 2>>
<1> DEFINE t == Line(i)
<1>1. t \in Seq(Piece) /\ Len(t) = 2 /\ t[1] = <<i, 1>> /\ t[2] = <<i, 2>>
  BY LinePieces
<1> HIDE DEF t
<1>2. /\ s \o t \in Seq(Piece) /\ Len(s \o t) = Len(s) + 2 /\ Prefix(s, s \o t)
  <2>1. s \o t \in Seq(Piece) /\ Len(s \o t) = Len(s) + Len(t)
    BY <1>1, ConcatProperties
  <2>2. Prefix(s, s \o t)
    BY <1>1, PrefixOfMore
  <2> QED
    BY <1>1, <2>1, <2>2
<1>3. (s \o t)[Len(s) + 1] = t[1] /\ (s \o t)[Len(s) + 2] = t[2]
  <2>1. \A k \in 1 .. Len(s) + Len(t) :
           (s \o t)[k] = IF k <= Len(s) THEN s[k] ELSE t[k - Len(s)]
    BY <1>1, ConcatProperties
  <2>2. /\ Len(s) + 1 \in 1 .. Len(s) + Len(t) /\ Len(s) + 2 \in 1 .. Len(s) + Len(t)
        /\ ~(Len(s) + 1 <= Len(s)) /\ ~(Len(s) + 2 <= Len(s))
        /\ Len(s) + 1 - Len(s) = 1 /\ Len(s) + 2 - Len(s) = 2
    BY <1>1
  <2> QED
    BY <2>1, <2>2
<1> QED
  BY <1>1, <1>2, <1>3 DEF t

LEMMA NeatLine ==
    ASSUME NEW s \in Seq(Piece), NEW i \in Records, NEW S, Neat(s, S),
           NEW n \in 0 .. Len(s), n \in S \cup {0}, EndsAfter(s, n)
    PROVE  Neat(s \o Line(i), S)
<1> DEFINE c == s \o Line(i)
<1>1. /\ Prefix(s, c) /\ Len(c) = Len(s) + 2 /\ c \in Seq(Piece)
      /\ c[Len(s) + 1] = <<i, 1>> /\ c[Len(s) + 2] = <<i, 2>>
  BY LineBehind
<1> HIDE DEF c
<1>a. Len(s) \in Nat
  OBVIOUS
<1> SUFFICES ASSUME NEW k \in 1 .. (Len(s) + 1) PROVE Joined(c[k], c[k + 1]) \/ k \in S
  BY <1>1, <1>a DEF Neat, c
<1>2. CASE k < Len(s)
  <2>1. k \in 1 .. (Len(s) - 1) /\ c[k] = s[k] /\ c[k + 1] = s[k + 1]
    BY <1>1, <1>2, <1>a DEF Prefix
  <2> QED
    BY <2>1 DEF Neat
<1>3. CASE k = Len(s)
  <2>1. c[k] = s[Len(s)] /\ c[k + 1] = <<i, 1>>
    BY <1>1, <1>3, <1>a DEF Prefix
  <2>2. CASE n < Len(s)
    BY <2>1, <2>2 DEF EndsAfter, Joined
  <2>3. CASE n = Len(s)
    BY <1>3, <2>3
  <2> QED
    BY <2>2, <2>3
<1>4. CASE k = Len(s) + 1
  <2>1. c[k] = <<i, 1>> /\ c[k + 1] = <<i, 2>>
    BY <1>1, <1>4, <1>a
  <2> QED
    BY <2>1 DEF Joined
<1> QED
  BY <1>2, <1>3, <1>4, <1>a

LEMMA LineStartsAndEnds ==
    ASSUME NEW s \in Seq(Piece), NEW i \in Records, NEW n \in 0 .. Len(s), StartsAfter(s, n),
           NEW m \in Nat
    PROVE  StartsAfter(s \o Line(i), n) /\ EndsAfter(s \o Line(i), m)
<1> DEFINE c == s \o Line(i)
<1>1. /\ Prefix(s, c) /\ Len(c) = Len(s) + 2
      /\ c[Len(s) + 1] = <<i, 1>> /\ c[Len(s) + 2] = <<i, 2>>
  BY LineBehind
<1> HIDE DEF c
<1>2. StartsAfter(c, n)
  BY <1>1 DEF StartsAfter, Prefix
<1>3. EndsAfter(c, m)
  BY <1>1 DEF EndsAfter
<1> QED
  BY <1>2, <1>3 DEF c

\* Only the line added begins where none did.
LEMMA LineBegins ==
    ASSUME NEW s \in Seq(Piece), NEW i \in Records, NEW n \in 0 .. Len(s)
    PROVE  /\ Begins(s \o Line(i), n, i, Len(s) + 1)
           /\ \A j, k : Begins(s \o Line(i), n, j, k) =>
                          Begins(s, n, j, k) \/ (j = i /\ k = Len(s) + 1)
<1> DEFINE c == s \o Line(i)
<1>1. /\ Prefix(s, c) /\ Len(c) = Len(s) + 2
      /\ c[Len(s) + 1] = <<i, 1>> /\ c[Len(s) + 2] = <<i, 2>>
  BY LineBehind
<1> HIDE DEF c
<1>2. Begins(c, n, i, Len(s) + 1)
  BY <1>1 DEF Begins
<1>3. ASSUME NEW j, NEW k, Begins(c, n, j, k)
      PROVE  Begins(s, n, j, k) \/ (j = i /\ k = Len(s) + 1)
  <2>1. k \in (n + 1) .. (Len(s) + 2) /\ c[k] = <<j, 1>>
    BY <1>1, <1>3 DEF Begins
  <2>2. CASE k <= Len(s)
    BY <1>1, <2>1, <2>2 DEF Begins, Prefix
  <2>3. CASE k = Len(s) + 1
    BY <1>1, <2>1, <2>3
  <2>4. CASE k = Len(s) + 2
    BY <1>1, <2>1, <2>4
  <2> QED
    BY <2>1, <2>2, <2>3, <2>4
<1> QED
  BY <1>2, <1>3 DEF c

LEMMA LineWhole ==
    ASSUME NEW s \in Seq(Piece), NEW i \in Records
    PROVE  Whole(s \o Line(i)) = Whole(s) \cup {i}
<1> DEFINE c == s \o Line(i)
<1>1. /\ Prefix(s, c) /\ Len(c) = Len(s) + 2 /\ c \in Seq(Piece)
      /\ c[Len(s) + 1] = <<i, 1>> /\ c[Len(s) + 2] = <<i, 2>>
  BY LineBehind
<1> HIDE DEF c
<1>2. Whole(s) \subseteq Whole(c)
  BY <1>1, WholeOfPrefix
<1>3. i \in Whole(c)
  <2>1. Len(s) + 1 \in 1 .. (Len(c) - 1) /\ Len(s) + 1 + 1 = Len(s) + 2
    BY <1>1
  <2> QED
    BY <1>1, <2>1, WholeAt
<1>4. ASSUME NEW j \in Whole(c), j # i PROVE j \in Whole(s)
  <2>1. PICK k \in 1 .. (Len(c) - 1) : c[k] = <<j, 1>> /\ c[k + 1] = <<j, 2>>
    BY <1>1, WholeAt
  <2>2. k # Len(s) + 1
    BY <1>1, <1>4, <2>1
  <2>3. k # Len(s)
    BY <1>1, <2>1
  <2>4. k \in 1 .. (Len(s) - 1)
    BY <1>1, <2>2, <2>3
  <2>5. s[k] = c[k] /\ s[k + 1] = c[k + 1]
    BY <1>1, <2>4 DEF Prefix
  <2>6. j \in Records
    BY <1>1, WholeAt
  <2> QED
    BY <2>1, <2>4, <2>5, <2>6, WholeAt
<1> QED
  BY <1>2, <1>3, <1>4 DEF c

-----------------------------------------------------------------------------
(* The output file.                                                        *)

OutputTypes ==
    /\ alive \in BOOLEAN /\ writeErr \in BOOLEAN
    /\ file \in Seq(Piece) /\ buf \in Seq(Piece)
    /\ seen \in SUBSET Records
    /\ settled \in 0 .. Len(file) /\ opened \in 0 .. settled /\ synced \in 0 .. settled

\* A process that is gone leaves nothing but the file, one that failed no buffer.
NothingHeld ==
    /\ ~alive => seen = {} /\ ~writeErr /\ opened = Len(file)
    /\ ~alive \/ writeErr => buf = <<>> /\ settled = Len(file)
    /\ opened \in seams \cup {0}

\* What the dedup map R knows is in the content s behind position n, once and as long
\* as nothing failed whole; what it does not know only if the map is full.
MapExact(s, n, R, whole) ==
    /\ R \in SUBSET Records /\ Cardinality(R) <= MaxDedup
    /\ WrittenOnce(s, n, R)
    /\ whole => \A i \in R : i \in Whole(s) /\ \E k \in Nat : Begins(s, n, i, k)
    /\ \A i \in Records \ R : \A k \in Nat : Begins(s, n, i, k) => Cardinality(R) = MaxDedup

OutputInv ==
    /\ OutputTypes /\ NothingHeld
    /\ Neat(Content, seams)
    /\ StartsAfter(Content, settled)
    /\ ~writeErr => EndsAfter(Content, opened)
    /\ MapExact(Content, opened, seen, ~writeErr)

LEMMA OutputNumbers ==
    /\ BufSize \in Nat /\ 2 <= BufSize /\ MaxDedup \in Nat /\ IsFiniteSet(Records)
BY OutputConstants

LEMMA ContentType ==
    ASSUME file \in Seq(Piece), buf \in Seq(Piece)
    PROVE  /\ Content \in Seq(Piece) /\ Prefix(file, Content)
           /\ Len(Content) = Len(file) + Len(buf)
BY PrefixOfMore, ConcatProperties DEF Content

LEMMA NoBuffer ==
    ASSUME NEW s \in Seq(Piece) PROVE s \o <<>> = s
BY ConcatEmptySeq

-----------------------------------------------------------------------------
(* What the operations of the writer make of the content.                  *)

\* Everything of s is in the file or in the buffer.
Kept(s) == /\ Content' = s
           /\ file' \in Seq(Piece) /\ buf' \in Seq(Piece)
           /\ Prefix(file, file')
           /\ UNCHANGED <<synced, writeErr, settled>>

\* A part of s is in the file, and the rest is lost.
Broken(s) == /\ Prefix(file', s) /\ Prefix(file, file')
             /\ settled' = Len(file')
             /\ buf' = <<>> /\ writeErr' = TRUE
             /\ UNCHANGED synced

LEMMA BrokenContent ==
    ASSUME OutputTypes, NEW t \in Seq(Piece), Breaks(t)
    PROVE  Broken(file \o t)
<1>1. PICK k \in 0 .. Len(t) : file' = file \o Upto(t, k)
  BY DEF Breaks
<1>2. file \in Seq(Piece)
  BY DEF OutputTypes
<1>3. Prefix(file', file \o t) /\ Prefix(file, file')
  BY <1>1, <1>2, PrefixBehind
<1> QED
  BY <1>3 DEF Breaks, Broken

LEMMA PutContent ==
    ASSUME OutputTypes, NEW i \in Records, Put(buf \o Line(i))
    PROVE  Kept(Content \o Line(i)) \/ Broken(Content \o Line(i))
<1> DEFINE t == buf \o Line(i)
<1>1. file \in Seq(Piece) /\ buf \in Seq(Piece) /\ Line(i) \in Seq(Piece)
  BY LinePieces DEF OutputTypes
<1>2. t \in Seq(Piece)
  BY <1>1, ConcatProperties
<1>3. file \o t = Content \o Line(i)
  BY <1>1, ConcatAssociative DEF Content
<1> HIDE DEF t
<1>4. CASE Len(t) <= BufSize
  <2>1. buf' = t /\ UNCHANGED <<file, synced, writeErr, settled>>
    BY <1>4 DEF Put, t
  <2> QED
    BY <1>1, <1>2, <1>3, <2>1, PrefixOfItself DEF Kept, Content
<1>5. CASE ~(Len(t) <= BufSize)
  <2>1. CASE /\ file' = file \o Upto(t, BufSize)
             /\ buf' = Beyond(t, BufSize)
             /\ UNCHANGED <<synced, writeErr, settled>>
    <3>1. BufSize \in 0 .. Len(t)
      BY <1>2, <1>5, OutputNumbers
    <3>2. Upto(t, BufSize) \in Seq(Piece) /\ buf' \in Seq(Piece)
      BY <1>2, <2>1, <3>1, CutOff, Rest DEF Prefix
    <3>3. Upto(t, BufSize) \o buf' = t
      BY <1>2, <2>1, <3>1, Rest
    <3>4. file' \in Seq(Piece) /\ Prefix(file, file')
      BY <1>1, <2>1, <3>2, PrefixOfMore, ConcatProperties
    <3>5. Content' = file \o t
      <4>1. Content' = (file \o Upto(t, BufSize)) \o buf'
        BY <2>1 DEF Content
      <4>2. Content' = file \o (Upto(t, BufSize) \o buf')
        BY <1>1, <3>2, <4>1, ConcatAssociative
      <4> QED
        BY <3>3, <4>2
    <3> QED
      BY <1>3, <2>1, <3>2, <3>4, <3>5 DEF Kept
  <2>2. CASE Breaks(t)
    BY <1>2, <1>3, <2>2, BrokenContent
  <2> QED
    BY <1>5, <2>1, <2>2 DEF Put, t
<1> QED
  BY <1>4, <1>5

\* A process ends with some of its buffer in the file, or of the file what was synced.
LEMMA EndedContent ==
    ASSUME OutputTypes, Close \/ Killed \/ PowerLost
    PROVE  /\ Ended(Len(file'))
           /\ Prefix(file', Content)
           /\ synced' \in synced .. Len(file')
<1>1. /\ file \in Seq(Piece) /\ buf \in Seq(Piece)
      /\ Len(file) \in Nat /\ Len(buf) \in Nat /\ synced \in 0 .. Len(file)
  BY DEF OutputTypes
<1>2. Content \in Seq(Piece) /\ Prefix(file, Content) /\ Len(Content) = Len(file) + Len(buf)
  BY <1>1, ContentType
<1>3. CASE Close
  <2>1. CASE /\ file' = file \o buf
             /\ synced' = Len(file') /\ Ended(Len(file'))
    <3>1. file' = Content
      BY <2>1 DEF Content
    <3>2. Prefix(file', Content) /\ Len(file') = Len(file) + Len(buf)
      BY <1>2, <3>1, PrefixOfItself
    <3>3. synced <= Len(file) + Len(buf)
      BY <1>1
    <3> QED
      BY <1>1, <2>1, <3>2, <3>3
  <2>2. ASSUME NEW k \in 0 .. Len(buf), file' = file \o Upto(buf, k),
               UNCHANGED synced, Ended(Len(file'))
        PROVE  /\ Ended(Len(file'))
               /\ Prefix(file', Content)
               /\ synced' \in synced .. Len(file')
    <3>1. Prefix(file', Content) /\ Len(file') = Len(file) + k
      BY <1>1, <2>2, PrefixBehind DEF Content
    <3> QED
      BY <1>1, <2>2, <3>1
  <2> QED
    BY <1>3, <2>1, <2>2 DEF Close
<1>4. CASE Killed
  BY <1>1, <1>2, <1>4 DEF Killed
<1>5. CASE PowerLost
  <2>1. PICK n \in synced .. Len(file) : file' = Upto(file, n) /\ synced' = n /\ Ended(n)
    BY <1>5 DEF PowerLost
  <2>2. n \in 0 .. Len(file)
    BY <1>1, <2>1
  <2>3. Prefix(file', file) /\ Len(file') = n
    BY <1>1, <2>1, <2>2, CutOff
  <2> QED
    BY <1>1, <1>2, <2>1, <2>3, PrefixTransitive
<1> QED
  BY <1>3, <1>4, <1>5

-----------------------------------------------------------------------------
(* The dedup map.                                                          *)

LEMMA MapEmpty ==
    ASSUME NEW s \in Seq(Piece), NEW w
    PROVE  MapExact(s, Len(s), {}, w)
<1>1. \A i, k : ~Begins(s, Len(s), i, k)
  BY DEF Begins
<1>2. Cardinality({}) = 0 /\ 0 <= MaxDedup
  BY FS_EmptySet, OutputNumbers
<1> QED
  BY <1>1, <1>2 DEF MapExact, WrittenOnce

LEMMA MapPrefix ==
    ASSUME NEW s, NEW t, Prefix(t, s), NEW n \in Nat, NEW R, NEW w, MapExact(s, n, R, w)
    PROVE  MapExact(t, n, R, FALSE)
<1>1. WrittenOnce(t, n, R)
  BY WrittenOncePrefix DEF MapExact
<1> QED
  BY <1>1, BeginsInPrefix DEF MapExact

LEMMA MapAdd ==
    ASSUME NEW s \in Seq(Piece), NEW n \in 0 .. Len(s), NEW R, MapExact(s, n, R, TRUE),
           NEW i \in Records \ R
    PROVE  MapExact(s \o Line(i), n,
                    IF Cardinality(R) < MaxDedup THEN R \cup {i} ELSE R, TRUE)
<1> DEFINE c == s \o Line(i)
           Q == IF Cardinality(R) < MaxDedup THEN R \cup {i} ELSE R
<1>1. R \in SUBSET Records /\ IsFiniteSet(R) /\ Cardinality(R) \in Nat /\ MaxDedup \in Nat
  BY OutputNumbers, FS_Subset, FS_CardinalityType DEF MapExact
<1>2. /\ Begins(c, n, i, Len(s) + 1) /\ Len(s) + 1 \in Nat
      /\ \A j, k : Begins(c, n, j, k) => Begins(s, n, j, k) \/ (j = i /\ k = Len(s) + 1)
  BY LineBegins
<1>3. Prefix(s, c) /\ Whole(c) = Whole(s) \cup {i}
  BY LineBehind, LineWhole
<1> HIDE DEF c
<1>4. \A j, k : Begins(s, n, j, k) => Begins(c, n, j, k)
  BY <1>3, BeginsInPrefix
<1>5. ASSUME Cardinality(R) < MaxDedup
      PROVE  MapExact(c, n, R \cup {i}, TRUE)
  <2>1. R \cup {i} \in SUBSET Records /\ Cardinality(R \cup {i}) <= MaxDedup
    <3>1. Cardinality(R \cup {i}) = Cardinality(R) + 1
      BY <1>1, FS_AddElement
    <3>2. Cardinality(R) + 1 <= MaxDedup
      BY <1>1, <1>5
    <3> QED
      BY <1>1, <3>1, <3>2
  <2>2. \A k \in Nat : ~Begins(s, n, i, k)
    <3>1. Cardinality(R) # MaxDedup
      BY <1>1, <1>5
    <3> QED
      BY <3>1 DEF MapExact
  <2>3. WrittenOnce(c, n, R \cup {i})
    <3> SUFFICES ASSUME NEW j \in R \cup {i}, NEW k \in Nat, NEW l \in Nat,
                        Begins(c, n, j, k), Begins(c, n, j, l)
                 PROVE  k = l
      BY DEF WrittenOnce
    <3>1. CASE j = i
      BY <1>2, <2>2, <3>1
    <3>2. CASE j # i
      <4>1. j \in R /\ Begins(s, n, j, k) /\ Begins(s, n, j, l)
        BY <1>2, <3>2
      <4> QED
        BY <4>1 DEF MapExact, WrittenOnce
    <3> QED
      BY <3>1, <3>2
  <2>4. \A j \in R \cup {i} : j \in Whole(c) /\ \E k \in Nat : Begins(c, n, j, k)
    BY <1>2, <1>3, <1>4 DEF MapExact
  <2>5. ASSUME NEW j \in Records \ (R \cup {i}), NEW k \in Nat, Begins(c, n, j, k)
        PROVE  FALSE
    <3>1. Begins(s, n, j, k) /\ j \in Records \ R
      BY <1>2, <2>5
    <3>2. Cardinality(R) = MaxDedup
      BY <3>1 DEF MapExact
    <3> QED
      BY <1>1, <1>5, <3>2
  <2> QED
    BY <2>1, <2>3, <2>4, <2>5 DEF MapExact
<1>6. ASSUME ~(Cardinality(R) < MaxDedup)
      PROVE  MapExact(c, n, R, TRUE)
  <2>1. Cardinality(R) = MaxDedup
    BY <1>1, <1>6 DEF MapExact
  <2>2. WrittenOnce(c, n, R)
    <3> SUFFICES ASSUME NEW j \in R, NEW k \in Nat, NEW l \in Nat,
                        Begins(c, n, j, k), Begins(c, n, j, l)
                 PROVE  k = l
      BY DEF WrittenOnce
    <3>1. Begins(s, n, j, k) /\ Begins(s, n, j, l)
      BY <1>2
    <3> QED
      BY <3>1 DEF MapExact, WrittenOnce
  <2>3. \A j \in R : j \in Whole(c) /\ \E k \in Nat : Begins(c, n, j, k)
    BY <1>3, <1>4 DEF MapExact
  <2> QED
    BY <1>1, <2>1, <2>2, <2>3 DEF MapExact
<1>7. MapExact(c, n, Q, TRUE)
  BY <1>5, <1>6
<1> QED
  BY <1>7 DEF c

-----------------------------------------------------------------------------
(* Every operation of the writer keeps the invariant.                      *)

LEMMA OutputInitial == OutputInit => OutputInv
<1> SUFFICES ASSUME OutputInit PROVE OutputInv
  OBVIOUS
<1>1. OutputTypes /\ NothingHeld
  <2>1. file = <<>> /\ buf = <<>> /\ <<>> \in Seq(Piece) /\ Len(<<>>) = 0
    BY DEF OutputInit
  <2>2. settled \in 0 .. Len(file) /\ opened \in 0 .. settled /\ synced \in 0 .. settled
    BY <2>1 DEF OutputInit
  <2>3. alive \in BOOLEAN /\ writeErr \in BOOLEAN /\ seen \in SUBSET Records
    BY DEF OutputInit
  <2>4. NothingHeld
    BY <2>1 DEF OutputInit, NothingHeld
  <2> QED
    BY <2>1, <2>2, <2>3, <2>4 DEF OutputTypes
<1>2. Content = <<>> /\ Content \in Seq(Piece) /\ Len(Content) = 0
  BY DEF OutputInit, Content
<1>3. MapExact(Content, opened, seen, ~writeErr)
  <2>1. opened = Len(Content) /\ seen = {}
    BY <1>2 DEF OutputInit
  <2> QED
    BY <1>2, <2>1, MapEmpty
<1>4. Neat(Content, seams) /\ StartsAfter(Content, settled) /\ EndsAfter(Content, opened)
  BY <1>2 DEF Neat, StartsAfter, EndsAfter, OutputInit
<1> QED
  BY <1>1, <1>3, <1>4 DEF OutputInv

\* After a failure, it is enough that what was to be written fits.
LEMMA BrokenKeeps ==
    ASSUME OutputInv, alive, UNCHANGED <<alive, opened, seams>>,
           NEW s, Broken(s), Neat(s, seams), NEW w, MapExact(s, opened, seen', w)
    PROVE  OutputInv'
<1>1. /\ file' \in Seq(Piece) /\ Len(file) <= Len(file')
      /\ Prefix(file', s) /\ settled' = Len(file') /\ buf' = <<>> /\ writeErr' = TRUE
      /\ synced' = synced
  BY DEF Broken, Prefix
<1>2. Content' = file' /\ opened \in Nat
  BY <1>1, NoBuffer DEF Content, OutputInv, OutputTypes
<1>3. seen' \in SUBSET Records
  BY DEF MapExact
<1>4. OutputTypes'
  <2>1. opened \in 0 .. Len(file) /\ synced \in 0 .. Len(file) /\ Len(file) \in Nat
    BY DEF OutputInv, OutputTypes
  <2>2. opened' \in 0 .. settled' /\ synced' \in 0 .. settled' /\ settled' \in 0 .. Len(file')
    BY <1>1, <2>1
  <2>3. buf' \in Seq(Piece) /\ alive' \in BOOLEAN /\ writeErr' \in BOOLEAN
    BY <1>1 DEF OutputInv, OutputTypes
  <2> QED
    BY <1>1, <1>3, <2>2, <2>3 DEF OutputTypes
<1>5. NothingHeld'
  BY <1>1 DEF NothingHeld, OutputInv
<1>6. Neat(file', seams)
  BY <1>1, NeatPrefix
<1>7. StartsAfter(file', settled')
  BY <1>1 DEF StartsAfter
<1>8. MapExact(file', opened, seen', FALSE)
  BY <1>1, <1>2, MapPrefix
<1> QED
  BY <1>1, <1>2, <1>4, <1>5, <1>6, <1>7, <1>8 DEF OutputInv

LEMMA WriteKeeps == ASSUME OutputInv, NEW i \in Records, WriteResult(i) PROVE OutputInv'
<1>1. CASE writeErr \/ i \in seen
  BY <1>1 DEF WriteResult, OutputInv, OutputTypes, NothingHeld, Content
<1>2. CASE ~(writeErr \/ i \in seen)
  <2> DEFINE c == Content \o Line(i)
  <2>1. /\ alive /\ UNCHANGED <<alive, opened, seams>>
        /\ seen' = Remember(i) /\ Put(buf \o Line(i))
    BY <1>2 DEF WriteResult
  <2>2. /\ Content \in Seq(Piece) /\ Len(Content) \in Nat
        /\ opened \in 0 .. Len(Content) /\ settled \in 0 .. Len(Content)
        /\ opened \in seams \cup {0}
    <3>1. /\ file \in Seq(Piece) /\ buf \in Seq(Piece)
          /\ opened \in 0 .. Len(file) /\ settled \in 0 .. Len(file)
      BY DEF OutputInv, OutputTypes
    <3>2. Content \in Seq(Piece) /\ Len(file) <= Len(Content)
      BY <3>1, ContentType DEF Prefix
    <3> QED
      BY <3>1, <3>2 DEF OutputInv, NothingHeld
  <2>3. Neat(c, seams)
    BY <1>2, <2>2, NeatLine DEF OutputInv
  <2>4. StartsAfter(c, settled) /\ EndsAfter(c, opened)
    BY <2>2, LineStartsAndEnds DEF OutputInv
  <2>5. MapExact(c, opened, seen', TRUE)
    <3>1. MapExact(Content, opened, seen, TRUE) /\ i \in Records \ seen
      BY <1>2 DEF OutputInv
    <3>2. seen' = IF Cardinality(seen) < MaxDedup THEN seen \cup {i} ELSE seen
      BY <2>1 DEF Remember
    <3> QED
      BY <2>2, <3>1, <3>2, MapAdd
  <2>6. Kept(c) \/ Broken(c)
    BY <2>1, PutContent DEF OutputInv
  <2> HIDE DEF c
  <2>7. CASE Broken(c)
    BY <2>1, <2>3, <2>5, <2>7, BrokenKeeps
  <2>8. CASE Kept(c)
    <3>1. OutputTypes'
      <4>1. /\ Len(file) <= Len(file')
            /\ file' \in Seq(Piece) /\ buf' \in Seq(Piece)
            /\ UNCHANGED <<synced, settled, writeErr>>
        BY <2>8 DEF Kept, Prefix
      <4>2. seen' \in SUBSET Records
        BY <2>5 DEF MapExact
      <4> QED
        BY <2>1, <4>1, <4>2 DEF OutputInv, OutputTypes
    <3>2. NothingHeld'
      BY <1>2, <2>1, <2>8 DEF Kept, NothingHeld, OutputInv
    <3> QED
      BY <1>2, <2>1, <2>3, <2>4, <2>5, <2>8, <3>1, <3>2 DEF Kept, OutputInv
  <2> QED
    BY <2>6, <2>7, <2>8
<1> QED
  BY <1>1, <1>2

LEMMA FlushKeeps == ASSUME OutputInv, Flush PROVE OutputInv'
<1>1. /\ alive /\ UNCHANGED <<alive, seen, opened, seams>>
      /\ file \in Seq(Piece) /\ buf \in Seq(Piece)
  BY DEF Flush, OutputInv, OutputTypes
<1>2. CASE writeErr
  BY <1>2 DEF Flush, OutputInv, OutputTypes, NothingHeld, Content
<1>3. CASE ~writeErr /\ Breaks(buf)
  <2>1. Broken(Content)
    BY <1>1, <1>3, BrokenContent DEF Content, OutputInv
  <2> QED
    BY <1>1, <2>1, BrokenKeeps DEF OutputInv
<1>4. CASE /\ ~writeErr
           /\ file' = file \o buf
           /\ synced' = Len(file') /\ settled' = Len(file')
           /\ buf' = <<>>
           /\ UNCHANGED writeErr
  <2>1. /\ file' = Content /\ Content \in Seq(Piece) /\ Len(file) <= Len(Content)
    BY <1>1, <1>4, ContentType DEF Content
  <2>2. Content' = Content
    BY <1>4, <2>1, NoBuffer DEF Content
  <2>3. OutputTypes'
    <3>1. opened \in 0 .. Len(file)
      BY DEF OutputInv, OutputTypes
    <3>2. opened' \in 0 .. settled' /\ settled' \in 0 .. Len(file') /\ synced' \in 0 .. settled'
      BY <1>1, <1>4, <2>1, <3>1
    <3>3. /\ buf' \in Seq(Piece) /\ alive' \in BOOLEAN /\ writeErr' \in BOOLEAN
          /\ seen' \in SUBSET Records
      BY <1>1, <1>4 DEF OutputInv, OutputTypes
    <3> QED
      BY <2>1, <3>2, <3>3 DEF OutputTypes
  <2>4. NothingHeld'
    BY <1>1, <1>4 DEF OutputInv, NothingHeld
  <2>5. StartsAfter(Content', settled')
    BY <1>4, <2>1, <2>2 DEF StartsAfter
  <2> QED
    BY <1>1, <1>4, <2>2, <2>3, <2>4, <2>5 DEF OutputInv
<1> QED
  BY <1>2, <1>3, <1>4 DEF Flush

LEMMA OpenKeeps == ASSUME OutputInv, Open PROVE OutputInv'
<1>1. /\ ~alive /\ alive' /\ buf' = <<>> /\ seen' = {} /\ writeErr' = FALSE
      /\ settled' = Len(file) /\ opened' = Len(file)
      /\ UNCHANGED <<file, synced, seams>>
      /\ file \in Seq(Piece) /\ alive' \in BOOLEAN
  BY DEF Open, OutputInv, OutputTypes
<1>2. buf = <<>> /\ opened = Len(file) /\ Content = file /\ Content' = file
  <2>1. buf = <<>> /\ opened = Len(file)
    BY <1>1 DEF OutputInv, NothingHeld
  <2>2. file \o <<>> = file
    BY <1>1, NoBuffer
  <2> QED
    BY <1>1, <2>1, <2>2 DEF Content
<1>3. OutputTypes'
  <2>1. synced \in 0 .. Len(file) /\ Len(file) \in Nat
    BY DEF OutputInv, OutputTypes
  <2>2. settled' \in 0 .. Len(file') /\ opened' \in 0 .. settled' /\ synced' \in 0 .. settled'
    BY <1>1, <2>1
  <2>3. buf' \in Seq(Piece) /\ seen' \in SUBSET Records
    BY <1>1
  <2>4. writeErr' \in BOOLEAN
    BY <1>1
  <2> QED
    BY <1>1, <2>2, <2>3, <2>4 DEF OutputTypes
<1>4. NothingHeld'
  BY <1>1, <1>2 DEF OutputInv, NothingHeld
<1>5. StartsAfter(file, Len(file)) /\ EndsAfter(file, Len(file))
  BY <1>1 DEF StartsAfter, EndsAfter
<1>6. MapExact(file, Len(file), {}, TRUE)
  BY <1>1, MapEmpty
<1> QED
  BY <1>1, <1>2, <1>3, <1>4, <1>5, <1>6 DEF OutputInv

LEMMA EndKeeps == ASSUME OutputInv, Close \/ Killed \/ PowerLost PROVE OutputInv'
<1> DEFINE n == Len(file')
<1>1. Ended(n) /\ Prefix(file', Content) /\ synced' \in synced .. n
  BY EndedContent DEF OutputInv
<1>2. /\ alive' = FALSE /\ buf' = <<>> /\ seen' = {} /\ writeErr' = FALSE
      /\ settled' = n /\ opened' = n /\ seams' = (seams \cap 0 .. n) \cup {n}
      /\ file' \in Seq(Piece) /\ n \in Nat
  BY <1>1 DEF Ended, Prefix
<1>3. Content' = file'
  BY <1>2, NoBuffer DEF Content
<1>4. OutputTypes'
  <2>1. synced \in Nat
    BY DEF OutputInv, OutputTypes
  <2>2. synced' \in 0 .. n
    BY <1>1, <1>2, <2>1
  <2>3. buf' \in Seq(Piece) /\ seen' \in SUBSET Records
    BY <1>2
  <2>4. alive' \in BOOLEAN /\ writeErr' \in BOOLEAN
    BY <1>2
  <2>5. settled' \in 0 .. n /\ opened' \in 0 .. settled' /\ synced' \in 0 .. settled'
    BY <1>2, <2>2
  <2> QED
    BY <1>2, <2>3, <2>4, <2>5 DEF OutputTypes
<1>5. NothingHeld'
  BY <1>2 DEF NothingHeld
<1>6. Neat(file', seams')
  <2>1. \A k \in 1 .. (n - 1) : k \in seams => k \in seams'
    BY <1>2
  <2> QED
    BY <1>1, <2>1, NeatPrefix DEF OutputInv
<1>7. StartsAfter(file', n) /\ EndsAfter(file', n)
  BY <1>2 DEF StartsAfter, EndsAfter
<1>8. MapExact(file', n, {}, TRUE)
  BY <1>2, MapEmpty
<1> HIDE DEF n
<1> QED
  BY <1>2, <1>3, <1>4, <1>5, <1>6, <1>7, <1>8 DEF OutputInv

-----------------------------------------------------------------------------
(* The steps of Checkpoint, as far as the output file is concerned.        *)

Durable == Whole(Upto(file, synced))

OutputStep == \/ Open \/ Flush
              \/ \E i \in Records : WriteResult(i)
              \/ Close \/ Killed \/ PowerLost
              \/ UNCHANGED outputVars

LEMMA StepOfOutput == [Next]_vars => OutputStep
BY DEF Next, vars, OutputStep, Start, FetchFails, FlushBatch, Give, CreateTemp, WriteTemp,
       SyncTemp, SaveFails, Rename, Stop, Crash, PowerLoss

LEMMA OutputKept == ASSUME OutputInv, OutputStep PROVE OutputInv'
<1>1. CASE UNCHANGED outputVars
  BY <1>1 DEF outputVars, OutputInv, OutputTypes, NothingHeld, Content
<1> QED
  BY <1>1, OpenKeeps, FlushKeeps, WriteKeeps, EndKeeps DEF OutputStep

\* A write that does not fail leaves its record whole.
LEMMA WriteOutcome ==
    ASSUME OutputInv, NEW i \in Records, WriteResult(i)
    PROVE  /\ Prefix(file, file') /\ synced' = synced
           /\ \/ writeErr'
              \/ ~writeErr /\ Whole(Content') = Whole(Content) \cup {i}
<1>1. file \in Seq(Piece) /\ Content \in Seq(Piece)
  BY ContentType DEF OutputInv, OutputTypes
<1>2. CASE writeErr \/ i \in seen
  <2>1. UNCHANGED <<file, synced, buf, seen, writeErr, settled>>
    BY <1>2 DEF WriteResult
  <2>2. Content' = Content
    BY <2>1 DEF Content
  <2>3. ~writeErr => i \in Whole(Content)
    BY <1>2 DEF OutputInv, MapExact
  <2> QED
    BY <1>1, <2>1, <2>2, <2>3, PrefixOfItself
<1>3. CASE ~(writeErr \/ i \in seen)
  <2>1. Kept(Content \o Line(i)) \/ Broken(Content \o Line(i))
    BY <1>3, PutContent DEF WriteResult, OutputInv
  <2> QED
    BY <1>1, <1>3, <2>1, LineWhole DEF Kept, Broken
<1> QED
  BY <1>2, <1>3

\* After a flush without an error, everything that was written is durable.
LEMMA FlushOutcome ==
    ASSUME OutputInv, Flush
    PROVE  /\ Prefix(file, file') /\ synced' \in synced .. Len(file')
           /\ \/ writeErr' /\ synced' = synced
              \/ /\ ~writeErr /\ ~writeErr'
                 /\ file' = Content /\ buf' = <<>>
                 /\ settled' = Len(file') /\ synced' = Len(file')
<1>1. /\ file \in Seq(Piece) /\ buf \in Seq(Piece) /\ Len(file) \in Nat
      /\ synced \in 0 .. Len(file)
  BY DEF OutputInv, OutputTypes
<1>2. CASE writeErr
  BY <1>1, <1>2, PrefixOfItself DEF Flush
<1>3. CASE ~writeErr /\ Breaks(buf)
  <2>1. Broken(Content)
    BY <1>1, <1>3, BrokenContent DEF Content, OutputInv
  <2> QED
    BY <1>1, <2>1 DEF Broken, Prefix
<1>4. CASE /\ ~writeErr
           /\ file' = file \o buf
           /\ synced' = Len(file') /\ settled' = Len(file')
           /\ buf' = <<>>
           /\ UNCHANGED writeErr
  <2>1. file' = Content /\ Prefix(file, Content)
    BY <1>1, <1>4, ContentType DEF Content
  <2> QED
    BY <1>1, <1>4, <2>1 DEF Prefix
<1> QED
  BY <1>2, <1>3, <1>4 DEF Flush

\* Nothing takes what is durable away.
LEMMA DurableStays == ASSUME OutputInv, OutputStep PROVE Durable \subseteq Durable'
<1>1. /\ file \in Seq(Piece) /\ Prefix(file, Content) /\ synced \in 0 .. Len(file)
      /\ Len(file) \in Nat
  BY ContentType DEF OutputInv, OutputTypes
<1>2. ASSUME NEW u, Prefix(file, u), Prefix(file', u), synced' \in synced .. Len(file')
      PROVE  Durable \subseteq Durable'
  BY <1>1, <1>2, WholeOfUpto DEF Durable
<1>3. ASSUME Prefix(file, file'), synced' \in synced .. Len(file')
      PROVE  Durable \subseteq Durable'
  <2>1. Prefix(file', file')
    BY <1>3, PrefixOfItself DEF Prefix
  <2> QED
    BY <1>2, <1>3, <2>1
<1>4. ASSUME Prefix(file, file'), synced' = synced PROVE synced' \in synced .. Len(file')
  BY <1>1, <1>4 DEF Prefix
<1>5. CASE UNCHANGED <<file, synced>>
  BY <1>5 DEF Durable
<1>6. CASE \E i \in Records : WriteResult(i)
  BY <1>3, <1>4, <1>6, WriteOutcome
<1>7. CASE Flush
  BY <1>3, <1>7, FlushOutcome
<1>8. CASE Close \/ Killed \/ PowerLost
  <2>1. Prefix(file', Content) /\ synced' \in synced .. Len(file')
    BY <1>8, EndedContent DEF OutputInv
  <2> QED
    BY <1>1, <1>2, <2>1
<1> QED
  BY <1>5, <1>6, <1>7, <1>8 DEF OutputStep, Open, outputVars

-----------------------------------------------------------------------------
(* The state file.                                                         *)

ProgressTypes == /\ pos \in Nat /\ given \in SUBSET Records
                 /\ at \in {"write", "flushed", "save"}
                 /\ state.seen \in Versions(state)
                 /\ Versions(state) \subseteq Records \cup {None}

\* What the state file claims is durable, and so is where the process is.
ClaimsDurable == /\ \A v \in Versions(state) \ {None} : 1 .. v \subseteq Durable
                 /\ 1 .. pos \subseteq Durable

\* What the process is about to claim.
GivenWritten == /\ at = "write" /\ ~writeErr => given \subseteq Whole(Content)
                /\ at # "write" => given \subseteq Durable

ProgressInv == ProgressTypes /\ ClaimsDurable /\ GivenWritten

LEMMA ProgressInitial == Init => ProgressInv
<1> SUFFICES ASSUME Init PROVE ProgressInv
  OBVIOUS
<1>1. Versions(state) = {None} /\ state.seen = None
  BY DEF Init, NewState, Versions
<1>2. 1 .. 0 = {}
  OBVIOUS
<1> QED
  BY <1>1, <1>2 DEF Init, ProgressInv, ProgressTypes, ClaimsDurable, GivenWritten

\* The claims stay true while the state file is not touched.
LEMMA ClaimsStay ==
    ASSUME OutputInv, ClaimsDurable, OutputStep,
           UNCHANGED state, pos' = pos \/ pos' = 0
    PROVE  ClaimsDurable'
<1>1. Durable \subseteq Durable'
  BY DurableStays
<1>2. 1 .. 0 = {} /\ Versions(state') = Versions(state)
  OBVIOUS
<1> QED
  BY <1>1, <1>2 DEF ClaimsDurable

LEMMA StartSafe == ASSUME OutputInv, ProgressInv, Start PROVE ProgressInv'
<1>1. OutputStep /\ UNCHANGED <<file, synced, state>> /\ given' = {} /\ at' = "write"
  BY DEF Start, Open, OutputStep
<1>2. pos' = IF state.seen = None THEN 0 ELSE state.seen
  BY DEF Start
<1>3. state.seen \in Versions(state) /\ Versions(state) \subseteq Records \cup {None}
  BY DEF ProgressInv, ProgressTypes
<1>4. Durable' = Durable /\ Versions(state') = Versions(state)
  BY <1>1 DEF Durable
<1>5. pos' \in Nat
  BY <1>2, <1>3, CheckpointConstants
<1>6. 1 .. pos' \subseteq Durable
  <2>1. CASE state.seen = None
    <3>1. 1 .. 0 = {}
      OBVIOUS
    <3> QED
      BY <1>2, <2>1, <3>1
  <2>2. CASE state.seen # None
    BY <1>2, <1>3, <2>2 DEF ProgressInv, ClaimsDurable
  <2> QED
    BY <2>1, <2>2
<1> QED
  BY <1>1, <1>3, <1>4, <1>5, <1>6
  DEF ProgressInv, ProgressTypes, ClaimsDurable, GivenWritten

LEMMA GiveSafe == ASSUME OutputInv, ProgressInv, NEW i \in Records, Give(i) PROVE ProgressInv'
<1>1. /\ WriteResult(i) /\ OutputStep /\ at = "write"
      /\ given' = given \cup {i} /\ UNCHANGED <<pos, at, state>>
  BY DEF Give, At, OutputStep
<1>2. ProgressTypes'
  BY <1>1 DEF ProgressInv, ProgressTypes
<1>3. ClaimsDurable'
  BY <1>1, ClaimsStay DEF ProgressInv
<1>4. writeErr' \/ (~writeErr /\ Whole(Content') = Whole(Content) \cup {i})
  BY <1>1, WriteOutcome
<1> QED
  BY <1>1, <1>2, <1>3, <1>4 DEF ProgressInv, GivenWritten

LEMMA FlushSafe == ASSUME OutputInv, ProgressInv, FlushBatch PROVE ProgressInv'
<1>1. /\ Flush /\ OutputStep /\ at = "write" /\ UNCHANGED <<pos, state>>
      /\ IF writeErr' THEN given' = {} /\ at' = "write"
                      ELSE at' = "flushed" /\ given' = given
  BY DEF FlushBatch, At, OutputStep, Retry
<1>2. ProgressTypes'
  BY <1>1 DEF ProgressInv, ProgressTypes
<1>3. ClaimsDurable'
  BY <1>1, ClaimsStay DEF ProgressInv
<1>4. ASSUME ~writeErr' PROVE given \subseteq Durable'
  <2>1. ~writeErr /\ file' = Content /\ synced' = Len(file')
    BY <1>1, <1>4, FlushOutcome
  <2>2. Content \in Seq(Piece)
    BY ContentType DEF OutputInv, OutputTypes
  <2>3. Upto(file', synced') = Content
    BY <2>1, <2>2, SubSeqFull DEF Upto
  <2> QED
    BY <1>1, <2>1, <2>3 DEF Durable, ProgressInv, GivenWritten
<1> QED
  BY <1>1, <1>2, <1>3, <1>4 DEF ProgressInv, GivenWritten

\* A new state claims what the old one did and the contiguous part of the batch.
LEMMA ReachedDurable ==
    ASSUME ProgressInv, at = "save", NEW n \in Records, Reached(n)
    PROVE  1 .. n \subseteq Durable
<1>1. n \in Nat /\ pos \in Nat
  BY CheckpointConstants DEF ProgressInv, ProgressTypes
<1>2. 1 .. n \subseteq (1 .. pos) \cup ((pos + 1) .. n)
  BY <1>1
<1> QED
  BY <1>2 DEF Reached, ProgressInv, GivenWritten, ClaimsDurable

LEMMA SaveSafe ==
    ASSUME OutputInv, ProgressInv, UNCHANGED outputVars, at = "save",
           Retry, pos' \in Nat, 1 .. pos' \subseteq Durable,
           \/ UNCHANGED state
           \/ temp = "synced" /\ \E n \in Records : Reached(n) /\ state' = Renamed(n)
    PROVE  ProgressInv'
<1>1. Durable' = Durable /\ given' = {} /\ at' = "write"
  BY DEF Durable, outputVars, Retry
<1>2. GivenWritten'
  BY <1>1 DEF GivenWritten
<1>3. CASE UNCHANGED state
  BY <1>1, <1>2, <1>3 DEF ProgressInv, ProgressTypes, ClaimsDurable
<1>4. CASE temp = "synced" /\ \E n \in Records : Reached(n) /\ state' = Renamed(n)
  <2>1. PICK n \in Records : Reached(n) /\ state' = Replaced(state, n)
    BY <1>4 DEF Renamed
  <2>2. Versions(state') = Versions(state) \cup {n} /\ state'.seen = n
    BY <2>1, ReplacedState
  <2>3. 1 .. n \subseteq Durable
    BY <2>1, ReachedDurable
  <2> QED
    BY <1>1, <1>2, <2>2, <2>3 DEF ProgressInv, ProgressTypes, ClaimsDurable
<1> QED
  BY <1>3, <1>4

LEMMA GoneSafe ==
    ASSUME OutputInv, ProgressInv, OutputStep, Gone,
           state' \in StateAfterPowerLoss(state) \cup {state}
    PROVE  ProgressInv'
<1>1. pos' = 0 /\ given' = {} /\ at' = "write"
  BY DEF Gone
<1>2. Versions(state') \subseteq Versions(state) /\ state'.seen \in Versions(state')
  BY StateLost DEF ProgressInv, ProgressTypes, StateAfterPowerLoss, Versions
<1>3. Durable \subseteq Durable' /\ 1 .. 0 = {}
  BY DurableStays
<1> QED
  BY <1>1, <1>2, <1>3 DEF ProgressInv, ProgressTypes, ClaimsDurable, GivenWritten

LEMMA ProgressKept == ASSUME OutputInv, ProgressInv, [Next]_vars PROVE ProgressInv'
<1>1. OutputStep
  BY StepOfOutput
<1>2. CASE Start  BY <1>2, StartSafe
<1>3. CASE \E i \in Records : Give(i)  BY <1>3, GiveSafe
<1>4. CASE FlushBatch  BY <1>4, FlushSafe
<1>5. CASE FetchFails \/ CreateTemp \/ WriteTemp \/ SyncTemp \/ UNCHANGED vars
  <2>1. UNCHANGED <<outputVars, pos, state>>
    BY <1>5 DEF FetchFails, CreateTemp, WriteTemp, SyncTemp, vars
  <2>2. Durable' = Durable /\ Content' = Content /\ writeErr' = writeErr
    BY <2>1 DEF outputVars, Durable, Content
  <2>3. /\ at' \in {"write", "flushed", "save"}
        /\ \/ given' = {}
           \/ given' = given /\ (at' = "write" <=> at = "write")
    BY <1>5 DEF FetchFails, CreateTemp, WriteTemp, SyncTemp, vars, At, Retry,
                ProgressInv, ProgressTypes
  <2> QED
    BY <2>1, <2>2, <2>3 DEF ProgressInv, ProgressTypes, ClaimsDurable, GivenWritten
<1>6. CASE SaveFails
  <2>1. pos' \in Nat /\ 1 .. pos' \subseteq Durable
    BY <1>6 DEF SaveFails, ProgressInv, ProgressTypes, ClaimsDurable
  <2> QED
    BY <1>6, <2>1, SaveSafe DEF SaveFails, At
<1>7. ASSUME NEW n \in Records, Rename(n) PROVE ProgressInv'
  <2>1. /\ at = "save" /\ temp = "synced" /\ Reached(n) /\ state' = Renamed(n)
        /\ pos' = n /\ Retry /\ UNCHANGED outputVars
    BY <1>7 DEF Rename, At
  <2>2. pos' \in Nat /\ 1 .. pos' \subseteq Durable
    BY <2>1, ReachedDurable, CheckpointConstants
  <2> QED
    BY <2>1, <2>2, SaveSafe
<1>8. CASE Stop \/ Crash \/ PowerLoss
  BY <1>1, <1>8, GoneSafe DEF Stop, Crash, PowerLoss
<1> QED
  BY <1>2, <1>3, <1>4, <1>5, <1>6, <1>7, <1>8 DEF Next

-----------------------------------------------------------------------------
(* The theorems.                                                           *)

LEMMA CheckpointInvariant == Spec => [](OutputInv /\ ProgressInv)
<1>1. Init => OutputInv /\ ProgressInv
  BY OutputInitial, ProgressInitial DEF Init
<1>2. OutputInv /\ ProgressInv /\ [Next]_vars => (OutputInv /\ ProgressInv)'
  BY StepOfOutput, OutputKept, ProgressKept
<1> QED
  BY <1>1, <1>2, PTL DEF Spec

\* Whatever a crash or a power loss leaves, the state file can be read and claims only
\* records that are whole in the durable part of the output.
THEOREM CheckpointStateBehindOutput == Spec => []StateBehindOutput
<1>1. ProgressInv => StateBehindOutput
  BY CheckpointConstants DEF ProgressInv, ProgressTypes, ClaimsDurable, StateBehindOutput, Durable
<1> QED
  BY <1>1, CheckpointInvariant, PTL

\* Lines are cut off or run together only where a process ended.
THEOREM CheckpointDamageOnlyAtSeams == Spec => []DamageOnlyAtSeams
<1>1. OutputInv => DamageOnlyAtSeams
  <2> SUFFICES ASSUME OutputInv PROVE Neat(file, seams)
    BY DEF DamageOnlyAtSeams, Neat
  <2>1. Prefix(file, Content)
    BY ContentType DEF OutputInv, OutputTypes
  <2> QED
    BY <2>1, NeatPrefix DEF OutputInv
<1> QED
  BY <1>1, CheckpointInvariant, PTL

-----------------------------------------------------------------------------
(* What is written behind a position.                                      *)

LEMMA BeyondConcat ==
    ASSUME NEW s \in Seq(Piece), NEW t \in Seq(Piece), NEW n \in 0 .. Len(s)
    PROVE  Beyond(s, n) \o t = Beyond(s \o t, n)
<1> DEFINE u == s \o t
           b == Beyond(s, n)
<1>1. u \in Seq(Piece) /\ Len(u) = Len(s) + Len(t)
      /\ \A k \in 1 .. Len(s) + Len(t) : u[k] = IF k <= Len(s) THEN s[k] ELSE t[k - Len(s)]
  BY ConcatProperties
<1>2. b \in Seq(Piece) /\ Len(b) = Len(s) - n /\ \A k \in 1 .. (Len(s) - n) : b[k] = s[n + k]
  BY Rest
<1> HIDE DEF u, b
<1>3. Len(s) \in Nat /\ Len(t) \in Nat /\ n \in 0 .. Len(u) /\ n \in Nat /\ n <= Len(s)
  BY <1>1
<1>4. /\ Beyond(u, n) \in Seq(Piece) /\ Len(Beyond(u, n)) = Len(s) + Len(t) - n
      /\ \A k \in 1 .. (Len(s) + Len(t) - n) : Beyond(u, n)[k] = u[n + k]
  <2>1. /\ Beyond(u, n) \in Seq(Piece) /\ Len(Beyond(u, n)) = Len(u) - n
        /\ \A k \in 1 .. (Len(u) - n) : Beyond(u, n)[k] = u[n + k]
    BY <1>1, <1>3, Rest
  <2>2. Len(u) - n = Len(s) + Len(t) - n
    BY <1>1, <1>3
  <2> QED
    BY <2>1, <2>2
<1>5. /\ b \o t \in Seq(Piece) /\ Len(b \o t) = Len(s) - n + Len(t)
      /\ \A k \in 1 .. (Len(s) - n + Len(t)) :
            (b \o t)[k] = IF k <= Len(s) - n THEN b[k] ELSE t[k - (Len(s) - n)]
  <2>1. /\ b \o t \in Seq(Piece) /\ Len(b \o t) = Len(b) + Len(t)
        /\ \A k \in 1 .. Len(b) + Len(t) :
              (b \o t)[k] = IF k <= Len(b) THEN b[k] ELSE t[k - Len(b)]
    BY <1>2, ConcatProperties
  <2> QED
    BY <1>2, <2>1
<1>6. ASSUME NEW k \in 1 .. (Len(s) + Len(t) - n) PROVE (b \o t)[k] = Beyond(u, n)[k]
  <2>1. k \in Nat /\ n + k \in 1 .. Len(s) + Len(t) /\ k \in 1 .. (Len(s) - n + Len(t))
    BY <1>3
  <2>2. Beyond(u, n)[k] = IF n + k <= Len(s) THEN s[n + k] ELSE t[n + k - Len(s)]
    BY <1>1, <1>4, <2>1
  <2>3. CASE n + k <= Len(s)
    <3>1. k <= Len(s) - n /\ k \in 1 .. (Len(s) - n)
      BY <1>3, <2>1, <2>3
    <3> QED
      BY <1>2, <1>5, <2>1, <2>2, <2>3, <3>1
  <2>4. CASE ~(n + k <= Len(s))
    <3>1. ~(k <= Len(s) - n) /\ k - (Len(s) - n) = n + k - Len(s)
      BY <1>3, <2>1, <2>4
    <3> QED
      BY <1>5, <2>1, <2>2, <2>4, <3>1
  <2> QED
    BY <2>3, <2>4
<1>7. Len(b \o t) = Len(Beyond(u, n)) /\ Len(b \o t) = Len(s) + Len(t) - n
  BY <1>3, <1>4, <1>5
<1>8. b \o t = Beyond(u, n)
  BY <1>4, <1>5, <1>6, <1>7, SeqEqual
<1> QED
  BY <1>8 DEF u, b

\* The pieces of what the process has written, by their places in the content.
LEMMA BeginsBeyond ==
    ASSUME NEW s \in Seq(Piece), NEW n \in 0 .. Len(s), NEW i
    PROVE  /\ DOMAIN Beyond(s, n) = 1 .. (Len(s) - n)
           /\ \A k \in DOMAIN Beyond(s, n) :
                 Beyond(s, n)[k] = <<i, 1>> <=> Begins(s, n, i, n + k)
           /\ \A k : Begins(s, n, i, k) => k - n \in DOMAIN Beyond(s, n) /\ n + (k - n) = k
<1>1. /\ Beyond(s, n) \in Seq(Piece) /\ Len(Beyond(s, n)) = Len(s) - n
      /\ \A k \in 1 .. (Len(s) - n) : Beyond(s, n)[k] = s[n + k]
  BY Rest
<1>2. DOMAIN Beyond(s, n) = 1 .. (Len(s) - n)
  BY <1>1
<1>3. Len(s) \in Nat /\ n \in Nat
  OBVIOUS
<1>4. \A k \in 1 .. (Len(s) - n) : n + k \in (n + 1) .. Len(s)
  BY <1>3
<1>5. \A k \in (n + 1) .. Len(s) : k - n \in 1 .. (Len(s) - n) /\ n + (k - n) = k
  BY <1>3
<1> QED
  BY <1>1, <1>2, <1>4, <1>5 DEF Begins

\* Where no line crosses n, the records are whole on one side or on the other.
LEMMA WholeSplit ==
    ASSUME NEW s \in Seq(Piece), NEW n \in 0 .. Len(s), StartsAfter(s, n)
    PROVE  Whole(s) = Whole(Upto(s, n)) \cup Whole(Beyond(s, n))
<1> DEFINE t == Upto(s, n)
           b == Beyond(s, n)
<1>1. /\ b \in Seq(Piece) /\ Len(b) = Len(s) - n
      /\ \A k \in 1 .. (Len(s) - n) : b[k] = s[n + k]
  BY Rest
<1>2. Prefix(t, s) /\ Len(t) = n /\ t \in Seq(Piece)
  BY CutOff DEF Prefix
<1> HIDE DEF t, b
<1>a. Len(s) \in Nat /\ n \in Nat /\ n <= Len(s)
  OBVIOUS
<1>3. Whole(t) \subseteq Whole(s)
  BY <1>2, WholeOfPrefix
<1>4. ASSUME NEW i \in Whole(b) PROVE i \in Whole(s)
  <2>1. i \in Records
    BY <1>1, WholeAt
  <2>2. PICK k \in 1 .. (Len(b) - 1) : b[k] = <<i, 1>> /\ b[k + 1] = <<i, 2>>
    BY <1>1, WholeAt
  <2>3. /\ k \in 1 .. (Len(s) - n) /\ k + 1 \in 1 .. (Len(s) - n)
        /\ n + k \in 1 .. (Len(s) - 1) /\ n + (k + 1) = (n + k) + 1
    BY <1>1, <1>a
  <2>4. s[n + k] = <<i, 1>> /\ s[(n + k) + 1] = <<i, 2>>
    BY <1>1, <2>2, <2>3
  <2> QED
    BY <2>1, <2>3, <2>4, WholeAt
<1>5. ASSUME NEW i \in Whole(s) PROVE i \in Whole(t) \cup Whole(b)
  <2>1. i \in Records
    BY WholeAt
  <2>2. PICK k \in 1 .. (Len(s) - 1) : s[k] = <<i, 1>> /\ s[k + 1] = <<i, 2>>
    BY WholeAt
  <2>3. k # n
    BY <2>2, <1>a DEF StartsAfter
  <2>4. CASE k < n
    <3>1. k \in 1 .. (Len(t) - 1) /\ t[k] = s[k] /\ t[k + 1] = s[k + 1]
      BY <1>2, <1>a, <2>4 DEF Prefix
    <3> QED
      BY <1>2, <2>1, <2>2, <3>1, WholeAt
  <2>5. CASE n < k
    <3>1. /\ k - n \in 1 .. (Len(b) - 1)
          /\ k - n \in 1 .. (Len(s) - n) /\ (k - n) + 1 \in 1 .. (Len(s) - n)
          /\ n + (k - n) = k /\ n + ((k - n) + 1) = k + 1
      BY <1>1, <1>a, <2>5
    <3>2. b[k - n] = <<i, 1>> /\ b[(k - n) + 1] = <<i, 2>>
      BY <1>1, <2>2, <3>1
    <3> QED
      BY <1>1, <2>1, <3>1, <3>2, WholeAt
  <2> QED
    BY <1>a, <2>3, <2>4, <2>5
<1> QED
  BY <1>3, <1>4, <1>5 DEF t, b

LEMMA UptoOfMore ==
    ASSUME NEW s, NEW t, Prefix(s, t), NEW m \in 0 .. Len(s)
    PROVE  Upto(t, m) = Upto(s, m)
<1>1. /\ s \in Seq(Piece) /\ t \in Seq(Piece) /\ m \in 0 .. Len(t)
  BY DEF Prefix
<1>2. /\ Prefix(Upto(s, m), t) /\ Prefix(Upto(t, m), t)
      /\ Len(Upto(s, m)) = m /\ Len(Upto(t, m)) = m
  BY <1>1, CutOff, PrefixTransitive
<1>3. Prefix(Upto(s, m), Upto(t, m))
  <2>1. Len(Upto(s, m)) <= Len(Upto(t, m))
    BY <1>2
  <2> QED
    BY <1>2, <2>1, PrefixesInLine
<1> QED
  BY <1>2, <1>3, SameLengthPrefix

\* What the dedup map knows is written once, what it does not know only when it is full.
THEOREM CheckpointDedupExact == Spec => []DedupExact
<1>1. OutputInv => DedupExact
  <2> SUFFICES ASSUME OutputInv PROVE DedupExact
    OBVIOUS
  <2> DEFINE written == Beyond(file, opened) \o buf
  <2>1. /\ Content \in Seq(Piece) /\ opened \in 0 .. Len(Content) /\ opened \in Nat
        /\ written = Beyond(Content, opened)
    <3>1. file \in Seq(Piece) /\ buf \in Seq(Piece) /\ opened \in 0 .. Len(file)
      BY DEF OutputInv, OutputTypes
    <3>2. Content \in Seq(Piece) /\ Len(file) <= Len(Content)
      BY <3>1, ContentType DEF Prefix
    <3> QED
      BY <3>1, <3>2, BeyondConcat DEF Content
  <2>2. MapExact(Content, opened, seen, ~writeErr)
    BY DEF OutputInv
  <2> HIDE DEF written
  <2> DEFINE starts(i) == {k \in DOMAIN written : written[k] = <<i, 1>>}
  <2>3. ASSUME NEW i
        PROVE  /\ \A k \in starts(i) : Begins(Content, opened, i, opened + k) /\ k \in Nat
               /\ \A k : Begins(Content, opened, i, k) => k - opened \in starts(i)
    <3>1. DOMAIN written = 1 .. (Len(Content) - opened)
      BY <2>1, BeginsBeyond
    <3>2. \A k \in DOMAIN written : written[k] = <<i, 1>> <=> Begins(Content, opened, i, opened + k)
      BY <2>1, BeginsBeyond
    <3>3. \A k : Begins(Content, opened, i, k) =>
                   k - opened \in DOMAIN written /\ opened + (k - opened) = k
      BY <2>1, BeginsBeyond
    <3>4. \A k \in starts(i) : Begins(Content, opened, i, opened + k)
      BY <3>2
    <3>5. \A k \in starts(i) : k \in Nat
      BY <2>1, <3>1
    <3>6. ASSUME NEW k, Begins(Content, opened, i, k) PROVE k - opened \in starts(i)
      BY <3>2, <3>3, <3>6
    <3> QED
      BY <3>4, <3>5, <3>6
  <2>4. \A i : Times(i, written) = Cardinality(starts(i))
    BY DEF Times
  <2> HIDE DEF starts
  <2>5. ASSUME NEW i \in seen
        PROVE  Times(i, written) <= 1 /\ (~writeErr => Times(i, written) = 1)
    <3>1. ASSUME NEW k \in starts(i), NEW l \in starts(i) PROVE k = l
      <4>1. /\ Begins(Content, opened, i, opened + k) /\ Begins(Content, opened, i, opened + l)
            /\ k \in Nat /\ l \in Nat /\ opened + k \in Nat /\ opened + l \in Nat
        BY <2>1, <2>3
      <4>2. opened + k = opened + l
        BY <2>2, <4>1 DEF MapExact, WrittenOnce
      <4> QED
        BY <2>1, <4>1, <4>2
    <3>2. CASE starts(i) = {}
      <4>1. Times(i, written) = 0
        BY <2>4, <3>2, FS_EmptySet
      <4>2. writeErr
        BY <2>2, <2>3, <3>2 DEF MapExact
      <4> QED
        BY <4>1, <4>2
    <3>3. CASE starts(i) # {}
      <4>1. PICK k : k \in starts(i)
        BY <3>3
      <4>2. starts(i) = {k}
        BY <3>1, <4>1
      <4>3. Times(i, written) = 1
        BY <2>4, <4>2, FS_Singleton
      <4> QED
        BY <4>3
    <3> QED
      BY <3>2, <3>3
  <2>6. ASSUME NEW i \in Records \ seen, Times(i, written) > 0
        PROVE  Cardinality(seen) = MaxDedup
    <3>1. starts(i) # {}
      <4> SUFFICES ASSUME starts(i) = {} PROVE FALSE
        OBVIOUS
      <4>1. Times(i, written) = 0
        BY <2>4, FS_EmptySet
      <4> QED
        BY <2>6, <4>1
    <3>2. PICK k : k \in starts(i)
      BY <3>1
    <3>3. Begins(Content, opened, i, opened + k) /\ opened + k \in Nat
      BY <2>1, <2>3, <3>2
    <3> QED
      BY <2>2, <3>3 DEF MapExact
  <2> QED
    BY <2>5, <2>6 DEF DedupExact, written
<1> QED
  BY <1>1, CheckpointInvariant, PTL

-----------------------------------------------------------------------------
(* Files of DurableFile, by their fields.                                  *)

IsFile(g, o, b, d, e) == g = [os |-> o, buf |-> b, disk |-> d, err |-> e]

LEMMA CutIs ==
    ASSUME NEW o, NEW b, NEW d, NEW e, NEW g, IsFile(g, o, b, d, e),
           NEW part, NEW w
    PROVE  IsFile([g EXCEPT !.buf = {}, !.os = @ \cup part, !.err = w], o \cup part, {}, d, w)
<1>1. g.os = o
  BY DEF IsFile
<1>2. ASSUME NEW p, NEW c
      PROVE  [os |-> p, buf |-> c, disk |-> d, err |-> w] =
                [g EXCEPT !.buf = c, !.os = p, !.err = w]
  <2>1. ASSUME NEW h, h = [g EXCEPT !.buf = c, !.os = p, !.err = w]
        PROVE  h = [os |-> p, buf |-> c, disk |-> d, err |-> w]
    BY <2>1 DEF IsFile
  <2>2. \E h : h = [g EXCEPT !.buf = c, !.os = p, !.err = w]
    OBVIOUS
  <2> QED
    BY <2>1, <2>2, Zenon
<1>3. [os |-> o \cup part, buf |-> {}, disk |-> d, err |-> w] =
         [g EXCEPT !.buf = {}, !.os = o \cup part, !.err = w]
  BY <1>2, Zenon
<1> QED
  BY <1>1, <1>3, Zenon DEF IsFile

LEMMA AddIs ==
    ASSUME NEW o, NEW b, NEW d, NEW e, NEW g, IsFile(g, o, b, d, e),
           NEW i
    PROVE  IsFile([g EXCEPT !.buf = @ \cup {i}], o, b \cup {i}, d, e)
<1>1. g.buf = b
  BY DEF IsFile
<1>2. ASSUME NEW c
      PROVE  [os |-> o, buf |-> c, disk |-> d, err |-> e] = [g EXCEPT !.buf = c]
  <2>1. ASSUME NEW h, h = [g EXCEPT !.buf = c]
        PROVE  h = [os |-> o, buf |-> c, disk |-> d, err |-> e]
    BY <2>1 DEF IsFile
  <2>2. \E h : h = [g EXCEPT !.buf = c]
    OBVIOUS
  <2> QED
    BY <2>1, <2>2, Zenon
<1>3. [os |-> o, buf |-> b \cup {i}, disk |-> d, err |-> e] = [g EXCEPT !.buf = b \cup {i}]
  BY <1>2, Zenon
<1> QED
  BY <1>1, <1>3, Zenon DEF IsFile

LEMMA SyncedIs ==
    ASSUME NEW o, NEW b, NEW d, NEW e, NEW g, IsFile(g, o, b, d, e)
    PROVE  IsFile(Synced(g), o \cup b, {}, o \cup b, e)
<1>1. g.os = o /\ g.buf = b
  BY DEF IsFile
<1>2. ASSUME NEW p, NEW c
      PROVE  [g EXCEPT !.buf = c, !.os = p, !.disk = p] =
                [os |-> p, buf |-> c, disk |-> p, err |-> e]
  <2>1. ASSUME NEW h, h = [g EXCEPT !.buf = c, !.os = p, !.disk = p]
        PROVE  h = [os |-> p, buf |-> c, disk |-> p, err |-> e]
    BY <2>1 DEF IsFile
  <2>2. \E h : h = [g EXCEPT !.buf = c, !.os = p, !.disk = p]
    OBVIOUS
  <2> QED
    BY <2>1, <2>2, Zenon
<1>3. [g EXCEPT !.buf = {}, !.os = o \cup b, !.disk = o \cup b] =
         [os |-> o \cup b, buf |-> {}, disk |-> o \cup b, err |-> e]
  BY <1>2, Zenon
<1> QED
  BY <1>1, <1>3, Zenon DEF IsFile, Synced

LEMMA FreshIs ==
    ASSUME NEW o, NEW b, NEW d, NEW e, NEW g, IsFile(g, o, b, d, e),
           NEW w
    PROVE  IsFile([g EXCEPT !.buf = {}, !.err = w], o, {}, d, w)
<1>1. ASSUME NEW c
      PROVE  [g EXCEPT !.buf = c, !.err = w] = [os |-> o, buf |-> c, disk |-> d, err |-> w]
  <2>1. ASSUME NEW h, h = [g EXCEPT !.buf = c, !.err = w]
        PROVE  h = [os |-> o, buf |-> c, disk |-> d, err |-> w]
    BY <2>1 DEF IsFile
  <2>2. \E h : h = [g EXCEPT !.buf = c, !.err = w]
    OBVIOUS
  <2> QED
    BY <2>1, <2>2, Zenon
<1> QED
  BY <1>1, Zenon DEF IsFile

LEMMA ClosedIs ==
    ASSUME NEW o, NEW b, NEW d, NEW e, NEW g, IsFile(g, o, b, d, e)
    PROVE  IsFile([g EXCEPT !.err = FALSE], o, b, d, FALSE)
<1>1. ASSUME NEW h, h = [g EXCEPT !.err = FALSE]
      PROVE  h = [os |-> o, buf |-> b, disk |-> d, err |-> FALSE]
  BY <1>1 DEF IsFile
<1>2. \E h : h = [g EXCEPT !.err = FALSE]
  OBVIOUS
<1> QED
  BY <1>1, <1>2, Zenon DEF IsFile

LEMMA Fields ==
    ASSUME NEW o, NEW b, NEW d, NEW e, NEW g, IsFile(g, o, b, d, e)
    PROVE  g.os = o /\ g.buf = b /\ g.disk = d /\ (g.err <=> e)
BY DEF IsFile

LEMMA IsUnique ==
    ASSUME NEW o, NEW b, NEW d, NEW e, NEW g, IsFile(g, o, b, d, e), NEW h, IsFile(h, o, b, d, e)
    PROVE  h = g
BY DEF IsFile

LEMMA OpenLeaves ==
    ASSUME NEW o, NEW b, NEW d, NEW e, NEW g, IsFile(g, o, b, d, e),
           NEW h, IsFile(h, o, {}, d, FALSE)
    PROVE  h = Opened(g, TRUE)
<1> DEFINE k == [g EXCEPT !.buf = {}, !.err = FALSE]
<1>1. IsFile(k, o, {}, d, FALSE)
  BY FreshIs
<1>2. k = Opened(g, TRUE)
  BY Zenon DEF Opened
<1> HIDE DEF k
<1> QED
  BY <1>1, <1>2, IsUnique

LEMMA WriteAdds ==
    ASSUME NEW o, NEW b, NEW d, NEW e, NEW g, IsFile(g, o, b, d, e), ~e,
           NEW i, NEW h, IsFile(h, o, b \cup {i}, d, e)
    PROVE  h \in AfterWrite(g, i)
<1> DEFINE k == [g EXCEPT !.buf = @ \cup {i}]
<1>1. IsFile(k, o, b \cup {i}, d, e)
  BY AddIs
<1>2. ~g.err
  BY Fields
<1>3. k \in AfterWrite(g, i)
  BY <1>2, Zenon DEF AfterWrite
<1> HIDE DEF k
<1>4. h = k
  BY <1>1, IsUnique
<1> QED
  BY <1>3, <1>4

LEMMA WriteBreaks ==
    ASSUME NEW o, NEW b, NEW d, NEW g, IsFile(g, o, b, d, FALSE),
           NEW i, NEW part \in SUBSET (b \cup {i}),
           NEW h, IsFile(h, o \cup part, {}, d, TRUE)
    PROVE  h \in AfterWrite(g, i)
<1> DEFINE k == [g EXCEPT !.buf = {}, !.os = @ \cup part, !.err = TRUE]
<1>1. IsFile(k, o \cup part, {}, d, TRUE)
  BY CutIs
<1>2. ~g.err /\ part \in SUBSET (g.buf \cup {i})
  BY Fields
<1>3. k \in AfterWrite(g, i)
  BY <1>2, Zenon DEF AfterWrite
<1> HIDE DEF k
<1>4. h = k
  BY <1>1, IsUnique
<1> QED
  BY <1>3, <1>4

LEMMA FlushStays ==
    ASSUME NEW o, NEW b, NEW d, NEW e, NEW g, IsFile(g, o, b, d, e), e
    PROVE  g \in AfterFlush(g)
<1>1. g.err
  BY Fields
<1> QED
  BY <1>1, Zenon DEF AfterFlush

LEMMA FlushSyncs ==
    ASSUME NEW o, NEW b, NEW d, NEW e, NEW g, IsFile(g, o, b, d, e), ~e,
           NEW h, IsFile(h, o \cup b, {}, o \cup b, e)
    PROVE  h \in AfterFlush(g)
<1>1. h = Synced(g)
  BY SyncedIs, IsUnique
<1>2. ~g.err
  BY Fields
<1> QED
  BY <1>1, <1>2, Zenon DEF AfterFlush

LEMMA FlushBreaks ==
    ASSUME NEW o, NEW b, NEW d, NEW g, IsFile(g, o, b, d, FALSE),
           NEW part \in SUBSET b, NEW h, IsFile(h, o \cup part, {}, d, TRUE)
    PROVE  h \in AfterFlush(g)
<1> DEFINE k == [g EXCEPT !.buf = {}, !.os = @ \cup part, !.err = TRUE]
<1>1. IsFile(k, o \cup part, {}, d, TRUE)
  BY CutIs
<1>2. ~g.err /\ part \in SUBSET g.buf
  BY Fields
<1>3. k \in AfterFlush(g)
  BY <1>2, Zenon DEF AfterFlush
<1> HIDE DEF k
<1>4. h = k
  BY <1>1, IsUnique
<1> QED
  BY <1>3, <1>4

\* An orderly end, with the buffer written and synced.
LEMMA CloseLeaves ==
    ASSUME NEW o, NEW b, NEW d, NEW g, IsFile(g, o, b, d, FALSE),
           NEW h, IsFile(h, o \cup b, {}, o \cup b, FALSE)
    PROVE  h \in {[a EXCEPT !.err = FALSE] : a \in AfterFlush(g)}
<1> DEFINE k == Synced(g)
           l == [k EXCEPT !.err = FALSE]
<1>1. IsFile(k, o \cup b, {}, o \cup b, FALSE)
  BY SyncedIs
<1>2. k \in AfterFlush(g)
  BY <1>1, FlushSyncs
<1>3. k \in AfterFlush(g) => l \in {[a EXCEPT !.err = FALSE] : a \in AfterFlush(g)}
  BY Zenon
<1> HIDE DEF k
<1>4. IsFile(l, o \cup b, {}, o \cup b, FALSE)
  BY <1>1, ClosedIs
<1> HIDE DEF l
<1> QED
  BY <1>2, <1>3, <1>4, IsUnique

LEMMA ExitLeaves ==
    ASSUME NEW o, NEW b, NEW d, NEW e, NEW g, IsFile(g, o, b, d, e),
           NEW part \in SUBSET b, NEW h, IsFile(h, o \cup part, {}, d, FALSE)
    PROVE  h \in AfterExit(g)
<1> DEFINE k == [g EXCEPT !.buf = {}, !.os = @ \cup part, !.err = FALSE]
<1>1. IsFile(k, o \cup part, {}, d, FALSE)
  BY CutIs
<1>2. part \in SUBSET g.buf
  BY Fields
<1>3. k \in AfterExit(g)
  BY <1>2, Zenon DEF AfterExit
<1> HIDE DEF k
<1> QED
  BY <1>1, <1>3, IsUnique

LEMMA PowerLossLeaves ==
    ASSUME NEW o, NEW b, NEW d, NEW e, NEW g, IsFile(g, o, b, d, e),
           NEW part \in SUBSET ((o \cup b) \ d),
           NEW h, IsFile(h, d \cup part, {}, d \cup part, FALSE)
    PROVE  h \in AfterPowerLoss(g)
<1>1. g.os = o /\ g.buf = b /\ g.disk = d
  BY Fields
<1> QED
  BY <1>1, Zenon DEF AfterPowerLoss, IsFile

\* FileContract takes these operators from an instance of DurableFile of its own.
LEMMA ContractFiles ==
    /\ \A g : Contract!Opened(g, TRUE) = Opened(g, TRUE)
    /\ \A g, i : Contract!AfterWrite(g, i) = AfterWrite(g, i)
    /\ \A g : Contract!AfterFlush(g) = AfterFlush(g)
    /\ \A g : Contract!AfterExit(g) = AfterExit(g)
    /\ \A g : Contract!AfterPowerLoss(g) = AfterPowerLoss(g)
    /\ Contract!Empty = Empty
BY Zenon DEF Contract!Opened, Contract!AfterWrite, Contract!AfterFlush, Contract!AfterExit,
             Contract!AfterPowerLoss, Contract!Empty, Contract!Synced,
             Opened, AfterWrite, AfterFlush, AfterExit, AfterPowerLoss, Synced, Empty

-----------------------------------------------------------------------------
(* The file as FileContract has it.                                        *)

Settled == Whole(Upto(file, settled))
Pending == Whole(Beyond(file, settled) \o buf)

FileView == [os |-> Settled, buf |-> Pending, disk |-> Durable, err |-> writeErr]

LEMMA ViewIs == IsFile(FileView, Settled, Pending, Durable, writeErr)
BY DEF IsFile, FileView

LEMMA ViewIsSound ==
    ASSUME OutputInv, ~writeErr
    PROVE  IsFile(FileView, Settled, Pending, Durable, FALSE)
<1>1. writeErr = FALSE
  BY DEF OutputInv, OutputTypes
<1> QED
  BY <1>1, ViewIs

LEMMA ViewIsNext == IsFile(FileView', Settled', Pending', Durable', writeErr')
BY DEF IsFile, FileView

LEMMA SettledAndPending ==
    ASSUME OutputInv
    PROVE  /\ Whole(Content) = Settled \cup Pending
           /\ Pending = Whole(Beyond(Content, settled))
           /\ Durable \subseteq Settled
<1>1. /\ file \in Seq(Piece) /\ buf \in Seq(Piece) /\ Len(file) \in Nat
      /\ settled \in 0 .. Len(file) /\ synced \in 0 .. settled
  BY DEF OutputInv, OutputTypes
<1>2. Content \in Seq(Piece) /\ Prefix(file, Content) /\ settled \in 0 .. Len(Content)
  BY <1>1, ContentType DEF Prefix
<1>3. Pending = Whole(Beyond(Content, settled))
  BY <1>1, BeyondConcat DEF Pending, Content
<1>4. Settled = Whole(Upto(Content, settled))
  BY <1>1, <1>2, UptoOfMore DEF Settled
<1>5. Durable \subseteq Settled
  <2>1. synced \in 0 .. Len(file) /\ settled \in synced .. Len(file)
    BY <1>1
  <2> QED
    BY <1>1, <1>2, <2>1, WholeOfUpto DEF Durable, Settled
<1> QED
  BY <1>2, <1>3, <1>4, <1>5, WholeSplit DEF OutputInv

\* With all of the file settled and an empty buffer, nothing is pending.
LEMMA AllSettled ==
    ASSUME file \in Seq(Piece), settled = Len(file), buf = <<>>
    PROVE  Settled = Whole(file) /\ Pending = {}
<1>1. Upto(file, settled) = file
  BY SubSeqFull DEF Upto
<1>2. Beyond(file, settled) = <<>>
  BY SubSeqEmpty DEF Beyond
<1>3. <<>> \o <<>> = <<>>
  BY ConcatEmptySeq
<1> QED
  BY <1>1, <1>2, <1>3, NothingWhole DEF Settled, Pending

LEMMA AllSettledNext ==
    ASSUME file' \in Seq(Piece), settled' = Len(file'), buf' = <<>>
    PROVE  Settled' = Whole(file') /\ Pending' = {}
<1>1. Upto(file', settled') = file'
  BY SubSeqFull DEF Upto
<1>2. Beyond(file', settled') = <<>>
  BY SubSeqEmpty DEF Beyond
<1>3. <<>> \o <<>> = <<>>
  BY ConcatEmptySeq
<1> QED
  BY <1>1, <1>2, <1>3, NothingWhole DEF Settled, Pending

\* What remains of s, when no more than settled and pending records were on the way.
LEMMA PartSettled ==
    ASSUME OutputInv, NEW s, Prefix(file', s), Prefix(file, s), Len(file) <= Len(file'),
           settled' = Len(file'), buf' = <<>>
    PROVE  /\ Pending' = {} /\ Settled' = Whole(file')
           /\ Settled \subseteq Settled'
           /\ Settled' \subseteq Whole(s)
<1>1. /\ file' \in Seq(Piece) /\ file \in Seq(Piece)
      /\ settled \in 0 .. Len(file) /\ Len(file) \in Nat /\ Len(file') \in Nat
  BY DEF OutputInv, OutputTypes, Prefix
<1>2. Pending' = {} /\ Settled' = Whole(file')
  BY <1>1, AllSettledNext
<1>3. Upto(file', Len(file')) = file'
  BY <1>1, SubSeqFull DEF Upto
<1>4. Len(file') \in settled .. Len(file')
  BY <1>1
<1>5. Whole(Upto(file, settled)) \subseteq Whole(Upto(file', Len(file')))
  BY <1>1, <1>4, WholeOfUpto
<1> QED
  BY <1>2, <1>3, <1>5, WholeOfPrefix DEF Settled

\* As much is durable as before, if the file only grows and is not synced.
LEMMA DurableSame ==
    ASSUME OutputInv, Prefix(file, file'), synced' = synced
    PROVE  Durable' = Durable
<1>1. synced \in 0 .. Len(file)
  BY DEF OutputInv, OutputTypes
<1> QED
  BY <1>1, UptoOfMore DEF Durable

-----------------------------------------------------------------------------
(* Every step is one of FileContract, or leaves its variables alone.       *)

LEMMA ViewOpened ==
    ASSUME OutputInv, Open
    PROVE  FileView' = Opened(FileView, TRUE)
<1>1. /\ file' = file /\ synced' = synced /\ file \in Seq(Piece)
      /\ buf = <<>> /\ settled = Len(file)
      /\ buf' = <<>> /\ settled' = Len(file') /\ writeErr' = FALSE
  BY DEF Open, OutputInv, OutputTypes, NothingHeld
<1>2. Settled' = Settled /\ Pending' = {}
  BY <1>1, AllSettled, AllSettledNext
<1>3. Durable' = Durable
  BY <1>1 DEF Durable
<1>4. IsFile(FileView', Settled, {}, Durable, FALSE)
  BY <1>1, <1>2, <1>3, ViewIsNext, Zenon
<1> QED
  BY <1>4, ViewIs, OpenLeaves

\* What a failing write or flush makes of the file: s was on its way, of which the records
\* were settled, pending or in R.
LEMMA ViewBroken ==
    ASSUME OutputInv, NEW s, Broken(s), Prefix(file, s), NEW R,
           Whole(s) \subseteq Settled \cup Pending \cup R
    PROVE  \E part \in SUBSET (Pending \cup R) :
              IsFile(FileView', Settled \cup part, {}, Durable, TRUE)
<1>1. /\ Prefix(file', s) /\ Prefix(file, file') /\ Len(file) <= Len(file')
      /\ settled' = Len(file') /\ buf' = <<>> /\ writeErr' = TRUE /\ synced' = synced
  BY DEF Broken, Prefix
<1>2. Pending' = {} /\ Settled \subseteq Settled' /\ Settled' \subseteq Whole(s)
  BY <1>1, PartSettled
<1>3. Durable' = Durable
  BY <1>1, DurableSame
<1> DEFINE part == Settled' \cap (Pending \cup R)
<1>4. part \in SUBSET (Pending \cup R) /\ Settled' = Settled \cup part
  BY <1>2
<1> HIDE DEF part
<1>5. IsFile(FileView', Settled \cup part, {}, Durable, TRUE)
  BY <1>1, <1>2, <1>3, <1>4, ViewIsNext, Zenon
<1> QED
  BY <1>4, <1>5

LEMMA ViewWritten ==
    ASSUME OutputInv, NEW i \in Records, WriteResult(i)
    PROVE  FileView' \in AfterWrite(FileView, i) \/ FileView' = FileView
<1>1. /\ file \in Seq(Piece) /\ buf \in Seq(Piece) /\ Content \in Seq(Piece)
      /\ settled \in 0 .. Len(file) /\ Prefix(file, Content) /\ settled \in 0 .. Len(Content)
  BY ContentType DEF OutputInv, OutputTypes, Prefix
<1>2. CASE writeErr \/ i \in seen
  BY <1>2 DEF WriteResult, FileView, Settled, Pending, Durable
<1>3. CASE ~(writeErr \/ i \in seen)
  <2> DEFINE c == Content \o Line(i)
  <2>1. Kept(c) \/ Broken(c)
    BY <1>3, PutContent DEF WriteResult, OutputInv
  <2>2. /\ Prefix(Content, c) /\ Whole(c) = Whole(Content) \cup {i}
        /\ Line(i) \in Seq(Piece)
    BY <1>1, LineBehind, LineWhole, LinePieces
  <2>3. CASE Broken(c)
    <3>1. Prefix(file, c)
      BY <1>1, <2>2, PrefixTransitive
    <3>2. Whole(c) \subseteq Settled \cup Pending \cup {i}
      BY <2>2, SettledAndPending
    <3> HIDE DEF c
    <3>3. \E part \in SUBSET (Pending \cup {i}) :
             IsFile(FileView', Settled \cup part, {}, Durable, TRUE)
      BY <2>3, <3>1, <3>2, ViewBroken
    <3>4. PICK part \in SUBSET (Pending \cup {i}) :
             IsFile(FileView', Settled \cup part, {}, Durable, TRUE)
      BY <3>3
    <3> QED
      BY <1>3, <3>4, ViewIsSound, WriteBreaks
  <2>4. CASE Kept(c)
    <3>1. /\ Content' = c /\ Prefix(file, file') /\ buf' \in Seq(Piece) /\ file' \in Seq(Piece)
          /\ synced' = synced /\ settled' = settled /\ writeErr' = writeErr
      BY <2>4 DEF Kept
    <3>2. Settled' = Settled /\ Durable' = Durable
      BY <1>1, <3>1, UptoOfMore, DurableSame DEF Settled
    <3>3. settled \in 0 .. Len(file')
      BY <1>1, <3>1 DEF Prefix
    <3>4. Pending' = Whole(Beyond(c, settled))
      BY <3>1, <3>3, BeyondConcat DEF Pending, Content
    <3>5. Beyond(c, settled) = Beyond(Content, settled) \o Line(i)
      BY <1>1, <2>2, BeyondConcat
    <3>6. Beyond(Content, settled) \in Seq(Piece)
      BY <1>1, Rest
    <3>7. Pending' = Pending \cup {i}
      BY <3>4, <3>5, <3>6, LineWhole, SettledAndPending
    <3> HIDE DEF c
    <3>8. IsFile(FileView', Settled, Pending \cup {i}, Durable, writeErr)
      BY <3>1, <3>2, <3>7, ViewIsNext, Zenon
    <3> QED
      BY <1>3, <3>8, ViewIs, WriteAdds
  <2> QED
    BY <2>1, <2>3, <2>4
<1> QED
  BY <1>2, <1>3

LEMMA ViewFlushed ==
    ASSUME OutputInv, Flush
    PROVE  FileView' \in AfterFlush(FileView)
<1>1. /\ file \in Seq(Piece) /\ buf \in Seq(Piece) /\ Content \in Seq(Piece)
      /\ Prefix(file, Content)
  BY ContentType DEF OutputInv, OutputTypes
<1>2. CASE writeErr
  <2>1. FileView' = FileView
    BY <1>2 DEF Flush, FileView, Settled, Pending, Durable
  <2> QED
    BY <1>2, <2>1, ViewIs, FlushStays
<1>3. CASE ~writeErr /\ Breaks(buf)
  <2>1. Broken(Content)
    BY <1>1, <1>3, BrokenContent DEF Content, OutputInv
  <2>2. Whole(Content) \subseteq Settled \cup Pending \cup {}
    BY SettledAndPending
  <2>3. \E part \in SUBSET (Pending \cup {}) :
           IsFile(FileView', Settled \cup part, {}, Durable, TRUE)
    BY <1>1, <2>1, <2>2, ViewBroken
  <2>4. PICK part \in SUBSET Pending :
           IsFile(FileView', Settled \cup part, {}, Durable, TRUE)
    BY <2>3
  <2> QED
    BY <1>3, <2>4, ViewIsSound, FlushBreaks
<1>4. CASE ~(writeErr \/ Breaks(buf))
  <2>1. /\ ~writeErr /\ file' = Content /\ buf' = <<>> /\ writeErr' = writeErr
        /\ settled' = Len(file') /\ synced' = Len(file')
    BY <1>4 DEF Flush, Content
  <2>2. Settled' = Whole(Content) /\ Pending' = {}
    BY <1>1, <2>1, AllSettledNext
  <2>3. Durable' = Settled'
    BY <2>1 DEF Durable, Settled
  <2>4. IsFile(FileView', Settled \cup Pending, {}, Settled \cup Pending, writeErr)
    BY <2>1, <2>2, <2>3, SettledAndPending, ViewIsNext, Zenon
  <2> QED
    BY <2>1, <2>4, ViewIs, FlushSyncs
<1> QED
  BY <1>2, <1>3, <1>4

\* A process that is gone leaves nothing pending, and what it leaves is settled.
LEMMA ViewEnded ==
    ASSUME OutputInv, Close \/ Killed
    PROVE  \/ FileView' \in {[a EXCEPT !.err = FALSE] : a \in AfterFlush(FileView)}
           \/ FileView' \in AfterExit(FileView)
<1>1. /\ file \in Seq(Piece) /\ buf \in Seq(Piece) /\ Content \in Seq(Piece)
      /\ Prefix(file, Content) /\ Len(file) \in Nat
  BY ContentType DEF OutputInv, OutputTypes
<1>2. CASE /\ ~writeErr /\ file' = file \o buf
           /\ synced' = Len(file') /\ Ended(Len(file'))
  <2>1. /\ file' = Content /\ buf' = <<>> /\ ~writeErr'
        /\ settled' = Len(file') /\ synced' = Len(file') /\ writeErr' = FALSE
    BY <1>2 DEF Ended, Content
  <2>2. Settled' = Whole(Content) /\ Pending' = {}
    BY <1>1, <2>1, AllSettledNext
  <2>3. Durable' = Settled'
    BY <2>1 DEF Durable, Settled
  <2>4. IsFile(FileView', Settled \cup Pending, {}, Settled \cup Pending, FALSE)
    BY <2>1, <2>2, <2>3, SettledAndPending, ViewIsNext, Zenon
  <2> QED
    BY <1>2, <2>4, ViewIsSound, CloseLeaves
<1>3. CASE /\ \E k \in 0 .. Len(buf) : file' = file \o Upto(buf, k)
           /\ UNCHANGED synced /\ Ended(Len(file'))
  <2>1. PICK k \in 0 .. Len(buf) : file' = file \o Upto(buf, k)
    BY <1>3
  <2>2. Prefix(file', Content) /\ Prefix(file, file')
    BY <1>1, <2>1, PrefixBehind DEF Content
  <2>3. /\ buf' = <<>> /\ writeErr' = FALSE /\ settled' = Len(file') /\ synced' = synced
        /\ Len(file) <= Len(file')
    BY <1>3, <2>2 DEF Ended, Prefix
  <2>4. Pending' = {} /\ Settled \subseteq Settled' /\ Settled' \subseteq Settled \cup Pending
    BY <1>1, <2>2, <2>3, PartSettled, SettledAndPending
  <2>5. Durable' = Durable
    BY <2>2, <2>3, DurableSame
  <2> DEFINE part == Settled' \cap Pending
  <2>6. part \in SUBSET Pending /\ Settled' = Settled \cup part
    BY <2>4
  <2> HIDE DEF part
  <2>7. IsFile(FileView', Settled \cup part, {}, Durable, FALSE)
    BY <2>3, <2>4, <2>5, <2>6, ViewIsNext, Zenon
  <2> QED
    BY <2>6, <2>7, ViewIs, ExitLeaves
<1>4. CASE Killed
  <2>1. /\ file' = file /\ synced' = synced /\ Ended(Len(file'))
    BY <1>4 DEF Killed
  <2>2. 0 \in 0 .. Len(buf) /\ file \o Upto(buf, 0) = file
    <3>1. Upto(buf, 0) = <<>>
      BY <1>1, SubSeqEmpty DEF Upto
    <3> QED
      BY <1>1, <3>1, ConcatEmptySeq
  <2>3. \E k \in 0 .. Len(buf) : file' = file \o Upto(buf, k)
    BY <2>1, <2>2
  <2> QED
    BY <1>3, <2>1, <2>3
<1> QED
  BY <1>2, <1>3, <1>4 DEF Close

LEMMA ViewPowerLost ==
    ASSUME OutputInv, PowerLost
    PROVE  FileView' \in AfterPowerLoss(FileView)
<1>1. /\ file \in Seq(Piece) /\ Content \in Seq(Piece) /\ Prefix(file, Content)
      /\ Len(file) \in Nat /\ synced \in 0 .. Len(file)
  BY ContentType DEF OutputInv, OutputTypes
<1>2. PICK n \in synced .. Len(file) : file' = Upto(file, n) /\ synced' = n /\ Ended(n)
  BY DEF PowerLost
<1>3. Prefix(file', file) /\ Len(file') = n
  <2>1. n \in 0 .. Len(file)
    BY <1>1, <1>2
  <2> QED
    BY <1>1, <1>2, <2>1, CutOff
<1>4. /\ buf' = <<>> /\ writeErr' = FALSE /\ settled' = Len(file') /\ synced' = Len(file')
      /\ file' \in Seq(Piece)
  BY <1>2, <1>3 DEF Ended, Prefix
<1>5. Settled' = Whole(file') /\ Pending' = {} /\ Durable' = Settled'
  BY <1>4, AllSettledNext DEF Durable, Settled
<1>6. Settled' \subseteq Settled \cup Pending
  <2>1. Prefix(file', Content)
    BY <1>1, <1>3, PrefixTransitive
  <2> QED
    BY <1>5, <2>1, WholeOfPrefix, SettledAndPending
<1>7. Durable \subseteq Durable'
  BY DurableStays DEF OutputStep
<1> DEFINE part == Settled' \ Durable
<1>8. part \in SUBSET ((Settled \cup Pending) \ Durable) /\ Settled' = Durable \cup part
  BY <1>5, <1>6, <1>7
<1> HIDE DEF part
<1>9. IsFile(FileView', Durable \cup part, {}, Durable \cup part, FALSE)
  BY <1>4, <1>5, <1>8, ViewIsNext, Zenon
<1> QED
  BY <1>8, <1>9, ViewIs, PowerLossLeaves

-----------------------------------------------------------------------------
(* The refinement.                                                         *)

LEMMA ContractInit == Init => Contract!Init
<1> SUFFICES ASSUME Init PROVE Contract!Init
  OBVIOUS
<1>1. /\ file = <<>> /\ buf = <<>> /\ synced = 0 /\ settled = 0 /\ writeErr = FALSE
      /\ alive = FALSE
  BY DEF Init, OutputInit
<1>2. <<>> \in Seq(Piece) /\ Len(<<>>) = 0
  OBVIOUS
<1>3. Settled = {} /\ Pending = {}
  BY <1>1, <1>2, AllSettled, NothingWhole
<1>4. Durable = {}
  BY <1>1, <1>3 DEF Durable, Settled
<1>5. FileView = Empty
  BY <1>1, <1>3, <1>4, Zenon DEF FileView, Empty
<1>6. FileView = Contract!Empty /\ alive = FALSE => Contract!Init
  BY Zenon DEF Contract!Init, FileView, Settled, Pending, Durable
<1> QED
  BY <1>1, <1>5, <1>6, ContractFiles

LEMMA ContractOpen ==
    ASSUME OutputInv, Open PROVE Contract!Open
<1>1. ~alive /\ alive' /\ FileView' = Contract!Opened(FileView, TRUE)
  BY ViewOpened, ContractFiles DEF Open
<1> QED
  BY <1>1, Zenon DEF Contract!Open, FileView, Settled, Pending, Durable

LEMMA ContractUse ==
    ASSUME OutputInv, alive, alive',
           \/ \E i \in Records : FileView' \in AfterWrite(FileView, i)
           \/ FileView' \in AfterFlush(FileView)
    PROVE  Contract!Use
<1>1. \/ \E i \in Records : FileView' \in Contract!AfterWrite(FileView, i)
      \/ FileView' \in Contract!AfterFlush(FileView)
  BY ContractFiles
<1> QED
  BY <1>1, Zenon DEF Contract!Use, FileView, Settled, Pending, Durable

LEMMA ContractEnd ==
    ASSUME OutputInv, ~alive', Close \/ Killed \/ PowerLost
    PROVE  Contract!End
<1>1. \/ alive /\ FileView' \in {[a EXCEPT !.err = FALSE] : a \in Contract!AfterFlush(FileView)}
      \/ alive /\ FileView' \in Contract!AfterExit(FileView)
      \/ FileView' \in Contract!AfterPowerLoss(FileView)
  <2>1. CASE Close \/ Killed
    BY <2>1, ViewEnded, ContractFiles, Zenon DEF Close, Killed
  <2>2. CASE PowerLost
    BY <2>2, ViewPowerLost, ContractFiles, Zenon
  <2> QED
    BY <2>1, <2>2
<1> QED
  BY <1>1, Zenon DEF Contract!End, Contract!AfterClose, FileView, Settled, Pending, Durable

\* An instance's variables, as they stand in the module.
ContractVars == <<FileView, alive>>

LEMMA ContractStep ==
    ASSUME OutputInv, OutputStep
    PROVE  Contract!Next \/ UNCHANGED ContractVars
<1>1. CASE Open
  BY <1>1, ContractOpen DEF Contract!Next
<1>2. CASE Flush
  <2>1. alive /\ alive'
    BY <1>2 DEF Flush
  <2> QED
    BY <1>2, <2>1, ViewFlushed, ContractUse DEF Contract!Next
<1>3. ASSUME NEW i \in Records, WriteResult(i)
      PROVE  Contract!Next \/ UNCHANGED ContractVars
  <2>1. alive /\ alive' /\ alive' = alive
    BY <1>3 DEF WriteResult
  <2> QED
    BY <1>3, <2>1, ViewWritten, ContractUse DEF Contract!Next, ContractVars
<1>4. CASE Close \/ Killed \/ PowerLost
  <2>1. ~alive' /\ (Close \/ Killed => alive)
    BY <1>4 DEF Close, Killed, PowerLost, Ended
  <2> QED
    BY <1>4, <2>1, ContractEnd DEF Contract!Next
<1>5. CASE UNCHANGED outputVars
  BY <1>5 DEF outputVars, ContractVars, FileView, Settled, Pending, Durable
<1> QED
  BY <1>1, <1>2, <1>3, <1>4, <1>5 DEF OutputStep

\* Cut off lines, overflows in the middle of a record and the dedup map show ScrapeLog and
\* MonitorLog nothing but the file they take into account.
THEOREM CheckpointImplementsFileContract == Spec => ImplementsFileContract
<1>1. OutputInv /\ [Next]_vars => [Contract!Next]_ContractVars
  BY StepOfOutput, ContractStep
<1>2. OutputInv /\ [Next]_vars => [Contract!Next]_<<[os |-> Whole(Upto(file, settled)),
                       buf |-> Whole(Beyond(file, settled) \o buf),
                       disk |-> Whole(Upto(file, synced)),
                       err |-> writeErr], alive>>
  BY <1>1, Zenon DEF ContractVars, FileView, Settled, Pending, Durable
<1> QED
  BY <1>2, ContractInit, CheckpointInvariant, PTL DEF Spec, ImplementsFileContract, Contract!Spec
=============================================================================
